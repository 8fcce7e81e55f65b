------------------------- MODULE MultipleValueMutex -------------------------
(***************************************************************************)
(* utils.rs: one asynchronous mutex per key, created on demand and         *)
(* registered, weakly, in a concurrent map; whoever drops the last strong  *)
(* reference to a mutex removes its entry from the map.                    *)
(*                                                                         *)
(* An arc is an Arc<RemoveOnDrop>.  It lives while some task refers to it  *)
(* strongly; the map holds only a Weak.  A task refers to an arc through   *)
(* its future or guard (arc), or through the temporary that v.upgrade()    *)
(* makes inside remove_if (peek).  A map access is atomic unless it can    *)
(* run code in the middle: the closure of remove_if, which runs with the   *)
(* write lock of the key's shard held, is the only one that can.           *)
(***************************************************************************)
CONSTANTS
    Tasks,      \* callers of lock_mutex and wait
    Keys,       \* keys of the map: (movie, segment) or movie
    Arcs,       \* identities of RemoveOnDrop objects; free ones are reused
    Shards,     \* the shards of the DashMap
    ShardOf,    \* the shard that a key hashes to
    NoTask, NoKey, NoArc

ASSUME MutexConstants ==
    /\ NoTask \notin Tasks
    /\ NoKey \notin Keys
    /\ NoArc \notin Arcs
    /\ ShardOf \in [Keys -> Shards]

VARIABLES
    pc,         \* what each task is doing
    key,        \* the key it does it for
    arc,        \* the strong reference it holds, or NoArc
    peek,       \* the temporary strong reference inside remove_if, or NoArc
    entry,      \* active_mutexes: the arc registered under a key, dead or alive
    owner,      \* which task has locked the tokio mutex inside an arc
    shard       \* which task holds the write lock of a shard

vars == <<pc, key, arc, peek, entry, owner, shard>>

States == {"idle", "locking", "waiting", "queued", "held", "unlocked",
           "dropping", "peeking", "stuck"}

Init ==
    /\ pc = [t \in Tasks |-> "idle"]
    /\ key = [t \in Tasks |-> NoKey]
    /\ arc = [t \in Tasks |-> NoArc]
    /\ peek = [t \in Tasks |-> NoArc]
    /\ entry = [k \in Keys |-> NoArc]
    /\ owner = [o \in Arcs |-> NoTask]
    /\ shard = [s \in Shards |-> NoTask]

-----------------------------------------------------------------------------
\* Weak::upgrade succeeds while somebody holds a strong reference.
Alive(o) == \E t \in Tasks : arc[t] = o \/ peek[t] = o

EntryAlive(k) == entry[k] # NoArc /\ Alive(entry[k])

ShardFree(k) == shard[ShardOf[k]] = NoTask

\* Somebody other than t has a strong reference to o.
AliveWithout(o, t) == \E u \in Tasks \ {t} : arc[u] = o \/ peek[u] = o

Return(t) ==
    /\ pc' = [pc EXCEPT ![t] = "idle"]
    /\ key' = [key EXCEPT ![t] = NoKey]

-----------------------------------------------------------------------------
LockMutex(t, k) ==
    /\ pc[t] = "idle"
    /\ pc' = [pc EXCEPT ![t] = "locking"]
    /\ key' = [key EXCEPT ![t] = k]
    /\ UNCHANGED <<arc, peek, entry, owner, shard>>

Wait(t, k) ==
    /\ pc[t] = "idle"
    /\ pc' = [pc EXCEPT ![t] = "waiting"]
    /\ key' = [key EXCEPT ![t] = k]
    /\ UNCHANGED <<arc, peek, entry, owner, shard>>

\* The entry is occupied and its Weak upgrades: queue on that mutex.
Upgrade(t) ==
    /\ pc[t] \in {"locking", "waiting"}
    /\ ShardFree(key[t])
    /\ EntryAlive(key[t])
    /\ arc' = [arc EXCEPT ![t] = entry[key[t]]]
    /\ pc' = [pc EXCEPT ![t] = "queued"]
    /\ UNCHANGED <<key, peek, entry, owner, shard>>

\* Faulty variant of Insert: lock_mutex replaces the entry without upgrading it.
InsertOverLive(t) ==
    /\ pc[t] = "locking"
    /\ ShardFree(key[t])
    /\ \E o \in Arcs :
          /\ ~Alive(o)
          /\ \A k \in Keys : entry[k] # o
          /\ entry' = [entry EXCEPT ![key[t]] = o]
          /\ arc' = [arc EXCEPT ![t] = o]
          /\ owner' = [owner EXCEPT ![o] = NoTask]
    /\ pc' = [pc EXCEPT ![t] = "queued"]
    /\ UNCHANGED <<key, peek, shard>>

\* lock_mutex registers a new mutex over a vacant or a dead entry.
Insert(t) ==
    /\ pc[t] = "locking"
    /\ ShardFree(key[t])
    /\ ~EntryAlive(key[t])
    /\ \E o \in Arcs :
          /\ ~Alive(o)
          /\ \A k \in Keys : entry[k] # o
          /\ entry' = [entry EXCEPT ![key[t]] = o]
          /\ arc' = [arc EXCEPT ![t] = o]
          /\ owner' = [owner EXCEPT ![o] = NoTask]
    /\ pc' = [pc EXCEPT ![t] = "queued"]
    /\ UNCHANGED <<key, peek, shard>>

\* wait returns at once when there is no mutex to wait for.
NothingToWaitFor(t) ==
    /\ pc[t] = "waiting"
    /\ ShardFree(key[t])
    /\ ~EntryAlive(key[t])
    /\ Return(t)
    /\ UNCHANGED <<arc, peek, entry, owner, shard>>

\* tokio grants the mutex; the guard now owns the arc.
Acquire(t) ==
    /\ pc[t] = "queued"
    /\ owner[arc[t]] = NoTask
    /\ owner' = [owner EXCEPT ![arc[t]] = t]
    /\ pc' = [pc EXCEPT ![t] = "held"]
    /\ UNCHANGED <<key, arc, peek, entry, shard>>

\* Faulty variant of Cancel: the future's reference is forgotten, not dropped.
CancelForgettingArc(t) ==
    /\ pc[t] = "queued"
    /\ Return(t)
    /\ UNCHANGED <<arc, peek, entry, owner, shard>>

\* The future is dropped while it waits in lock_owned().
Cancel(t) ==
    /\ pc[t] = "queued"
    /\ pc' = [pc EXCEPT ![t] = "unlocked"]
    /\ UNCHANGED <<key, arc, peek, entry, owner, shard>>

\* Faulty variant of Unlock: the guard goes but the tokio mutex stays locked.
UnlockKeepingOwner(t) ==
    /\ pc[t] = "held"
    /\ pc' = [pc EXCEPT ![t] = "unlocked"]
    /\ UNCHANGED <<key, arc, peek, entry, owner, shard>>

\* Dropping a RemoveOnDropGuardOwned drops its first field, the tokio guard ...
Unlock(t) ==
    /\ pc[t] = "held"
    /\ owner' = [owner EXCEPT ![arc[t]] = NoTask]
    /\ pc' = [pc EXCEPT ![t] = "unlocked"]
    /\ UNCHANGED <<key, arc, peek, entry, shard>>

\* Faulty variant of DropLastArc: no Drop removes the entry.
DropLastArcSilently(t) ==
    /\ pc[t] = "unlocked"
    /\ ~AliveWithout(arc[t], t)
    /\ arc' = [arc EXCEPT ![t] = NoArc]
    /\ Return(t)
    /\ UNCHANGED <<peek, entry, owner, shard>>

\* ... and then the arc; the last reference to go runs RemoveOnDrop::drop.
DropLastArc(t) ==
    /\ pc[t] = "unlocked"
    /\ ~AliveWithout(arc[t], t)
    /\ arc' = [arc EXCEPT ![t] = NoArc]
    /\ pc' = [pc EXCEPT ![t] = "dropping"]
    /\ UNCHANGED <<key, peek, entry, owner, shard>>

DropSharedArc(t) ==
    /\ pc[t] = "unlocked"
    /\ AliveWithout(arc[t], t)
    /\ arc' = [arc EXCEPT ![t] = NoArc]
    /\ Return(t)
    /\ UNCHANGED <<peek, entry, owner, shard>>

\* Faulty variant of RemoveDead: remove instead of remove_if.
RemoveAlways(t) ==
    /\ pc[t] = "dropping"
    /\ ShardFree(key[t])
    /\ entry' = [entry EXCEPT ![key[t]] = NoArc]
    /\ Return(t)
    /\ UNCHANGED <<arc, peek, owner, shard>>

\* remove_if: the entry's Weak does not upgrade (or there is no entry).
RemoveDead(t) ==
    /\ pc[t] = "dropping"
    /\ ShardFree(key[t])
    /\ ~EntryAlive(key[t])
    /\ entry' = [entry EXCEPT ![key[t]] = NoArc]
    /\ Return(t)
    /\ UNCHANGED <<arc, peek, owner, shard>>

\* remove_if: somebody registered a new mutex; the closure's v.upgrade()
\* makes a strong reference to it while the shard is locked.
PeekLive(t) ==
    /\ pc[t] = "dropping"
    /\ ShardFree(key[t])
    /\ EntryAlive(key[t])
    /\ peek' = [peek EXCEPT ![t] = entry[key[t]]]
    /\ shard' = [shard EXCEPT ![ShardOf[key[t]]] = t]
    /\ pc' = [pc EXCEPT ![t] = "peeking"]
    /\ UNCHANGED <<key, arc, entry, owner>>

\* The closure returns and drops its temporary, which others still share.
DropPeek(t) ==
    /\ pc[t] = "peeking"
    /\ AliveWithout(peek[t], t)
    /\ peek' = [peek EXCEPT ![t] = NoArc]
    /\ shard' = [shard EXCEPT ![ShardOf[key[t]]] = NoTask]
    /\ Return(t)
    /\ UNCHANGED <<arc, entry, owner>>

\* The temporary was the last reference: RemoveOnDrop::drop runs inside the
\* closure and asks for the shard lock that this very thread holds.
DropLastPeek(t) ==
    /\ pc[t] = "peeking"
    /\ ~AliveWithout(peek[t], t)
    /\ peek' = [peek EXCEPT ![t] = NoArc]
    /\ pc' = [pc EXCEPT ![t] = "stuck"]
    /\ UNCHANGED <<key, arc, entry, owner, shard>>

-----------------------------------------------------------------------------
Lookup(t) == Upgrade(t) \/ Insert(t) \/ NothingToWaitFor(t)
DropArc(t) == DropLastArc(t) \/ DropSharedArc(t)
RemoveIf(t) == RemoveDead(t) \/ PeekLive(t)
EndPeek(t) == DropPeek(t) \/ DropLastPeek(t)

Next ==
    \E t \in Tasks :
        \/ \E k \in Keys : LockMutex(t, k) \/ Wait(t, k)
        \/ Upgrade(t) \/ Insert(t) \/ NothingToWaitFor(t)
        \/ Acquire(t) \/ Cancel(t) \/ Unlock(t)
        \/ DropLastArc(t) \/ DropSharedArc(t)
        \/ RemoveDead(t) \/ PeekLive(t)
        \/ DropPeek(t) \/ DropLastPeek(t)

Spec == Init /\ [][Next]_vars

(***************************************************************************)
(* Threads run, a critical section ends, a shard lock is not denied for    *)
(* ever to a thread that keeps finding it free, and tokio's mutex is fair: *)
(* it serves its queue in order, which strong fairness stands for.         *)
(***************************************************************************)
Fairness ==
    \A t \in Tasks :
        /\ SF_vars(Lookup(t)) /\ SF_vars(Acquire(t)) /\ SF_vars(RemoveIf(t))
        /\ WF_vars(Unlock(t)) /\ WF_vars(DropArc(t)) /\ WF_vars(EndPeek(t))

FairSpec == Spec /\ Fairness

-----------------------------------------------------------------------------
Types ==
    /\ pc \in [Tasks -> States]
    /\ key \in [Tasks -> Keys \cup {NoKey}]
    /\ arc \in [Tasks -> Arcs \cup {NoArc}]
    /\ peek \in [Tasks -> Arcs \cup {NoArc}]
    /\ entry \in [Keys -> Arcs \cup {NoArc}]
    /\ owner \in [Arcs -> Tasks \cup {NoTask}]
    /\ shard \in [Shards -> Tasks \cup {NoTask}]

\* The states in which a task's future or guard refers to an arc.
Referring == {"queued", "held", "unlocked"}

StateShape ==
    \A t \in Tasks :
        /\ pc[t] = "idle" <=> key[t] = NoKey
        /\ pc[t] \in Referring <=> arc[t] # NoArc
        /\ pc[t] = "peeking" <=> peek[t] # NoArc

(***************************************************************************)
(* The variables have their types, and a task has a strong reference in    *)
(* exactly the states in which the code's locals hold an Arc: a cancelled  *)
(* or finished caller leaves none behind.                                  *)
(***************************************************************************)
TypeOK == Types /\ StateShape

(***************************************************************************)
(* A lock per key is a lock: although mutexes come and go and only their   *)
(* Weak is registered, two tasks never hold guards for one key.            *)
(***************************************************************************)
MutualExclusion ==
    \A t, u \in Tasks :
        pc[t] = "held" /\ pc[u] = "held" /\ key[t] = key[u] => t = u

(***************************************************************************)
(* The map does not grow: a registered entry always has somebody who still *)
(* refers to its mutex or who is about to remove it.                       *)
(***************************************************************************)
NoLeakedEntry ==
    \A k \in Keys :
        entry[k] # NoArc =>
            \E t \in Tasks : key[t] = k /\ pc[t] \notin {"idle", "locking", "waiting"}

\* The guards that exist: what an observer of the lock sees.
holding == {<<t, key[t]>> : t \in {u \in Tasks : pc[u] = "held"}}

Abstract == INSTANCE KeyLock WITH Holders <- Tasks

(***************************************************************************)
(* The registry of weak mutexes behaves as one lock per key.               *)
(***************************************************************************)
RefinesKeyLock == Abstract!Spec

(***************************************************************************)
(* Whoever asks for a lock gets it (or gives up waiting), provided that no *)
(* thread locks itself up inside remove_if.                                *)
(***************************************************************************)
LockGrantedUnlessStuck ==
    [](\A t \in Tasks : pc[t] # "stuck") =>
        \A t \in Tasks : pc[t] = "locking" ~> pc[t] \in {"held", "unlocked"}

(***************************************************************************)
(* wait comes back once the mutex is available: utils.rs:43 recommends it  *)
(* to "wait until the mutex is available".  It does not when a thread has  *)
(* locked itself up in remove_if with the shard of the key.                *)
(***************************************************************************)
WaitReturns ==
    \A t \in Tasks : pc[t] = "waiting" ~> pc[t] = "idle"
=============================================================================
