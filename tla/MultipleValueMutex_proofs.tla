---------------------- MODULE MultipleValueMutex_proofs ----------------------
(***************************************************************************)
(* MultipleValueMutex is one lock per key, for every number of tasks, keys *)
(* and shards.                                                             *)
(*                                                                         *)
(* The argument: a strong reference, whoever holds it, always refers to    *)
(* the arc registered under the holder's key (Registered).  An entry is    *)
(* only replaced or removed when its arc is dead, so two tasks queueing on *)
(* a key queue on one tokio mutex, and that mutex has one owner.           *)
(***************************************************************************)
EXTENDS MultipleValueMutex, TLAPS

\* Strong references are references to the registered arc.
Registered ==
    \A t \in Tasks :
        /\ arc[t] # NoArc => entry[key[t]] = arc[t]
        /\ peek[t] # NoArc => entry[key[t]] = peek[t]

\* No arc is registered twice.
EntryInjective ==
    \A j, k \in Keys : entry[j] = entry[k] /\ entry[j] # NoArc => j = k

\* A guard is the ownership of the mutex inside its arc.
GuardOwns == \A t \in Tasks : pc[t] = "held" => owner[arc[t]] = t

IInv == Types /\ StateShape /\ Registered /\ EntryInjective /\ GuardOwns

-----------------------------------------------------------------------------
(***************************************************************************)
(* The initial states satisfy the inductive invariant.                     *)
(***************************************************************************)
LEMMA InitIInv == Init => IInv
BY MutexConstants, SMT
DEF Init, IInv, Types, States, StateShape, Referring, Registered,
    EntryInjective, GuardOwns

(***************************************************************************)
(* Every operation on the map and on the mutexes preserves types: the      *)
(* variables keep their shapes through all of utils.rs.                    *)
(***************************************************************************)
LEMMA StepTypes == IInv /\ [Next]_vars => Types'
<1> SUFFICES ASSUME IInv, [Next]_vars PROVE Types'
  OBVIOUS
<1> USE DEF IInv, Types, States
<1>1. ASSUME NEW t \in Tasks, NEW k \in Keys, LockMutex(t, k) \/ Wait(t, k)
      PROVE  Types'
  BY <1>1, SMT DEF LockMutex, Wait
<1>2. ASSUME NEW t \in Tasks, Upgrade(t) PROVE Types'
  <2>1. key[t] \in Keys
    BY <1>2 DEF Upgrade, StateShape
  <2> QED BY <1>2, <2>1, SMT DEF Upgrade
<1>3. ASSUME NEW t \in Tasks, Insert(t) PROVE Types'
  <2>1. PICK o \in Arcs :
            /\ entry' = [entry EXCEPT ![key[t]] = o]
            /\ arc' = [arc EXCEPT ![t] = o]
            /\ owner' = [owner EXCEPT ![o] = NoTask]
    BY <1>3 DEF Insert
  <2>2. pc' \in [Tasks -> States] /\ UNCHANGED <<key, peek, shard>>
    BY <1>3, SMT DEF Insert
  <2>3. key[t] \in Keys
    BY <1>3, SMT DEF Insert, StateShape
  <2>4. entry' \in [Keys -> Arcs \cup {NoArc}]
    BY <2>1, <2>3, SMT
  <2>5. arc' \in [Tasks -> Arcs \cup {NoArc}]
    BY <2>1, SMT
  <2>6. owner' \in [Arcs -> Tasks \cup {NoTask}]
    BY <2>1, SMT
  <2> QED BY <2>2, <2>4, <2>5, <2>6, SMT
<1>4. ASSUME NEW t \in Tasks, Acquire(t) \/ Cancel(t) \/ Unlock(t)
      PROVE  Types'
  BY <1>4, SMT DEF Acquire, Cancel, Unlock
<1>5. ASSUME NEW t \in Tasks,
             NothingToWaitFor(t) \/ DropLastArc(t) \/ DropSharedArc(t)
      PROVE  Types'
  BY <1>5, SMT DEF NothingToWaitFor, DropLastArc, DropSharedArc, Return
<1>6. ASSUME NEW t \in Tasks, RemoveDead(t) \/ DropPeek(t) \/ DropLastPeek(t)
      PROVE  Types'
  BY <1>6, SMT DEF RemoveDead, DropPeek, DropLastPeek, Return
<1>7. ASSUME NEW t \in Tasks, PeekLive(t) PROVE Types'
  <2>1. key[t] \in Keys
    BY <1>7, SMT DEF PeekLive, StateShape
  <2>2. peek' \in [Tasks -> Arcs \cup {NoArc}]
    BY <1>7, <2>1, SMT DEF PeekLive
  <2>3. shard' \in [Shards -> Tasks \cup {NoTask}]
    <3>1. PICK s \in Shards : shard' = [shard EXCEPT ![s] = t]
      BY <1>7, <2>1, MutexConstants DEF PeekLive
    <3> QED BY <3>1, SMT
  <2> QED BY <1>7, <2>2, <2>3, SMT DEF PeekLive
<1>8. CASE UNCHANGED vars
  BY <1>8 DEF vars
<1> QED BY <1>1, <1>2, <1>3, <1>4, <1>5, <1>6, <1>7, <1>8 DEF Next

(***************************************************************************)
(* A task that is not idle has a key, and it has references exactly in the *)
(* states in which the code holds an Arc.                                  *)
(***************************************************************************)
LEMMA StepStateShape == IInv /\ [Next]_vars => StateShape'
<1> SUFFICES ASSUME IInv, [Next]_vars PROVE StateShape'
  OBVIOUS
<1> USE MutexConstants DEF IInv, Types, StateShape, Referring
<1>1. ASSUME NEW t \in Tasks, NEW k \in Keys, LockMutex(t, k) \/ Wait(t, k)
      PROVE  StateShape'
  BY <1>1, SMT DEF LockMutex, Wait
<1>2. ASSUME NEW t \in Tasks, Upgrade(t) PROVE StateShape'
  BY <1>2, SMT DEF Upgrade, EntryAlive
<1>3. ASSUME NEW t \in Tasks, Insert(t) PROVE StateShape'
  BY <1>3, SMT DEF Insert
<1>4. ASSUME NEW t \in Tasks, Acquire(t) \/ Cancel(t) \/ Unlock(t)
      PROVE  StateShape'
  BY <1>4, SMT DEF Acquire, Cancel, Unlock
<1>5. ASSUME NEW t \in Tasks,
             NothingToWaitFor(t) \/ DropLastArc(t) \/ DropSharedArc(t)
      PROVE  StateShape'
  BY <1>5, SMT DEF NothingToWaitFor, DropLastArc, DropSharedArc, Return
<1>6. ASSUME NEW t \in Tasks, RemoveDead(t) \/ DropPeek(t) \/ DropLastPeek(t)
      PROVE  StateShape'
  BY <1>6, SMT DEF RemoveDead, DropPeek, DropLastPeek, Return
<1>7. ASSUME NEW t \in Tasks, PeekLive(t) PROVE StateShape'
  BY <1>7, SMT DEF PeekLive, EntryAlive
<1>8. CASE UNCHANGED vars
  BY <1>8 DEF vars
<1> QED BY <1>1, <1>2, <1>3, <1>4, <1>5, <1>6, <1>7, <1>8 DEF Next

(***************************************************************************)
(* Only a dead arc is replaced or removed: the registered arc of a key is  *)
(* the one its holders refer to, and no arc serves two keys.               *)
(***************************************************************************)
LEMMA StepRegistered ==
    IInv /\ [Next]_vars => Registered' /\ EntryInjective'
<1> SUFFICES ASSUME IInv, [Next]_vars PROVE Registered' /\ EntryInjective'
  OBVIOUS
<1> USE MutexConstants
    DEF IInv, Types, StateShape, Referring, Registered, EntryInjective
<1>1. ASSUME NEW t \in Tasks, NEW k \in Keys, LockMutex(t, k) \/ Wait(t, k)
      PROVE  Registered' /\ EntryInjective'
  BY <1>1, SMT DEF LockMutex, Wait
<1>2. ASSUME NEW t \in Tasks, Upgrade(t) PROVE Registered' /\ EntryInjective'
  BY <1>2, SMT DEF Upgrade
<1>3. ASSUME NEW t \in Tasks, Insert(t) PROVE Registered' /\ EntryInjective'
  <2>1. PICK o \in Arcs :
            /\ \A k \in Keys : entry[k] # o
            /\ entry' = [entry EXCEPT ![key[t]] = o]
            /\ arc' = [arc EXCEPT ![t] = o]
    BY <1>3 DEF Insert
  <2>2. key[t] \in Keys /\ peek[t] = NoArc
    BY <1>3, SMT DEF Insert
  <2>3. \A u \in Tasks : key[u] = key[t] => arc[u] = NoArc /\ peek[u] = NoArc
    BY <1>3, SMT DEF Insert, EntryAlive, Alive
  <2>4. EntryInjective'
    BY <2>1, <2>2, SMT
  <2>5. Registered'
    BY <1>3, <2>1, <2>2, <2>3, SMT DEF Insert
  <2> QED BY <2>4, <2>5
<1>4. ASSUME NEW t \in Tasks, Acquire(t) \/ Cancel(t) \/ Unlock(t)
      PROVE  Registered' /\ EntryInjective'
  BY <1>4, SMT DEF Acquire, Cancel, Unlock
<1>5. ASSUME NEW t \in Tasks,
             NothingToWaitFor(t) \/ DropLastArc(t) \/ DropSharedArc(t)
      PROVE  Registered' /\ EntryInjective'
  BY <1>5, SMT DEF NothingToWaitFor, DropLastArc, DropSharedArc, Return
<1>6. ASSUME NEW t \in Tasks, RemoveDead(t) PROVE Registered' /\ EntryInjective'
  <2>1. \A u \in Tasks : key[u] = key[t] => arc[u] = NoArc /\ peek[u] = NoArc
    BY <1>6, SMT DEF RemoveDead, EntryAlive, Alive
  <2> QED BY <1>6, <2>1, SMT DEF RemoveDead, Return
<1>7. ASSUME NEW t \in Tasks, DropPeek(t) \/ DropLastPeek(t)
      PROVE  Registered' /\ EntryInjective'
  BY <1>7, SMT DEF DropPeek, DropLastPeek, Return
<1>8. ASSUME NEW t \in Tasks, PeekLive(t) PROVE Registered' /\ EntryInjective'
  BY <1>8, SMT DEF PeekLive
<1>9. CASE UNCHANGED vars
  BY <1>9 DEF vars
<1> QED BY <1>1, <1>2, <1>3, <1>4, <1>5, <1>6, <1>7, <1>8, <1>9 DEF Next

(***************************************************************************)
(* A guard owns its mutex until it is dropped: a mutex is granted only     *)
(* when nobody owns it, and a fresh mutex is nobody's.                     *)
(***************************************************************************)
LEMMA StepGuardOwns == IInv /\ [Next]_vars => GuardOwns'
<1> SUFFICES ASSUME IInv, [Next]_vars PROVE GuardOwns'
  OBVIOUS
<1> USE MutexConstants DEF IInv, Types, StateShape, Referring, GuardOwns
<1>1. ASSUME NEW t \in Tasks, NEW k \in Keys, LockMutex(t, k) \/ Wait(t, k)
      PROVE  GuardOwns'
  BY <1>1, SMT DEF LockMutex, Wait
<1>2. ASSUME NEW t \in Tasks, Upgrade(t) PROVE GuardOwns'
  BY <1>2, SMT DEF Upgrade
<1>3. ASSUME NEW t \in Tasks, Insert(t) PROVE GuardOwns'
  BY <1>3, SMT DEF Insert, Alive
<1>4. ASSUME NEW t \in Tasks, Acquire(t) PROVE GuardOwns'
  BY <1>4, SMT DEF Acquire
<1>5. ASSUME NEW t \in Tasks, Unlock(t) PROVE GuardOwns'
  BY <1>5, SMT DEF Unlock
<1>6. ASSUME NEW t \in Tasks,
             Cancel(t) \/ NothingToWaitFor(t) \/ DropLastArc(t) \/ DropSharedArc(t)
      PROVE  GuardOwns'
  BY <1>6, SMT DEF Cancel, NothingToWaitFor, DropLastArc, DropSharedArc, Return
<1>7. ASSUME NEW t \in Tasks,
             RemoveDead(t) \/ PeekLive(t) \/ DropPeek(t) \/ DropLastPeek(t)
      PROVE  GuardOwns'
  BY <1>7, SMT DEF RemoveDead, PeekLive, DropPeek, DropLastPeek, Return
<1>8. CASE UNCHANGED vars
  BY <1>8 DEF vars
<1> QED BY <1>1, <1>2, <1>3, <1>4, <1>5, <1>6, <1>7, <1>8 DEF Next

(***************************************************************************)
(* IInv holds in every reachable state.                                    *)
(***************************************************************************)
THEOREM Invariant == Spec => []IInv
<1>1. IInv /\ [Next]_vars => IInv'
  BY StepTypes, StepStateShape, StepRegistered, StepGuardOwns DEF IInv
<1> QED BY InitIInv, <1>1, PTL DEF Spec

-----------------------------------------------------------------------------
(***************************************************************************)
(* Type correctness of the mutex registry of utils.rs.                     *)
(***************************************************************************)
THEOREM TypeCorrect == Spec => []TypeOK
<1>1. IInv => TypeOK
  BY DEF IInv, TypeOK
<1> QED BY Invariant, <1>1, PTL

(***************************************************************************)
(* In a state of the inductive invariant two guards for a key belong to    *)
(* the same task: they own the same mutex.                                 *)
(***************************************************************************)
LEMMA IInvExclusive == IInv => MutualExclusion
<1> SUFFICES ASSUME IInv, NEW t \in Tasks, NEW u \in Tasks,
                    pc[t] = "held", pc[u] = "held", key[t] = key[u]
             PROVE  t = u
  BY DEF MutualExclusion
<1>1. arc[t] = arc[u]
  BY DEF IInv, StateShape, Referring, Registered
<1> QED BY <1>1 DEF IInv, GuardOwns

(***************************************************************************)
(* lock_mutex never gives out two guards for one key, for any number of    *)
(* tasks, keys and shards, whatever tasks are cancelled.                   *)
(***************************************************************************)
THEOREM Exclusion == Spec => []MutualExclusion
BY Invariant, IInvExclusive, PTL

(***************************************************************************)
(* The map never keeps an entry that nobody uses or is about to remove.    *)
(***************************************************************************)
THEOREM NoLeak == Spec => []NoLeakedEntry
<1> DEFINE Busy(t) == pc[t] \notin {"idle", "locking", "waiting"}
<1>1. Init => NoLeakedEntry
  BY DEF Init, NoLeakedEntry
<1>2. NoLeakedEntry /\ IInv /\ [Next]_vars => NoLeakedEntry'
  <2> SUFFICES ASSUME NoLeakedEntry, IInv, [Next]_vars,
                      NEW k \in Keys, entry'[k] # NoArc
               PROVE  \E t \in Tasks : key'[t] = k /\ Busy(t)'
    BY DEF NoLeakedEntry
  <2> USE MutexConstants
      DEF IInv, Types, StateShape, Referring, Registered, EntryInjective,
          NoLeakedEntry
  <2>1. ASSUME NEW t \in Tasks, NEW j \in Keys, LockMutex(t, j) \/ Wait(t, j)
        PROVE  \E u \in Tasks : key'[u] = k /\ Busy(u)'
    BY <2>1, SMT DEF LockMutex, Wait
  <2>2. ASSUME NEW t \in Tasks, Upgrade(t)
        PROVE  \E u \in Tasks : key'[u] = k /\ Busy(u)'
    BY <2>2, SMT DEF Upgrade
  <2>3. ASSUME NEW t \in Tasks, Insert(t)
        PROVE  \E u \in Tasks : key'[u] = k /\ Busy(u)'
    <3>1. CASE key[t] = k
      BY <2>3, <3>1, SMT DEF Insert
    <3>2. CASE key[t] # k
      BY <2>3, <3>2, SMT DEF Insert
    <3> QED BY <3>1, <3>2
  <2>4. ASSUME NEW t \in Tasks, Acquire(t) \/ Cancel(t) \/ Unlock(t)
        PROVE  \E u \in Tasks : key'[u] = k /\ Busy(u)'
    BY <2>4, SMT DEF Acquire, Cancel, Unlock
  <2>5. ASSUME NEW t \in Tasks, NothingToWaitFor(t) \/ DropLastArc(t)
        PROVE  \E u \in Tasks : key'[u] = k /\ Busy(u)'
    BY <2>5, SMT DEF NothingToWaitFor, DropLastArc, Return
  <2>6. ASSUME NEW t \in Tasks, DropSharedArc(t)
        PROVE  \E u \in Tasks : key'[u] = k /\ Busy(u)'
    <3>1. PICK u \in Tasks \ {t} : arc[u] = arc[t] \/ peek[u] = arc[t]
      BY <2>6 DEF DropSharedArc, AliveWithout
    <3>2. key[u] = key[t] /\ Busy(u)
      BY <2>6, <3>1, SMT DEF DropSharedArc
    <3> QED BY <2>6, <3>1, <3>2, SMT DEF DropSharedArc, Return
  <2>7. ASSUME NEW t \in Tasks, RemoveDead(t)
        PROVE  \E u \in Tasks : key'[u] = k /\ Busy(u)'
    BY <2>7, SMT DEF RemoveDead, Return
  <2>8. ASSUME NEW t \in Tasks, PeekLive(t) \/ DropLastPeek(t)
        PROVE  \E u \in Tasks : key'[u] = k /\ Busy(u)'
    BY <2>8, SMT DEF PeekLive, DropLastPeek
  <2>9. ASSUME NEW t \in Tasks, DropPeek(t)
        PROVE  \E u \in Tasks : key'[u] = k /\ Busy(u)'
    <3>1. PICK u \in Tasks \ {t} : arc[u] = peek[t] \/ peek[u] = peek[t]
      BY <2>9 DEF DropPeek, AliveWithout
    <3>2. key[u] = key[t] /\ Busy(u)
      BY <2>9, <3>1, SMT DEF DropPeek
    <3> QED BY <2>9, <3>1, <3>2, SMT DEF DropPeek, Return
  <2>10. CASE UNCHANGED vars
    BY <2>10 DEF vars
  <2> QED BY <2>1, <2>2, <2>3, <2>4, <2>5, <2>6, <2>7, <2>8, <2>9, <2>10 DEF Next
<1> QED BY <1>1, <1>2, Invariant, PTL DEF Spec

-----------------------------------------------------------------------------
(***************************************************************************)
(* A step that moves no task into or out of its critical section does not  *)
(* show in the abstract lock.                                              *)
(***************************************************************************)
LEMMA HoldingUnchanged ==
    ASSUME \A u \in Tasks : pc'[u] = "held" <=> pc[u] = "held",
           \A u \in Tasks : pc[u] = "held" => key'[u] = key[u]
    PROVE  UNCHANGED holding
BY SMT DEF holding

(***************************************************************************)
(* The registry implements one lock per key: acquiring a tokio mutex is    *)
(* Lock, dropping a guard is Unlock and everything else is invisible.      *)
(***************************************************************************)
THEOREM Refinement == Spec => RefinesKeyLock
<1>1. Init => Abstract!Init
  BY SMT DEF Init, Abstract!Init, holding
<1>2. IInv' => MutualExclusion'
  BY IInvExclusive, PTL
<1>3. IInv /\ IInv' /\ [Next]_vars => [Abstract!Next]_holding
  <2> SUFFICES ASSUME IInv, IInv', [Next]_vars
               PROVE  Abstract!Next \/ UNCHANGED holding
    OBVIOUS
  <2> USE DEF IInv, Types
  <2>1. ASSUME NEW t \in Tasks, NEW k \in Keys, LockMutex(t, k) \/ Wait(t, k)
        PROVE  UNCHANGED holding
    BY <2>1, HoldingUnchanged, SMT DEF LockMutex, Wait
  <2>2. ASSUME NEW t \in Tasks, Upgrade(t) \/ Insert(t) \/ NothingToWaitFor(t)
        PROVE  UNCHANGED holding
    BY <2>2, HoldingUnchanged, SMT DEF Upgrade, Insert, NothingToWaitFor, Return
  <2>3. ASSUME NEW t \in Tasks, Acquire(t) PROVE Abstract!Lock(t, key[t])
    <3>1. holding' = holding \cup {<<t, key[t]>>}
      BY <2>3, SMT DEF Acquire, holding
    <3>2. \A u \in Tasks : <<u, key[t]>> \notin holding
      <4> SUFFICES ASSUME NEW u \in Tasks, pc[u] = "held", key[u] = key[t]
                   PROVE  FALSE
        BY DEF holding
      <4>1. MutualExclusion'
        BY <1>2
      <4>2. pc'[u] = "held" /\ pc'[t] = "held" /\ key'[u] = key'[t] /\ u # t
        BY <2>3, SMT DEF Acquire
      <4> QED BY <4>1, <4>2 DEF MutualExclusion
    <3> QED BY <3>1, <3>2 DEF Abstract!Lock
  <2>4. ASSUME NEW t \in Tasks, Unlock(t)
        PROVE  Abstract!Unlock({<<t, key[t]>>})
    <3>1. <<t, key[t]>> \in holding
      BY <2>4, SMT DEF Unlock, holding
    <3>2. holding' = holding \ {<<t, key[t]>>}
      BY <2>4, SMT DEF Unlock, holding
    <3> QED BY <3>1, <3>2 DEF Abstract!Unlock
  <2>5. ASSUME NEW t \in Tasks, Cancel(t) \/ DropLastArc(t) \/ DropSharedArc(t)
        PROVE  UNCHANGED holding
    BY <2>5, HoldingUnchanged, SMT DEF Cancel, DropLastArc, DropSharedArc, Return
  <2>6. ASSUME NEW t \in Tasks,
               RemoveDead(t) \/ PeekLive(t) \/ DropPeek(t) \/ DropLastPeek(t)
        PROVE  UNCHANGED holding
    BY <2>6, HoldingUnchanged, SMT
    DEF RemoveDead, PeekLive, DropPeek, DropLastPeek, Return
  <2>7. CASE UNCHANGED vars
    BY <2>7 DEF vars, holding
  <2>8. ASSUME NEW t \in Tasks, Acquire(t) PROVE Abstract!Next
    <3>1. key[t] \in Keys
      BY <2>8 DEF Acquire, StateShape
    <3> QED BY <2>3, <2>8, <3>1 DEF Abstract!Next
  <2>9. ASSUME NEW t \in Tasks, Unlock(t) PROVE Abstract!Next
    <3>1. {<<t, key[t]>>} \in SUBSET holding
      BY <2>4, <2>9 DEF Abstract!Unlock
    <3> QED BY <2>4, <2>9, <3>1 DEF Abstract!Next
  <2> QED BY <2>1, <2>2, <2>5, <2>6, <2>7, <2>8, <2>9 DEF Next
<1> QED BY <1>1, <1>3, Invariant, PTL DEF Spec, RefinesKeyLock, Abstract!Spec
=============================================================================
