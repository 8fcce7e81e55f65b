---------------------------- MODULE SegmentStore ----------------------------
(***************************************************************************)
(* The on-disk segment cache of one movie: segments_database.rs, with the  *)
(* part of time_cache_db.rs that writes to the same table or deletes the   *)
(* same files.                                                             *)
(*                                                                         *)
(* Four kinds of actors share the files, the segments table, the counter   *)
(* total_file_size and the lock per segment:                               *)
(*   - requests (get_segments), which open a file or download it;          *)
(*   - fill tasks, spawned by requests, which store a download;            *)
(*   - the cleanup task, which evicts least recently used segments and     *)
(*     takes no segment lock;                                              *)
(*   - the purge (delete_full_movie), which takes none either.             *)
(* The process may be killed and restarted at any moment.                  *)
(*                                                                         *)
(* A file is its length, 0 when it is absent.  Arithmetic on               *)
(* total_file_size wraps, as AtomicU64 does in a release build.            *)
(***************************************************************************)
EXTENDS Integers, FiniteSets, Functions

CONSTANTS
    Requests,           \* concurrent calls of get_segments
    Tasks,              \* fill tasks that can be in flight at once
    Segments,           \* the movie's segment indexes
    Lens,               \* lengths a download can have
    MaxTotal,           \* max_total_file_size
    FirstLimit,         \* how many rows the cleanup asks for first (5)
    Modulus,            \* 2^64
    MaxPurges, MaxCrashes,
    Faults,             \* names of operations that may fail
    Undeletable,        \* segments whose file the cleanup can never remove
    NoSegment

ASSUME StoreConstants ==
    /\ Requests \cap Tasks = {}
    /\ NoSegment \notin Segments
    /\ Lens \subseteq Nat \ {0}
    /\ MaxTotal \in Nat
    /\ FirstLimit \in Nat \ {0}
    /\ Modulus \in Nat \ {0}
    /\ MaxPurges \in Nat
    /\ MaxCrashes \in Nat

\* A movie has finitely many segments, and 64 bits can count the bytes of all
\* of them and of one more.
ASSUME SizesFit ==
    /\ IsFiniteSet(Segments)
    /\ \A f \in [Segments -> Lens \cup {0}], S \in SUBSET Segments,
          n \in Lens \cup {0} :
          SumFunctionOnSet(f, S) + n < Modulus

VARIABLES
    want,       \* pairs <<request, segment>> waiting for the segment's lock
    holding,    \* file_path_mutexes: pairs <<request or task, segment>>
    stage, seg, len,    \* each fill task: its next step, segment and length
    touching,   \* segments some spawned set_last_acces_time is pending for
    file,       \* the movie's directory: length by segment
    dir,        \* whether that directory exists
    rows,       \* segments with a row in the table
    accessed,   \* those whose last_acces is not NULL
    size,       \* the size column, 0 without a row
    total,      \* total_file_size
    ev,         \* the cleanup task
    purging, todo,      \* the purge, and the files it still has to delete
    purges, crashes,    \* how many there were
    overlap     \* history: an unlocked step has raced with another actor

guards == <<want, holding>>
fills == <<stage, seg, len>>
table == <<rows, accessed, size>>
files == <<file, dir>>
purge == <<purging, todo, purges>>
vars == <<want, holding, stage, seg, len, touching, file, dir, rows, accessed,
          size, total, ev, purging, todo, purges, crashes, overlap>>

\* The segment lock, as MultipleValueMutex implements it.
Lock == INSTANCE KeyLock WITH Holders <- Requests \cup Tasks, Keys <- Segments

Stages == {"idle", "write", "row", "rename", "count", "unrow"}

\* The stages in which a fill task owns the guard of its segment.
Guarded == {"write", "row", "rename"}

Lengths == Lens \cup {0}

NoCleanup ==
    [pc |-> "off", limit |-> 0, batch |-> {}, seg |-> NoSegment, size |-> 0]

NewCleanup ==
    [pc |-> "query", limit |-> FirstLimit, batch |-> {}, seg |-> NoSegment,
     size |-> 0]

Init ==
    /\ want = {} /\ holding = {}
    /\ stage = [t \in Tasks |-> "idle"]
    /\ seg = [t \in Tasks |-> NoSegment]
    /\ len = [t \in Tasks |-> 0]
    /\ touching = {}
    /\ file = [s \in Segments |-> 0]
    /\ dir = FALSE
    /\ rows = {} /\ accessed = {}
    /\ size = [s \in Segments |-> 0]
    /\ total = 0
    /\ ev = NoCleanup
    /\ purging = FALSE /\ todo = {} /\ purges = 0
    /\ crashes = 0
    /\ overlap = FALSE

-----------------------------------------------------------------------------
\* check_and_start_cleanup_if_needed(n), with total_file_size = tot.
CheckCleanup(tot, n) ==
    IF (tot + n) % Modulus > MaxTotal /\ ev.pc = "off"
    THEN NewCleanup
    ELSE ev

\* fetch_add and fetch_sub on the AtomicU64.
Plus(a, b) == (a + b) % Modulus
Minus(a, b) == (a - b) % Modulus

Larger(a, b) == IF a >= b THEN a ELSE b

\* set_segment_info without its last_acces: upsert, size = MAX(new, old).
SetSegmentInfo(s, n) ==
    /\ rows' = rows \cup {s}
    /\ size' = [size EXCEPT ![s] = Larger(@, n)]

\* set_last_acces_time: an UPDATE, which does nothing where there is no row.
SetLastAccessTime(s) == accessed' = accessed \cup (rows \cap {s})

\* delete_segment_local: last_acces = NULL; the row and its size stay.
DeleteSegmentLocal(s) == accessed' = accessed \ {s}

DeleteMovieSegmentData ==
    /\ rows' = {} /\ accessed' = {}
    /\ size' = [s \in Segments |-> 0]

\* get_least_accessed(n): which rows are the oldest is left open.
LeastAccessed(n) ==
    {B \in SUBSET accessed :
        \/ Cardinality(B) = n
        \/ B = accessed /\ Cardinality(B) < n}

\* Some fill task of s is past the insertion of its row.
Arriving(s) == \E t \in Tasks : seg[t] = s /\ stage[t] \in {"rename", "count"}

InFlight(s) == \E t \in Tasks : seg[t] = s

Waits(r) == \E s \in Segments : <<r, s>> \in want \/ <<r, s>> \in holding

-----------------------------------------------------------------------------
(* Requests: LocalPlayerInner::get_segments *)

Start(r) ==
    /\ ~Waits(r)
    /\ \E S \in SUBSET Segments :
          /\ S # {}
          /\ want' = want \cup ({r} \X S)
    /\ UNCHANGED <<holding, fills, touching, files, table, total, ev, purge,
                   crashes, overlap>>

\* The lock is granted and the file opens; the lock is released on return and
\* a task that will set the access time is spawned.
Hit(r, s) ==
    /\ <<r, s>> \in want
    /\ \A h \in Requests \cup Tasks : <<h, s>> \notin holding
    /\ file[s] # 0
    /\ want' = want \ {<<r, s>>}
    /\ touching' = touching \cup {s}
    /\ UNCHANGED <<holding, fills, files, table, total, ev, purge, crashes,
                   overlap>>

\* Faulty variant of Miss: the lock is not waited for.
MissUnlocked(r, s) ==
    /\ <<r, s>> \in want
    /\ holding' = holding \cup {<<r, s>>}
    /\ file[s] = 0
    /\ want' = want \ {<<r, s>>}
    /\ UNCHANGED <<fills, touching, files, table, total, ev, purge, crashes,
                   overlap>>

\* Faulty variant of Miss: the file was looked for before the lock was taken.
MissStale(r, s) ==
    /\ <<r, s>> \in want
    /\ Lock!Lock(r, s)
    /\ want' = want \ {<<r, s>>}
    /\ UNCHANGED <<fills, touching, files, table, total, ev, purge, crashes,
                   overlap>>

\* The lock is granted and there is no file: download it under the lock.
Miss(r, s) ==
    /\ <<r, s>> \in want
    /\ Lock!Lock(r, s)
    /\ file[s] = 0
    /\ want' = want \ {<<r, s>>}
    /\ UNCHANGED <<fills, touching, files, table, total, ev, purge, crashes,
                   overlap>>

\* Faulty variant of Downloaded: the guard is dropped, not moved into the task.
DownloadedUnlocking(r, s) ==
    /\ <<r, s>> \in holding
    /\ \E t \in Tasks, n \in Lens :
          /\ stage[t] = "idle"
          /\ Lock!Unlock({<<r, s>>})
          /\ stage' = [stage EXCEPT ![t] = "write"]
          /\ seg' = [seg EXCEPT ![t] = s]
          /\ len' = [len EXCEPT ![t] = n]
          /\ ev' = CheckCleanup(total, n)
    /\ UNCHANGED <<want, touching, files, table, total, purge, crashes, overlap>>

\* The download is here: check the limit and move the guard into a fill task.
Downloaded(r, s) ==
    /\ <<r, s>> \in holding
    /\ \E t \in Tasks, n \in Lens :
          /\ stage[t] = "idle"
          /\ Lock!Transfer(r, t, s)
          /\ stage' = [stage EXCEPT ![t] = "write"]
          /\ seg' = [seg EXCEPT ![t] = s]
          /\ len' = [len EXCEPT ![t] = n]
          /\ ev' = CheckCleanup(total, n)
    /\ UNCHANGED <<want, touching, files, table, total, purge, crashes, overlap>>

\* One segment fails (or the client goes away): try_join_all drops the futures
\* of the whole request, and with them the locks they hold or wait for.
Abandon(r) ==
    /\ Waits(r)
    /\ want' = want \ ({r} \X Segments)
    /\ holding' = holding \ ({r} \X Segments)
    /\ UNCHANGED <<fills, touching, files, table, total, ev, purge, crashes,
                   overlap>>

-----------------------------------------------------------------------------
(* Fill tasks: the tokio::spawn in get_segments *)

Become(t, st) == stage' = [stage EXCEPT ![t] = st]

EndTask(t) ==
    /\ stage' = [stage EXCEPT ![t] = "idle"]
    /\ seg' = [seg EXCEPT ![t] = NoSegment]
    /\ len' = [len EXCEPT ![t] = 0]

DropGuard(t) == holding' = holding \ {<<t, seg[t]>>}

\* tokio::fs::write to the temporary file.
Write(t) ==
    /\ stage[t] = "write"
    /\ Become(t, "row")
    /\ UNCHANGED <<guards, seg, len, touching, files, table, total, ev, purge,
                   crashes, overlap>>

\* Faulty variant of FillFails: an early return that leaks the guard.
FillFailsLocked(t) ==
    /\ \/ stage[t] = "write" /\ "write" \in Faults
       \/ stage[t] = "row" /\ "row" \in Faults
    /\ EndTask(t)
    /\ UNCHANGED <<guards, touching, files, table, total, ev, purge, crashes,
                   overlap>>

\* Faulty variant of FillFails: the task goes on to count what was not stored.
FillFailsCounting(t) ==
    /\ \/ stage[t] = "write" /\ "write" \in Faults
       \/ stage[t] = "row" /\ "row" \in Faults
    /\ DropGuard(t)
    /\ Become(t, "count")
    /\ UNCHANGED <<want, seg, len, touching, files, table, total, ev, purge,
                   crashes, overlap>>

\* The write or set_segment_info fails: the temporary file and the guard go.
FillFails(t) ==
    /\ \/ stage[t] = "write" /\ "write" \in Faults
       \/ stage[t] = "row" /\ "row" \in Faults
    /\ DropGuard(t)
    /\ EndTask(t)
    /\ UNCHANGED <<want, touching, files, table, total, ev, purge, crashes,
                   overlap>>

\* Faulty variant of SaveRow: the conflict with an existing row keeps its size.
SaveRowKeepingSize(t) ==
    /\ stage[t] = "row"
    /\ rows' = rows \cup {seg[t]}
    /\ accessed' = accessed \cup {seg[t]}
    /\ size' = [size EXCEPT ![seg[t]] = IF seg[t] \in rows THEN @ ELSE len[t]]
    /\ Become(t, "rename")
    /\ UNCHANGED <<guards, seg, len, touching, files, total, ev, purge, crashes,
                   overlap>>

\* Faulty variant of SaveRow: was_accesed is false.
SaveRowUnaccessed(t) ==
    /\ stage[t] = "row"
    /\ SetSegmentInfo(seg[t], len[t])
    /\ Become(t, "rename")
    /\ UNCHANGED <<guards, seg, len, touching, files, accessed, total, ev, purge,
                   crashes, overlap>>

\* set_segment_info(.., true) also sets last_acces.
SaveRow(t) ==
    /\ stage[t] = "row"
    /\ SetSegmentInfo(seg[t], len[t])
    /\ accessed' = accessed \cup {seg[t]}
    /\ Become(t, "rename")
    /\ UNCHANGED <<guards, seg, len, touching, files, total, ev, purge, crashes,
                   overlap>>

\* move_to renames the temporary file (creating the directory if need be) and
\* the guard is dropped.
Rename(t) ==
    /\ stage[t] = "rename"
    /\ file' = [file EXCEPT ![seg[t]] = len[t]]
    /\ dir' = TRUE
    /\ DropGuard(t)
    /\ Become(t, "count")
    /\ UNCHANGED <<want, seg, len, touching, table, total, ev, purge, crashes,
                   overlap>>

RenameFails(t) ==
    /\ stage[t] = "rename"
    /\ "rename" \in Faults
    /\ DropGuard(t)
    /\ Become(t, "unrow")
    /\ UNCHANGED <<want, seg, len, touching, files, table, total, ev, purge,
                   crashes, overlap>>

\* After time_cache.insert: count the file, then set the access time again.
Count(t) ==
    /\ stage[t] = "count"
    /\ total' = Plus(total, len[t])
    /\ touching' = touching \cup {seg[t]}
    /\ EndTask(t)
    /\ UNCHANGED <<guards, files, table, ev, purge, crashes, overlap>>

\* delete_segment_local after a failed rename, without the lock.
Unrow(t) ==
    /\ stage[t] = "unrow"
    /\ \/ DeleteSegmentLocal(seg[t])
       \/ accessed' = accessed /\ "unrow" \in Faults
    /\ overlap' = (overlap \/ file[seg[t]] # 0 \/ Arriving(seg[t]))
    /\ EndTask(t)
    /\ UNCHANGED <<guards, touching, files, rows, size, total, ev, purge,
                   crashes>>

\* A pending set_last_acces_time runs or fails.  Several may be pending for a
\* segment, so it may stay in the set.
Touch(s) ==
    /\ s \in touching
    /\ \/ SetLastAccessTime(s)
       \/ accessed' = accessed /\ "touch" \in Faults
    /\ \/ touching' = touching
       \/ touching' = touching \ {s}
    /\ UNCHANGED <<guards, fills, files, rows, size, total, ev, purge, crashes,
                   overlap>>

\* compute_times_without_cache stores a start time: set_segment_info with size
\* 0 and no access time.
TimeRow(s) ==
    /\ SetSegmentInfo(s, 0)
    /\ UNCHANGED <<guards, fills, touching, files, accessed, total, ev, purge,
                   crashes, overlap>>

-----------------------------------------------------------------------------
(* The cleanup task of check_and_start_cleanup_if_needed *)

OneMore == IF ev.limit < Cardinality(Segments) THEN ev.limit + 1 ELSE ev.limit

EvQuery ==
    /\ ev.pc = "query"
    /\ \E B \in LeastAccessed(ev.limit) :
          ev' = [ev EXCEPT !.pc = "pick", !.batch = {<<s, size[s]>> : s \in B}]
    /\ UNCHANGED <<guards, fills, touching, files, table, total, purge, crashes,
                   overlap>>

EvQueryFails ==
    /\ ev.pc = "query"
    /\ "query" \in Faults
    /\ ev' = NoCleanup
    /\ UNCHANGED <<guards, fills, touching, files, table, total, purge, crashes,
                   overlap>>

\* Faulty variant of EvRemove: a missing file is an error like any other.
EvRemovePresent(x) ==
    /\ ev.pc = "pick"
    /\ x \in ev.batch
    /\ x[1] \notin Undeletable \/ file[x[1]] = 0
    /\ file' = [file EXCEPT ![x[1]] = 0]
    /\ ev' = IF file[x[1]] = 0
             THEN [ev EXCEPT !.batch = @ \ {x}, !.limit = OneMore]
             ELSE [ev EXCEPT !.pc = "sub", !.batch = @ \ {x},
                             !.seg = x[1], !.size = x[2]]
    /\ overlap' = (overlap \/ file[x[1]] # x[2] \/ InFlight(x[1]))
    /\ UNCHANGED <<guards, fills, touching, dir, table, total, purge, crashes>>

\* remove_file; that there is no such file is as good.  The step races when the
\* row it read does not describe a file that is cached and counted.
EvRemove(x) ==
    /\ ev.pc = "pick"
    /\ x \in ev.batch
    /\ x[1] \notin Undeletable \/ file[x[1]] = 0
    /\ file' = [file EXCEPT ![x[1]] = 0]
    /\ ev' = [ev EXCEPT !.pc = "sub", !.batch = @ \ {x},
                        !.seg = x[1], !.size = x[2]]
    /\ overlap' = (overlap \/ file[x[1]] # x[2] \/ InFlight(x[1]))
    /\ UNCHANGED <<guards, fills, touching, dir, table, total, purge, crashes>>

\* Any other error: skip the file and ask for one row more next time.
EvRemoveFails(x) ==
    /\ ev.pc = "pick"
    /\ x \in ev.batch
    /\ file[x[1]] # 0
    /\ "remove" \in Faults \/ x[1] \in Undeletable
    /\ ev' = [ev EXCEPT !.batch = @ \ {x}, !.limit = OneMore]
    /\ UNCHANGED <<guards, fills, touching, files, table, total, purge, crashes,
                   overlap>>

\* The batch is through and did not free enough.
EvAgain ==
    /\ ev.pc = "pick"
    /\ ev.batch = {}
    /\ ev' = [ev EXCEPT !.pc = "query"]
    /\ UNCHANGED <<guards, fills, touching, files, table, total, purge, crashes,
                   overlap>>


\* fetch_sub, and whether the new total is small enough for the loop to end.
EvSub ==
    /\ ev.pc = "sub"
    /\ total' = Minus(total, ev.size)
    /\ ev' = [ev EXCEPT !.pc = IF total' <= MaxTotal THEN "last" ELSE "unrow",
                        !.size = 0]
    /\ UNCHANGED <<guards, fills, touching, files, table, purge, crashes,
                   overlap>>

\* delete_segment_local(seg); the loop goes on or ends.
EvUnrow ==
    /\ ev.pc \in {"unrow", "last"}
    /\ DeleteSegmentLocal(ev.seg)
    /\ overlap' = (overlap \/ file[ev.seg] # 0 \/ Arriving(ev.seg))
    /\ ev' = [ev EXCEPT !.pc = IF ev.pc = "last" THEN "done" ELSE "pick",
                        !.seg = NoSegment]
    /\ UNCHANGED <<guards, fills, touching, files, rows, size, total, purge,
                   crashes>>

\* It fails: ask for one row more next time.
EvUnrowFails ==
    /\ ev.pc \in {"unrow", "last"}
    /\ "unrow" \in Faults
    /\ ev' = [ev EXCEPT !.pc = IF ev.pc = "last" THEN "done" ELSE "pick",
                        !.seg = NoSegment, !.limit = OneMore]
    /\ UNCHANGED <<guards, fills, touching, files, table, total, purge, crashes,
                   overlap>>

\* cleanup_in_progress.store(false).
EvDone ==
    /\ ev.pc = "done"
    /\ ev' = NoCleanup
    /\ UNCHANGED <<guards, fills, touching, files, table, total, purge, crashes,
                   overlap>>

-----------------------------------------------------------------------------
(* The purge: TimeCache::delete_full_movie *)

\* read_dir succeeds and lists the movie's directory.
PurgeStart ==
    /\ ~purging /\ dir
    /\ purges < MaxPurges
    /\ purging' = TRUE
    /\ todo' = {s \in Segments : file[s] # 0}
    /\ purges' = purges + 1
    /\ overlap' = TRUE
    /\ UNCHANGED <<guards, fills, touching, files, table, total, ev, crashes>>

PurgeDelete(s) ==
    /\ s \in todo
    /\ file[s] # 0
    /\ file' = [file EXCEPT ![s] = 0]
    /\ todo' = todo \ {s}
    /\ UNCHANGED <<guards, fills, touching, dir, table, total, ev, purging,
                   purges, crashes, overlap>>

\* A file that somebody else removed is an error as well, and ends the purge.
PurgeFails ==
    /\ purging
    /\ "purge" \in Faults \/ \E s \in todo : file[s] = 0
    /\ purging' = FALSE
    /\ todo' = {}
    /\ UNCHANGED <<guards, fills, touching, files, table, total, ev, purges,
                   crashes, overlap>>

\* delete_movie_segment_data; total_file_size keeps counting the files.
PurgeRows ==
    /\ purging
    /\ todo = {}
    /\ DeleteMovieSegmentData
    /\ purging' = FALSE
    /\ UNCHANGED <<guards, fills, touching, files, total, ev, todo, purges,
                   crashes, overlap>>

-----------------------------------------------------------------------------
(* The process is killed and started again: LocalPlayer::new *)

\* Faulty variant of TotalSize: the condition on last_acces is missing.
TotalSizeOfAllRows == SumFunctionOnSet(size, rows)

\* get_total_size
TotalSize == SumFunctionOnSet(size, accessed)

Crash ==
    /\ crashes < MaxCrashes
    /\ crashes' = crashes + 1
    /\ want' = {} /\ holding' = {}
    /\ stage' = [t \in Tasks |-> "idle"]
    /\ seg' = [t \in Tasks |-> NoSegment]
    /\ len' = [t \in Tasks |-> 0]
    /\ touching' = {}
    /\ purging' = FALSE /\ todo' = {}
    /\ \E n \in 0 .. Modulus - 1 :
          /\ n = TotalSize % Modulus
          /\ total' = n
          /\ ev' = IF n > MaxTotal THEN NewCleanup ELSE NoCleanup
    /\ overlap' = (\E s \in Segments :
                      file[s] # (IF s \in accessed THEN size[s] ELSE 0))
    /\ UNCHANGED <<files, table, purges>>

-----------------------------------------------------------------------------
Fill(t) ==
    \/ Write(t) \/ FillFails(t) \/ SaveRow(t) \/ Rename(t) \/ RenameFails(t)
    \/ Count(t) \/ Unrow(t)

Cleanup ==
    \/ EvQuery \/ EvQueryFails \/ EvAgain \/ EvSub
    \/ EvUnrow \/ EvUnrowFails \/ EvDone
    \/ \E x \in ev.batch : EvRemove(x) \/ EvRemoveFails(x)

Purge == PurgeStart \/ (\E s \in todo : PurgeDelete(s)) \/ PurgeFails \/ PurgeRows

Next ==
    \/ \E r \in Requests : Start(r) \/ Abandon(r)
    \/ \E r \in Requests, s \in Segments :
          Hit(r, s) \/ Miss(r, s) \/ Downloaded(r, s)
    \/ \E t \in Tasks : Fill(t)
    \/ \E s \in Segments : Touch(s) \/ TimeRow(s)
    \/ Cleanup
    \/ Purge
    \/ Crash

Spec == Init /\ [][Next]_vars

(***************************************************************************)
(* What the runtime grants: a spawned task or a future that can go on does *)
(* (weak fairness); the lock of a segment serves its waiters in order      *)
(* (strong fairness); and a download ends, one way or the other, although  *)
(* the HTTP client of the program sets no timeout of its own.              *)
(***************************************************************************)
Fairness ==
    /\ \A t \in Tasks : WF_vars(Fill(t))
    /\ \A r \in Requests, s \in Segments :
          /\ SF_vars(Hit(r, s) \/ Miss(r, s))
          /\ SF_vars(Downloaded(r, s))
    /\ WF_vars(Cleanup)

FairSpec == Spec /\ Fairness

-----------------------------------------------------------------------------
\* The rows the cleanup may have read: segments with their sizes.
Batches == SUBSET (Segments \X (Lengths))

EvStates == {"off", "query", "pick", "sub", "unrow", "last", "done"}

EvRecords ==
    [pc : EvStates, limit : Nat, batch : Batches,
     seg : Segments \cup {NoSegment}, size : Lengths]

EvTypes(e) ==
    /\ e \in EvRecords
    /\ e.seg = NoSegment <=> e.pc \notin {"sub", "unrow", "last"}

Types ==
    /\ want \subseteq Requests \X Segments
    /\ holding \subseteq (Requests \cup Tasks) \X Segments
    /\ stage \in [Tasks -> Stages]
    /\ seg \in [Tasks -> Segments \cup {NoSegment}]
    /\ len \in [Tasks -> Lengths]
    /\ touching \subseteq Segments
    /\ file \in [Segments -> Lengths]
    /\ dir \in BOOLEAN
    /\ rows \subseteq Segments
    /\ accessed \subseteq rows
    /\ size \in [Segments -> Lengths]
    /\ total \in 0 .. Modulus - 1
    /\ EvTypes(ev)
    /\ purging \in BOOLEAN
    /\ todo \subseteq Segments
    /\ purges \in 0 .. MaxPurges
    /\ crashes \in 0 .. MaxCrashes
    /\ overlap \in BOOLEAN

\* A fill task works on a segment, and owns its guard in the guarded stages
\* only.
TaskShape ==
    \A t \in Tasks :
        /\ stage[t] = "idle" <=> seg[t] = NoSegment
        /\ stage[t] = "idle" <=> len[t] = 0
        /\ \A s \in Segments :
              <<t, s>> \in holding <=> stage[t] \in Guarded /\ seg[t] = s

(***************************************************************************)
(* The variables have their types, only a row that exists has an access    *)
(* time, and on no path, failures included, does a fill task keep its      *)
(* guard longer or lose it earlier than the code says.                     *)
(***************************************************************************)
TypeOK == Types /\ TaskShape

(***************************************************************************)
(* A segment is stored by one task at a time, although the lock changes    *)
(* hands from the request to the task and the request may be gone.         *)
(***************************************************************************)
OneFillPerSegment ==
    \A t, u \in Tasks :
        stage[t] \in Guarded /\ stage[u] \in Guarded /\ seg[t] = seg[u] => t = u

(***************************************************************************)
(* What is being downloaded or stored is not on disk: whoever holds a      *)
(* segment's lock across steps found no file, and no file appears until    *)
(* the lock is released.                                                   *)
(***************************************************************************)
FillsMissingSegment ==
    \A h \in Requests \cup Tasks, s \in Segments :
        <<h, s>> \in holding => file[s] = 0

(***************************************************************************)
(* A cached file never changes: it is created whole and removed, never     *)
(* replaced under a reader that already took its length.                   *)
(***************************************************************************)
NoOverwrite ==
    [][\A s \in Segments : file[s] # 0 => file'[s] \in {0, file[s]}]_vars

(***************************************************************************)
(* While no purge has run, every file has a row that says at least its     *)
(* length, whatever fails and wherever the process is killed: the row is   *)
(* saved before the file appears.                                          *)
(***************************************************************************)
FileBackedByRow ==
    purges = 0 =>
        \A s \in Segments : file[s] # 0 => s \in rows /\ size[s] >= file[s]

\* The files that total_file_size should cover.
Counted ==
    {s \in Segments :
        file[s] # 0 /\ ~\E t \in Tasks : seg[t] = s /\ stage[t] = "count"}

(***************************************************************************)
(* total_file_size is exactly the size of the counted files (plus the file *)
(* being evicted), unless an unlocked step has raced with another actor.   *)
(***************************************************************************)
AccountingExact ==
    ~overlap => total = SumFunctionOnSet(file, Counted) + ev.size

(***************************************************************************)
(* No file escapes the cleanup: a cached file's row has an access time, so *)
(* get_least_accessed can return it, unless an unlocked step has raced.    *)
(***************************************************************************)
EvictableWhenCached ==
    ~overlap => \A s \in Segments : file[s] # 0 => s \in accessed

(***************************************************************************)
(* A request for a segment is served or gives up, whatever the cleanup, a  *)
(* purge and the other requests do meanwhile.                              *)
(***************************************************************************)
RequestsEnd ==
    \A r \in Requests, s \in Segments :
        (<<r, s>> \in want \cup holding) ~> (<<r, s>> \notin want \cup holding)

\* Nobody but the cleanup (and a purge) has anything left to do.
Quiet ==
    /\ want = {} /\ holding = {} /\ touching = {}
    /\ \A t \in Tasks : stage[t] = "idle"

(***************************************************************************)
(* Once requests have stopped for good the cleanup works off whatever      *)
(* earlier races, purges and restarts left behind, rows without files      *)
(* included: it ends, or it has emptied the table and still counts too     *)
(* much (then it queries for ever, after a download above the limit that   *)
(* was not stored, or after the counter has lost its files).               *)
(***************************************************************************)
CleanupSettles ==
    <>[]Quiet =>
        (ev.pc # "off" ~> ev.pc = "off" \/ (ev.pc = "query" /\ accessed = {}))


(***************************************************************************)
(* The cleanup does not try to delete the same files for ever:             *)
(* segments_database.rs:733 asks for one row more after a failure "to make *)
(* sure we don't get stuck redeliting the same ones that we can't".        *)
(***************************************************************************)
NotStuckRedeleting == <>[][\A x \in ev.batch : ~EvRemoveFails(x)]_vars
=============================================================================
