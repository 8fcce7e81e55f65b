------------------------- MODULE SegmentStore_proofs -------------------------
(***************************************************************************)
(* Safety of the segment store for any number of requests, fill tasks,     *)
(* segments, purges and restarts, whatever fails.                          *)
(*                                                                         *)
(* The argument: the lock of a segment has one holder at a time            *)
(* (OneHolder), a fill task holds it exactly until its file is renamed     *)
(* (TaskShape), and while it is held the file is absent                    *)
(* (FillsMissingSegment).  The cleanup and the purge take no lock, but     *)
(* they only ever remove files, so they cannot break that.  A file has a   *)
(* row because its task saved one before the rename (RowSaved) and only a  *)
(* purge deletes rows.                                                     *)
(*                                                                         *)
(* The second half is about sums of file lengths.  What the recursion of   *)
(* SumFunctionOnSet computes follows from the induction principle          *)
(* SubsetInduction: it is about a family of sets, a value, and not about a *)
(* predicate, so that it can be cited; the lemmas Sum... say how a sum     *)
(* changes with one element, and the Account... lemmas apply them.         *)
(***************************************************************************)
EXTENDS SegmentStore, FiniteSetTheorems, WellFoundedInduction, TLAPS

OneHolder ==
    \A p, q \in holding : p[2] = q[2] => p = q

\* A running purge has been counted.
PurgeCounted == purging => purges # 0

\* Between the upsert and the rename the row already covers the file to come.
RowSaved ==
    purges = 0 =>
        \A t \in Tasks : stage[t] = "rename" =>
            seg[t] \in rows /\ size[seg[t]] >= len[t]

IInv ==
    /\ Types /\ TaskShape /\ OneHolder /\ FillsMissingSegment
    /\ PurgeCounted /\ RowSaved /\ FileBackedByRow

-----------------------------------------------------------------------------
(***************************************************************************)
(* The atomic counter stays a machine word.                                *)
(***************************************************************************)
LEMMA CounterInRange ==
    ASSUME NEW a \in Int, NEW b \in Int
    PROVE  Plus(a, b) \in 0 .. Modulus - 1 /\ Minus(a, b) \in 0 .. Modulus - 1
BY StoreConstants, SMT DEF Plus, Minus

(***************************************************************************)
(* Lengths are numbers.                                                    *)
(***************************************************************************)
LEMMA LengthInt == 0 \in Lengths /\ \A n \in Lengths : n \in Int
BY StoreConstants DEF Lengths

(***************************************************************************)
(* The records a cleanup starts and ends with have the right type.         *)
(***************************************************************************)
LEMMA NewCleanupType == EvTypes(NoCleanup) /\ EvTypes(NewCleanup)
<1>1. {} \in Batches
  BY DEF Batches
<1> QED
  BY <1>1, LengthInt, StoreConstants, SMT
  DEF EvTypes, EvRecords, NoCleanup, NewCleanup, EvStates

(***************************************************************************)
(* check_and_start_cleanup_if_needed starts a cleanup or leaves it alone.  *)
(***************************************************************************)
LEMMA CheckCleanupType ==
    ASSUME NEW a, NEW b, EvTypes(ev)
    PROVE  EvTypes(CheckCleanup(a, b))
BY NewCleanupType DEF CheckCleanup

(***************************************************************************)
(* The empty cache satisfies the inductive invariant.                      *)
(***************************************************************************)
LEMMA InitIInv == Init => IInv
<1> SUFFICES ASSUME Init PROVE IInv
  OBVIOUS
<1> USE DEF Init
<1>1. EvTypes(ev)
  BY NewCleanupType
<1>2. Types
  <2>1. total \in 0 .. Modulus - 1 /\ purges \in 0 .. MaxPurges
        /\ crashes \in 0 .. MaxCrashes
    BY StoreConstants, SMT
  <2>2. stage \in [Tasks -> Stages]
    BY DEF Stages
  <2>3. /\ file \in [Segments -> Lengths] /\ size \in [Segments -> Lengths]
        /\ len \in [Tasks -> Lengths]
    BY LengthInt
  <2> QED BY <1>1, <2>1, <2>2, <2>3 DEF Types
<1>3. TaskShape
  BY StoreConstants, SMT DEF TaskShape, Guarded
<1>4. /\ OneHolder /\ FillsMissingSegment /\ PurgeCounted /\ RowSaved
      /\ FileBackedByRow
  BY SMT DEF OneHolder, FillsMissingSegment, PurgeCounted, RowSaved,
             FileBackedByRow
<1> QED BY <1>2, <1>3, <1>4 DEF IInv

-----------------------------------------------------------------------------
(* Types: one lemma per actor. *)

(***************************************************************************)
(* A request's steps keep the types.                                       *)
(***************************************************************************)
LEMMA RequestTypes ==
    ASSUME IInv, NEW r \in Requests, NEW s,
           \/ Start(r) \/ Abandon(r)
           \/ s \in Segments /\ (Hit(r, s) \/ Miss(r, s) \/ Downloaded(r, s))
    PROVE  Types'
<1> USE DEF IInv, Types, guards, fills, table, files, purge
<1>1. CASE Start(r)
  BY <1>1, SMT DEF Start
<1>2. CASE s \in Segments /\ Hit(r, s)
  BY <1>2, SMT DEF Hit
<1>3. CASE s \in Segments /\ Miss(r, s)
  BY <1>3, SMT DEF Miss, Lock!Lock
<1>4. CASE s \in Segments /\ Downloaded(r, s)
  <2>1. PICK t \in Tasks, n \in Lens :
            /\ Lock!Transfer(r, t, s)
            /\ stage' = [stage EXCEPT ![t] = "write"]
            /\ seg' = [seg EXCEPT ![t] = s]
            /\ len' = [len EXCEPT ![t] = n]
            /\ ev' = CheckCleanup(total, n)
    BY <1>4 DEF Downloaded
  <2>2. EvTypes(ev')
    BY <2>1, CheckCleanupType
  <2>3. holding' \subseteq (Requests \cup Tasks) \X Segments
    BY <2>1, SMT DEF Lock!Transfer
  <2>4. /\ stage' \in [Tasks -> Stages]
        /\ seg' \in [Tasks -> Segments \cup {NoSegment}]
        /\ len' \in [Tasks -> Lengths]
    <3>1. n \in Lengths /\ "write" \in Stages
      BY DEF Lengths, Stages
    <3> QED BY <1>4, <2>1, <3>1, SMT
  <2>5. UNCHANGED <<want, touching, file, dir, rows, accessed, size, total,
                    purging, todo, purges, crashes, overlap>>
    BY <1>4 DEF Downloaded
  <2> QED BY <2>2, <2>3, <2>4, <2>5
<1>5. CASE Abandon(r)
  BY <1>5, SMT DEF Abandon
<1> QED BY <1>1, <1>2, <1>3, <1>4, <1>5

(***************************************************************************)
(* A fill task's steps keep the types.                                     *)
(***************************************************************************)
LEMMA FillTypes ==
    ASSUME IInv, NEW t \in Tasks, Fill(t)
    PROVE  Types'
<1> USE DEF IInv, Types, guards, fills, table, files, purge, Stages, Become,
            EndTask, DropGuard
<1>1. CASE Write(t)
  BY <1>1, SMT DEF Write
<1>2. CASE FillFails(t)
  <2>1. /\ stage' \in [Tasks -> Stages]
        /\ seg' \in [Tasks -> Segments \cup {NoSegment}]
        /\ len' \in [Tasks -> Lengths]
    BY <1>2, LengthInt, SMT DEF FillFails
  <2>2. holding' \subseteq holding
    BY <1>2 DEF FillFails
  <2> QED BY <1>2, <2>1, <2>2 DEF FillFails
<1>3. CASE SaveRow(t)
  <2>1. seg[t] \in Segments
    BY <1>3, SMT DEF SaveRow, TaskShape
  <2>2. size' \in [Segments -> Lengths]
    BY <1>3, <2>1, SMT DEF SaveRow, SetSegmentInfo, Larger
  <2> QED BY <1>3, <2>1, <2>2, SMT DEF SaveRow, SetSegmentInfo
<1>4. CASE Rename(t)
  <2>1. seg[t] \in Segments
    BY <1>4, SMT DEF Rename, TaskShape
  <2> QED BY <1>4, <2>1, SMT DEF Rename
<1>5. CASE RenameFails(t)
  BY <1>5, SMT DEF RenameFails
<1>6. CASE Count(t)
  <2>1. seg[t] \in Segments
    BY <1>6, SMT DEF Count, TaskShape
  <2>2. total' \in 0 .. Modulus - 1
    <3>1. total \in Int /\ len[t] \in Int
      <4>1. len[t] \in Lengths
        OBVIOUS
      <4>2. total \in Int
        BY StoreConstants, SMT
      <4> QED BY <4>1, <4>2, LengthInt
    <3> QED BY <1>6, <3>1, CounterInRange DEF Count
  <2>3. /\ stage' \in [Tasks -> Stages]
        /\ seg' \in [Tasks -> Segments \cup {NoSegment}]
        /\ len' \in [Tasks -> Lengths]
    BY <1>6, LengthInt, SMT DEF Count
  <2>4. touching' \subseteq Segments
    BY <1>6, <2>1 DEF Count
  <2> QED BY <1>6, <2>2, <2>3, <2>4 DEF Count
<1>7. CASE Unrow(t)
  <2>1. /\ stage' \in [Tasks -> Stages]
        /\ seg' \in [Tasks -> Segments \cup {NoSegment}]
        /\ len' \in [Tasks -> Lengths]
    BY <1>7, LengthInt, SMT DEF Unrow
  <2>2. accessed' \subseteq rows
    BY <1>7 DEF Unrow, DeleteSegmentLocal
  <2>3. overlap' \in BOOLEAN
    BY <1>7 DEF Unrow
  <2> QED BY <1>7, <2>1, <2>2, <2>3 DEF Unrow
<1> QED BY <1>1, <1>2, <1>3, <1>4, <1>5, <1>6, <1>7 DEF Fill

(***************************************************************************)
(* The other writers of the table keep the types.                          *)
(***************************************************************************)
LEMMA RowTypes ==
    ASSUME IInv, NEW s \in Segments, Touch(s) \/ TimeRow(s)
    PROVE  Types'
<1> USE DEF IInv, Types, guards, fills, table, files, purge
<1>1. CASE Touch(s)
  BY <1>1, SMT DEF Touch, SetLastAccessTime
<1>2. CASE TimeRow(s)
  <2>1. size' \in [Segments -> Lengths]
    BY <1>2, LengthInt, SMT DEF TimeRow, SetSegmentInfo, Larger
  <2> QED BY <1>2, <2>1 DEF TimeRow, SetSegmentInfo
<1> QED BY <1>1, <1>2

(***************************************************************************)
(* The cleanup's own record keeps its type.                                *)
(***************************************************************************)
LEMMA CleanupRecordType ==
    ASSUME EvTypes(ev), accessed \subseteq Segments,
           size \in [Segments -> Lengths], Cleanup
    PROVE  EvTypes(ev')
<1>a. ev \in EvRecords
  BY DEF EvTypes
<1>b. OneMore \in Nat
  BY <1>a, SMT DEF OneMore, EvRecords
<1>c. /\ "pick" \in EvStates /\ "query" \in EvStates /\ "sub" \in EvStates
      /\ "unrow" \in EvStates /\ "last" \in EvStates /\ "done" \in EvStates
  BY DEF EvStates
<1>1. CASE EvQuery
  <2>1. PICK B \in SUBSET accessed :
            ev' = [ev EXCEPT !.pc = "pick", !.batch = {<<s, size[s]>> : s \in B}]
    BY <1>1 DEF EvQuery, LeastAccessed
  <2> DEFINE b == {<<s, size[s]>> : s \in B}
  <2>2. b \in Batches
    BY SMT DEF Batches
  <2> HIDE DEF b
  <2>3. ev' = [ev EXCEPT !.pc = "pick", !.batch = b]
    BY <2>1 DEF b
  <2>4. ev' \in EvRecords
    BY <1>a, <1>c, <2>2, <2>3, Zenon DEF EvRecords
  <2>5. ev.seg = NoSegment /\ ev'.seg = ev.seg /\ ev'.pc = "pick"
    BY <1>1, <1>a, <2>3 DEF EvQuery, EvTypes, EvRecords
  <2> QED BY <2>4, <2>5 DEF EvTypes
<1>2. CASE EvQueryFails
  BY <1>2, NewCleanupType DEF EvQueryFails
<1>3. CASE EvAgain
  <2>1. ev' \in EvRecords
    BY <1>3, <1>a, <1>c, Zenon DEF EvAgain, EvRecords
  <2>2. ev.seg = NoSegment /\ ev'.seg = ev.seg /\ ev'.pc = "query"
    BY <1>3, <1>a DEF EvAgain, EvTypes, EvRecords
  <2> QED BY <2>1, <2>2 DEF EvTypes
<1>4. CASE EvSub
  <2>1. ev' \in EvRecords
    BY <1>4, <1>a, <1>c, LengthInt, Zenon DEF EvSub, EvRecords
  <2>2. ev.seg # NoSegment /\ ev'.seg = ev.seg /\ ev'.pc \in {"unrow", "last"}
    BY <1>4, <1>a DEF EvSub, EvTypes, EvRecords
  <2> QED BY <2>1, <2>2 DEF EvTypes
<1>5. CASE EvUnrow \/ EvUnrowFails
  <2>1. ev' \in EvRecords
    BY <1>5, <1>a, <1>b, <1>c, Zenon DEF EvUnrow, EvUnrowFails, EvRecords
  <2>2. ev'.seg = NoSegment /\ ev'.pc \in {"done", "pick"}
    BY <1>5, <1>a DEF EvUnrow, EvUnrowFails, EvRecords
  <2> QED BY <2>1, <2>2 DEF EvTypes
<1>6. CASE EvDone
  BY <1>6, NewCleanupType DEF EvDone
<1>7. ASSUME NEW x \in ev.batch, EvRemove(x) PROVE EvTypes(ev')
  <2>1. ev.batch \in Batches
    BY <1>a DEF EvRecords
  <2>2. x[1] \in Segments /\ x[2] \in Lengths /\ ev.batch \ {x} \in Batches
    BY <2>1, SMT DEF Batches
  <2>3. ev' \in EvRecords
    BY <1>7, <1>a, <1>c, <2>2, Zenon DEF EvRemove, EvRecords
  <2>4. ev'.seg = x[1] /\ ev'.pc = "sub"
    BY <1>7, <1>a DEF EvRemove, EvRecords
  <2> QED BY <2>2, <2>3, <2>4, StoreConstants DEF EvTypes
<1>8. ASSUME NEW x \in ev.batch, EvRemoveFails(x) PROVE EvTypes(ev')
  <2>1. ev.batch \in Batches
    BY <1>a DEF EvRecords
  <2>2. ev.batch \ {x} \in Batches
    BY <2>1, SMT DEF Batches
  <2>3. ev' \in EvRecords
    BY <1>8, <1>a, <1>b, <2>2, Zenon DEF EvRemoveFails, EvRecords
  <2>4. ev.seg = NoSegment /\ ev'.seg = ev.seg /\ ev'.pc = "pick"
    BY <1>8, <1>a DEF EvRemoveFails, EvTypes, EvRecords
  <2> QED BY <2>3, <2>4 DEF EvTypes
<1> QED BY <1>1, <1>2, <1>3, <1>4, <1>5, <1>6, <1>7, <1>8 DEF Cleanup

(***************************************************************************)
(* What the cleanup writes keeps its types.                                *)
(***************************************************************************)
LEMMA CleanupTypes == IInv /\ Cleanup => Types'
<1> SUFFICES ASSUME IInv, Cleanup PROVE Types'
  OBVIOUS
<1>a. EvTypes(ev')
  <2>1. accessed \subseteq Segments
    BY DEF IInv, Types
  <2> QED BY <2>1, CleanupRecordType DEF IInv, Types
<1> USE DEF IInv, Types, guards, fills, table, files, purge
<1>1. CASE EvQuery
  BY <1>1, <1>a DEF EvQuery
<1>2. CASE EvQueryFails
  BY <1>2, <1>a DEF EvQueryFails
<1>3. CASE EvAgain
  BY <1>3, <1>a DEF EvAgain
<1>4. CASE EvSub
  <2>1. total \in Int /\ ev.size \in Int
    <3>1. ev.size \in Lengths
      BY DEF EvTypes, EvRecords
    <3> QED BY <3>1, LengthInt, SMT
  <2>2. total' \in 0 .. Modulus - 1
    BY <1>4, <2>1, CounterInRange DEF EvSub
  <2> QED BY <1>4, <1>a, <2>2 DEF EvSub
<1>5. CASE EvUnrow \/ EvUnrowFails
  <2>1. accessed' \subseteq rows
    BY <1>5 DEF EvUnrow, EvUnrowFails, DeleteSegmentLocal
  <2>2. overlap' \in BOOLEAN
    BY <1>5 DEF EvUnrow, EvUnrowFails
  <2> QED BY <1>5, <1>a, <2>1, <2>2 DEF EvUnrow, EvUnrowFails
<1>6. CASE EvDone
  BY <1>6, <1>a DEF EvDone
<1>7. ASSUME NEW x \in ev.batch, EvRemove(x) PROVE Types'
  <2>1. x[1] \in Segments
    BY SMT DEF EvTypes, EvRecords, Batches
  <2>2. file' \in [Segments -> Lengths]
    BY <1>7, <2>1, LengthInt, SMT DEF EvRemove
  <2>3. overlap' \in BOOLEAN
    BY <1>7 DEF EvRemove
  <2> QED BY <1>7, <1>a, <2>2, <2>3 DEF EvRemove
<1>8. ASSUME NEW x \in ev.batch, EvRemoveFails(x) PROVE Types'
  BY <1>8, <1>a DEF EvRemoveFails
<1> QED BY <1>1, <1>2, <1>3, <1>4, <1>5, <1>6, <1>7, <1>8 DEF Cleanup

(***************************************************************************)
(* The purge and a restart keep the types.                                 *)
(***************************************************************************)
LEMMA PurgeTypes == IInv /\ Purge => Types'
<1> SUFFICES ASSUME IInv, Purge PROVE Types'
  OBVIOUS
<1> USE DEF IInv, Types, guards, fills, table, files, purge
<1>1. CASE PurgeStart
  <2>1. purges' \in 0 .. MaxPurges
    BY <1>1, StoreConstants, SMT DEF PurgeStart
  <2>2. todo' \subseteq Segments
    BY <1>1, SMT DEF PurgeStart
  <2>3. purging' \in BOOLEAN /\ overlap' \in BOOLEAN
    BY <1>1 DEF PurgeStart
  <2> QED BY <1>1, <2>1, <2>2, <2>3 DEF PurgeStart
<1>2. ASSUME NEW s \in todo, PurgeDelete(s) PROVE Types'
  <2>1. file' \in [Segments -> Lengths]
    BY <1>2, LengthInt, SMT DEF PurgeDelete
  <2>2. todo' \subseteq Segments
    BY <1>2 DEF PurgeDelete
  <2> QED BY <1>2, <2>1, <2>2 DEF PurgeDelete
<1>3. CASE PurgeFails
  BY <1>3 DEF PurgeFails
<1>4. CASE PurgeRows
  <2>1. size' \in [Segments -> Lengths]
    BY <1>4, LengthInt, SMT DEF PurgeRows, DeleteMovieSegmentData
  <2> QED BY <1>4, <2>1 DEF PurgeRows, DeleteMovieSegmentData
<1> QED BY <1>1, <1>2, <1>3, <1>4 DEF Purge

LEMMA CrashTypes == IInv /\ Crash => Types'
<1> SUFFICES ASSUME IInv, Crash PROVE Types'
  OBVIOUS
<1> USE DEF IInv, Types, table, files, Crash
<1>1. EvTypes(ev')
  BY NewCleanupType
<1>2. total' \in 0 .. Modulus - 1
  OBVIOUS
<1>3. crashes' \in 0 .. MaxCrashes
  BY StoreConstants, SMT
<1>4. overlap' \in BOOLEAN
  OBVIOUS
<1>5. /\ stage' \in [Tasks -> Stages]
      /\ seg' \in [Tasks -> Segments \cup {NoSegment}]
      /\ len' \in [Tasks -> Lengths]
  BY LengthInt, SMT DEF Stages
<1> QED BY <1>1, <1>2, <1>3, <1>4, <1>5

(***************************************************************************)
(* Every step keeps the types.                                             *)
(***************************************************************************)
LEMMA StepTypes == IInv /\ [Next]_vars => Types'
<1>1. IInv /\ UNCHANGED vars => Types'
  BY DEF IInv, Types, vars
<1> SUFFICES ASSUME IInv, Next PROVE Types'
  BY <1>1
<1>2. ASSUME NEW r \in Requests, Start(r) \/ Abandon(r) PROVE Types'
  BY <1>2, RequestTypes
<1>3. ASSUME NEW r \in Requests, NEW s \in Segments,
             Hit(r, s) \/ Miss(r, s) \/ Downloaded(r, s)
      PROVE  Types'
  BY <1>3, RequestTypes
<1>4. ASSUME NEW t \in Tasks, Fill(t) PROVE Types'
  BY <1>4, FillTypes
<1>5. ASSUME NEW s \in Segments, Touch(s) \/ TimeRow(s) PROVE Types'
  BY <1>5, RowTypes
<1> QED
  BY <1>2, <1>3, <1>4, <1>5, CleanupTypes, PurgeTypes, CrashTypes DEF Next

-----------------------------------------------------------------------------
(* Locks and fill tasks. *)

(***************************************************************************)
(* A fill task holds the lock of its segment in the guarded stages, and no *)
(* other lock: on every path, failures included.                           *)
(***************************************************************************)
LEMMA FillTaskShape ==
    ASSUME IInv, NEW t \in Tasks, Fill(t)
    PROVE  TaskShape'
<1> USE DEF IInv, Types, TaskShape, Guarded, fills, guards, Become, EndTask,
            DropGuard, Stages
<1>1. CASE Write(t)
  BY <1>1, SMT DEF Write
<1>2. CASE FillFails(t)
  BY <1>2, SMT DEF FillFails
<1>3. CASE SaveRow(t)
  BY <1>3, SMT DEF SaveRow
<1>4. CASE Rename(t)
  BY <1>4, SMT DEF Rename
<1>5. CASE RenameFails(t)
  BY <1>5, SMT DEF RenameFails
<1>6. CASE Count(t)
  BY <1>6, SMT DEF Count
<1>7. CASE Unrow(t)
  BY <1>7, SMT DEF Unrow
<1> QED BY <1>1, <1>2, <1>3, <1>4, <1>5, <1>6, <1>7 DEF Fill

(***************************************************************************)
(* The steps of the other actors touch neither locks nor fill tasks.       *)
(***************************************************************************)
LEMMA Bystanders ==
    ASSUME \/ \E r \in Requests : Start(r)
           \/ \E r \in Requests, s \in Segments : Hit(r, s)
           \/ \E s \in Segments : Touch(s) \/ TimeRow(s)
           \/ Cleanup \/ Purge \/ UNCHANGED vars
    PROVE  UNCHANGED <<holding, stage, seg, len>>
<1> USE DEF guards, fills, vars
<1>1. CASE Cleanup
  BY <1>1 DEF Cleanup, EvQuery, EvQueryFails, EvAgain, EvSub, EvUnrow,
     EvUnrowFails, EvDone, EvRemove, EvRemoveFails
<1>2. CASE Purge
  BY <1>2 DEF Purge, PurgeStart, PurgeDelete, PurgeFails, PurgeRows
<1>3. CASE \E s \in Segments : Touch(s) \/ TimeRow(s)
  BY <1>3 DEF Touch, TimeRow
<1> QED BY <1>1, <1>2, <1>3 DEF Start, Hit

(***************************************************************************)
(* The shape of the fill tasks is kept by every step.                      *)
(***************************************************************************)
LEMMA StepTaskShape == IInv /\ [Next]_vars => TaskShape'
<1> SUFFICES ASSUME IInv, [Next]_vars PROVE TaskShape'
  OBVIOUS
<1> USE DEF IInv, TaskShape
<1>1. ASSUME UNCHANGED <<holding, stage, seg, len>> PROVE TaskShape'
  BY <1>1
<1>2. ASSUME NEW r \in Requests, NEW s \in Segments, Miss(r, s)
      PROVE  TaskShape'
  BY <1>2, StoreConstants, SMT DEF Miss, Lock!Lock, fills
<1>3. ASSUME NEW r \in Requests, NEW s \in Segments, Downloaded(r, s)
      PROVE  TaskShape'
  <2>1. PICK t \in Tasks, n \in Lens :
            /\ stage[t] = "idle"
            /\ Lock!Transfer(r, t, s)
            /\ stage' = [stage EXCEPT ![t] = "write"]
            /\ seg' = [seg EXCEPT ![t] = s]
            /\ len' = [len EXCEPT ![t] = n]
    BY <1>3 DEF Downloaded
  <2>2. n # 0 /\ r \notin Tasks /\ s # NoSegment
    BY StoreConstants
  <2> QED BY <2>1, <2>2, SMT DEF Types, Guarded, Lock!Transfer
<1>4. ASSUME NEW r \in Requests, Abandon(r) PROVE TaskShape'
  BY <1>4, StoreConstants, SMT DEF Abandon, fills
<1>5. CASE Crash
  BY <1>5, StoreConstants, SMT DEF Crash, Guarded
<1> QED BY <1>1, <1>2, <1>3, <1>4, <1>5, Bystanders, FillTaskShape DEF Next

(***************************************************************************)
(* Only a request that found no file takes a lock; a fill task gets it     *)
(* from the request, and all other steps release locks or leave them.      *)
(***************************************************************************)
LEMMA StepHolding ==
    ASSUME IInv, [Next]_vars
    PROVE  \/ holding' \subseteq holding
           \/ \E r \in Requests, s \in Segments : Miss(r, s)
           \/ \E r \in Requests, s \in Segments : Downloaded(r, s)
<1>1. ASSUME NEW r \in Requests, Abandon(r) PROVE holding' \subseteq holding
  BY <1>1 DEF Abandon
<1>2. ASSUME NEW t \in Tasks, Fill(t) PROVE holding' \subseteq holding
  BY <1>2 DEF Fill, Write, FillFails, SaveRow, Rename, RenameFails, Count, Unrow,
     guards, DropGuard
<1>3. CASE Crash
  BY <1>3 DEF Crash
<1> QED BY <1>1, <1>2, <1>3, Bystanders DEF Next

(***************************************************************************)
(* The lock of a segment keeps having one holder.                          *)
(***************************************************************************)
LEMMA StepOneHolder == IInv /\ [Next]_vars => OneHolder'
<1> SUFFICES ASSUME IInv, [Next]_vars PROVE OneHolder'
  OBVIOUS
<1> USE DEF IInv, OneHolder
<1>1. CASE holding' \subseteq holding
  BY <1>1
<1>2. ASSUME NEW r \in Requests, NEW s \in Segments, Miss(r, s)
      PROVE  OneHolder'
  BY <1>2, SMT DEF Miss, Lock!Lock, Types
<1>3. ASSUME NEW r \in Requests, NEW s \in Segments, Downloaded(r, s)
      PROVE  OneHolder'
  <2>1. PICK t \in Tasks : Lock!Transfer(r, t, s)
    BY <1>3 DEF Downloaded
  <2> QED BY <2>1, SMT DEF Lock!Transfer, Types
<1> QED BY <1>1, <1>2, <1>3, StepHolding

-----------------------------------------------------------------------------
(* Files and rows. *)

\* Files are only removed.
FilesShrink == \A s \in Segments : file'[s] \in {0, file[s]}

\* Rows are only added, and sizes only grow.
TableGrows ==
    rows \subseteq rows' /\ \A s \in Segments : size'[s] >= size[s]

(***************************************************************************)
(* Only a rename, the cleanup and a purge change the directory.            *)
(***************************************************************************)
LEMMA FilesMoved ==
    ASSUME [Next]_vars
    PROVE  \/ UNCHANGED file
           \/ \E t \in Tasks : Rename(t)
           \/ \E x \in ev.batch : EvRemove(x)
           \/ Purge
<1> USE DEF files, vars
<1>1. ASSUME NEW r \in Requests, Start(r) \/ Abandon(r) PROVE UNCHANGED file
  BY <1>1 DEF Start, Abandon
<1>2. ASSUME NEW r \in Requests, NEW s \in Segments,
             Hit(r, s) \/ Miss(r, s) \/ Downloaded(r, s)
      PROVE  UNCHANGED file
  BY <1>2 DEF Hit, Miss, Downloaded
<1>3. ASSUME NEW t \in Tasks, Fill(t), ~Rename(t) PROVE UNCHANGED file
  BY <1>3 DEF Fill, Write, FillFails, SaveRow, RenameFails, Count, Unrow
<1>4. ASSUME NEW s \in Segments, Touch(s) \/ TimeRow(s) PROVE UNCHANGED file
  BY <1>4 DEF Touch, TimeRow
<1>5. ASSUME Cleanup, \A x \in ev.batch : ~EvRemove(x) PROVE UNCHANGED file
  BY <1>5 DEF Cleanup, EvQuery, EvQueryFails, EvAgain, EvSub, EvUnrow,
     EvUnrowFails, EvDone, EvRemoveFails
<1>6. Crash => UNCHANGED file
  BY DEF Crash
<1> QED BY <1>1, <1>2, <1>3, <1>4, <1>5, <1>6 DEF Next

(***************************************************************************)
(* No step but a rename puts a file in place.                              *)
(***************************************************************************)
LEMMA StepFiles ==
    ASSUME IInv, [Next]_vars
    PROVE  FilesShrink \/ \E t \in Tasks : Rename(t)
<1> USE DEF FilesShrink, files
<1>1. CASE UNCHANGED file
  BY <1>1
<1>2. ASSUME NEW x, EvRemove(x) PROVE FilesShrink
  BY <1>2, SMT DEF EvRemove, IInv, Types
<1>3. CASE Purge
  <2>1. ASSUME NEW s, PurgeDelete(s) PROVE FilesShrink
    BY <2>1, SMT DEF PurgeDelete, IInv, Types
  <2> QED BY <1>3, <2>1 DEF Purge, PurgeStart, PurgeFails, PurgeRows
<1> QED BY <1>1, <1>2, <1>3, FilesMoved

(***************************************************************************)
(* Sizes are comparable numbers.                                           *)
(***************************************************************************)
LEMMA SizesInt ==
    ASSUME Types
    PROVE  /\ \A s \in Segments : size[s] \in Int /\ file[s] \in Int
           /\ \A t \in Tasks : len[t] \in Int
<1>1. \A s \in Segments : size[s] \in Lengths /\ file[s] \in Lengths
  BY DEF Types
<1>2. \A t \in Tasks : len[t] \in Lengths
  BY DEF Types
<1> QED BY <1>1, <1>2, LengthInt

(***************************************************************************)
(* Only a purge deletes rows, and it has been counted.                     *)
(***************************************************************************)
LEMMA StepTable ==
    ASSUME IInv, [Next]_vars
    PROVE  purges' = 0 => purges = 0 /\ TableGrows
<1>a. UNCHANGED <<rows, size>> => TableGrows
  BY SizesInt, SMT DEF TableGrows, IInv
<1>b. ASSUME UNCHANGED <<rows, size, purges>>
      PROVE  purges' = 0 => purges = 0 /\ TableGrows
  BY <1>a, <1>b
<1> USE DEF table, purge
<1>1. ASSUME NEW r \in Requests, Start(r) \/ Abandon(r)
      PROVE  UNCHANGED <<rows, size, purges>>
  BY <1>1 DEF Start, Abandon
<1>2. ASSUME NEW r \in Requests, NEW s \in Segments,
             Hit(r, s) \/ Miss(r, s) \/ Downloaded(r, s)
      PROVE  UNCHANGED <<rows, size, purges>>
  BY <1>2 DEF Hit, Miss, Downloaded
<1>3. ASSUME NEW t \in Tasks, Fill(t), ~SaveRow(t)
      PROVE  UNCHANGED <<rows, size, purges>>
  BY <1>3 DEF Fill, Write, FillFails, Rename, RenameFails, Count, Unrow
<1>4. ASSUME NEW t \in Tasks, SaveRow(t) PROVE UNCHANGED purges /\ TableGrows
  <2>1. seg[t] \in Segments
    BY <1>4, SMT DEF SaveRow, IInv, TaskShape, Types
  <2>2. \A s \in Segments : size'[s] >= size[s]
    BY <1>4, <2>1, SizesInt, SMT DEF SaveRow, SetSegmentInfo, Larger, IInv, Types
  <2> QED BY <1>4, <2>2 DEF SaveRow, SetSegmentInfo, TableGrows
<1>5. ASSUME NEW s \in Segments, Touch(s) \/ TimeRow(s)
      PROVE  UNCHANGED purges /\ TableGrows
  <2>1. CASE Touch(s)
    BY <1>a, <2>1 DEF Touch
  <2>2. CASE TimeRow(s)
    BY <2>2, SizesInt, SMT DEF TimeRow, SetSegmentInfo, Larger,
       TableGrows, IInv, Types
  <2> QED BY <1>5, <2>1, <2>2
<1>6. CASE Cleanup
  <2>1. UNCHANGED <<rows, size, purges>>
    BY <1>6 DEF Cleanup, EvQuery, EvQueryFails, EvAgain, EvSub, EvUnrow,
       EvUnrowFails, EvDone, EvRemove, EvRemoveFails
  <2> QED BY <1>b, <2>1
<1>7. CASE Purge
  <2>1. CASE PurgeStart
    BY <2>1, SMT DEF PurgeStart, IInv, Types
  <2>2. ASSUME NEW s, PurgeDelete(s) PROVE UNCHANGED <<rows, size, purges>>
    BY <2>2 DEF PurgeDelete
  <2>3. CASE PurgeFails
    BY <1>b, <2>3 DEF PurgeFails
  <2>4. CASE PurgeRows
    BY <2>4 DEF PurgeRows, IInv, PurgeCounted
  <2> QED BY <1>7, <1>b, <2>1, <2>2, <2>3, <2>4 DEF Purge
<1>8. CASE Crash
  BY <1>b, <1>8 DEF Crash
<1> QED
  BY <1>b, <1>1, <1>2, <1>3, <1>4, <1>5, <1>6, <1>7, <1>8 DEF Next, vars

(***************************************************************************)
(* A running purge stays counted.                                          *)
(***************************************************************************)
LEMMA StepPurgeCounted == IInv /\ [Next]_vars => PurgeCounted'
<1> SUFFICES ASSUME IInv, [Next]_vars PROVE PurgeCounted'
  OBVIOUS
<1> USE DEF IInv, PurgeCounted, purge
<1>1. CASE Purge
  <2>1. purges + 1 # 0
    BY SMT DEF Types
  <2> QED
    BY <1>1, <2>1 DEF Purge, PurgeStart, PurgeDelete, PurgeFails, PurgeRows
<1>2. CASE Crash
  BY <1>2 DEF Crash
<1>3. CASE Cleanup
  BY <1>3 DEF Cleanup, EvQuery, EvQueryFails, EvAgain, EvSub, EvUnrow,
     EvUnrowFails, EvDone, EvRemove, EvRemoveFails
<1>4. ASSUME NEW t \in Tasks, Fill(t) PROVE PurgeCounted'
  BY <1>4 DEF Fill, Write, FillFails, SaveRow, Rename, RenameFails, Count, Unrow
<1>5. ASSUME NEW s \in Segments, Touch(s) \/ TimeRow(s) PROVE PurgeCounted'
  BY <1>5 DEF Touch, TimeRow
<1>6. ASSUME NEW r \in Requests, Start(r) \/ Abandon(r) PROVE PurgeCounted'
  BY <1>6 DEF Start, Abandon
<1>7. ASSUME NEW r \in Requests, NEW s \in Segments,
             Hit(r, s) \/ Miss(r, s) \/ Downloaded(r, s)
      PROVE  PurgeCounted'
  BY <1>7 DEF Hit, Miss, Downloaded
<1> QED BY <1>1, <1>2, <1>3, <1>4, <1>5, <1>6, <1>7 DEF Next, vars

(***************************************************************************)
(* While a segment is locked its file stays absent.                        *)
(***************************************************************************)
LEMMA StepFillsMissing == IInv /\ [Next]_vars => FillsMissingSegment'
<1> SUFFICES ASSUME IInv, [Next]_vars,
                    NEW h \in Requests \cup Tasks, NEW s \in Segments,
                    <<h, s>> \in holding'
             PROVE  file'[s] = 0
  BY DEF FillsMissingSegment
<1> USE DEF IInv
<1>1. ASSUME NEW t \in Tasks, Rename(t) PROVE file'[s] = 0
  <2>1. /\ holding' = holding \ {<<t, seg[t]>>}
        /\ file' = [file EXCEPT ![seg[t]] = len[t]]
        /\ <<t, seg[t]>> \in holding
    BY <1>1, SMT DEF Rename, DropGuard, TaskShape, Guarded, Types
  <2>2. s # seg[t]
    BY <2>1, SMT DEF OneHolder
  <2>3. file[s] = 0
    BY <2>1 DEF FillsMissingSegment
  <2> QED BY <2>1, <2>2, <2>3 DEF Types
<1>2. ASSUME FilesShrink, holding' \subseteq holding PROVE file'[s] = 0
  BY <1>2 DEF FilesShrink, FillsMissingSegment
<1>3. ASSUME NEW r \in Requests, NEW q \in Segments, Miss(r, q)
      PROVE  file'[s] = 0
  BY <1>3, SMT DEF Miss, Lock!Lock, files, FillsMissingSegment
<1>4. ASSUME NEW r \in Requests, NEW q \in Segments, Downloaded(r, q)
      PROVE  file'[s] = 0
  <2>1. PICK t \in Tasks : Lock!Transfer(r, t, q)
    BY <1>4 DEF Downloaded
  <2> QED BY <1>4, <2>1, SMT DEF Downloaded, Lock!Transfer, files,
     FillsMissingSegment
<1> QED BY <1>1, <1>2, <1>3, <1>4, StepHolding, StepFiles

(***************************************************************************)
(* A task that is about to rename has a row that covers its file.          *)
(***************************************************************************)
LEMMA StepRowSaved == IInv /\ [Next]_vars => RowSaved'
<1> SUFFICES ASSUME IInv, [Next]_vars, purges' = 0,
                    NEW t \in Tasks, stage'[t] = "rename"
             PROVE  seg'[t] \in rows' /\ size'[seg'[t]] >= len'[t]
  BY DEF RowSaved
<1> USE DEF IInv
<1>a. purges = 0 /\ TableGrows
  BY StepTable
<1>1. ASSUME stage[t] = "rename", seg'[t] = seg[t], len'[t] = len[t]
      PROVE  seg'[t] \in rows' /\ size'[seg'[t]] >= len'[t]
  <2>1. seg[t] \in Segments /\ seg[t] \in rows /\ size[seg[t]] >= len[t]
    BY <1>a, <1>1, SMT DEF RowSaved, Types, TaskShape
  <2>2. size'[seg[t]] >= size[seg[t]] /\ seg[t] \in rows'
    BY <1>a, <2>1 DEF TableGrows
  <2>3. size'[seg[t]] \in Int
    <3>1. Types'
      BY StepTypes
    <3>2. size'[seg[t]] \in Lengths
      BY <2>1, <3>1 DEF Types
    <3> QED BY <3>2, LengthInt
  <2> QED BY <1>1, <2>1, <2>2, <2>3, SizesInt, SMT
<1>2. ASSUME UNCHANGED <<stage, seg, len>>
      PROVE  seg'[t] \in rows' /\ size'[seg'[t]] >= len'[t]
  BY <1>1, <1>2
<1>3. ASSUME NEW u \in Tasks, SaveRow(u)
      PROVE  seg'[t] \in rows' /\ size'[seg'[t]] >= len'[t]
  <2>1. UNCHANGED <<seg, len>>
    BY <1>3 DEF SaveRow
  <2>2. CASE t # u
    BY <1>1, <1>3, <2>1, <2>2, SMT DEF SaveRow, Become, Types
  <2>3. CASE t = u
    <3>1. seg[t] \in Segments
      BY <1>3, <2>3, SMT DEF SaveRow, Types, TaskShape
    <3>2. seg[t] \in rows' /\ size'[seg[t]] = Larger(size[seg[t]], len[t])
      BY <1>3, <2>3, <3>1, SMT DEF SaveRow, SetSegmentInfo, Types
    <3> QED BY <2>1, <3>1, <3>2, SizesInt, SMT DEF Larger
  <2> QED BY <2>2, <2>3
<1>4. ASSUME NEW u \in Tasks, Fill(u), ~SaveRow(u)
      PROVE  stage[t] = "rename" /\ seg'[t] = seg[t] /\ len'[t] = len[t]
  <2>1. t # u
    BY <1>4, SMT DEF Fill, Write, FillFails, Rename, RenameFails, Count, Unrow,
       Become, EndTask, Types
  <2> QED BY <1>4, <2>1, SMT DEF Fill, Write, FillFails, Rename, RenameFails,
     Count, Unrow, Become, EndTask, Types
<1>5. ASSUME NEW r \in Requests, NEW s \in Segments, Downloaded(r, s)
      PROVE  stage[t] = "rename" /\ seg'[t] = seg[t] /\ len'[t] = len[t]
  BY <1>5, SMT DEF Downloaded, Types
<1>6. CASE Crash
  BY <1>6 DEF Crash
<1>7. ASSUME NEW r \in Requests, NEW s, Miss(r, s) \/ Abandon(r)
      PROVE  UNCHANGED <<stage, seg, len>>
  BY <1>7 DEF Miss, Abandon, fills
<1> QED
  BY <1>1, <1>2, <1>3, <1>4, <1>5, <1>6, <1>7, Bystanders DEF Next

(***************************************************************************)
(* While no purge has run, a file always has a row that covers it.         *)
(***************************************************************************)
LEMMA StepFileBacked == IInv /\ [Next]_vars => FileBackedByRow'
<1> SUFFICES ASSUME IInv, [Next]_vars, purges' = 0,
                    NEW s \in Segments, file'[s] # 0
             PROVE  s \in rows' /\ size'[s] >= file'[s]
  BY DEF FileBackedByRow
<1> USE DEF IInv
<1>a. purges = 0 /\ rows \subseteq rows' /\ size'[s] >= size[s]
  BY StepTable DEF TableGrows
<1>b. size'[s] \in Int /\ file'[s] \in Int /\ size[s] \in Int
  <2>1. Types'
    BY StepTypes
  <2>2. size'[s] \in Lengths /\ file'[s] \in Lengths
    BY <2>1 DEF Types
  <2> QED BY <2>2, LengthInt, SizesInt
<1>1. CASE FilesShrink
  <2>1. file'[s] = file[s]
    BY <1>1 DEF FilesShrink
  <2>2. s \in rows /\ size[s] >= file[s]
    BY <1>a, <2>1 DEF FileBackedByRow
  <2> QED BY <1>a, <1>b, <2>1, <2>2, SMT
<1>2. ASSUME NEW t \in Tasks, Rename(t)
      PROVE  s \in rows' /\ size'[s] >= file'[s]
  <2>1. seg[t] \in rows /\ size[seg[t]] >= len[t]
    BY <1>a, <1>2 DEF RowSaved, Rename
  <2>2. UNCHANGED <<rows, size>> /\ file' = [file EXCEPT ![seg[t]] = len[t]]
    BY <1>2 DEF Rename, table
  <2>3. CASE s = seg[t]
    BY <2>1, <2>2, <2>3 DEF Types
  <2>4. CASE s # seg[t]
    BY <1>a, <2>2, <2>4 DEF FileBackedByRow, Types
  <2> QED BY <2>3, <2>4
<1> QED BY <1>1, <1>2, StepFiles

-----------------------------------------------------------------------------
(***************************************************************************)
(* The inductive invariant holds in every reachable state.                 *)
(***************************************************************************)
THEOREM Invariant == Spec => []IInv
<1>1. Init => IInv
  BY InitIInv
<1>2. IInv /\ [Next]_vars => IInv'
  BY StepTypes, StepTaskShape, StepOneHolder, StepFillsMissing,
     StepPurgeCounted, StepRowSaved, StepFileBacked DEF IInv
<1> QED BY <1>1, <1>2, PTL DEF Spec

(***************************************************************************)
(* The types are right, and a fill task holds its guard exactly as long as *)
(* the code says, on every path.                                           *)
(***************************************************************************)
THEOREM TypeCorrect == Spec => []TypeOK
<1>1. IInv => TypeOK
  BY DEF IInv, TypeOK
<1> QED BY <1>1, Invariant, PTL

(***************************************************************************)
(* Two fill tasks never store the same segment at once, although the guard *)
(* moves from the request to the task and takes part in no other lock.     *)
(***************************************************************************)
THEOREM OneFill == Spec => []OneFillPerSegment
<1>1. IInv => OneFillPerSegment
  <2> SUFFICES ASSUME IInv, NEW t \in Tasks, NEW u \in Tasks,
                      stage[t] \in Guarded, stage[u] \in Guarded,
                      seg[t] = seg[u]
               PROVE  t = u
    BY DEF OneFillPerSegment
  <2>1. seg[t] \in Segments
    BY DEF IInv, TaskShape, Types, Guarded
  <2>2. <<t, seg[t]>> \in holding /\ <<u, seg[t]>> \in holding
    BY <2>1 DEF IInv, TaskShape
  <2> QED BY <2>2, SMT DEF IInv, OneHolder
<1> QED BY <1>1, Invariant, PTL

(***************************************************************************)
(* What is being downloaded or stored is not on disk, although the cleanup *)
(* and the purge run without the lock.                                     *)
(***************************************************************************)
THEOREM FillsMissing == Spec => []FillsMissingSegment
<1>1. IInv => FillsMissingSegment
  BY DEF IInv
<1> QED BY <1>1, Invariant, PTL

(***************************************************************************)
(* Until a purge runs every file has a row that covers it: no failure and  *)
(* no restart leaves a file that the table does not know.                  *)
(***************************************************************************)
THEOREM RowBacking == Spec => []FileBackedByRow
<1>1. IInv => FileBackedByRow
  BY DEF IInv
<1> QED BY <1>1, Invariant, PTL

(***************************************************************************)
(* A cached file is never replaced: a rename meets no file, because its    *)
(* task holds the lock and found none, and all other steps remove files.   *)
(***************************************************************************)
THEOREM CachedFilesFixed == Spec => NoOverwrite
<1>1. ASSUME IInv, [Next]_vars, NEW s \in Segments, file[s] # 0
      PROVE  file'[s] \in {0, file[s]}
  <2>1. ASSUME NEW t \in Tasks, Rename(t) PROVE file'[s] = file[s]
    <3>1. <<t, seg[t]>> \in holding /\ seg[t] \in Segments
      BY <1>1, <2>1, SMT DEF Rename, IInv, TaskShape, Guarded, Types
    <3>2. file[seg[t]] = 0
      BY <1>1, <3>1 DEF IInv, FillsMissingSegment
    <3>3. s # seg[t]
      BY <1>1, <3>2
    <3> QED BY <1>1, <2>1, <3>3 DEF Rename, IInv, Types
  <2> QED BY <1>1, <2>1, StepFiles DEF FilesShrink
<1>2. IInv /\ [Next]_vars =>
        [\A s \in Segments : file[s] # 0 => file'[s] \in {0, file[s]}]_vars
  BY <1>1
<1> QED BY <1>2, Invariant, PTL DEF Spec, NoOverwrite

-----------------------------------------------------------------------------
(* Sums of sizes. *)

\* The order of the natural numbers, as a set of pairs.
Less == {p \in Nat \X Nat : p[1] < p[2]}

(***************************************************************************)
(* Induction over the natural numbers, for a set instead of a predicate.   *)
(***************************************************************************)
LEMMA Inductive ==
    ASSUME NEW N, 0 \in N, \A n \in Nat : n \in N => n + 1 \in N
    PROVE  Nat \subseteq N
<1> DEFINE T == Nat \ N
<1> SUFFICES ASSUME T # {} PROVE FALSE
  OBVIOUS
<1>1. IsWellFoundedOn(Less, Nat)
  <2>1. OpToRel(<, Nat) = Less
    BY DEF OpToRel, Less
  <2> QED BY <2>1, NatLessThanWellFounded
<1>2. PICK m \in T : \A n \in T : ~ (<<n, m>> \in Less)
  BY <1>1, WFMin
<1>3. m \in Nat /\ m # 0 /\ m - 1 \in Nat /\ m - 1 < m
  BY SMT
<1>4. <<m - 1, m>> \in Less
  BY <1>3 DEF Less
<1>5. m - 1 \in N
  BY <1>2, <1>3, <1>4
<1>6. m = (m - 1) + 1
  BY <1>3
<1> QED BY <1>3, <1>5, <1>6

(***************************************************************************)
(* Induction over the subsets of a finite set, for a family of them.       *)
(***************************************************************************)
LEMMA SubsetInduction ==
    ASSUME NEW S, IsFiniteSet(S), NEW F,
           \A T \in SUBSET S : (\A x \in T : T \ {x} \in F) => T \in F
    PROVE  SUBSET S \subseteq F
<1> DEFINE N == {n \in Nat : \A T \in SUBSET S : Cardinality(T) <= n => T \in F}
<1>a. \A T \in SUBSET S : IsFiniteSet(T) /\ Cardinality(T) \in Nat
  BY FS_Subset, FS_CardinalityType
<1>b. \A T \in SUBSET S : \A x \in T :
         T \ {x} \in SUBSET S /\ Cardinality(T \ {x}) = Cardinality(T) - 1
  BY <1>a, FS_RemoveElement, Zenon
<1>1. 0 \in N
  <2> SUFFICES ASSUME NEW T \in SUBSET S, Cardinality(T) <= 0 PROVE T \in F
    BY DEF N
  <2>1. T = {}
    BY <1>a, FS_EmptySet
  <2> QED BY <2>1
<1>2. ASSUME NEW n \in Nat, n \in N PROVE n + 1 \in N
  <2> SUFFICES ASSUME NEW T \in SUBSET S, Cardinality(T) <= n + 1 PROVE T \in F
    BY SMT
  <2>1. ASSUME NEW x \in T PROVE T \ {x} \in F
    <3>1. Cardinality(T \ {x}) <= n
      <4>1. Cardinality(T \ {x}) = Cardinality(T) - 1 /\ Cardinality(T) \in Nat
        BY <1>a, <1>b
      <4> QED BY <4>1, SMT
    <3> QED BY <1>2, <1>b, <3>1
  <2> QED BY <2>1
<1>3. Nat \subseteq N
  <2> HIDE DEF N
  <2> QED BY <1>1, <1>2, Inductive
<1> SUFFICES ASSUME NEW T \in SUBSET S PROVE T \in F
  OBVIOUS
<1>4. Cardinality(T) \in N /\ Cardinality(T) <= Cardinality(T)
  BY <1>a, <1>3
<1> QED BY <1>4

Pick(S) == CHOOSE x \in S : TRUE

\* What the recursion of SumFunctionOnSet says of g at a set s.
SumAt(f, g, s) == g[s] = IF s = {} THEN 0 ELSE f[Pick(s)] + g[s \ {Pick(s)}]

\* The sums over all subsets of S, as SumFunctionOnSet defines them.
Sums(f, S, g) ==
    g = [s \in SUBSET S |-> IF s = {} THEN 0 ELSE f[Pick(s)] + g[s \ {Pick(s)}]]

LEMMA SumsExist ==
    ASSUME NEW S, IsFiniteSet(S), NEW f
    PROVE  \E g : Sums(f, S, g)
<1> DEFINE P(n, g) ==
       /\ g = [s \in SUBSET S |-> g[s]]
       /\ \A s \in SUBSET S : Cardinality(s) <= n => SumAt(f, g, s)
<1> DEFINE N == {n \in Nat : \E g : P(n, g)}
<1>a. \A s \in SUBSET S : IsFiniteSet(s) /\ Cardinality(s) \in Nat
  BY FS_Subset, FS_CardinalityType
<1>b. \A s \in SUBSET S : s # {} =>
         /\ Pick(s) \in s
         /\ s \ {Pick(s)} \in SUBSET S
         /\ Cardinality(s \ {Pick(s)}) = Cardinality(s) - 1
  <2> SUFFICES ASSUME NEW s \in SUBSET S, s # {}
               PROVE  /\ Pick(s) \in s
                      /\ s \ {Pick(s)} \in SUBSET S
                      /\ Cardinality(s \ {Pick(s)}) = Cardinality(s) - 1
    OBVIOUS
  <2>1. Pick(s) \in s
    BY DEF Pick
  <2> QED BY <1>a, <2>1, FS_RemoveElement, Zenon
<1>1. 0 \in N
  <2> DEFINE g == [s \in SUBSET S |-> 0]
  <2>1. P(0, g)
    <3> SUFFICES ASSUME NEW s \in SUBSET S, Cardinality(s) <= 0
                 PROVE  SumAt(f, g, s)
      OBVIOUS
    <3>1. s = {}
      BY <1>a, FS_EmptySet
    <3> QED BY <3>1 DEF SumAt
  <2> QED BY <2>1
<1>2. ASSUME NEW n \in Nat, n \in N PROVE n + 1 \in N
  <2>1. PICK g : P(n, g)
    BY <1>2
  <2> DEFINE h == [s \in SUBSET S |->
                     IF Cardinality(s) <= n THEN g[s]
                     ELSE f[Pick(s)] + g[s \ {Pick(s)}]]
  <2>2. P(n + 1, h)
    <3>1. h = [s \in SUBSET S |-> h[s]]
      OBVIOUS
    <3>2. ASSUME NEW s \in SUBSET S, Cardinality(s) <= n + 1
          PROVE  SumAt(f, h, s)
      <4>1. CASE s = {}
        <5>1. Cardinality(s) <= n
          BY <4>1, FS_EmptySet
        <5>2. h[s] = g[s] /\ SumAt(f, g, s)
          BY <2>1, <5>1
        <5> QED BY <4>1, <5>2 DEF SumAt
      <4>2. CASE s # {}
        <5> DEFINE r == s \ {Pick(s)}
        <5>1. r \in SUBSET S /\ Cardinality(r) <= n
          <6>1. r \in SUBSET S /\ Cardinality(r) = Cardinality(s) - 1
                /\ Cardinality(s) \in Nat
            BY <1>a, <1>b, <4>2
          <6> QED BY <6>1, <3>2, SMT
        <5>2. h[r] = g[r]
          BY <5>1
        <5>3. h[s] = f[Pick(s)] + g[r]
          <6>1. CASE Cardinality(s) <= n
            BY <2>1, <4>2, <6>1 DEF SumAt
          <6>2. CASE ~(Cardinality(s) <= n)
            BY <6>2
          <6> QED BY <6>1, <6>2
        <5> QED BY <4>2, <5>2, <5>3 DEF SumAt
      <4> QED BY <4>1, <4>2
    <3> QED BY <3>1, <3>2
  <2> HIDE DEF h
  <2>3. \E k : P(n + 1, k)
    BY <2>2
  <2> HIDE DEF P
  <2> QED BY <2>3
<1>3. Nat \subseteq N
  <2> HIDE DEF N
  <2> QED BY <1>1, <1>2, Inductive
<1>4. Cardinality(S) \in N
  BY <1>a, <1>3
<1>5. PICK g : P(Cardinality(S), g)
  BY <1>4
<1>6. \A s \in SUBSET S : SumAt(f, g, s)
  BY <1>5, FS_Subset
<1>7. [s \in SUBSET S |-> g[s]] =
        [s \in SUBSET S |->
           IF s = {} THEN 0 ELSE f[Pick(s)] + g[s \ {Pick(s)}]]
  BY <1>6 DEF SumAt
<1> QED BY <1>5, <1>7, Zenon DEF Sums

(***************************************************************************)
(* Two of them agree.                                                      *)
(***************************************************************************)
LEMMA SumsAgree ==
    ASSUME NEW S, IsFiniteSet(S), NEW f, NEW g, NEW h, NEW R \in SUBSET S,
           Sums(f, S, g), Sums(f, R, h)
    PROVE  g[R] = h[R]
<1> DEFINE F == {s \in SUBSET R : g[s] = h[s]}
<1>a. IsFiniteSet(R)
  BY FS_Subset
<1>1. ASSUME NEW s \in SUBSET R, \A x \in s : s \ {x} \in F
      PROVE  g[s] = h[s]
  <2>1. g[s] = IF s = {} THEN 0 ELSE f[Pick(s)] + g[s \ {Pick(s)}]
    BY Zenon DEF Sums
  <2>2. h[s] = IF s = {} THEN 0 ELSE f[Pick(s)] + h[s \ {Pick(s)}]
    BY Zenon DEF Sums
  <2>3. s # {} => g[s \ {Pick(s)}] = h[s \ {Pick(s)}]
    BY <1>1 DEF Pick
  <2> QED BY <2>1, <2>2, <2>3
<1>2. SUBSET R \subseteq F
  <2>1. \A s \in SUBSET R : (\A x \in s : s \ {x} \in F) => s \in F
    BY <1>1
  <2> HIDE DEF F
  <2> QED BY <1>a, <2>1, SubsetInduction
<1> QED BY <1>2

(***************************************************************************)
(* The sum over a set is the element it chooses and the sum over the rest. *)
(***************************************************************************)
LEMMA SumUnfold ==
    ASSUME NEW S, IsFiniteSet(S), NEW f
    PROVE  /\ S = {} => SumFunctionOnSet(f, S) = 0
           /\ S # {} => SumFunctionOnSet(f, S) =
                           f[Pick(S)] + SumFunctionOnSet(f, S \ {Pick(S)})
<1> DEFINE Whole(R) == CHOOSE g : Sums(f, R, g)
<1>1. \A R : SumFunctionOnSet(f, R) = Whole(R)[R]
  BY DEF SumFunctionOnSet, FoldFunctionOnSet, MapThenFoldSet, Sums, Pick
<1>2. \A R \in SUBSET S : Sums(f, R, Whole(R))
  <2> SUFFICES ASSUME NEW R \in SUBSET S PROVE Sums(f, R, Whole(R))
    OBVIOUS
  <2>1. \E g : Sums(f, R, g)
    BY FS_Subset, SumsExist
  <2> QED BY <2>1
<1> HIDE DEF Whole
<1>3. Sums(f, S, Whole(S))
  BY <1>2
<1>4. Whole(S)[S] = IF S = {} THEN 0
                    ELSE f[Pick(S)] + Whole(S)[S \ {Pick(S)}]
  BY <1>3, Zenon DEF Sums
<1>5. ASSUME NEW R \in SUBSET S PROVE Whole(S)[R] = Whole(R)[R]
  <2>1. Sums(f, R, Whole(R))
    BY <1>2
  <2> QED BY <1>3, <2>1, SumsAgree
<1>6. S \ {Pick(S)} \in SUBSET S
  OBVIOUS
<1> QED BY <1>1, <1>4, <1>5, <1>6

(***************************************************************************)
(* Sums stay in a set of numbers that is closed under addition.            *)
(***************************************************************************)
LEMMA SumClosed ==
    ASSUME NEW S, IsFiniteSet(S), NEW D, 0 \in D, \A a, b \in D : a + b \in D,
           NEW f, \A s \in S : f[s] \in D
    PROVE  \A T \in SUBSET S : SumFunctionOnSet(f, T) \in D
<1> DEFINE F == {T \in SUBSET S : SumFunctionOnSet(f, T) \in D}
<1>1. ASSUME NEW T \in SUBSET S, \A x \in T : T \ {x} \in F
      PROVE  SumFunctionOnSet(f, T) \in D
  <2>1. IsFiniteSet(T)
    BY FS_Subset
  <2>2. CASE T = {}
    BY <2>1, <2>2, SumUnfold
  <2>3. CASE T # {}
    <3>1. Pick(T) \in T
      BY <2>3 DEF Pick
    <3>2. f[Pick(T)] \in D /\ SumFunctionOnSet(f, T \ {Pick(T)}) \in D
      BY <1>1, <3>1
    <3> QED BY <2>1, <2>3, <3>2, SumUnfold
  <2> QED BY <2>2, <2>3
<1>2. \A T \in SUBSET S : (\A x \in T : T \ {x} \in F) => T \in F
  BY <1>1
<1>3. SUBSET S \subseteq F
  <2> HIDE DEF F
  <2> QED BY <1>2, SubsetInduction
<1> QED BY <1>3

(***************************************************************************)
(* The sum of integers is an integer.                                      *)
(***************************************************************************)
LEMMA SumInt ==
    ASSUME NEW S, IsFiniteSet(S), NEW f, \A s \in S : f[s] \in Int
    PROVE  \A T \in SUBSET S : SumFunctionOnSet(f, T) \in Int
<1>1. 0 \in Int /\ \A a, b \in Int : a + b \in Int
  OBVIOUS
<1> QED BY <1>1, SumClosed, Zenon

(***************************************************************************)
(* The sum of natural numbers is a natural number.                         *)
(***************************************************************************)
LEMMA SumNat ==
    ASSUME NEW S, IsFiniteSet(S), NEW f, \A s \in S : f[s] \in Nat
    PROVE  \A T \in SUBSET S : SumFunctionOnSet(f, T) \in Nat
<1>1. 0 \in Nat /\ \A a, b \in Nat : a + b \in Nat
  OBVIOUS
<1> QED BY <1>1, SumClosed, Zenon

(***************************************************************************)
(* Any element can be taken out of a sum, whichever it chooses itself.     *)
(***************************************************************************)
LEMMA SumTakeOut ==
    ASSUME NEW S, IsFiniteSet(S), NEW f, \A s \in S : f[s] \in Int
    PROVE  \A x \in S : SumFunctionOnSet(f, S) =
                           f[x] + SumFunctionOnSet(f, S \ {x})
<1> DEFINE Sum(T) == SumFunctionOnSet(f, T)
           F == {T \in SUBSET S : \A x \in T : Sum(T) = f[x] + Sum(T \ {x})}
<1>a. \A T \in SUBSET S : Sum(T) \in Int
  BY SumInt
<1>b. \A T \in SUBSET S : T # {} =>
         Pick(T) \in T /\ Sum(T) = f[Pick(T)] + Sum(T \ {Pick(T)})
  <2> SUFFICES ASSUME NEW T \in SUBSET S, T # {}
               PROVE  /\ Pick(T) \in T
                      /\ Sum(T) = f[Pick(T)] + Sum(T \ {Pick(T)})
    OBVIOUS
  <2>1. IsFiniteSet(T)
    BY FS_Subset
  <2> QED BY <2>1, SumUnfold DEF Pick
<1> HIDE DEF Sum
<1>1. ASSUME NEW T \in SUBSET S, \A x \in T : T \ {x} \in F, NEW x \in T
      PROVE  Sum(T) = f[x] + Sum(T \ {x})
  <2> DEFINE c == Pick(T)
  <2>1. c \in T /\ Sum(T) = f[c] + Sum(T \ {c})
    BY <1>b
  <2>2. CASE x = c
    BY <2>1, <2>2
  <2>3. CASE x # c
    <3>1. Sum(T \ {c}) = f[x] + Sum((T \ {c}) \ {x})
      BY <1>1, <2>1, <2>3
    <3>2. Sum(T \ {x}) = f[c] + Sum((T \ {x}) \ {c})
      BY <1>1, <2>1, <2>3
    <3>3. (T \ {c}) \ {x} = (T \ {x}) \ {c}
      OBVIOUS
    <3>4. /\ f[x] \in Int /\ f[c] \in Int
          /\ Sum((T \ {x}) \ {c}) \in Int
      <4>1. (T \ {x}) \ {c} \in SUBSET S
        OBVIOUS
      <4> QED BY <1>a, <2>1, <4>1
    <3>5. Sum((T \ {c}) \ {x}) = Sum((T \ {x}) \ {c})
      BY <3>3
    <3> DEFINE r == Sum((T \ {x}) \ {c})
    <3>6. Sum(T) = f[c] + (f[x] + r) /\ Sum(T \ {x}) = f[c] + r
      BY <2>1, <3>1, <3>2, <3>5, Zenon
    <3>7. f[x] \in Int /\ f[c] \in Int /\ r \in Int
      BY <3>4
    <3> HIDE DEF c, r
    <3> QED BY <3>6, <3>7
  <2> QED BY <2>2, <2>3
<1>2. \A T \in SUBSET S : (\A x \in T : T \ {x} \in F) => T \in F
  BY <1>1
<1>3. SUBSET S \subseteq F
  <2> HIDE DEF F
  <2> QED BY <1>2, SubsetInduction
<1> QED BY <1>3 DEF Sum

(***************************************************************************)
(* Sums of functions that agree on a set are equal.                        *)
(***************************************************************************)
LEMMA SumSame ==
    ASSUME NEW S, IsFiniteSet(S), NEW f, NEW g, \A s \in S : f[s] = g[s]
    PROVE  SumFunctionOnSet(f, S) = SumFunctionOnSet(g, S)
<1> DEFINE F == {T \in SUBSET S : SumFunctionOnSet(f, T) = SumFunctionOnSet(g, T)}
<1>1. ASSUME NEW T \in SUBSET S, \A x \in T : T \ {x} \in F
      PROVE  SumFunctionOnSet(f, T) = SumFunctionOnSet(g, T)
  <2>1. IsFiniteSet(T)
    BY FS_Subset
  <2>2. CASE T = {}
    BY <2>1, <2>2, SumUnfold
  <2>3. CASE T # {}
    <3>1. Pick(T) \in T
      BY <2>3 DEF Pick
    <3>2. /\ f[Pick(T)] = g[Pick(T)]
          /\ SumFunctionOnSet(f, T \ {Pick(T)}) =
             SumFunctionOnSet(g, T \ {Pick(T)})
      BY <1>1, <3>1
    <3> QED BY <2>1, <2>3, <3>2, SumUnfold
  <2> QED BY <2>2, <2>3
<1>2. \A T \in SUBSET S : (\A x \in T : T \ {x} \in F) => T \in F
  BY <1>1
<1>3. SUBSET S \subseteq F
  <2> HIDE DEF F
  <2> QED BY <1>2, SubsetInduction
<1> QED BY <1>3

(***************************************************************************)
(* What is zero adds nothing.                                              *)
(***************************************************************************)
LEMMA SumDropZeros ==
    ASSUME NEW S, IsFiniteSet(S), NEW f, \A s \in S : f[s] \in Int
    PROVE  \A T \in SUBSET S :
              SumFunctionOnSet(f, T) =
                SumFunctionOnSet(f, {s \in T : f[s] # 0})
<1> DEFINE Sum(T) == SumFunctionOnSet(f, T)
           Rest(T) == {s \in T : f[s] # 0}
           F == {T \in SUBSET S : Sum(T) = Sum(Rest(T))}
<1>1. ASSUME NEW T \in SUBSET S, \A x \in T : T \ {x} \in F
      PROVE  Sum(T) = Sum(Rest(T))
  <2>1. CASE Rest(T) = T
    BY <2>1
  <2>2. CASE Rest(T) # T
    <3>1. PICK x \in T : f[x] = 0
      BY <2>2
    <3>2. Rest(T \ {x}) = Rest(T)
      BY <3>1
    <3>3. Sum(T) = f[x] + Sum(T \ {x})
      BY SumTakeOut, FS_Subset
    <3>4. Sum(T \ {x}) \in Int
      BY SumInt
    <3>5. Sum(T) = Sum(T \ {x})
      <4> HIDE DEF Sum
      <4> QED BY <3>1, <3>3, <3>4
    <3>6. T \ {x} \in F
      BY <1>1
    <3> HIDE DEF Sum
    <3> QED BY <3>2, <3>5, <3>6
  <2> QED BY <2>1, <2>2
<1>2. \A T \in SUBSET S : (\A x \in T : T \ {x} \in F) => T \in F
  BY <1>1
<1>3. SUBSET S \subseteq F
  <2> HIDE DEF F
  <2> QED BY <1>2, SubsetInduction
<1> QED BY <1>3

-----------------------------------------------------------------------------
(***************************************************************************)
(* The cleanup and the accounting, until an unlocked step races.           *)
(*                                                                         *)
(* total_file_size follows the files only because each file is counted     *)
(* once (CountingOnce), with the length it has on disk (CountingFile), and *)
(* because the cleanup takes off what it has just removed (EvictedSize).   *)
(* A file keeps its access time because none loses it while it is there    *)
(* or about to be (ArrivingAccessed).                                      *)
(***************************************************************************)

\* Only between remove_file and fetch_sub has the cleanup a size to take off.
EvictedSize == ev.pc # "sub" => ev.size = 0

\* The purge takes no lock, and races from its first step.
PurgeRaces == purging \/ todo # {} => overlap

FilesAccessed == \A s \in Segments : file[s] # 0 => s \in accessed

ArrivingAccessed ==
    \A t \in Tasks : stage[t] = "rename" => seg[t] \in accessed

\* A file waits for one task to count it ...
CountingOnce ==
    \A t, u \in Tasks :
        stage[t] = "count" /\ stage[u] = "count" /\ seg[t] = seg[u] => t = u

\* ... and is still the one this task has stored.
CountingFile == \A t \in Tasks : stage[t] = "count" => file[seg[t]] = len[t]

Accounted == total = SumFunctionOnSet(file, Counted) + ev.size

Calm ==
    /\ FilesAccessed /\ ArrivingAccessed
    /\ CountingOnce /\ CountingFile /\ Accounted

AccInv == IInv /\ EvictedSize /\ PurgeRaces /\ (~overlap => Calm)

(***************************************************************************)
(* Only a restart ends a race.                                             *)
(***************************************************************************)
LEMMA OverlapStays ==
    ASSUME [Next]_vars, overlap, ~Crash
    PROVE  overlap'
<1> USE DEF vars
<1>1. ASSUME NEW r \in Requests, Start(r) \/ Abandon(r) PROVE overlap'
  BY <1>1 DEF Start, Abandon
<1>2. ASSUME NEW r \in Requests, NEW s \in Segments,
             Hit(r, s) \/ Miss(r, s) \/ Downloaded(r, s)
      PROVE  overlap'
  BY <1>2 DEF Hit, Miss, Downloaded
<1>3. ASSUME NEW t \in Tasks, Fill(t) PROVE overlap'
  BY <1>3 DEF Fill, Write, FillFails, SaveRow, Rename, RenameFails, Count, Unrow
<1>4. ASSUME NEW s \in Segments, Touch(s) \/ TimeRow(s) PROVE overlap'
  BY <1>4 DEF Touch, TimeRow
<1>5. CASE Cleanup
  BY <1>5 DEF Cleanup, EvQuery, EvQueryFails, EvAgain, EvSub, EvUnrow,
     EvUnrowFails, EvDone, EvRemove, EvRemoveFails
<1>6. CASE Purge
  BY <1>6 DEF Purge, PurgeStart, PurgeDelete, PurgeFails, PurgeRows
<1> QED BY <1>1, <1>2, <1>3, <1>4, <1>5, <1>6 DEF Next

(***************************************************************************)
(* The purge's steps leave a race behind.                                  *)
(***************************************************************************)
LEMMA StepPurgeRaces ==
    ASSUME AccInv, [Next]_vars
    PROVE  PurgeRaces' /\ (Purge => overlap')
<1> USE DEF AccInv, PurgeRaces, purge
<1>1. CASE Purge
  BY <1>1 DEF Purge, PurgeStart, PurgeDelete, PurgeFails, PurgeRows
<1>2. CASE Crash
  BY <1>2, <1>1 DEF Crash
<1>3. ASSUME UNCHANGED <<purging, todo>>, ~Crash PROVE PurgeRaces'
  BY <1>3, OverlapStays
<1>4. ASSUME NEW r \in Requests, Start(r) \/ Abandon(r)
      PROVE  UNCHANGED <<purging, todo>>
  BY <1>4 DEF Start, Abandon
<1>5. ASSUME NEW r \in Requests, NEW s \in Segments,
             Hit(r, s) \/ Miss(r, s) \/ Downloaded(r, s)
      PROVE  UNCHANGED <<purging, todo>>
  BY <1>5 DEF Hit, Miss, Downloaded
<1>6. ASSUME NEW t \in Tasks, Fill(t) PROVE UNCHANGED <<purging, todo>>
  BY <1>6 DEF Fill, Write, FillFails, SaveRow, Rename, RenameFails, Count, Unrow
<1>7. ASSUME NEW s \in Segments, Touch(s) \/ TimeRow(s)
      PROVE  UNCHANGED <<purging, todo>>
  BY <1>7 DEF Touch, TimeRow
<1>8. Cleanup => UNCHANGED <<purging, todo>>
  BY DEF Cleanup, EvQuery, EvQueryFails, EvAgain, EvSub, EvUnrow,
     EvUnrowFails, EvDone, EvRemove, EvRemoveFails
<1>9. UNCHANGED vars => UNCHANGED <<purging, todo>>
  BY DEF vars
<1> QED BY <1>1, <1>2, <1>3, <1>4, <1>5, <1>6, <1>7, <1>8, <1>9 DEF Next

(***************************************************************************)
(* The evicted size is taken off exactly once.                             *)
(***************************************************************************)
LEMMA StepEvictedSize == AccInv /\ [Next]_vars => EvictedSize'
<1> SUFFICES ASSUME AccInv, [Next]_vars PROVE EvictedSize'
  OBVIOUS
<1> USE DEF EvictedSize
<1>a. EvictedSize /\ ev \in EvRecords
  BY DEF AccInv, IInv, Types, EvTypes
<1>1. ASSUME UNCHANGED ev PROVE EvictedSize'
  BY <1>a, <1>1
<1>2. ASSUME NEW r \in Requests, NEW s \in Segments, Downloaded(r, s)
      PROVE  EvictedSize'
  BY <1>a, <1>2 DEF Downloaded, CheckCleanup, NewCleanup
<1>3. CASE Crash
  <2>1. ev' = NewCleanup \/ ev' = NoCleanup
    BY <1>3 DEF Crash
  <2> QED BY <2>1 DEF NewCleanup, NoCleanup
<1>4. CASE Cleanup
  <2>1. CASE EvQueryFails \/ EvDone
    BY <2>1 DEF EvQueryFails, EvDone, NoCleanup
  <2>2. CASE EvQuery \/ EvAgain
    <3>1. ev.size = 0 /\ ev'.size = ev.size
      BY <1>a, <2>2 DEF EvQuery, EvAgain, EvRecords
    <3> QED BY <3>1
  <2>3. CASE EvSub \/ EvUnrow \/ EvUnrowFails
    BY <1>a, <2>3 DEF EvSub, EvUnrow, EvUnrowFails, EvRecords
  <2>4. ASSUME NEW x \in ev.batch, EvRemove(x) \/ EvRemoveFails(x)
        PROVE  EvictedSize'
    BY <1>a, <2>4 DEF EvRemove, EvRemoveFails, EvRecords
  <2> QED BY <1>4, <2>1, <2>2, <2>3, <2>4 DEF Cleanup
<1>5. ASSUME NEW r \in Requests, Start(r) \/ Abandon(r) PROVE UNCHANGED ev
  BY <1>5 DEF Start, Abandon
<1>6. ASSUME NEW r \in Requests, NEW s \in Segments, Hit(r, s) \/ Miss(r, s)
      PROVE  UNCHANGED ev
  BY <1>6 DEF Hit, Miss
<1>7. ASSUME NEW t \in Tasks, Fill(t) PROVE UNCHANGED ev
  BY <1>7 DEF Fill, Write, FillFails, SaveRow, Rename, RenameFails, Count, Unrow
<1>8. ASSUME NEW s \in Segments, Touch(s) \/ TimeRow(s) PROVE UNCHANGED ev
  BY <1>8 DEF Touch, TimeRow
<1>9. CASE Purge
  BY <1>1, <1>9 DEF Purge, PurgeStart, PurgeDelete, PurgeFails, PurgeRows
<1>10. UNCHANGED vars => UNCHANGED ev
  BY DEF vars
<1> HIDE DEF EvictedSize
<1> QED BY <1>1, <1>2, <1>3, <1>4, <1>5, <1>6, <1>7, <1>8, <1>9, <1>10 DEF Next

(***************************************************************************)
(* A fill task's step moves no other task, and renames only after it has   *)
(* saved a row, counts only after it has renamed.                          *)
(***************************************************************************)
LEMMA FillStage ==
    ASSUME Types, NEW t \in Tasks, Fill(t)
    PROVE  /\ \A u \in Tasks \ {t} :
                 stage'[u] = stage[u] /\ seg'[u] = seg[u] /\ len'[u] = len[u]
           /\ stage'[t] = "rename" => SaveRow(t)
           /\ stage'[t] = "count" => Rename(t)
           /\ stage[t] = "count" => Count(t)
<1> USE DEF Types, Become, EndTask
<1>1. CASE Write(t)
  BY <1>1, SMT DEF Write
<1>2. CASE FillFails(t)
  BY <1>2, SMT DEF FillFails
<1>3. CASE SaveRow(t)
  BY <1>3, SMT DEF SaveRow
<1>4. CASE Rename(t)
  BY <1>4, SMT DEF Rename
<1>5. CASE RenameFails(t)
  BY <1>5, SMT DEF RenameFails
<1>6. CASE Count(t)
  BY <1>6, SMT DEF Count
<1>7. CASE Unrow(t)
  BY <1>7, SMT DEF Unrow
<1> QED BY <1>1, <1>2, <1>3, <1>4, <1>5, <1>6, <1>7 DEF Fill

(***************************************************************************)
(* A task about to rename or to count was there before, or has just saved  *)
(* its row, or has just renamed.                                           *)
(***************************************************************************)
LEMMA StepStage ==
    ASSUME AccInv, [Next]_vars, NEW t \in Tasks,
           stage'[t] \in {"rename", "count"}
    PROVE  \/ stage[t] = stage'[t] /\ seg'[t] = seg[t] /\ len'[t] = len[t]
           \/ stage'[t] = "rename" /\ SaveRow(t)
           \/ stage'[t] = "count" /\ Rename(t)
<1>a. Types
  BY DEF AccInv, IInv
<1>1. ASSUME NEW u \in Tasks, Fill(u)
      PROVE  \/ stage[t] = stage'[t] /\ seg'[t] = seg[t] /\ len'[t] = len[t]
             \/ stage'[t] = "rename" /\ SaveRow(t)
             \/ stage'[t] = "count" /\ Rename(t)
  BY <1>a, <1>1, FillStage
<1>2. ASSUME NEW r \in Requests, NEW s \in Segments, Downloaded(r, s)
      PROVE  stage[t] = stage'[t] /\ seg'[t] = seg[t] /\ len'[t] = len[t]
  BY <1>a, <1>2, SMT DEF Downloaded, Types
<1>3. ASSUME NEW r \in Requests, NEW s, Miss(r, s) \/ Abandon(r)
      PROVE  UNCHANGED <<stage, seg, len>>
  BY <1>3 DEF Miss, Abandon, fills
<1>4. ~Crash
  BY DEF Crash
<1> QED BY <1>1, <1>2, <1>3, <1>4, Bystanders DEF Next

(***************************************************************************)
(* Access times vanish only where a failed rename, the cleanup or a purge  *)
(* clears them.                                                            *)
(***************************************************************************)
LEMMA StepAccessTimes ==
    ASSUME [Next]_vars
    PROVE  \/ accessed \subseteq accessed'
           \/ \E t \in Tasks : Unrow(t)
           \/ EvUnrow
           \/ Purge
<1> USE DEF table, vars
<1>1. ASSUME NEW r \in Requests, Start(r) \/ Abandon(r)
      PROVE  UNCHANGED accessed
  BY <1>1 DEF Start, Abandon
<1>2. ASSUME NEW r \in Requests, NEW s \in Segments,
             Hit(r, s) \/ Miss(r, s) \/ Downloaded(r, s)
      PROVE  UNCHANGED accessed
  BY <1>2 DEF Hit, Miss, Downloaded
<1>3. ASSUME NEW t \in Tasks, Fill(t), ~Unrow(t)
      PROVE  accessed \subseteq accessed'
  BY <1>3 DEF Fill, Write, FillFails, SaveRow, Rename, RenameFails, Count
<1>4. ASSUME NEW s \in Segments, Touch(s) \/ TimeRow(s)
      PROVE  accessed \subseteq accessed'
  BY <1>4 DEF Touch, TimeRow, SetLastAccessTime
<1>5. ASSUME Cleanup, ~EvUnrow PROVE UNCHANGED accessed
  BY <1>5 DEF Cleanup, EvQuery, EvQueryFails, EvAgain, EvSub,
     EvUnrowFails, EvDone, EvRemove, EvRemoveFails
<1>6. Crash => UNCHANGED accessed
  BY DEF Crash
<1> QED BY <1>1, <1>2, <1>3, <1>4, <1>5, <1>6 DEF Next

(***************************************************************************)
(* A cached file keeps its access time until a race.                       *)
(***************************************************************************)
LEMMA StepAccessed ==
    ASSUME AccInv, [Next]_vars, ~overlap'
    PROVE  FilesAccessed' /\ ArrivingAccessed'
<1>a. Types /\ TaskShape
  BY DEF AccInv, IInv
<1>1. CASE Crash
  <2>1. FilesAccessed'
    BY <1>1 DEF Crash, FilesAccessed, files, table
  <2>2. ArrivingAccessed'
    BY <1>1 DEF Crash, ArrivingAccessed
  <2> QED BY <2>1, <2>2
<1>2. CASE ~Crash
  <2>a. ~overlap /\ FilesAccessed /\ ArrivingAccessed /\ ~Purge
    BY <1>2, OverlapStays, StepPurgeRaces DEF AccInv, Calm
  <2>1. ASSUME NEW s \in Segments, file'[s] # 0, file[s] # 0
        PROVE  s \in accessed'
    <3>1. s \in accessed
      BY <2>a, <2>1 DEF FilesAccessed
    <3>2. ASSUME NEW t \in Tasks, Unrow(t) PROVE s \in accessed'
      BY <2>1, <3>1, <3>2 DEF Unrow, DeleteSegmentLocal
    <3>3. ASSUME EvUnrow PROVE s \in accessed'
      BY <2>1, <3>1, <3>3 DEF EvUnrow, DeleteSegmentLocal
    <3> QED BY <2>a, <3>1, <3>2, <3>3, StepAccessTimes
  <2>2. ASSUME NEW t \in Tasks, stage[t] = "rename", ~Unrow(t)
        PROVE  seg[t] \in accessed'
    <3>1. seg[t] \in accessed /\ Arriving(seg[t])
      BY <2>a, <2>2 DEF ArrivingAccessed, Arriving
    <3>2. ASSUME NEW u \in Tasks, Unrow(u) PROVE seg[t] \in accessed'
      BY <3>1, <3>2 DEF Unrow, DeleteSegmentLocal
    <3>3. ASSUME EvUnrow PROVE seg[t] \in accessed'
      BY <3>1, <3>3 DEF EvUnrow, DeleteSegmentLocal
    <3> QED BY <2>a, <3>1, <3>2, <3>3, StepAccessTimes
  <2>3. FilesAccessed'
    <3> SUFFICES ASSUME NEW s \in Segments, file'[s] # 0 PROVE s \in accessed'
      BY DEF FilesAccessed
    <3>1. CASE FilesShrink
      BY <2>1, <3>1 DEF FilesShrink
    <3>2. ASSUME NEW t \in Tasks, Rename(t) PROVE s \in accessed'
      <4>1. CASE s = seg[t]
        BY <2>a, <3>2, <4>1 DEF Rename, ArrivingAccessed, table
      <4>2. CASE s # seg[t]
        <5>1. file'[s] = file[s]
          BY <1>a, <3>2, <4>2 DEF Rename, Types
        <5> QED BY <2>1, <5>1
      <4> QED BY <4>1, <4>2
    <3>3. IInv
      BY DEF AccInv
    <3> QED BY <3>1, <3>2, <3>3, StepFiles
  <2>4. ArrivingAccessed'
    <3> SUFFICES ASSUME NEW t \in Tasks, stage'[t] = "rename"
                 PROVE  seg'[t] \in accessed'
      BY DEF ArrivingAccessed
    <3>1. CASE SaveRow(t)
      BY <3>1 DEF SaveRow
    <3>2. CASE stage[t] = "rename" /\ seg'[t] = seg[t]
      BY <2>2, <3>2 DEF Unrow
    <3> QED BY <3>1, <3>2, StepStage
  <2> QED BY <2>3, <2>4
<1> QED BY <1>1, <1>2

(***************************************************************************)
(* Until a race a file is counted by one task, with the length on disk.    *)
(***************************************************************************)
LEMMA StepCounting ==
    ASSUME AccInv, [Next]_vars, ~overlap'
    PROVE  CountingOnce' /\ CountingFile'
<1>a. IInv /\ Types /\ TaskShape /\ FillsMissingSegment
  BY DEF AccInv, IInv
<1>1. CASE Crash
  BY <1>1 DEF Crash, CountingOnce, CountingFile
<1>2. CASE ~Crash
  <2>a. ~overlap /\ CountingOnce /\ CountingFile /\ ~Purge
    BY <1>2, OverlapStays, StepPurgeRaces DEF AccInv, Calm
  <2>b. \A t \in Tasks : stage[t] = "count" =>
           seg[t] \in Segments /\ len[t] # 0 /\ file[seg[t]] # 0
    BY <1>a, <2>a DEF Types, TaskShape, CountingFile
  <2>1. ASSUME NEW t \in Tasks, Rename(t) PROVE CountingOnce' /\ CountingFile'
    <3>1. /\ stage[t] = "rename" /\ seg[t] \in Segments
          /\ UNCHANGED <<seg, len>>
          /\ stage' = [stage EXCEPT ![t] = "count"]
          /\ file' = [file EXCEPT ![seg[t]] = len[t]]
      BY <1>a, <2>1 DEF Rename, Become, TaskShape, Types
    <3>2. file[seg[t]] = 0
      BY <1>a, <3>1 DEF TaskShape, Guarded, FillsMissingSegment
    <3>3. \A u \in Tasks : stage[u] = "count" => seg[u] # seg[t]
      BY <2>b, <3>2
    <3>4. CountingOnce'
      BY <1>a, <2>a, <3>1, <3>3, SMT DEF CountingOnce, Types
    <3>5. CountingFile'
      BY <1>a, <2>a, <2>b, <3>1, <3>3, SMT DEF CountingFile, Types
    <3> QED BY <3>4, <3>5
  <2>2. ASSUME \A t \in Tasks : ~Rename(t)
        PROVE  CountingOnce' /\ CountingFile'
    <3>1. \A t \in Tasks : stage'[t] = "count" =>
             stage[t] = "count" /\ seg'[t] = seg[t] /\ len'[t] = len[t]
      BY <2>2, StepStage
    <3>2. CountingOnce'
      BY <2>a, <3>1 DEF CountingOnce
    <3>3. ASSUME NEW t \in Tasks, stage[t] = "count"
          PROVE  file'[seg[t]] = file[seg[t]]
      <4>1. seg[t] \in Segments
        BY <2>b, <3>3
      <4>2. ASSUME NEW x \in ev.batch, EvRemove(x)
            PROVE  file'[seg[t]] = file[seg[t]]
        <5>1. seg[t] # x[1]
          BY <4>2 DEF EvRemove, InFlight
        <5> QED BY <1>a, <4>1, <4>2, <5>1 DEF EvRemove, Types
      <4>3. ASSUME \A x \in ev.batch : ~EvRemove(x)
            PROVE  UNCHANGED file
        BY <1>2, <2>2, <2>a, <4>3, FilesMoved
      <4> QED BY <4>2, <4>3
    <3>4. CountingFile'
      BY <2>a, <3>1, <3>3 DEF CountingFile
    <3> QED BY <3>2, <3>4
  <2> QED BY <2>1, <2>2
<1> QED BY <1>1, <1>2

(***************************************************************************)
(* The sizes of a set of files, and of one file more, fit the counter.     *)
(***************************************************************************)
LEMMA SumFits ==
    ASSUME NEW f \in [Segments -> Lengths], NEW S \in SUBSET Segments,
           NEW n \in Lengths
    PROVE  /\ SumFunctionOnSet(f, S) \in Nat
           /\ SumFunctionOnSet(f, S) + n \in 0 .. Modulus - 1
<1>1. \A s \in Segments : f[s] \in Nat
  <2>1. Lengths \subseteq Nat
    BY StoreConstants DEF Lengths
  <2>2. \A s \in Segments : f[s] \in Lengths
    OBVIOUS
  <2> QED BY <2>1, <2>2
<1>2. SumFunctionOnSet(f, S) \in Nat
  BY <1>1, SizesFit, SumNat
<1>3. SumFunctionOnSet(f, S) + n < Modulus
  BY SizesFit DEF Lengths
<1>4. n \in Nat /\ Modulus \in Nat
  BY StoreConstants DEF Lengths
<1> QED BY <1>2, <1>3, <1>4

(***************************************************************************)
(* A number in range does not wrap.                                        *)
(***************************************************************************)
LEMMA NoWrap == \A n \in 0 .. Modulus - 1 : n % Modulus = n
BY StoreConstants, SMT

(***************************************************************************)
(* A step that leaves the files, the counter and the counting alone keeps  *)
(* the account.                                                            *)
(***************************************************************************)
LEMMA AccountKept ==
    ASSUME Accounted, UNCHANGED <<file, total>>, ev'.size = ev.size,
           \A t \in Tasks :
              (stage'[t] = "count" \/ stage[t] = "count") =>
                 stage'[t] = stage[t] /\ seg'[t] = seg[t]
    PROVE  Accounted'
<1>1. Counted' = Counted
  BY DEF Counted
<1> QED BY <1>1 DEF Accounted

(***************************************************************************)
(* Counting a stored file.                                                 *)
(***************************************************************************)
LEMMA AccountCount ==
    ASSUME AccInv, Calm, NEW t \in Tasks, Count(t)
    PROVE  Accounted'
<1>a. Types /\ TaskShape /\ CountingOnce /\ CountingFile /\ Accounted
  BY DEF AccInv, IInv, Calm
<1> DEFINE s == seg[t]
<1>1. s \in Segments /\ file[s] = len[t] /\ len[t] # 0 /\ len[t] \in Lengths
  BY <1>a DEF Count, TaskShape, Types, CountingFile
<1>2. /\ \A u \in Tasks \ {t} : stage'[u] = stage[u] /\ seg'[u] = seg[u]
      /\ seg'[t] = NoSegment
  BY <1>a DEF Count, EndTask, Types
<1>3. UNCHANGED <<file, ev>>
  BY DEF Count, files
<1>4. s \in Counted' /\ Counted' \ {s} = Counted
  <2>1. \A u \in Tasks \ {t} : ~ (seg[u] = s /\ stage[u] = "count")
    BY <1>a DEF CountingOnce, Count
  <2>2. s \in Counted' /\ s \notin Counted
    BY <1>1, <1>2, <1>3, <2>1, StoreConstants DEF Counted, Count
  <2>3. \A q \in Segments \ {s} : q \in Counted' <=> q \in Counted
    BY <1>2, <1>3, StoreConstants DEF Counted
  <2>4. Counted \subseteq Segments /\ Counted' \subseteq Segments
    BY DEF Counted
  <2> QED BY <2>2, <2>3, <2>4
<1>5. IsFiniteSet(Counted') /\ Counted' \in SUBSET Segments
      /\ \A q \in Counted' : file[q] \in Int
  <2>1. Counted' \in SUBSET Segments
    BY DEF Counted
  <2> QED BY <1>a, <2>1, SizesFit, FS_Subset, SizesInt
<1>6. SumFunctionOnSet(file, Counted') =
        len[t] + SumFunctionOnSet(file, Counted)
  BY <1>1, <1>4, <1>5, SumTakeOut
<1>7. ev.size \in Lengths /\ file \in [Segments -> Lengths]
  BY <1>a DEF Types, EvTypes, EvRecords
<1>8. SumFunctionOnSet(file, Counted') + ev.size \in 0 .. Modulus - 1
  BY <1>5, <1>7, SumFits
<1>9. SumFunctionOnSet(file, Counted) \in Nat
  <2>1. Counted \in SUBSET Segments
    BY DEF Counted
  <2> QED BY <1>7, <2>1, SumFits
<1>10. total + len[t] = SumFunctionOnSet(file, Counted') + ev.size
  <2>1. ev.size \in Int /\ len[t] \in Int
    BY <1>1, <1>7, LengthInt
  <2> QED BY <1>a, <1>6, <1>9, <2>1 DEF Accounted
<1>11. total' = SumFunctionOnSet(file, Counted') + ev.size
  BY <1>8, <1>10, NoWrap DEF Count, Plus
<1> QED BY <1>3, <1>11 DEF Accounted

(***************************************************************************)
(* A rename puts a file in place that nobody has counted.                  *)
(***************************************************************************)
LEMMA AccountRename ==
    ASSUME AccInv, Calm, NEW t \in Tasks, Rename(t)
    PROVE  Accounted'
<1>a. Types /\ TaskShape /\ FillsMissingSegment /\ Accounted
  BY DEF AccInv, IInv, Calm
<1> DEFINE s == seg[t]
<1>1. s \in Segments /\ file[s] = 0 /\ stage[t] = "rename"
  BY <1>a DEF Rename, TaskShape, Types, Guarded, FillsMissingSegment
<1>2. /\ UNCHANGED <<seg, total, ev>>
      /\ stage' = [stage EXCEPT ![t] = "count"]
      /\ file' = [file EXCEPT ![s] = len[t]]
  BY DEF Rename, Become
<1>3. \A q \in Segments \ {s} : file'[q] = file[q]
  BY <1>a, <1>2 DEF Types
<1>4. s \notin Counted /\ s \notin Counted'
  BY <1>a, <1>1, <1>2 DEF Counted, Types
<1>5. Counted' = Counted
  <2>1. \A q \in Segments \ {s} : q \in Counted' <=> q \in Counted
    <3> SUFFICES ASSUME NEW q \in Segments \ {s}
                 PROVE  q \in Counted' <=> q \in Counted
      OBVIOUS
    <3>1. \A u \in Tasks :
             (seg'[u] = q /\ stage'[u] = "count") <=>
             (seg[u] = q /\ stage[u] = "count")
      BY <1>a, <1>2 DEF Types
    <3> QED BY <1>3, <3>1 DEF Counted
  <2>2. Counted \subseteq Segments /\ Counted' \subseteq Segments
    BY DEF Counted
  <2> QED BY <1>4, <2>1, <2>2
<1>6. SumFunctionOnSet(file', Counted) = SumFunctionOnSet(file, Counted)
  <2>1. Counted \in SUBSET Segments
    BY DEF Counted
  <2>2. IsFiniteSet(Counted)
    BY <2>1, SizesFit, FS_Subset
  <2>3. \A q \in Counted : file'[q] = file[q]
    BY <1>3, <1>4, <2>1
  <2> QED BY <2>2, <2>3, SumSame
<1> QED BY <1>a, <1>2, <1>5, <1>6 DEF Accounted

(***************************************************************************)
(* The cleanup removes a file and remembers its size ...                   *)
(***************************************************************************)
LEMMA AccountRemove ==
    ASSUME AccInv, Calm, NEW x \in ev.batch, EvRemove(x), ~overlap'
    PROVE  Accounted'
<1>a. Types /\ Accounted /\ EvTypes(ev)
  BY DEF AccInv, IInv, Calm, Types
<1> DEFINE s == x[1]
<1>1. file[s] = x[2] /\ (\A t \in Tasks : seg[t] # s)
  BY DEF EvRemove, InFlight
<1>2. s \in Segments
  <2>1. ev.batch \in Batches
    BY <1>a DEF EvTypes, EvRecords
  <2> QED BY <2>1, SMT DEF Batches
<1>3. /\ UNCHANGED <<stage, seg, total>>
      /\ file' = [file EXCEPT ![s] = 0]
      /\ ev'.size = x[2] /\ ev.size = 0
  BY <1>a DEF EvRemove, fills, EvTypes, EvRecords, AccInv, EvictedSize
<1>4. \A q \in Segments \ {s} : file'[q] = file[q]
  BY <1>a, <1>3 DEF Types
<1>5. file'[s] = 0
  BY <1>a, <1>2, <1>3 DEF Types
<1>6. Counted' = Counted \ {s}
  <2>1. s \notin Counted'
    BY <1>5 DEF Counted
  <2>2. \A q \in Segments \ {s} : q \in Counted' <=> q \in Counted
    BY <1>3, <1>4 DEF Counted
  <2>3. Counted \subseteq Segments /\ Counted' \subseteq Segments
    BY DEF Counted
  <2> QED BY <2>1, <2>2, <2>3
<1>7. Counted \in SUBSET Segments /\ IsFiniteSet(Counted)
      /\ \A q \in Counted : file[q] \in Int
  <2>1. Counted \in SUBSET Segments
    BY DEF Counted
  <2> QED BY <1>a, <2>1, SizesFit, FS_Subset, SizesInt
<1>8. SumFunctionOnSet(file', Counted') = SumFunctionOnSet(file, Counted \ {s})
  <2>1. IsFiniteSet(Counted \ {s})
    BY <1>7, FS_RemoveElement
  <2>2. \A q \in Counted \ {s} : file'[q] = file[q]
    BY <1>4, <1>7
  <2> QED BY <1>6, <2>1, <2>2, SumSame
<1>9. SumFunctionOnSet(file, Counted) =
        file[s] + SumFunctionOnSet(file, Counted \ {s})
  <2>1. CASE file[s] # 0
    <3>1. s \in Counted
      BY <1>1, <1>2, <2>1 DEF Counted
    <3> QED BY <1>7, <3>1, SumTakeOut
  <2>2. CASE file[s] = 0
    <3>1. Counted \ {s} = Counted
      BY <2>2 DEF Counted
    <3>2. SumFunctionOnSet(file, Counted) \in Int
      BY <1>7, SumInt
    <3> QED BY <2>2, <3>1, <3>2
  <2> QED BY <2>1, <2>2
<1>10. SumFunctionOnSet(file, Counted \ {s}) \in Int /\ file[s] \in Int
  <2>1. Counted \ {s} \in SUBSET Counted
    OBVIOUS
  <2> QED BY <1>a, <1>2, <1>7, <2>1, SumInt, SizesInt
<1>11. total = SumFunctionOnSet(file, Counted \ {s}) + x[2]
  BY <1>a, <1>1, <1>3, <1>9, <1>10 DEF Accounted
<1> QED BY <1>3, <1>8, <1>11 DEF Accounted

(***************************************************************************)
(* ... and takes it off the counter.                                       *)
(***************************************************************************)
LEMMA AccountSub ==
    ASSUME AccInv, Calm, EvSub
    PROVE  Accounted'
<1>a. Types /\ Accounted /\ EvTypes(ev)
  BY DEF AccInv, IInv, Calm, Types
<1>1. UNCHANGED <<file, stage, seg>> /\ ev'.size = 0
  BY <1>a DEF EvSub, files, fills, EvTypes, EvRecords
<1>2. Counted' = Counted
  BY <1>1 DEF Counted
<1> DEFINE n == SumFunctionOnSet(file, Counted)
<1>3. n \in Nat /\ n + 0 \in 0 .. Modulus - 1
  <2>1. file \in [Segments -> Lengths] /\ Counted \in SUBSET Segments
    BY <1>a DEF Types, Counted
  <2> QED BY <2>1, LengthInt, SumFits
<1>4. ev.size \in Int
  BY <1>a, LengthInt DEF EvTypes, EvRecords
<1>5. total - ev.size = n /\ n \in 0 .. Modulus - 1
  <2>1. total = n + ev.size
    BY <1>a DEF Accounted
  <2> HIDE DEF n
  <2> QED BY <1>3, <1>4, <2>1
<1>6. total' = n
  BY <1>5, NoWrap DEF EvSub, Minus
<1>7. n + 0 = n
  BY <1>3
<1> QED BY <1>1, <1>2, <1>6, <1>7 DEF Accounted

(***************************************************************************)
(* A restart counts what the table says, which is what is on disk unless   *)
(* they disagree, and then it is a race from the start.                    *)
(***************************************************************************)
LEMMA AccountCrash ==
    ASSUME AccInv, Crash, ~overlap'
    PROVE  Accounted'
<1>a. Types /\ size \in [Segments -> Lengths]
  BY DEF AccInv, IInv, Types
<1>1. \A s \in Segments : file[s] = IF s \in accessed THEN size[s] ELSE 0
  BY DEF Crash
<1>2. UNCHANGED file /\ ev'.size = 0
  <2>1. ev' = NewCleanup \/ ev' = NoCleanup
    BY DEF Crash
  <2> QED BY <2>1 DEF Crash, files, NewCleanup, NoCleanup
<1>3. accessed \in SUBSET Segments
  BY <1>a DEF Types
<1> DEFINE S == {s \in accessed : size[s] # 0}
<1>4. Counted' = S
  <2>1. \A s \in Segments : s \in Counted' <=> file[s] # 0
    BY <1>2 DEF Crash, Counted
  <2>2. Counted' \subseteq Segments /\ S \subseteq Segments
    BY <1>3 DEF Counted
  <2> QED BY <1>1, <2>1, <2>2
<1>5. TotalSize = SumFunctionOnSet(size, S)
  BY <1>a, <1>3, SizesFit, SizesInt, SumDropZeros DEF TotalSize
<1>6. SumFunctionOnSet(file, S) = SumFunctionOnSet(size, S)
  <2>1. IsFiniteSet(S)
    <3>1. S \in SUBSET Segments
      BY <1>3
    <3> QED BY <3>1, SizesFit, FS_Subset
  <2>2. \A s \in S : file[s] = size[s]
    BY <1>1, <1>3
  <2> QED BY <2>1, <2>2, SumSame
<1>7. TotalSize \in Nat /\ TotalSize + 0 \in 0 .. Modulus - 1
  BY <1>a, <1>3, LengthInt, SumFits DEF TotalSize
<1>8. total' = TotalSize
  <2>1. TotalSize + 0 = TotalSize
    BY <1>7
  <2> QED BY <1>7, <2>1, NoWrap DEF Crash
<1>9. TotalSize + 0 = TotalSize
  BY <1>7
<1> QED BY <1>2, <1>4, <1>5, <1>6, <1>8, <1>9 DEF Accounted

(***************************************************************************)
(* Until a race the counter is exact.                                      *)
(***************************************************************************)
LEMMA StepAccounted ==
    ASSUME AccInv, [Next]_vars, ~overlap'
    PROVE  Accounted'
<1>a. Types /\ ev \in EvRecords /\ EvictedSize
  BY DEF AccInv, IInv, Types, EvTypes
<1>1. CASE Crash
  BY <1>1, AccountCrash
<1>2. CASE ~Crash
  <2>a. Calm /\ Accounted /\ ~Purge
    BY <1>2, OverlapStays, StepPurgeRaces DEF AccInv, Calm
  <2>b. ASSUME UNCHANGED <<stage, seg, file, total>>, ev'.size = ev.size
        PROVE  Accounted'
    BY <2>a, <2>b, AccountKept
  <2>1. ASSUME NEW r \in Requests,
               \/ Start(r) \/ Abandon(r)
               \/ \E s \in Segments : Hit(r, s) \/ Miss(r, s)
        PROVE  Accounted'
    BY <2>1, <2>b DEF Start, Abandon, Hit, Miss, fills, files
  <2>2. ASSUME NEW r \in Requests, NEW s \in Segments, Downloaded(r, s)
        PROVE  Accounted'
    <3>1. UNCHANGED <<file, total>>
      BY <2>2 DEF Downloaded, files
    <3>2. ev'.size = ev.size
      BY <1>a, <2>2 DEF Downloaded, CheckCleanup, NewCleanup, EvictedSize
    <3>3. PICK t \in Tasks : /\ stage[t] = "idle"
                             /\ stage' = [stage EXCEPT ![t] = "write"]
                             /\ seg' = [seg EXCEPT ![t] = s]
      BY <2>2 DEF Downloaded
    <3>4. ASSUME NEW u \in Tasks, stage'[u] = "count" \/ stage[u] = "count"
          PROVE  stage'[u] = stage[u] /\ seg'[u] = seg[u]
      BY <1>a, <3>3, <3>4 DEF Types
    <3> QED BY <2>a, <3>1, <3>2, <3>4, AccountKept
  <2>3. ASSUME NEW t \in Tasks, Fill(t), ~Rename(t), ~Count(t)
        PROVE  Accounted'
    <3>1. UNCHANGED <<file, total, ev>>
      BY <2>3 DEF Fill, Write, FillFails, SaveRow, RenameFails, Unrow, files
    <3>2. ASSUME NEW u \in Tasks, stage'[u] = "count" \/ stage[u] = "count"
          PROVE  stage'[u] = stage[u] /\ seg'[u] = seg[u]
      BY <1>a, <2>3, <3>2, FillStage
    <3> QED BY <2>a, <3>1, <3>2, AccountKept
  <2>4. ASSUME NEW t \in Tasks, Rename(t) \/ Count(t) PROVE Accounted'
    BY <2>4, <2>a, AccountRename, AccountCount
  <2>5. ASSUME NEW s \in Segments, Touch(s) \/ TimeRow(s) PROVE Accounted'
    BY <2>5, <2>b DEF Touch, TimeRow, fills, files
  <2>6. CASE Cleanup
    <3>1. ASSUME NEW x \in ev.batch, EvRemove(x) PROVE Accounted'
      BY <2>a, <3>1, AccountRemove
    <3>2. ASSUME NEW x \in ev.batch, EvRemoveFails(x) PROVE Accounted'
      <4>1. ev'.size = ev.size
        BY <1>a, <3>2 DEF EvRemoveFails, EvRecords
      <4> QED BY <2>b, <3>2, <4>1 DEF EvRemoveFails, fills, files
    <3>3. CASE EvSub
      BY <2>a, <3>3, AccountSub
    <3>4. CASE EvQuery \/ EvAgain \/ EvUnrow \/ EvUnrowFails
      <4>1. ev'.size = ev.size
        BY <1>a, <3>4 DEF EvQuery, EvAgain, EvUnrow, EvUnrowFails, EvRecords
      <4> QED BY <2>b, <3>4, <4>1 DEF EvQuery, EvAgain, EvUnrow, EvUnrowFails,
         fills, files
    <3>5. CASE EvQueryFails \/ EvDone
      <4>1. ev'.size = ev.size
        BY <3>5, <1>a DEF EvQueryFails, EvDone, NoCleanup, EvictedSize
      <4> QED BY <2>b, <3>5, <4>1 DEF EvQueryFails, EvDone, fills, files
    <3> QED BY <2>6, <3>1, <3>2, <3>3, <3>4, <3>5 DEF Cleanup
  <2>7. UNCHANGED vars => Accounted'
    BY <2>b DEF vars
  <2> QED BY <1>2, <2>a, <2>1, <2>2, <2>3, <2>4, <2>5, <2>6, <2>7 DEF Next
<1> QED BY <1>1, <1>2

(***************************************************************************)
(* Types, locks and rows, and until a race the accounting: in every        *)
(* reachable state.                                                        *)
(***************************************************************************)
THEOREM AccountInvariant == Spec => []AccInv
<1>1. Init => AccInv
  <2> SUFFICES ASSUME Init PROVE AccInv
    OBVIOUS
  <2>1. EvictedSize /\ PurgeRaces
    BY DEF Init, NoCleanup, EvictedSize, PurgeRaces
  <2>2. FilesAccessed /\ ArrivingAccessed /\ CountingOnce /\ CountingFile
    BY DEF Init, FilesAccessed, ArrivingAccessed, CountingOnce, CountingFile
  <2>3. Accounted
    <3>1. Counted = {}
      BY DEF Init, Counted
    <3>2. SumFunctionOnSet(file, {}) = 0
      BY FS_EmptySet, SumUnfold
    <3> QED BY <3>1, <3>2 DEF Init, NoCleanup, Accounted
  <2> QED BY <2>1, <2>2, <2>3, InitIInv DEF AccInv, Calm
<1>2. AccInv /\ [Next]_vars => AccInv'
  <2> SUFFICES ASSUME AccInv, [Next]_vars PROVE AccInv'
    OBVIOUS
  <2>1. IInv'
    BY StepTypes, StepTaskShape, StepOneHolder, StepFillsMissing,
       StepPurgeCounted, StepRowSaved, StepFileBacked DEF AccInv, IInv
  <2>2. EvictedSize' /\ PurgeRaces'
    BY StepEvictedSize, StepPurgeRaces
  <2>3. ~overlap' => Calm'
    BY StepAccessed, StepCounting, StepAccounted DEF Calm
  <2> QED BY <2>1, <2>2, <2>3 DEF AccInv
<1> QED BY <1>1, <1>2, PTL DEF Spec

(***************************************************************************)
(* total_file_size is exactly the size of the files that were counted and  *)
(* are there, plus the one whose eviction it has not subtracted yet: no    *)
(* failure and no restart makes it drift while the unlocked steps meet no  *)
(* other actor.                                                            *)
(***************************************************************************)
THEOREM Accounting == Spec => []AccountingExact
<1>1. AccInv => AccountingExact
  BY DEF AccInv, Calm, Accounted, AccountingExact
<1> QED BY <1>1, AccountInvariant, PTL

(***************************************************************************)
(* No file escapes the cleanup: as long as the unlocked steps meet no      *)
(* other actor, a file on disk has a row with an access time.              *)
(***************************************************************************)
THEOREM Evictable == Spec => []EvictableWhenCached
<1>1. AccInv => EvictableWhenCached
  BY DEF AccInv, Calm, FilesAccessed, EvictableWhenCached
<1> QED BY <1>1, AccountInvariant, PTL
=============================================================================
