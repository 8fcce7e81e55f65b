-------------------------- MODULE TimeCache_proofs --------------------------
(***************************************************************************)
(* Proofs about TimeCache, for any number of slow fetches, listings, fills *)
(* and segments, and any number of playlists, rounds and faults.           *)
(*                                                                         *)
(* The types hold with who has which lock (LocksHeld, Turns): a slow fetch *)
(* computes the entry from its try to its put, whoever creates it is at    *)
(* work on it, and nobody else works.  So at most one actor has a copy     *)
(* of the entry in hand that will replace the one in the cache, and what   *)
(* the database knows is in that copy, in the entry, missed, or on the way *)
(* in the hands of a fill (Kept).  Kept is claimed only until a playlist   *)
(* comes or the entry goes while somebody works (crossed).                 *)
(***************************************************************************)
EXTENDS TimeCache, TLAPS

\* A fill computes the entry only under the mutex, and a slow fetch that is
\* about to try holds it.
LocksHeld ==
    /\ \A f \in Fills : pc[f] \in {"compute", "put"} => mutex = f
    /\ \A f \in Fills : compute = f => pc[f] = "put"
    /\ \A s \in Slows : pc[s] = "try" => mutex = s

TimeInv == TypeOK /\ LocksHeld

LEMMA EntryFields ==
    ASSUME NEW e \in Entry
    PROVE  /\ e.times \in [Segments -> Nat] /\ e.of \in Nat
           /\ e.dont \in SUBSET Segments
           /\ \A t \in [Segments -> Nat] : [e EXCEPT !.times = t] \in Entry
           /\ \A n \in Nat : [e EXCEPT !.of = n] \in Entry
           /\ \A d \in SUBSET Segments : [e EXCEPT !.dont = d] \in Entry
  BY DEF Entry

LEMMA EmptyEntry == Empty \in Entry /\ \A t \in [Segments -> Nat] : [Empty EXCEPT !.times = t] \in Entry
<1>1. NoTimes \in [Segments -> Nat]
  BY DEF NoTimes
<1>2. Empty \in Entry
  BY <1>1 DEF Empty, Entry
<1>3. QED
  BY <1>2, EntryFields

LEMMA InitInv == Init => TimeInv
<1> SUFFICES ASSUME Init PROVE TimeInv
  OBVIOUS
<1>1. db \in [Segments -> Nat] /\ work \in [Actors -> Entry]
  BY EmptyEntry DEF Init, NoTimes
<1>2. TypeOK
  BY <1>1 DEF Init, TypeOK, Actors
<1>3. LocksHeld
  BY TimeConstants DEF Init, LocksHeld, Actors
<1>4. QED
  BY <1>2, <1>3 DEF TimeInv

Steps == {"new", "wait", "fast", "rows", "meta", "check", "measure", "lock",
          "try", "row", "insert", "compute", "put", "listed", "end"}

LEMMA GotoType ==
    ASSUME TypeOK, NEW a \in Actors, NEW step \in Steps, Goto(a, step)
    PROVE  /\ pc' \in [Actors -> Steps] /\ pc'[a] = step
           /\ \A b \in Actors : b # a => pc'[b] = pc[b]
  BY DEF TypeOK, Goto, Steps

LEMMA WorkType ==
    ASSUME TypeOK, NEW a \in Actors, NEW e \in Entry, work' = [work EXCEPT ![a] = e]
    PROVE  work' \in [Actors -> Entry]
  BY DEF TypeOK

LEMMA Purged ==
    ASSUME NEW p \in Nat, Purge(p)
    PROVE  meta' \in Nat /\ db' \in [Segments -> Nat] /\ stored' \in SUBSET Segments
  BY DEF Purge, NoTimes

\* The steps that change an entry in hand keep it one.
LEMMA StepTypes ==
    ASSUME TypeOK, NEW a \in Slows \cup Listings,
           \/ FastGetTimes(a) \/ ReadRows(a) \/ ReadMetadata(a)
           \/ CheckPlaylist(a) \/ Measure(a) \/ Created(a)
    PROVE  /\ meta' \in Nat /\ db' \in [Segments -> Nat] /\ stored' \in SUBSET Segments
           /\ cache' \in Entry \cup {NoEntry} /\ compute' = compute /\ mutex' = mutex
           /\ init' \in Slows \cup Listings \cup {NoActor}
           /\ work' \in [Actors -> Entry] /\ pc' \in [Actors -> Steps]
           /\ pc[a] \in {"fast", "rows", "meta", "check", "measure"}
           /\ pc'[a] \in {"rows", "meta", "check", "measure", "listed"}
           /\ \A b \in Actors : b # a => pc'[b] = pc[b]
<1>0. /\ a \in Actors /\ work[a] \in Entry /\ plan[a] \in Nat /\ meta \in Nat
      /\ db \in [Segments -> Nat] /\ stored \in SUBSET Segments
      /\ cache \in Entry \cup {NoEntry} /\ work \in [Actors -> Entry]
      /\ init \in Slows \cup Listings \cup {NoActor}
      /\ pc \in [Actors -> Steps]
  BY DEF TypeOK, Actors, Steps
<1>1. ASSUME cache' \in Entry, TakeOrList(a)
      PROVE  /\ work' \in [Actors -> Entry] /\ pc' \in [Actors -> Steps]
             /\ pc'[a] \in {"check", "listed"}
             /\ \A b \in Actors : b # a => pc'[b] = pc[b]
  <2>1. PICK step \in {"check", "listed"}, e \in Entry :
            Goto(a, step) /\ work' = [work EXCEPT ![a] = e]
    BY <1>1, EmptyEntry DEF TakeOrList
  <2>2. QED
    BY <1>0, <2>1, GotoType, WorkType DEF Steps
<1>2. CASE FastGetTimes(a)
  <2>1. CASE cache # NoEntry /\ UNCHANGED <<cache, init>> /\ TakeOrList(a)
    BY <1>0, <1>1, <1>2, <2>1 DEF FastGetTimes, database
  <2>2. CASE init' = a /\ Goto(a, "rows") /\ UNCHANGED <<cache, work>>
    BY <1>0, <1>2, <2>2, GotoType DEF FastGetTimes, database, Steps
  <2>3. QED
    BY <1>2, <2>1, <2>2 DEF FastGetTimes
<1>3. CASE ReadRows(a)
  <2>1. [Empty EXCEPT !.times = db] \in Entry
    BY <1>0, EmptyEntry
  <2>2. QED
    BY <1>0, <1>3, <2>1, GotoType, WorkType DEF ReadRows, database, locks, Steps
<1>4. CASE ReadMetadata(a)
  <2>1. [work[a] EXCEPT !.of = meta] \in Entry
    BY <1>0, EntryFields
  <2>2. work' = [work EXCEPT ![a] = [work[a] EXCEPT !.of = meta]]
    BY <1>0, <1>4 DEF ReadMetadata
  <2>3. QED
    BY <1>0, <1>4, <2>1, <2>2, GotoType, WorkType DEF ReadMetadata, database, locks, Steps
<1>5. CASE CheckPlaylist(a)
  <2>1. /\ Goto(a, "measure") /\ UNCHANGED <<cache, locks>> /\ pc[a] = "check"
    BY <1>5 DEF CheckPlaylist
  <2>2. CASE UNCHANGED <<database, work>>
    BY <1>0, <2>1, <2>2, GotoType DEF database, locks, Steps
  <2>3. CASE /\ work' = [work EXCEPT ![a].of = plan[a], ![a].times = NoTimes]
             /\ Purge(plan[a])
    <3> DEFINE e1 == [work[a] EXCEPT !.of = plan[a]]
               e2 == [e1 EXCEPT !.times = NoTimes]
    <3>1. NoTimes \in [Segments -> Nat]
      BY DEF NoTimes
    <3>2. e1 \in Entry
      BY <1>0, EntryFields
    <3>3. e2 \in Entry
      <4> HIDE DEF e1
      <4>1. QED
        BY <3>1, <3>2, EntryFields
    <3>4. work' = [work EXCEPT ![a] = e2]
      BY <1>0, <2>3
    <3>5. work' \in [Actors -> Entry]
      <4> HIDE DEF e2
      <4>1. QED
        BY <1>0, <3>3, <3>4, WorkType
    <3>6. QED
      BY <1>0, <2>1, <2>3, <3>5, GotoType, Purged DEF locks, Steps
  <2>4. QED
    BY <1>5, <2>2, <2>3 DEF CheckPlaylist
<1>6. CASE Measure(a)
  <2>1. UNCHANGED <<pc, meta, stored, cache, locks>> /\ pc[a] = "measure"
    BY <1>6 DEF Measure
  <2>2. PICK i \in Segments :
            \/ /\ work' = [work EXCEPT ![a].times[i] = plan[a]]
               /\ db' \in {db, [db EXCEPT ![i] = plan[a]]}
            \/ /\ work' = [work EXCEPT ![a].dont = @ \cup {i}]
               /\ UNCHANGED db
    BY <1>6 DEF Measure, Unknown
  <2>3. work' \in [Actors -> Entry]
    <3>1. CASE work' = [work EXCEPT ![a].times[i] = plan[a]]
      <4> DEFINE e == [work[a] EXCEPT !.times = [work[a].times EXCEPT ![i] = plan[a]]]
      <4>1. e \in Entry
        BY <1>0, EntryFields
      <4>2. work' = [work EXCEPT ![a] = e]
        BY <1>0, <3>1
      <4> HIDE DEF e
      <4>3. QED
        BY <1>0, <4>1, <4>2, WorkType
    <3>2. CASE work' = [work EXCEPT ![a].dont = @ \cup {i}]
      <4> DEFINE e == [work[a] EXCEPT !.dont = work[a].dont \cup {i}]
      <4>0. work[a].dont \cup {i} \in SUBSET Segments
        BY <1>0, EntryFields
      <4>1. e \in Entry
        BY <1>0, <4>0, EntryFields
      <4>2. work' = [work EXCEPT ![a] = e]
        BY <1>0, <3>2
      <4> HIDE DEF e
      <4>3. QED
        BY <1>0, <4>1, <4>2, WorkType
    <3>3. QED
      BY <2>2, <3>1, <3>2
  <2>4. db' \in [Segments -> Nat]
    BY <1>0, <2>2
  <2>5. QED
    BY <1>0, <2>1, <2>3, <2>4 DEF locks
<1>7. CASE Created(a)
  <2>1. /\ pc[a] = "measure" /\ cache' = work[a] /\ init' = NoActor /\ TakeOrList(a)
        /\ UNCHANGED <<database, compute, mutex>>
    BY <1>7 DEF Created
  <2>2. QED
    BY <1>0, <1>1, <2>1 DEF database
<1>8. QED
  BY <1>2, <1>3, <1>4, <1>5, <1>6, <1>7

\* What is due keeps its type when rows are deleted.
LEMMA StillDueType ==
    ASSUME TypeOK, due' = StillDue
    PROVE  due' \in [Listings -> SUBSET Segments]
  BY DEF TypeOK, StillDue

-----------------------------------------------------------------------------
(* Every step.                                                             *)

LEMMA SlowNext ==
    ASSUME TimeInv, NEW s \in Slows, SlowStep(s)
    PROVE  TimeInv'
<1>0. /\ TypeOK /\ LocksHeld /\ s \in Actors /\ s \notin Fills /\ s # NoActor
      /\ work[s] \in Entry /\ cache \in Entry \cup {NoEntry}
      /\ work \in [Actors -> Entry] /\ pc \in [Actors -> Steps]
      /\ \A f \in Fills : f \in Actors /\ f # s /\ f # NoActor
      /\ \A t \in Slows : t \in Actors
  BY TimeConstants DEF TimeInv, TypeOK, Actors, Steps
<1>1. /\ UNCHANGED playlist /\ UNCHANGED plan /\ UNCHANGED index
  BY DEF SlowStep, fill
<1>d. due' \in [Listings -> SUBSET Segments]
  BY <1>0, StillDueType DEF SlowStep
<1>2. CASE \/ FastGetTimes(s) \/ ReadRows(s) \/ ReadMetadata(s)
           \/ CheckPlaylist(s) \/ Measure(s) \/ Created(s)
  <2>1. /\ meta' \in Nat /\ db' \in [Segments -> Nat] /\ stored' \in SUBSET Segments
        /\ cache' \in Entry \cup {NoEntry} /\ compute' = compute /\ mutex' = mutex
        /\ init' \in Slows \cup Listings \cup {NoActor}
        /\ work' \in [Actors -> Entry] /\ pc' \in [Actors -> Steps]
        /\ pc'[s] \in {"rows", "meta", "check", "measure", "listed"}
        /\ \A b \in Actors : b # s => pc'[b] = pc[b]
    BY <1>0, <1>2, StepTypes
  <2>2. TypeOK'
    BY <1>0, <1>1, <1>d, <2>1 DEF TypeOK, Steps
  <2>3. LocksHeld'
    BY <1>0, <2>1 DEF LocksHeld
  <2>4. QED
    BY <2>2, <2>3 DEF TimeInv
<1>3. CASE LockSlow(s)
  <2>1. /\ pc[s] = "lock" /\ mutex = NoActor /\ mutex' = s /\ Goto(s, "try")
        /\ UNCHANGED <<database, cache, compute, init, work>>
    BY <1>3 DEF LockSlow
  <2>2. pc' \in [Actors -> Steps] /\ pc'[s] = "try"
        /\ \A b \in Actors : b # s => pc'[b] = pc[b]
    BY <1>0, <2>1, GotoType DEF Steps
  <2>3. TypeOK'
    BY <1>0, <1>1, <1>d, <2>1, <2>2 DEF TypeOK, Steps, database
  <2>4. LocksHeld'
    <3>1. \A f \in Fills : pc[f] \notin {"compute", "put"} /\ compute # f
      BY <1>0, <2>1 DEF LocksHeld
    <3>2. \A t \in Slows : pc[t] # "try"
      BY <1>0, <2>1, TimeConstants DEF LocksHeld, Actors
    <3>3. \A f \in Fills : pc'[f] \notin {"compute", "put"} /\ compute' # f
      BY <1>0, <2>1, <2>2, <3>1
    <3>4. \A t \in Slows : pc'[t] = "try" => mutex' = t
      BY <1>0, <2>1, <2>2, <3>2
    <3>5. QED
      BY <3>3, <3>4 DEF LocksHeld
  <2>5. QED
    BY <2>3, <2>4 DEF TimeInv
<1>4. CASE TryCompute(s)
  <2>1. /\ pc[s] = "try" /\ mutex = s /\ mutex' = NoActor
        /\ UNCHANGED <<database, cache, init>>
    BY <1>0, <1>4 DEF TryCompute, LocksHeld
  <2>2. PICK step \in {"end", "fast", "check"} : Goto(s, step)
    BY <1>4 DEF TryCompute
  <2>3. pc' \in [Actors -> Steps] /\ pc'[s] \in {"end", "fast", "check"}
        /\ \A b \in Actors : b # s => pc'[b] = pc[b]
    BY <1>0, <2>2, GotoType DEF Steps
  <2>4. compute' \in {compute, s} /\ work' \in [Actors -> Entry]
    <3>1. CASE cache # NoEntry /\ work' = [work EXCEPT ![s] = cache]
      BY <1>0, <1>4, <3>1, WorkType DEF TryCompute
    <3>2. CASE UNCHANGED work
      BY <1>0, <1>4, <3>2 DEF TryCompute
    <3>3. QED
      BY <1>4, <3>1, <3>2 DEF TryCompute
  <2>5. TypeOK'
    BY <1>0, <1>1, <1>d, <2>1, <2>3, <2>4 DEF TypeOK, Steps, database
  <2>6. LocksHeld'
    <3>1. \A f \in Fills : pc[f] \notin {"compute", "put"}
      BY <1>0, <2>1 DEF LocksHeld
    <3>2. \A t \in Slows : t # s => pc[t] # "try"
      BY <1>0, <2>1 DEF LocksHeld
    <3>3. \A f \in Fills : compute' # f
      BY <1>0, <2>4, <3>1 DEF LocksHeld
    <3>4. QED
      BY <1>0, <2>3, <3>1, <3>2, <3>3 DEF LocksHeld
  <2>7. QED
    BY <2>5, <2>6 DEF TimeInv
<1>5. CASE Put(s)
  <2>1. /\ pc[s] = "measure" /\ cache' = work[s] /\ compute' = NoActor
        /\ work' = [work EXCEPT ![s] = Empty] /\ UNCHANGED <<database, init, mutex>>
    BY <1>5 DEF Put
  <2>2. PICK step \in {"end", "lock"} : Goto(s, step)
    BY <1>5 DEF Put
  <2>3. pc' \in [Actors -> Steps] /\ pc'[s] \in {"end", "lock"}
        /\ \A b \in Actors : b # s => pc'[b] = pc[b]
    BY <1>0, <2>2, GotoType DEF Steps
  <2>4. work' \in [Actors -> Entry]
    BY <1>0, <2>1, WorkType, EmptyEntry
  <2>5. TypeOK'
    BY <1>0, <1>1, <1>d, <2>1, <2>3, <2>4 DEF TypeOK, Steps, database
  <2>6. LocksHeld'
    BY <1>0, <2>1, <2>3 DEF LocksHeld
  <2>7. QED
    BY <2>5, <2>6 DEF TimeInv
<1>6. QED
  BY <1>2, <1>3, <1>4, <1>5 DEF SlowStep

LEMMA ListingNext ==
    ASSUME TimeInv, NEW l \in Listings, ListingStep(l)
    PROVE  TimeInv'
<1>0. /\ TypeOK /\ LocksHeld /\ l \in Actors
      /\ \A f \in Fills : f \in Actors /\ f # l
      /\ \A t \in Slows : t \in Actors /\ t # l
  BY TimeConstants DEF TimeInv, Actors
<1>1. /\ UNCHANGED playlist /\ UNCHANGED plan /\ UNCHANGED index
  BY DEF ListingStep, fill
<1>d. due' \in [Listings -> SUBSET Segments]
  <2>1. CASE Waited(l)
    <3>1. PICK D \in SUBSET Initial : due' = [due EXCEPT ![l] = D]
      BY <2>1 DEF Waited, Proceed
    <3>2. D \in SUBSET Segments
      BY TimeConstants
    <3>3. QED
      BY <1>0, <3>1, <3>2 DEF TypeOK
  <2>2. CASE due' = StillDue
    BY <1>0, <2>2, StillDueType
  <2>3. QED
    BY <2>1, <2>2 DEF ListingStep
<1>2. /\ meta' \in Nat /\ db' \in [Segments -> Nat] /\ stored' \in SUBSET Segments
      /\ cache' \in Entry \cup {NoEntry} /\ compute' = compute /\ mutex' = mutex
      /\ init' \in Slows \cup Listings \cup {NoActor}
      /\ work' \in [Actors -> Entry] /\ pc' \in [Actors -> Steps]
      /\ \A b \in Actors : b # l => pc'[b] = pc[b]
  <2>1. CASE Waited(l)
    <3>1. Goto(l, "fast") /\ UNCHANGED <<database, cache, locks, work>>
      BY <2>1 DEF Waited, Proceed
    <3>2. pc' \in [Actors -> Steps] /\ \A b \in Actors : b # l => pc'[b] = pc[b]
      BY <1>0, <3>1, GotoType DEF Steps
    <3>3. QED
      BY <1>0, <3>1, <3>2 DEF TypeOK, database, locks
  <2>2. CASE \/ FastGetTimes(l) \/ ReadRows(l) \/ ReadMetadata(l)
             \/ CheckPlaylist(l) \/ Measure(l) \/ Created(l)
    BY <1>0, <2>2, StepTypes
  <2>3. QED
    BY <2>1, <2>2 DEF ListingStep
<1>3. TypeOK'
  BY <1>0, <1>1, <1>d, <1>2 DEF TypeOK, Steps
<1>4. LocksHeld'
  BY <1>0, <1>2 DEF LocksHeld
<1>5. QED
  BY <1>3, <1>4 DEF TimeInv

LEMMA FillNext ==
    ASSUME TimeInv, NEW f \in Fills, FillStep(f)
    PROVE  TimeInv'
<1>0. /\ TypeOK /\ LocksHeld /\ f \in Actors /\ f # NoActor
      /\ index[f] \in Segments /\ plan[f] \in Nat /\ pc[f] \in Steps
      /\ cache \in Entry \cup {NoEntry}
      /\ \A g \in Fills : g \in Actors /\ g # NoActor
      /\ \A t \in Slows : t \in Actors /\ t # f
  BY TimeConstants DEF TimeInv, TypeOK, Actors, Steps
<1>1. /\ UNCHANGED playlist /\ UNCHANGED plan /\ UNCHANGED index /\ UNCHANGED due
  BY DEF FillStep, fill
<1>2. CASE StoreSegment(f)
  <2>1. /\ pc[f] = "row" /\ Goto(f, "insert") /\ UNCHANGED <<meta, cache, locks, work>>
        /\ stored' = stored \cup {index[f]}
    BY <1>2 DEF StoreSegment
  <2>2. pc' \in [Actors -> Steps] /\ pc'[f] = "insert"
        /\ \A b \in Actors : b # f => pc'[b] = pc[b]
    BY <1>0, <2>1, GotoType DEF Steps
  <2>3. db' \in [Segments -> Nat]
    BY <1>0, <1>2 DEF StoreSegment, TypeOK
  <2>4. TypeOK'
    BY <1>0, <1>1, <2>1, <2>2, <2>3 DEF TypeOK, Steps, locks
  <2>5. LocksHeld'
    BY <1>0, <2>1, <2>2 DEF LocksHeld, locks
  <2>6. QED
    BY <2>4, <2>5 DEF TimeInv
<1>3. CASE LockInsert(f)
  <2>1. /\ pc[f] = "insert" /\ mutex = NoActor /\ mutex' = f /\ Goto(f, "compute")
        /\ UNCHANGED <<database, cache, compute, init, work>>
    BY <1>3 DEF LockInsert
  <2>2. pc' \in [Actors -> Steps] /\ pc'[f] = "compute"
        /\ \A b \in Actors : b # f => pc'[b] = pc[b]
    BY <1>0, <2>1, GotoType DEF Steps
  <2>3. TypeOK'
    BY <1>0, <1>1, <2>1, <2>2 DEF TypeOK, Steps, database
  <2>4. LocksHeld'
    <3>1. \A t \in Slows : pc[t] # "try"
      BY <1>0, <2>1, TimeConstants DEF LocksHeld
    <3>2. \A g \in Fills : pc[g] \notin {"compute", "put"}
      BY <1>0, <2>1 DEF LocksHeld
    <3>3. \A g \in Fills : compute # g
      BY <1>0, <3>2 DEF LocksHeld
    <3>4. QED
      BY <1>0, <2>1, <2>2, <3>1, <3>2, <3>3 DEF LocksHeld
  <2>5. QED
    BY <2>3, <2>4 DEF TimeInv
<1>4. CASE BeginCompute(f)
  <2>1. /\ pc[f] = "compute" /\ compute' = f /\ Goto(f, "put")
        /\ UNCHANGED <<database, cache, init, mutex, work>>
    BY <1>4 DEF BeginCompute
  <2>2. pc' \in [Actors -> Steps] /\ pc'[f] = "put"
        /\ \A b \in Actors : b # f => pc'[b] = pc[b]
    BY <1>0, <2>1, GotoType DEF Steps
  <2>3. TypeOK'
    BY <1>0, <1>1, <2>1, <2>2 DEF TypeOK, Steps, database
  <2>4. LocksHeld'
    BY <1>0, <2>1, <2>2 DEF LocksHeld
  <2>5. QED
    BY <2>3, <2>4 DEF TimeInv
<1>5. CASE PutTime(f)
  <2>1. /\ pc[f] = "put" /\ compute' = NoActor /\ mutex' = NoActor /\ Goto(f, "end")
        /\ UNCHANGED <<database, init, work>> /\ cache' = Inserted(f)
    BY <1>5 DEF PutTime
  <2>2. pc' \in [Actors -> Steps] /\ pc'[f] = "end"
        /\ \A b \in Actors : b # f => pc'[b] = pc[b]
    BY <1>0, <2>1, GotoType DEF Steps
  <2>3. cache' \in Entry \cup {NoEntry}
    <3>1. CASE cache \in Entry
      <4> DEFINE t == [cache.times EXCEPT ![index[f]] = plan[f]]
                 e == [cache EXCEPT !.times = t]
                 d == cache.dont \ {index[f]}
                 e2 == [e EXCEPT !.dont = d]
      <4>1. t \in [Segments -> Nat] /\ d \in SUBSET Segments
        BY <1>0, <3>1, EntryFields
      <4>2. e \in Entry
        <5> HIDE DEF t
        <5>1. QED
          BY <3>1, <4>1, EntryFields
      <4>3. e2 \in Entry
        <5> HIDE DEF e, d
        <5>1. QED
          BY <4>1, <4>2, EntryFields
      <4>4. Inserted(f) \in {cache, e2}
        BY <3>1 DEF Inserted, Entry
      <4>5. QED
        BY <2>1, <3>1, <4>3, <4>4
    <3>2. CASE cache = NoEntry
      BY <2>1, <3>2 DEF Inserted
    <3>3. QED
      BY <1>0, <3>1, <3>2
  <2>4. TypeOK'
    BY <1>0, <1>1, <2>1, <2>2, <2>3 DEF TypeOK, Steps, database
  <2>5. LocksHeld'
    <3>1. mutex = f
      BY <1>0, <2>1 DEF LocksHeld
    <3>2. \A g \in Fills : g # f => pc[g] \notin {"compute", "put"}
      BY <1>0, <3>1 DEF LocksHeld
    <3>3. \A t \in Slows : pc[t] # "try"
      BY <1>0, <3>1 DEF LocksHeld
    <3>4. QED
      BY <1>0, <2>1, <2>2, <3>2, <3>3 DEF LocksHeld
  <2>6. QED
    BY <2>4, <2>5 DEF TimeInv
<1>6. QED
  BY <1>2, <1>3, <1>4, <1>5 DEF FillStep

LEMMA StartNext ==
    ASSUME TimeInv, NEW a \in Actors, Start(a)
    PROVE  TimeInv'
<1>0. TypeOK /\ LocksHeld /\ pc \in [Actors -> Steps] /\ playlist \in Nat
  BY DEF TimeInv, TypeOK, Steps
<1>1. PICK step \in {"lock", "wait", "row"} : Goto(a, step)
  BY DEF Start
<1>2. /\ plan' = [plan EXCEPT ![a] = playlist]
      /\ UNCHANGED <<playlist, database, cache, locks, work, fill, due>>
  BY DEF Start, history
<1>3. pc' \in [Actors -> Steps] /\ pc'[a] \in {"lock", "wait", "row"}
      /\ \A b \in Actors : b # a => pc'[b] = pc[b]
  BY <1>0, <1>1, GotoType DEF Steps
<1>4. TypeOK'
  BY <1>0, <1>2, <1>3 DEF TypeOK, Steps, database, locks, fill
<1>5. LocksHeld'
  <2>1. \A f \in Fills : compute = f => f # a
    BY <1>0 DEF LocksHeld, Start
  <2>2. QED
    BY <1>0, <1>2, <1>3, <2>1 DEF LocksHeld, locks, Actors
<1>6. QED
  BY <1>4, <1>5 DEF TimeInv

LEMMA AbortNext ==
    ASSUME TimeInv, NEW a \in Actors, Abort(a)
    PROVE  TimeInv'
<1>0. /\ TypeOK /\ LocksHeld /\ pc \in [Actors -> Steps]
      /\ \A f \in Fills : f \in Actors
      /\ \A f \in Fills : f # NoActor
  BY TimeConstants DEF TimeInv, TypeOK, Steps, Actors
<1>1. /\ pc[a] \in {"fast", "rows", "meta", "check", "measure", "row"}
      /\ compute' \in {compute, NoActor} /\ init' \in {init, NoActor}
      /\ work' = [work EXCEPT ![a] = Empty] /\ Goto(a, "end")
      /\ UNCHANGED <<playlist, database, cache, mutex, plan, fill, due>>
  BY DEF Abort
<1>2. pc' \in [Actors -> Steps] /\ pc'[a] = "end"
      /\ \A b \in Actors : b # a => pc'[b] = pc[b]
  BY <1>0, <1>1, GotoType DEF Steps
<1>3. work' \in [Actors -> Entry]
  BY <1>0, <1>1, EmptyEntry, WorkType
<1>4. TypeOK'
  BY <1>0, <1>1, <1>2, <1>3 DEF TypeOK, Steps, database, fill
<1>5. LocksHeld'
  <2>1. \A f \in Fills : compute' = f => pc'[f] = "put"
    BY <1>0, <1>1, <1>2 DEF LocksHeld
  <2>2. QED
    BY <1>0, <1>1, <1>2, <2>1 DEF LocksHeld, Actors
<1>6. QED
  BY <1>4, <1>5 DEF TimeInv

LEMMA NextInv == TimeInv /\ [Next]_vars => TimeInv'
<1> SUFFICES ASSUME TimeInv, [Next]_vars PROVE TimeInv'
  OBVIOUS
<1>1. CASE NewPlaylist
  <2>1. playlist' \in Nat /\ UNCHANGED <<database, cache, locks, pc, plan, work, fill, due>>
    BY <1>1 DEF NewPlaylist, TimeInv, TypeOK
  <2>2. QED
    BY <2>1 DEF TimeInv, TypeOK, LocksHeld, database, locks, fill
<1>2. CASE RecordPlaylist
  <2>1. /\ meta' \in Nat /\ db' \in [Segments -> Nat] /\ stored' \in SUBSET Segments
        /\ UNCHANGED <<playlist, cache, locks, pc, plan, work, fill, due>>
    BY <1>2, Purged DEF RecordPlaylist, TimeInv, TypeOK
  <2>2. QED
    BY <2>1 DEF TimeInv, TypeOK, LocksHeld, locks, fill
<1>3. CASE Evict
  <2>1. cache' = NoEntry /\ UNCHANGED <<playlist, database, locks, pc, plan, work, fill, due>>
    BY <1>3 DEF Evict
  <2>2. QED
    BY <2>1 DEF TimeInv, TypeOK, LocksHeld, database, locks, fill
<1>4. CASE UNCHANGED vars
  BY <1>4 DEF TimeInv, TypeOK, LocksHeld, vars, database, locks, fill, history
<1>5. QED
  BY <1>1, <1>2, <1>3, <1>4, StartNext, AbortNext, SlowNext, ListingNext, FillNext
     DEF Next

\* The inductive invariant: types, and who must hold a lock at which step.
THEOREM Invariant == Spec => []TimeInv
<1>1. QED
  BY InitInv, NextInv, PTL DEF Spec

\* Every variable keeps its type; above all the entry, which listings, slow
\* fetches and fills replace in turn.
THEOREM TypeCorrect == Spec => []TypeOK
<1>1. TimeInv => TypeOK
  BY DEF TimeInv
<1>2. QED
  BY <1>1, Invariant, PTL

\* A slow fetch gives up only for another slow fetch of the movie, however
\* many fills insert times (and_try_compute_if_nobody_else under the mutex
\* that TimeCache::insert takes).
THEOREM GivesUp == Spec => GivesUpForSlowFetch
<1>1. TimeInv /\ [Next]_vars =>
          \A s \in Slows : pc[s] = "try" /\ pc'[s] = "end" => compute \in Slows
  <2> SUFFICES ASSUME TimeInv, [Next]_vars, NEW s \in Slows,
                      pc[s] = "try", pc'[s] = "end"
               PROVE  compute \in Slows
    OBVIOUS
  <2>1. mutex = s /\ s \in Actors /\ s \notin Fills /\ s \notin Listings /\ s # NoActor
    BY TimeConstants DEF TimeInv, LocksHeld, Actors
  <2>2. compute \notin Fills
    BY <2>1 DEF TimeInv, LocksHeld
  <2>3. compute # NoActor
    <3> SUFFICES ASSUME compute = NoActor PROVE FALSE
      OBVIOUS
    <3>0. TypeOK /\ pc \in [Actors -> Steps]
      BY DEF TimeInv, TypeOK, Steps
    <3>1. ASSUME NEW a \in Actors, NEW step \in Steps, Goto(a, step), a # s
          PROVE  FALSE
      BY <3>0, <3>1, <2>1, GotoType
    <3>2. CASE NewPlaylist \/ RecordPlaylist \/ Evict \/ UNCHANGED vars
      BY <3>2 DEF NewPlaylist, RecordPlaylist, Evict, vars
    <3>3. ASSUME NEW a \in Actors, Start(a) \/ Abort(a) PROVE FALSE
      <4>1. a # s
        BY <3>3 DEF Start, Abort
      <4>2. PICK step \in Steps : Goto(a, step)
        BY <3>3 DEF Start, Abort, Steps
      <4>3. QED
        BY <3>1, <4>1, <4>2
    <3>4. ASSUME NEW t \in Slows, SlowStep(t) PROVE FALSE
      <4>0. t \in Actors
        BY DEF Actors
      <4>1. CASE t = s
        <5>1. TryCompute(s)
          BY <3>0, <3>4, <4>1, <2>1, StepTypes
             DEF SlowStep, LockSlow, Put
        <5>2. PICK step \in {"fast", "check"} : Goto(s, step)
          BY <5>1 DEF TryCompute
        <5>3. QED
          BY <3>0, <2>1, <5>2, GotoType DEF Steps
      <4>2. CASE t # s
        <5>1. CASE LockSlow(t) \/ TryCompute(t) \/ Put(t)
          <6>1. PICK step \in Steps : Goto(t, step)
            BY <5>1 DEF LockSlow, TryCompute, Put, Steps
          <6>2. QED
            BY <3>1, <4>0, <4>2, <6>1
        <5>2. CASE \/ FastGetTimes(t) \/ ReadRows(t) \/ ReadMetadata(t)
                   \/ CheckPlaylist(t) \/ Measure(t) \/ Created(t)
          BY <3>0, <2>1, <4>2, <5>2, StepTypes
        <5>3. QED
          BY <3>4, <5>1, <5>2 DEF SlowStep
      <4>3. QED
        BY <4>1, <4>2
    <3>5. ASSUME NEW l \in Listings, ListingStep(l) PROVE FALSE
      <4>0. l \in Actors /\ l # s
        BY <2>1 DEF Actors
      <4>1. CASE Waited(l)
        BY <3>1, <4>0, <4>1 DEF Waited, Proceed, Steps
      <4>2. CASE \/ FastGetTimes(l) \/ ReadRows(l) \/ ReadMetadata(l)
                 \/ CheckPlaylist(l) \/ Measure(l) \/ Created(l)
        BY <3>0, <2>1, <4>0, <4>2, StepTypes
      <4>3. QED
        BY <3>5, <4>1, <4>2 DEF ListingStep
    <3>6. ASSUME NEW f \in Fills, FillStep(f) PROVE FALSE
      <4>0. f \in Actors /\ f # s
        BY <2>1 DEF Actors
      <4>1. PICK step \in Steps : Goto(f, step)
        BY <3>6 DEF FillStep, StoreSegment, LockInsert, BeginCompute, PutTime, Steps
      <4>2. QED
        BY <3>1, <4>0, <4>1
    <3>7. QED
      BY <3>2, <3>3, <3>4, <3>5, <3>6 DEF Next
  <2>4. QED
    BY <2>2, <2>3 DEF TimeInv, TypeOK
<1>2. QED
  BY <1>1, Invariant, PTL DEF Spec, GivesUpForSlowFetch

-----------------------------------------------------------------------------
(* Whose turn it is.                                                       *)

Workers == Slows \cup Listings
WorkSteps == {"rows", "meta", "check", "measure"}
Working(a) == pc[a] \in WorkSteps

\* A slow fetch computes the entry from its try to its put; whoever creates
\* the entry is at work on it, and a listing works on none but one it creates.
Turns ==
    /\ \A s \in Slows : (pc[s] = "fast" \/ Working(s)) => compute = s
    /\ \A l \in Listings : Working(l) => init = l
    /\ \A a \in Workers : pc[a] \in {"rows", "meta"} => init = a
    /\ init # NoActor => Working(init)
    /\ \A f \in Fills : pc[f] = "put" => compute = f

LEMMA ActorKinds ==
    /\ Actors = Workers \cup Fills /\ NoActor \notin Actors
    /\ \A s \in Slows : s \in Workers /\ s \in Actors /\ s \notin Listings /\ s \notin Fills
    /\ \A l \in Listings : l \in Workers /\ l \in Actors /\ l \notin Slows /\ l \notin Fills
    /\ \A f \in Fills : f \in Actors /\ f \notin Slows /\ f \notin Listings
    /\ \A a \in Workers : a \in Actors /\ a \notin Fills
  BY TimeConstants DEF Actors, Workers

\* What a step of compute_times_without_cache does to the turns: it begins
\* with fast_get_times, which takes the entry or creates it ...
LEMMA FastStep ==
    ASSUME TypeOK, NEW a \in Workers, FastGetTimes(a)
    PROVE  /\ pc[a] = "fast"
           /\ UNCHANGED <<database, cache, compute, mutex, missed>>
           /\ \/ /\ cache # NoEntry /\ UNCHANGED init
                 /\ \/ a \in Slows /\ Goto(a, "check")
                       /\ work' = [work EXCEPT ![a] = cache]
                    \/ a \in Listings /\ Goto(a, "listed")
                       /\ work' = [work EXCEPT ![a] = Empty]
              \/ /\ cache = NoEntry /\ init = NoActor /\ init' = a
                 /\ Goto(a, "rows") /\ UNCHANGED work
<1>1. CASE cache # NoEntry /\ UNCHANGED <<cache, init>> /\ TakeOrList(a)
  BY <1>1, ActorKinds DEF FastGetTimes, TakeOrList, Workers
<1>2. CASE /\ cache = NoEntry /\ init = NoActor /\ init' = a
           /\ Goto(a, "rows") /\ UNCHANGED <<cache, work>>
  BY <1>2 DEF FastGetTimes
<1>3. QED
  BY <1>1, <1>2 DEF FastGetTimes

\* ... and ends with the entry in the cache.
LEMMA CreatedStep ==
    ASSUME TypeOK, NEW a \in Workers, Created(a)
    PROVE  /\ pc[a] = "measure" /\ init = a
           /\ cache' = work[a] /\ init' = NoActor
           /\ UNCHANGED <<database, compute, mutex, missed>>
           /\ \/ a \in Slows /\ Goto(a, "check")
                 /\ work' = [work EXCEPT ![a] = work[a]]
              \/ a \in Listings /\ Goto(a, "listed")
                 /\ work' = [work EXCEPT ![a] = Empty]
  BY ActorKinds DEF Created, TakeOrList, Workers

LEMMA TurnsWork ==
    ASSUME TypeOK, Turns, NEW a \in Workers,
           \/ FastGetTimes(a) \/ ReadRows(a) \/ ReadMetadata(a)
           \/ CheckPlaylist(a) \/ Measure(a) \/ Created(a)
    PROVE  Turns'
<1>0. a \in Actors /\ a # NoActor
  BY ActorKinds
<1>1. CASE FastGetTimes(a)
  <2>1. PICK step \in {"check", "listed", "rows"} :
            /\ Goto(a, step) /\ pc[a] = "fast" /\ compute' = compute
            /\ step = "rows" => init = NoActor /\ init' = a
            /\ step # "rows" => init' = init
            /\ step = "check" => a \in Slows
            /\ step = "listed" => a \in Listings
    BY <1>1, FastStep
  <2>2. pc'[a] = step /\ \A b \in Actors : b # a => pc'[b] = pc[b]
    BY <1>0, <2>1, GotoType DEF Steps
  <2>3. init # a
    BY <1>0, <2>1 DEF Turns, Working, WorkSteps
  <2>4. QED
    BY <1>0, <2>1, <2>2, <2>3, ActorKinds DEF Turns, Working, WorkSteps, TypeOK
<1>2. CASE ReadRows(a) \/ ReadMetadata(a) \/ CheckPlaylist(a)
  <2>1. PICK step \in {"meta", "check", "measure"} :
            /\ Goto(a, step) /\ Working(a) /\ UNCHANGED <<compute, init>>
            /\ step = "meta" => pc[a] = "rows"
    BY <1>2 DEF ReadRows, ReadMetadata, CheckPlaylist, locks, Working, WorkSteps
  <2>2. pc'[a] = step /\ \A b \in Actors : b # a => pc'[b] = pc[b]
    BY <1>0, <2>1, GotoType DEF Steps
  <2>3. QED
    BY <1>0, <2>1, <2>2, ActorKinds DEF Turns, Working, WorkSteps, TypeOK
<1>3. CASE Measure(a)
  BY <1>3 DEF Measure, locks, Turns, Working
<1>4. CASE Created(a)
  <2>1. PICK step \in {"check", "listed"} :
            /\ Goto(a, step) /\ pc[a] = "measure" /\ compute' = compute
            /\ init = a /\ init' = NoActor
            /\ step = "check" => a \in Slows
            /\ step = "listed" => a \in Listings
    BY <1>4, CreatedStep
  <2>2. pc'[a] = step /\ \A b \in Actors : b # a => pc'[b] = pc[b]
    BY <1>0, <2>1, GotoType DEF Steps
  <2>3. QED
    BY <1>0, <2>1, <2>2, ActorKinds DEF Turns, Working, WorkSteps, TypeOK
<1>5. QED
  BY <1>1, <1>2, <1>3, <1>4

LEMMA TurnsNext ==
    ASSUME TimeInv, Turns, [Next]_vars
    PROVE  Turns'
<1>0. TypeOK /\ LocksHeld
  BY DEF TimeInv
<1>1. CASE NewPlaylist \/ RecordPlaylist \/ Evict \/ UNCHANGED vars
  BY <1>1 DEF NewPlaylist, RecordPlaylist, Evict, vars, locks, Turns, Working
<1>2. ASSUME NEW a \in Actors, Start(a) PROVE Turns'
  <2>1. PICK step \in {"lock", "wait", "row"} :
            Goto(a, step) /\ pc[a] = "new" /\ UNCHANGED <<compute, init>>
    BY <1>2 DEF Start, locks
  <2>2. pc'[a] = step /\ \A b \in Actors : b # a => pc'[b] = pc[b]
    BY <1>0, <2>1, GotoType DEF Steps
  <2>3. QED
    BY <1>0, <2>1, <2>2, ActorKinds DEF Turns, Working, WorkSteps, TypeOK
<1>3. ASSUME NEW a \in Actors, Abort(a) PROVE Turns'
  <2>1. /\ Goto(a, "end") /\ pc[a] # "put"
        /\ compute' = IF compute = a THEN NoActor ELSE compute
        /\ init' = IF init = a THEN NoActor ELSE init
    BY <1>3 DEF Abort
  <2>2. pc'[a] = "end" /\ \A b \in Actors : b # a => pc'[b] = pc[b]
    BY <1>0, <2>1, GotoType DEF Steps
  <2>3. QED
    BY <1>0, <2>1, <2>2, ActorKinds DEF Turns, Working, WorkSteps, TypeOK
<1>4. ASSUME NEW s \in Slows, SlowStep(s) PROVE Turns'
  <2>0. s \in Actors /\ s \in Workers
    BY ActorKinds
  <2>1. CASE \/ FastGetTimes(s) \/ ReadRows(s) \/ ReadMetadata(s)
             \/ CheckPlaylist(s) \/ Measure(s) \/ Created(s)
    BY <1>0, <2>0, <2>1, TurnsWork
  <2>2. CASE LockSlow(s)
    <3>1. Goto(s, "try") /\ pc[s] = "lock" /\ UNCHANGED <<compute, init>>
      BY <2>2 DEF LockSlow
    <3>2. pc'[s] = "try" /\ \A b \in Actors : b # s => pc'[b] = pc[b]
      BY <1>0, <2>0, <3>1, GotoType DEF Steps
    <3>3. QED
      BY <1>0, <2>0, <3>1, <3>2, ActorKinds DEF Turns, Working, WorkSteps, TypeOK
  <2>3. CASE TryCompute(s)
    <3>1. PICK step \in {"end", "fast", "check"} :
              /\ Goto(s, step) /\ pc[s] = "try" /\ UNCHANGED init
              /\ step = "end" => compute' = compute
              /\ step # "end" => compute = NoActor /\ compute' = s
      BY <2>3 DEF TryCompute
    <3>2. pc'[s] = step /\ \A b \in Actors : b # s => pc'[b] = pc[b]
      BY <1>0, <2>0, <3>1, GotoType DEF Steps
    <3>3. QED
      BY <1>0, <2>0, <3>1, <3>2, ActorKinds DEF Turns, Working, WorkSteps, TypeOK
  <2>4. CASE Put(s)
    <3>1. PICK step \in {"end", "lock"} :
              /\ Goto(s, step) /\ pc[s] = "measure" /\ init # s /\ UNCHANGED init
              /\ compute' = NoActor
      BY <2>4 DEF Put
    <3>2. pc'[s] = step /\ \A b \in Actors : b # s => pc'[b] = pc[b]
      BY <1>0, <2>0, <3>1, GotoType DEF Steps
    <3>3. compute = s
      BY <3>1 DEF Turns, Working, WorkSteps
    <3>4. QED
      BY <1>0, <2>0, <3>1, <3>2, <3>3, ActorKinds DEF Turns, Working, WorkSteps, TypeOK
  <2>5. QED
    BY <1>4, <2>1, <2>2, <2>3, <2>4 DEF SlowStep
<1>5. ASSUME NEW l \in Listings, ListingStep(l) PROVE Turns'
  <2>0. l \in Actors /\ l \in Workers
    BY ActorKinds
  <2>1. CASE \/ FastGetTimes(l) \/ ReadRows(l) \/ ReadMetadata(l)
             \/ CheckPlaylist(l) \/ Measure(l) \/ Created(l)
    BY <1>0, <2>0, <2>1, TurnsWork
  <2>2. CASE Waited(l)
    <3>1. Goto(l, "fast") /\ pc[l] = "wait" /\ UNCHANGED <<compute, init>>
      BY <2>2 DEF Waited, Proceed, locks
    <3>2. pc'[l] = "fast" /\ \A b \in Actors : b # l => pc'[b] = pc[b]
      BY <1>0, <2>0, <3>1, GotoType DEF Steps
    <3>3. QED
      BY <1>0, <2>0, <3>1, <3>2, ActorKinds DEF Turns, Working, WorkSteps, TypeOK
  <2>3. QED
    BY <1>5, <2>1, <2>2 DEF ListingStep
<1>6. ASSUME NEW f \in Fills, FillStep(f) PROVE Turns'
  <2>0. f \in Actors /\ f \notin Workers /\ f # NoActor
    BY ActorKinds
  <2>1. PICK step \in {"insert", "compute", "put", "end"} :
            /\ Goto(f, step) /\ UNCHANGED init
            /\ step \in {"insert", "compute"} => compute' = compute /\ pc[f] # "put"
            /\ step = "put" => compute = NoActor /\ compute' = f
            /\ step = "end" => pc[f] = "put" /\ compute' = NoActor
    BY <1>6 DEF FillStep, StoreSegment, LockInsert, BeginCompute, PutTime, locks
  <2>2. pc'[f] = step /\ \A b \in Actors : b # f => pc'[b] = pc[b]
    BY <1>0, <2>0, <2>1, GotoType DEF Steps
  <2>3. step = "end" => compute = f
    BY <2>1 DEF Turns
  <2>4. init' \in Workers \cup {NoActor}
    BY <1>0, <2>1 DEF TypeOK, Workers
  <2>5. QED
    BY <2>0, <2>1, <2>2, <2>3, <2>4, ActorKinds DEF Turns, Working, WorkSteps
<1>7. QED
  BY <1>1, <1>2, <1>3, <1>4, <1>5, <1>6 DEF Next

-----------------------------------------------------------------------------
(* What is kept as long as no playlist comes, and no entry goes, while     *)
(* somebody works.                                                         *)

\* Everybody works on the playlist scraped last ...
PlansCurrent == \A a \in Actors : Busy(a) => plan[a] = playlist

\* ... and so do the rows, once it is recorded.
RowsCurrent ==
    /\ playlist # 0 /\ meta <= playlist
    /\ meta = playlist => \A i \in Segments : db[i] \in {0, playlist}

\* Whoever works has no entry beside the one in hand, or is the slow fetch
\* that computes the one there is.
WorkersAlone ==
    /\ init # NoActor => cache = NoEntry
    /\ \A a \in Workers : Working(a) /\ init # a => cache # NoEntry

Own(entry) ==
    \A i \in Segments : entry.times[i] # 0 =>
        entry.times[i] = entry.of \/ i \in strayed

\* The entry in hand has times of one playlist, at the latest once it has
\* been compared with the playlist.
WorkOwn ==
    \A a \in Workers :
        /\ pc[a] = "meta" /\ meta = playlist =>
               \A i \in Segments : work[a].times[i] \in {0, playlist}
        /\ pc[a] = "check" /\ work[a].of = playlist => Own(work[a])
        /\ pc[a] = "measure" => work[a].of = playlist /\ Own(work[a])

CacheOwn == cache # NoEntry => Own(cache)

\* A fill has stored the segment and not inserted its time yet.
Handed(i) ==
    \E f \in Fills : /\ index[f] = i /\ parsed[f]
                     /\ pc[f] \in {"insert", "compute", "put"}

Covers(entry) ==
    \A i \in Segments : db[i] # 0 =>
        entry.times[i] # 0 \/ i \in missed \/ Handed(i)

\* All that the database knows is in the entry in hand or, when nobody works,
\* in the entry; or it was missed, or will be inserted.
WorkCovers ==
    \A a \in Workers : pc[a] \in {"meta", "check", "measure"} => Covers(work[a])

CacheCovers == cache # NoEntry /\ (\A a \in Workers : ~Working(a)) => Covers(cache)

\* A listing that creates the entry has read the rows that are due.
DueKnown ==
    \A l \in Listings :
        /\ (pc[l] = "fast" \/ Working(l)) => \A i \in due[l] : db[i] # 0
        /\ pc[l] \in {"meta", "check", "measure"} =>
               \A i \in due[l] : work[l].times[i] # 0

Kept ==
    /\ PlansCurrent /\ RowsCurrent /\ WorkersAlone
    /\ WorkOwn /\ CacheOwn /\ WorkCovers /\ CacheCovers /\ DueKnown

KeptInv == TimeInv /\ Turns /\ (~crossed => Kept)

LEMMA Alone ==
    ASSUME TypeOK, Turns, WorkersAlone,
           NEW a \in Workers, NEW b \in Workers, Working(a), Working(b)
    PROVE  a = b
<1>1. CASE init = a \/ init = b
  BY <1>1, ActorKinds DEF WorkersAlone
<1>2. CASE init # a /\ init # b
  BY <1>2, ActorKinds DEF Turns, Workers
<1>3. QED
  BY <1>1, <1>2

LEMMA WorkSet ==
    ASSUME TypeOK, NEW a \in Actors, NEW e, work' = [work EXCEPT ![a] = e]
    PROVE  work'[a] = e /\ \A b \in Actors : b # a => work'[b] = work[b]
  BY DEF TypeOK

\* The step of one worker concerns the claims about that worker only.
LEMMA OneWorker ==
    ASSUME TypeOK, Kept, NEW a \in Workers, NEW step,
           pc'[a] = step, \A b \in Actors : b # a => pc'[b] = pc[b],
           \A b \in Workers : b # a => ~Working(b),
           Busy(a), UNCHANGED <<playlist, plan, fill, strayed>>,
           (RowsCurrent /\ WorkersAlone /\ CacheOwn /\ CacheCovers)',
           due' = StillDue,
           (/\ pc[a] = "meta" /\ meta = playlist =>
                   \A i \in Segments : work[a].times[i] \in {0, playlist}
            /\ pc[a] = "check" /\ work[a].of = playlist => Own(work[a])
            /\ pc[a] = "measure" => work[a].of = playlist /\ Own(work[a])
            /\ pc[a] \in {"meta", "check", "measure"} => Covers(work[a]))',
           a \in Listings =>
               (/\ (pc[a] = "fast" \/ Working(a)) => \A i \in due[a] : db[i] # 0
                /\ pc[a] \in {"meta", "check", "measure"} =>
                       \A i \in due[a] : work[a].times[i] # 0)'
    PROVE  Kept'
<1>0. \A b \in Workers : b # a => ~Working(b)' /\ b \in Actors
  BY ActorKinds DEF Working
<1>1. PlansCurrent'
  BY ActorKinds DEF Kept, PlansCurrent, Busy
<1>2. WorkOwn'
  <2>1. \A b \in Workers : b # a => pc'[b] \notin {"meta", "check", "measure"}
    BY <1>0 DEF Working, WorkSteps
  <2>2. QED
    BY <2>1 DEF WorkOwn
<1>3. WorkCovers'
  <2>1. \A b \in Workers : b # a => pc'[b] \notin {"meta", "check", "measure"}
    BY <1>0 DEF Working, WorkSteps
  <2>2. QED
    BY <2>1 DEF WorkCovers
<1>4. DueKnown'
  <2> SUFFICES ASSUME NEW l \in Listings, l # a
               PROVE  (/\ (pc[l] = "fast" \/ Working(l)) => \A i \in due[l] : db[i] # 0
                       /\ pc[l] \in {"meta", "check", "measure"} =>
                              \A i \in due[l] : work[l].times[i] # 0)'
    BY DEF DueKnown
  <2>1. ~Working(l)' /\ pc'[l] = pc[l] /\ l \in Actors
    BY <1>0, ActorKinds
  <2>2. \A i \in due'[l] : i \in due[l] /\ (db[i] # 0 => db'[i] # 0)
    BY DEF StillDue
  <2>3. pc[l] = "fast" => \A i \in due[l] : db[i] # 0
    BY DEF Kept, DueKnown
  <2>4. QED
    BY <2>1, <2>2, <2>3 DEF Working, WorkSteps
<1>5. QED
  BY <1>1, <1>2, <1>3, <1>4 DEF Kept

\* Rows that are kept stay due.
LEMMA DueRows ==
    ASSUME TypeOK, DueKnown, NEW l \in Listings, due' = StillDue,
           pc[l] = "fast" \/ Working(l)
    PROVE  \A i \in due'[l] : i \in due[l] /\ i \in Segments /\ db[i] # 0 /\ db'[i] # 0
  BY DEF DueKnown, StillDue, TypeOK

\* A time that waits to be inserted waits as long as its fill does.
LEMMA HandedStays ==
    ASSUME NEW i, UNCHANGED <<index, parsed>>,
           \A f \in Fills : pc[f] \in {"insert", "compute", "put"} =>
                                pc'[f] \in {"insert", "compute", "put"}
    PROVE  Handed(i) => Handed(i)'
  BY DEF Handed

\* A step between the computations of the entry: no worker has one in hand.
LEMMA IdleStep ==
    ASSUME TypeOK, Kept, NEW a \in Actors,
           \A b \in Actors : b # a => pc'[b] = pc[b] /\ work'[b] = work[b] /\ plan'[b] = plan[b],
           a \in Workers => ~Working(a) /\ ~Working(a)',
           a \in Listings /\ pc'[a] = "fast" => \A i \in due'[a] : db[i] # 0,
           \A l \in Listings : l # a => due'[l] \subseteq due[l],
           (Busy(a) => plan[a] = playlist)',
           a \in Fills /\ pc[a] \in {"insert", "compute", "put"} =>
               pc'[a] \in {"insert", "compute", "put"},
           UNCHANGED <<playlist, meta, db, cache, init, index, parsed, strayed>>,
           missed \subseteq missed'
    PROVE  Kept'
<1>0. \A b \in Workers : b \in Actors /\ (Working(b)' <=> Working(b)) /\ (Working(b) => b # a)
  BY ActorKinds DEF Working
<1>1. \A i : Handed(i) => Handed(i)'
  BY ActorKinds, HandedStays
<1>2. PlansCurrent' /\ RowsCurrent'
  BY DEF Kept, PlansCurrent, RowsCurrent, Busy
<1>3. WorkersAlone'
  BY <1>0 DEF Kept, WorkersAlone
<1>4. /\ \A b \in Workers : pc'[b] \in {"meta", "check", "measure"} => Working(b)'
      /\ \A b \in Workers : Working(b)' => b # a /\ b \in Actors
  BY <1>0 DEF Working, WorkSteps
<1>5. WorkOwn' /\ CacheOwn'
  BY <1>4 DEF Kept, WorkOwn, CacheOwn, Own
<1>6. WorkCovers'
  BY <1>1, <1>4 DEF Kept, WorkCovers, Covers
<1>7. CacheCovers'
  BY <1>0, <1>1 DEF Kept, CacheCovers, Covers
<1>8. DueKnown'
  <2> SUFFICES ASSUME NEW l \in Listings
               PROVE  (/\ (pc[l] = "fast" \/ Working(l)) => \A i \in due[l] : db[i] # 0
                       /\ pc[l] \in {"meta", "check", "measure"} =>
                              \A i \in due[l] : work[l].times[i] # 0)'
    BY DEF DueKnown
  <2>0. l \in Workers
    BY ActorKinds
  <2>1. CASE l = a
    BY <1>4, <2>0, <2>1
  <2>2. CASE l # a
    <3>1. /\ pc'[l] = pc[l] /\ work'[l] = work[l] /\ due'[l] \subseteq due[l]
          /\ (Working(l)' <=> Working(l))
      BY <1>0, <2>0, <2>2
    <3>2. /\ (pc[l] = "fast" \/ Working(l)) => \A i \in due[l] : db[i] # 0
          /\ pc[l] \in {"meta", "check", "measure"} =>
                 \A i \in due[l] : work[l].times[i] # 0
      BY DEF Kept, DueKnown
    <3>3. QED
      BY <3>1, <3>2
  <2>3. QED
    BY <2>1, <2>2
<1>9. QED
  BY <1>2, <1>3, <1>5, <1>6, <1>7, <1>8 DEF Kept

\* fast_get_times takes the entry, or begins to create it.
LEMMA KeptFast ==
    ASSUME TimeInv, Turns, Kept, NEW a \in Workers, FastGetTimes(a), due' = StillDue,
           UNCHANGED <<playlist, plan, fill, strayed>>
    PROVE  Kept'
<1>0. /\ TypeOK /\ a \in Actors /\ pc[a] = "fast" /\ Busy(a) /\ ~Working(a)
      /\ UNCHANGED <<meta, db, cache, missed, index, parsed>>
      /\ due \in [Listings -> SUBSET Segments]
  BY ActorKinds, FastStep DEF TimeInv, TypeOK, Busy, Working, WorkSteps, database, fill
<1>1. CASE cache # NoEntry /\ UNCHANGED init /\ a \in Listings /\ Goto(a, "listed")
           /\ work' = [work EXCEPT ![a] = Empty]
  <2>1. pc'[a] = "listed" /\ \A b \in Actors : b # a => pc'[b] = pc[b]
    BY <1>0, <1>1, GotoType DEF Steps
  <2>2. \A b \in Actors : b # a => work'[b] = work[b]
    BY <1>0, <1>1, WorkSet
  <2>3. \A l \in Listings : due'[l] \subseteq due[l]
    BY DEF StillDue
  <2>4. ~Working(a)' /\ ~Busy(a)'
    BY <2>1 DEF Working, WorkSteps, Busy
  <2>5. QED
    BY <1>0, <1>1, <2>1, <2>2, <2>3, <2>4, ActorKinds, IdleStep
<1>2. CASE cache # NoEntry /\ UNCHANGED init /\ a \in Slows /\ Goto(a, "check")
           /\ work' = [work EXCEPT ![a] = cache]
  <2>1. pc'[a] = "check" /\ \A b \in Actors : b # a => pc'[b] = pc[b]
    BY <1>0, <1>2, GotoType DEF Steps
  <2>2. work'[a] = cache
    BY <1>0, <1>2, WorkSet
  <2>3. init = NoActor /\ compute = a
    BY <1>0, <1>2 DEF Kept, WorkersAlone, Turns
  <2>4. \A b \in Workers : ~Working(b)
    BY <1>0, <2>3, ActorKinds DEF Turns, Workers
  <2>5. Own(cache) /\ Covers(cache)
    BY <1>2, <2>4 DEF Kept, CacheOwn, CacheCovers
  <2>6. \A i : Handed(i) => Handed(i)'
    BY <1>0, <2>1, ActorKinds, HandedStays
  <2>7. Own(work[a])' /\ Covers(work[a])'
    BY <1>0, <2>2, <2>5, <2>6 DEF Own, Covers
  <2>8. (RowsCurrent /\ WorkersAlone /\ CacheOwn /\ CacheCovers)'
    <3>1. RowsCurrent' /\ CacheOwn'
      BY <1>0 DEF Kept, RowsCurrent, CacheOwn, Own
    <3>2. WorkersAlone'
      BY <1>0, <1>2, <2>3 DEF WorkersAlone
    <3>3. Working(a)'
      BY <2>1 DEF Working, WorkSteps
    <3>4. CacheCovers'
      BY <3>3 DEF CacheCovers
    <3>5. QED
      BY <3>1, <3>2, <3>4
  <2>9. QED
    BY <1>0, <1>2, <2>1, <2>4, <2>7, <2>8, ActorKinds, OneWorker
<1>3. CASE /\ cache = NoEntry /\ init = NoActor /\ init' = a
           /\ Goto(a, "rows") /\ UNCHANGED work
  <2>1. pc'[a] = "rows" /\ \A b \in Actors : b # a => pc'[b] = pc[b]
    BY <1>0, <1>3, GotoType DEF Steps
  <2>2. \A b \in Workers : ~Working(b)
    BY <1>3, ActorKinds DEF Kept, WorkersAlone
  <2>3. \A b \in Workers : Working(b)' => b = a
    BY <2>1, <2>2, ActorKinds DEF Working
  <2>4. (RowsCurrent /\ WorkersAlone /\ CacheOwn /\ CacheCovers)'
    <3>1. RowsCurrent' /\ CacheOwn' /\ CacheCovers'
      BY <1>0, <1>3 DEF Kept, RowsCurrent, CacheOwn, CacheCovers
    <3>2. WorkersAlone'
      BY <1>0, <1>3, <2>3 DEF WorkersAlone
    <3>3. QED
      BY <3>1, <3>2
  <2>5. a \in Listings => \A i \in due'[a] : db'[i] # 0
    BY <1>0, DueRows DEF Kept
  <2>6. QED
    BY <1>0, <2>1, <2>2, <2>4, <2>5, ActorKinds, OneWorker
<1>4. QED
  BY <1>0, <1>1, <1>2, <1>3, FastStep

\* It reads the rows and the recorded playlist; the rows may be those of an
\* earlier one.
LEMMA KeptRead ==
    ASSUME TimeInv, Turns, Kept, NEW a \in Workers, ReadRows(a) \/ ReadMetadata(a),
           due' = StillDue, UNCHANGED <<playlist, plan, fill, strayed>>
    PROVE  Kept'
<1>0. /\ TypeOK /\ a \in Actors /\ Busy(a) /\ Working(a) /\ init = a /\ a # NoActor
      /\ UNCHANGED <<meta, db, cache, init, missed, index, parsed>>
      /\ db \in [Segments -> Nat]
  BY ActorKinds DEF TimeInv, TypeOK, Busy, Working, WorkSteps, Turns, database, locks,
     fill, ReadRows, ReadMetadata
<1>1. PICK step \in {"meta", "check"}, e \in Entry :
          /\ Goto(a, step) /\ work' = [work EXCEPT ![a] = e]
          /\ step = "meta" => pc[a] = "rows" /\ e = [Empty EXCEPT !.times = db]
          /\ step = "check" => pc[a] = "meta" /\ e = [work[a] EXCEPT !.of = meta]
  BY <1>0, EmptyEntry, EntryFields DEF ReadRows, ReadMetadata, TypeOK
<1>2. pc'[a] = step /\ \A b \in Actors : b # a => pc'[b] = pc[b]
  BY <1>0, <1>1, GotoType DEF Steps
<1>3. work'[a] = e
  BY <1>0, <1>1, WorkSet
<1>4. \A b \in Workers : b # a => ~Working(b)
  BY <1>0, Alone DEF Kept
<1>5. \A i : Handed(i) => Handed(i)'
  BY <1>0, <1>2, ActorKinds, HandedStays
<1>6. work[a] \in Entry
  BY <1>0 DEF TypeOK
<1>7. /\ step = "meta" => e.times = db
      /\ step = "check" => e.times = work[a].times /\ e.of = meta
  BY <1>1, <1>6 DEF Entry, Empty
<1>8. (RowsCurrent /\ WorkersAlone /\ CacheOwn /\ CacheCovers)'
  <2>1. RowsCurrent' /\ CacheOwn'
    BY <1>0 DEF Kept, RowsCurrent, CacheOwn, Own
  <2>2. WorkersAlone'
    BY <1>0, <1>4, ActorKinds, <1>2 DEF Kept, WorkersAlone, Working
  <2>3. CacheCovers'
    BY <1>0 DEF Kept, WorkersAlone, CacheCovers
  <2>4. QED
    BY <2>1, <2>2, <2>3
<1>9. (/\ pc[a] = "meta" /\ meta = playlist =>
              \A i \in Segments : work[a].times[i] \in {0, playlist}
       /\ pc[a] = "check" /\ work[a].of = playlist => Own(work[a])
       /\ pc[a] = "measure" => work[a].of = playlist /\ Own(work[a])
       /\ pc[a] \in {"meta", "check", "measure"} => Covers(work[a]))'
  <2>1. CASE step = "meta"
    <3>1. Covers(work[a])'
      BY <1>0, <1>3, <1>7, <2>1 DEF Covers
    <3>2. meta = playlist => \A i \in Segments : e.times[i] \in {0, playlist}
      BY <1>7, <2>1 DEF Kept, RowsCurrent
    <3>3. QED
      BY <1>0, <1>2, <1>3, <2>1, <3>1, <3>2
  <2>2. CASE step = "check"
    <3>1. Covers(work[a])
      BY <1>1, <2>2 DEF Kept, WorkCovers
    <3>2. Covers(work[a])'
      BY <1>0, <1>3, <1>5, <1>7, <2>2, <3>1 DEF Covers
    <3>3. meta = playlist => \A i \in Segments : work[a].times[i] \in {0, playlist}
      BY <1>1, <2>2 DEF Kept, WorkOwn
    <3>4. (work[a].of = playlist => Own(work[a]))'
      BY <1>0, <1>3, <1>7, <2>2, <3>3 DEF Own
    <3>5. QED
      BY <1>2, <2>2, <3>2, <3>4
  <2>3. QED
    BY <2>1, <2>2
<1>10. a \in Listings =>
          (/\ (pc[a] = "fast" \/ Working(a)) => \A i \in due[a] : db[i] # 0
           /\ pc[a] \in {"meta", "check", "measure"} =>
                  \A i \in due[a] : work[a].times[i] # 0)'
  <2> SUFFICES ASSUME a \in Listings, NEW i \in due'[a]
               PROVE  db'[i] # 0 /\ e.times[i] # 0
    BY <1>3
  <2>1. i \in due[a] /\ db[i] # 0 /\ db'[i] # 0
    BY <1>0, DueRows DEF Kept
  <2>2. pc[a] = "meta" => work[a].times[i] # 0
    BY <2>1 DEF Kept, DueKnown
  <2>3. QED
    BY <1>1, <1>7, <2>1, <2>2
<1>11. QED
  BY <1>0, <1>2, <1>4, <1>8, <1>9, <1>10, OneWorker

\* The entry in hand is compared with the playlist, and dropped with the rows
\* of the movie if it is another's.
LEMMA KeptCheck ==
    ASSUME TimeInv, Turns, Kept, NEW a \in Workers, CheckPlaylist(a),
           due' = StillDue, UNCHANGED <<playlist, plan, fill, strayed>>
    PROVE  Kept'
<1>0. /\ TypeOK /\ a \in Actors /\ Busy(a) /\ Working(a) /\ pc[a] = "check" /\ Goto(a, "measure")
      /\ UNCHANGED <<cache, init, missed, index, parsed>>
      /\ work[a] \in Entry /\ plan[a] = playlist
  BY ActorKinds DEF TimeInv, TypeOK, Busy, Working, WorkSteps, locks,
     fill, CheckPlaylist, Kept, PlansCurrent
<1>1. pc'[a] = "measure" /\ \A b \in Actors : b # a => pc'[b] = pc[b]
  BY <1>0, GotoType DEF Steps
<1>2. \A b \in Workers : b # a => ~Working(b)
  BY <1>0, Alone DEF Kept
<1>3. \A i : Handed(i) => Handed(i)'
  BY <1>0, <1>1, ActorKinds, HandedStays
<1>4. WorkersAlone' /\ Working(a)'
  BY <1>0, <1>1, <1>2, ActorKinds DEF Kept, WorkersAlone, Working, WorkSteps
<1>5. CacheOwn' /\ CacheCovers'
  BY <1>0, <1>4 DEF Kept, CacheOwn, Own, CacheCovers
<1>6. /\ RowsCurrent'
      /\ (work[a].of = playlist /\ Own(work[a]) /\ Covers(work[a]))'
      /\ \A i \in Segments : work[a].times[i] # 0 /\ db'[i] # 0 => work'[a].times[i] # 0
  <2>1. CASE work[a].of = plan[a] /\ UNCHANGED <<database, work>>
    <3>1. Own(work[a]) /\ Covers(work[a])
      BY <1>0, <2>1 DEF Kept, WorkOwn, WorkCovers
    <3>2. QED
      BY <1>0, <1>3, <2>1, <3>1 DEF Own, Covers, database, Kept, RowsCurrent
  <2>2. CASE /\ work' = [work EXCEPT ![a].of = plan[a], ![a].times = NoTimes]
             /\ Purge(plan[a])
    <3>1. work'[a].of = playlist /\ work'[a].times = NoTimes
      BY <1>0, <2>2 DEF TypeOK, Entry
    <3>2. meta' = playlist /\ db' = NoTimes
      BY <1>0, <2>2 DEF Purge
    <3>3. RowsCurrent'
      BY <1>0, <3>2 DEF Kept, RowsCurrent, NoTimes, TimeInv, TypeOK
    <3>4. (Own(work[a]) /\ Covers(work[a]))'
      BY <3>1, <3>2 DEF Own, Covers, NoTimes
    <3>5. \A i \in Segments : db'[i] = 0
      BY <3>2 DEF NoTimes
    <3>6. QED
      BY <3>1, <3>3, <3>4, <3>5
  <2>3. QED
    BY <2>1, <2>2 DEF CheckPlaylist
<1>7. a \in Listings =>
          (/\ (pc[a] = "fast" \/ Working(a)) => \A i \in due[a] : db[i] # 0
           /\ pc[a] \in {"meta", "check", "measure"} =>
                  \A i \in due[a] : work[a].times[i] # 0)'
  <2> SUFFICES ASSUME a \in Listings, NEW i \in due'[a]
               PROVE  db'[i] # 0 /\ work'[a].times[i] # 0
    OBVIOUS
  <2>1. i \in due[a] /\ i \in Segments /\ db'[i] # 0
    BY <1>0, DueRows DEF Kept
  <2>2. work[a].times[i] # 0
    BY <1>0, <2>1 DEF Kept, DueKnown
  <2>3. QED
    BY <1>6, <2>1, <2>2
<1>8. QED
  BY <1>0, <1>1, <1>2, <1>4, <1>5, <1>6, <1>7, OneWorker

\* A time that is measured is the playlist's, in the row as in the entry.
LEMMA KeptMeasure ==
    ASSUME TimeInv, Turns, Kept, NEW a \in Workers, Measure(a),
           due' = StillDue, UNCHANGED <<playlist, plan, fill, strayed>>
    PROVE  Kept'
<1>0. /\ TypeOK /\ a \in Actors /\ Busy(a) /\ Working(a) /\ pc[a] = "measure"
      /\ UNCHANGED <<pc, cache, init, missed, index, parsed, meta>>
      /\ work[a] \in Entry /\ plan[a] = playlist /\ playlist # 0
      /\ db \in [Segments -> Nat]
  BY ActorKinds DEF TimeInv, TypeOK, Busy, Working, WorkSteps, locks,
     fill, Measure, Kept, PlansCurrent, RowsCurrent
<1>1. \A b \in Workers : b # a => ~Working(b)
  BY <1>0, Alone DEF Kept
<1>2. \A i : Handed(i) => Handed(i)'
  BY <1>0, HandedStays
<1>3. WorkersAlone' /\ Working(a)'
  BY <1>0 DEF Kept, WorkersAlone, Working
<1>4. CacheOwn' /\ CacheCovers'
  BY <1>0, <1>3 DEF Kept, CacheOwn, Own, CacheCovers
<1>5. work[a].of = playlist /\ Own(work[a]) /\ Covers(work[a])
  BY <1>0 DEF Kept, WorkOwn, WorkCovers
<1>6. PICK i \in Segments :
          \/ /\ work' = [work EXCEPT ![a].times[i] = plan[a]]
             /\ db' \in {db, [db EXCEPT ![i] = plan[a]]}
          \/ /\ work' = [work EXCEPT ![a].dont = @ \cup {i}]
             /\ UNCHANGED db
  BY DEF Measure, Unknown
<1>7. /\ work'[a].of = playlist
      /\ \A j \in Segments : /\ work'[a].times[j] \in {work[a].times[j], playlist}
                             /\ work[a].times[j] # 0 => work'[a].times[j] # 0
                             /\ db'[j] = db[j] \/ (db'[j] = playlist /\ work'[a].times[j] # 0)
                             /\ db[j] # 0 => db'[j] # 0
  <2>1. CASE /\ work' = [work EXCEPT ![a].times[i] = plan[a]]
             /\ db' \in {db, [db EXCEPT ![i] = plan[a]]}
    <3>1. /\ work'[a].of = playlist
          /\ \A j \in Segments : work'[a].times[j] = IF j = i THEN playlist ELSE work[a].times[j]
      BY <1>0, <1>5, <2>1 DEF TypeOK, Entry
    <3>2. \A j \in Segments : db'[j] = db[j] \/ (j = i /\ db'[j] = playlist)
      BY <1>0, <2>1
    <3>3. QED
      BY <1>0, <3>1, <3>2
  <2>2. CASE /\ work' = [work EXCEPT ![a].dont = @ \cup {i}]
             /\ UNCHANGED db
    BY <1>0, <1>5, <2>2 DEF TypeOK, Entry
  <2>3. QED
    BY <1>6, <2>1, <2>2
<1>8. RowsCurrent' /\ (Own(work[a]) /\ Covers(work[a]))'
  <2>1. RowsCurrent'
    BY <1>0, <1>7 DEF Kept, RowsCurrent
  <2>2. Own(work[a])'
    BY <1>5, <1>7 DEF Own
  <2>3. Covers(work[a])'
    BY <1>0, <1>2, <1>5, <1>7 DEF Covers
  <2>4. QED
    BY <2>1, <2>2, <2>3
<1>9. a \in Listings =>
          (/\ (pc[a] = "fast" \/ Working(a)) => \A j \in due[a] : db[j] # 0
           /\ pc[a] \in {"meta", "check", "measure"} =>
                  \A j \in due[a] : work[a].times[j] # 0)'
  <2> SUFFICES ASSUME a \in Listings, NEW j \in due'[a]
               PROVE  db'[j] # 0 /\ work'[a].times[j] # 0
    OBVIOUS
  <2>1. j \in due[a] /\ j \in Segments /\ db'[j] # 0
    BY <1>0, DueRows DEF Kept
  <2>2. work[a].times[j] # 0
    BY <1>0, <2>1 DEF Kept, DueKnown
  <2>3. QED
    BY <1>7, <2>1, <2>2
<1>10. pc'[a] = "measure" /\ \A b \in Actors : b # a => pc'[b] = pc[b]
  BY <1>0
<1>11. QED
  BY <1>0, <1>1, <1>3, <1>4, <1>7, <1>8, <1>9, <1>10, OneWorker

\* The entry that was created has all that its creator had in hand.
LEMMA KeptCreated ==
    ASSUME TimeInv, Turns, Kept, NEW a \in Workers, Created(a),
           due' = StillDue, UNCHANGED <<playlist, plan, fill, strayed>>
    PROVE  Kept'
<1>0. /\ TypeOK /\ a \in Actors /\ Busy(a) /\ Working(a) /\ pc[a] = "measure" /\ a # NoActor
      /\ UNCHANGED <<db, missed, index, parsed, meta>>
      /\ work[a] \in Entry /\ cache' = work[a] /\ init' = NoActor
  BY ActorKinds, CreatedStep DEF TimeInv, TypeOK, Busy, Working, WorkSteps, database, fill
<1>1. \A b \in Workers : b # a => ~Working(b)
  BY <1>0, Alone DEF Kept
<1>2. PICK step \in {"check", "listed"}, e \in Entry :
          /\ Goto(a, step) /\ work' = [work EXCEPT ![a] = e]
          /\ step = "check" => a \in Slows /\ e = work[a]
          /\ step = "listed" => a \in Listings
  BY CreatedStep, EmptyEntry, <1>0
<1>3. /\ pc'[a] = step /\ \A b \in Actors : b # a => pc'[b] = pc[b]
      /\ work'[a] = e
  BY <1>0, <1>2, GotoType, WorkSet DEF Steps
<1>4. \A i : Handed(i) => Handed(i)'
  BY <1>0, <1>3, ActorKinds, HandedStays
<1>5. work[a].of = playlist /\ Own(work[a]) /\ Covers(work[a])
  BY <1>0 DEF Kept, WorkOwn, WorkCovers
<1>6. Own(work[a]) => Own(cache)'
  BY <1>0 DEF Own
<1>7. Covers(work[a]) => Covers(cache)'
  BY <1>0, <1>4 DEF Covers
<1>8. (RowsCurrent /\ WorkersAlone /\ CacheOwn /\ CacheCovers)'
  <2>1. RowsCurrent'
    BY <1>0 DEF Kept, RowsCurrent
  <2>2. WorkersAlone'
    BY <1>0, TimeConstants DEF WorkersAlone
  <2>3. CacheOwn' /\ CacheCovers'
    BY <1>5, <1>6, <1>7 DEF CacheOwn, CacheCovers
  <2>4. QED
    BY <2>1, <2>2, <2>3
<1>9. step = "check" => (Own(work[a]) /\ Covers(work[a]))'
  BY <1>0, <1>2, <1>3, <1>5, <1>6, <1>7 DEF Own, Covers
<1>10. a \in Listings =>
          (/\ (pc[a] = "fast" \/ Working(a)) => \A i \in due[a] : db[i] # 0
           /\ pc[a] \in {"meta", "check", "measure"} =>
                  \A i \in due[a] : work[a].times[i] # 0)'
  BY <1>2, <1>3, ActorKinds DEF Working, WorkSteps
<1>11. QED
  BY <1>0, <1>1, <1>2, <1>3, <1>8, <1>9, <1>10, OneWorker

LEMMA KeptWork ==
    ASSUME TimeInv, Turns, Kept, NEW a \in Workers,
           \/ FastGetTimes(a) \/ ReadRows(a) \/ ReadMetadata(a)
           \/ CheckPlaylist(a) \/ Measure(a) \/ Created(a),
           due' = StillDue, UNCHANGED <<playlist, plan, fill, strayed>>
    PROVE  Kept'
  BY KeptFast, KeptRead, KeptCheck, KeptMeasure, KeptCreated

\* A slow fetch begins with the entry nobody has in hand, and puts its own in
\* its place.
LEMMA KeptSlow ==
    ASSUME TimeInv, Turns, Kept, NEW s \in Slows, SlowStep(s)
    PROVE  Kept'
<1>0. /\ TypeOK /\ s \in Actors /\ s \in Workers /\ s \notin Listings /\ s \notin Fills
      /\ s # NoActor /\ UNCHANGED <<playlist, plan, fill, strayed>> /\ due' = StillDue
      /\ UNCHANGED <<index, parsed>> /\ work \in [Actors -> Entry]
      /\ cache \in Entry \cup {NoEntry}
  BY ActorKinds DEF TimeInv, TypeOK, SlowStep, fill
<1>1. CASE \/ FastGetTimes(s) \/ ReadRows(s) \/ ReadMetadata(s)
           \/ CheckPlaylist(s) \/ Measure(s) \/ Created(s)
  BY <1>0, <1>1, KeptWork
<1>2. CASE \/ LockSlow(s)
           \/ /\ TryCompute(s) /\ UNCHANGED work
              /\ Goto(s, "end") \/ Goto(s, "fast")
  <2>1. PICK step \in {"try", "end", "fast"} :
            /\ Goto(s, step) /\ UNCHANGED <<meta, db, cache, init, work, missed>>
            /\ pc[s] \in {"lock", "try"}
    BY <1>2 DEF LockSlow, TryCompute, database
  <2>2. pc'[s] = step /\ \A b \in Actors : b # s => pc'[b] = pc[b]
    BY <1>0, <2>1, GotoType DEF Steps
  <2>3. ~Working(s) /\ ~Working(s)' /\ Busy(s)
    BY <2>1, <2>2 DEF Working, WorkSteps, Busy
  <2>4. plan[s] = playlist
    BY <1>0, <2>3 DEF Kept, PlansCurrent
  <2>5. \A l \in Listings : due'[l] \subseteq due[l]
    BY <1>0 DEF StillDue
  <2>6. QED
    BY <1>0, <2>1, <2>2, <2>3, <2>4, <2>5, IdleStep
<1>3. CASE /\ TryCompute(s) /\ compute = NoActor /\ cache # NoEntry
           /\ work' = [work EXCEPT ![s] = cache] /\ Goto(s, "check")
  <2>1. /\ pc[s] = "try" /\ Busy(s)
        /\ UNCHANGED <<meta, db, cache, init, missed>>
    BY <1>3 DEF TryCompute, Busy, database
  <2>2. /\ pc'[s] = "check" /\ \A b \in Actors : b # s => pc'[b] = pc[b]
        /\ work'[s] = cache
    BY <1>0, <1>3, GotoType, WorkSet DEF Steps
  <2>3. init = NoActor
    BY <1>3 DEF Kept, WorkersAlone
  <2>4. \A b \in Workers : ~Working(b)
    BY <1>3, <2>3, ActorKinds DEF Turns, Workers
  <2>5. Own(cache) /\ Covers(cache)
    BY <1>3, <2>4 DEF Kept, CacheOwn, CacheCovers
  <2>6. \A i : Handed(i) => Handed(i)'
    BY <1>0, <2>2, ActorKinds, HandedStays
  <2>7. Own(work[s])' /\ Covers(work[s])'
    BY <1>0, <2>1, <2>2, <2>5, <2>6 DEF Own, Covers
  <2>8. (RowsCurrent /\ WorkersAlone /\ CacheOwn /\ CacheCovers)'
    <3>1. RowsCurrent' /\ CacheOwn'
      BY <1>0, <2>1 DEF Kept, RowsCurrent, CacheOwn, Own
    <3>2. WorkersAlone' /\ Working(s)'
      BY <1>3, <2>1, <2>2, <2>3 DEF WorkersAlone, Working, WorkSteps
    <3>3. CacheCovers'
      BY <1>0, <3>2 DEF CacheCovers
    <3>4. QED
      BY <3>1, <3>2, <3>3
  <2>9. QED
    BY <1>0, <2>1, <2>2, <2>4, <2>7, <2>8, OneWorker
<1>4. CASE Put(s)
  <2>1. /\ pc[s] = "measure" /\ init # s /\ cache' = work[s] /\ Busy(s) /\ Working(s)
        /\ UNCHANGED <<meta, db, init, missed>>
    BY <1>4 DEF Put, Busy, Working, WorkSteps, database
  <2>2. PICK step \in {"end", "lock"} : Goto(s, step)
    BY <1>4 DEF Put
  <2>3. pc'[s] = step /\ \A b \in Actors : b # s => pc'[b] = pc[b]
    BY <1>0, <2>2, GotoType DEF Steps
  <2>4. \A b \in Workers : b # s => ~Working(b)
    BY <1>0, <2>1, Alone DEF Kept
  <2>5. Own(work[s]) /\ Covers(work[s])
    BY <1>0, <2>1 DEF Kept, WorkOwn, WorkCovers
  <2>6. \A i : Handed(i) => Handed(i)'
    BY <1>0, <2>3, ActorKinds, HandedStays
  <2>7. Own(cache)' /\ Covers(cache)'
    BY <1>0, <2>1, <2>5, <2>6 DEF Own, Covers
  <2>8. init = NoActor
    BY <1>0, <2>1 DEF Kept, WorkersAlone
  <2>9. (RowsCurrent /\ WorkersAlone /\ CacheOwn /\ CacheCovers)'
    <3>1. RowsCurrent'
      BY <1>0, <2>1 DEF Kept, RowsCurrent
    <3>2. cache' # NoEntry
      BY <1>0, <2>1, TimeConstants
    <3>3. WorkersAlone' /\ CacheOwn' /\ CacheCovers'
      BY <2>1, <2>7, <2>8, <3>2 DEF WorkersAlone, CacheOwn, CacheCovers
    <3>4. QED
      BY <3>1, <3>3
  <2>10. QED
    BY <1>0, <2>1, <2>3, <2>4, <2>9, OneWorker
<1>5. TryCompute(s) =>
          \/ UNCHANGED work /\ (Goto(s, "end") \/ Goto(s, "fast"))
          \/ /\ compute = NoActor /\ cache # NoEntry
             /\ work' = [work EXCEPT ![s] = cache] /\ Goto(s, "check")
  BY DEF TryCompute
<1>6. QED
  BY <1>1, <1>2, <1>3, <1>4, <1>5 DEF SlowStep

\* A listing waits for the fills of the first segments, so that what is due
\* has a row.
LEMMA KeptListing ==
    ASSUME TimeInv, Turns, Kept, NEW l \in Listings, ListingStep(l)
    PROVE  Kept'
<1>0. /\ TypeOK /\ l \in Actors /\ l \in Workers /\ l \notin Fills
      /\ UNCHANGED <<playlist, plan, fill, strayed, index, parsed>>
  BY ActorKinds DEF TimeInv, ListingStep, fill
<1>1. CASE \/ FastGetTimes(l) \/ ReadRows(l) \/ ReadMetadata(l)
           \/ CheckPlaylist(l) \/ Measure(l) \/ Created(l)
  <2>1. due' = StillDue
    BY <1>1 DEF ListingStep, Waited, FastGetTimes, ReadRows, ReadMetadata, CheckPlaylist,
       Measure, Created
  <2>2. QED
    BY <1>0, <1>1, <2>1, KeptWork
<1>2. CASE Waited(l)
  <2>1. /\ Goto(l, "fast") /\ pc[l] = "wait"
        /\ UNCHANGED <<meta, db, cache, init, work, missed>>
        /\ \A i \in Initial : Filling(i) = {}
        /\ due' = [due EXCEPT ![l] =
               {i \in Initial : \/ db[i] = plan[l]
                                \/ \E f \in Filling(i) : parsed[f] /\ plan[f] = plan[l]}]
    BY <1>2 DEF Waited, Proceed, database, locks
  <2>2. pc'[l] = "fast" /\ \A b \in Actors : b # l => pc'[b] = pc[b]
    BY <1>0, <2>1, GotoType DEF Steps
  <2>3. ~Working(l) /\ ~Working(l)' /\ Busy(l)
    BY <2>1, <2>2 DEF Working, WorkSteps, Busy
  <2>4. plan[l] = playlist /\ playlist # 0
    BY <1>0, <2>3 DEF Kept, PlansCurrent, RowsCurrent
  <2>5. \A i \in due'[l] : db[i] # 0
    BY <1>0, <2>1, <2>4 DEF TypeOK
  <2>6. \A m \in Listings : m # l => due'[m] \subseteq due[m]
    BY <1>0, <2>1 DEF TypeOK
  <2>7. QED
    BY <1>0, <2>1, <2>2, <2>3, <2>4, <2>5, <2>6, IdleStep
<1>3. QED
  BY <1>1, <1>2 DEF ListingStep

\* A fill stores the row, and hands the time to the entry: to the one in the
\* cache, or it is missed.
LEMMA KeptFill ==
    ASSUME TimeInv, Turns, Kept, NEW f \in Fills, FillStep(f)
    PROVE  Kept'
<1>0. /\ TypeOK /\ f \in Actors /\ f \notin Workers /\ f \notin Slows /\ f \notin Listings
      /\ UNCHANGED <<playlist, plan, index, parsed, due>>
      /\ index[f] \in Segments /\ db \in [Segments -> Nat]
      /\ cache \in Entry \cup {NoEntry} /\ playlist # 0
      /\ work' = work
  BY ActorKinds DEF TimeInv, TypeOK, FillStep, fill, Kept, RowsCurrent,
     StoreSegment, LockInsert, BeginCompute, PutTime
<1>1. CASE LockInsert(f) \/ BeginCompute(f)
  <2>1. PICK step \in {"compute", "put"} :
            /\ Goto(f, step) /\ UNCHANGED <<meta, db, cache, init, missed, strayed>>
            /\ pc[f] \in {"insert", "compute"}
    BY <1>1 DEF FillStep, LockInsert, BeginCompute, PutTime, database
  <2>2. pc'[f] = step /\ \A b \in Actors : b # f => pc'[b] = pc[b]
    BY <1>0, <2>1, GotoType DEF Steps
  <2>3. Busy(f)
    BY <2>1 DEF Busy
  <2>4. plan[f] = playlist
    BY <1>0, <2>3 DEF Kept, PlansCurrent
  <2>5. QED
    BY <1>0, <2>1, <2>2, <2>4, IdleStep
<1>2. CASE StoreSegment(f)
  <2>1. /\ pc[f] = "row" /\ Busy(f) /\ Goto(f, "insert")
        /\ db' = IF parsed[f] THEN [db EXCEPT ![index[f]] = plan[f]] ELSE db
        /\ UNCHANGED <<meta, cache, init, missed, strayed>>
    BY <1>2 DEF FillStep, StoreSegment, PutTime, locks, Busy
  <2>2. pc'[f] = "insert" /\ \A b \in Actors : b # f => pc'[b] = pc[b]
    BY <1>0, <2>1, GotoType DEF Steps
  <2>3. plan[f] = playlist
    BY <1>0, <2>1 DEF Kept, PlansCurrent
  <2>4. \A i : Handed(i) => Handed(i)'
    BY <1>0, <2>1, <2>2, ActorKinds, HandedStays
  <2>5. \A i \in Segments : \/ db'[i] = db[i]
                            \/ db'[i] = playlist /\ Handed(i)'
    BY <1>0, <2>1, <2>2, <2>3 DEF Handed
  <2>6. \A b \in Workers : b # f /\ b \in Actors /\ pc'[b] = pc[b] /\ (Working(b)' <=> Working(b))
    BY <1>0, <2>2, ActorKinds DEF Working
  <2>7. PlansCurrent' /\ RowsCurrent'
    BY <1>0, <2>1, <2>2, <2>5 DEF Kept, PlansCurrent, RowsCurrent, Busy
  <2>8. WorkersAlone' /\ WorkOwn' /\ CacheOwn'
    BY <1>0, <2>1, <2>6 DEF Kept, WorkersAlone, WorkOwn, CacheOwn, Own
  <2>9. ASSUME NEW e, Covers(e)
        PROVE  \A i \in Segments : db'[i] # 0 => e.times[i] # 0 \/ i \in missed' \/ Handed(i)'
    BY <2>1, <2>4, <2>5, <2>9 DEF Covers
  <2>10. WorkCovers'
    BY <1>0, <2>6, <2>9 DEF Kept, WorkCovers, Covers
  <2>11. CacheCovers'
    BY <1>0, <2>1, <2>6, <2>9 DEF Kept, CacheCovers, Covers
  <2>12. DueKnown'
    <3>1. \A i \in Segments : db[i] # 0 => db'[i] # 0
      BY <1>0, <2>5
    <3>2. \A l \in Listings : /\ pc'[l] = pc[l] /\ (Working(l)' <=> Working(l))
                              /\ due[l] \subseteq Segments
      BY <1>0, <2>6, ActorKinds DEF TypeOK
    <3>3. QED
      BY <1>0, <3>1, <3>2 DEF Kept, DueKnown
  <2>13. QED
    BY <2>7, <2>8, <2>10, <2>11, <2>12 DEF Kept
<1>3. CASE PutTime(f)
  <2>1. /\ pc[f] = "put" /\ Busy(f) /\ Goto(f, "end") /\ cache' = Inserted(f)
        /\ missed' = IF cache = NoEntry /\ init # NoActor
                     THEN missed \cup {index[f]} ELSE missed
        /\ strayed' = IF cache' # cache /\ cache.of # plan[f]
                      THEN strayed \cup {index[f]} ELSE strayed
        /\ UNCHANGED <<meta, db, init>>
    BY <1>3 DEF PutTime, database, Busy
  <2>2. pc'[f] = "end" /\ \A b \in Actors : b # f => pc'[b] = pc[b]
    BY <1>0, <2>1, GotoType DEF Steps
  <2>3. plan[f] = playlist
    BY <1>0, <2>1 DEF Kept, PlansCurrent
  <2>4. /\ missed \subseteq missed' /\ strayed \subseteq strayed'
        /\ cache' = NoEntry <=> cache = NoEntry
    <3>1. cache # NoEntry => Inserted(f) # NoEntry
      <4> SUFFICES ASSUME cache # NoEntry PROVE Inserted(f) # NoEntry
        OBVIOUS
      <4>1. cache \in Entry /\ plan[f] \in Nat
        BY <1>0, <2>3 DEF TypeOK
      <4>2. [cache.times EXCEPT ![index[f]] = plan[f]] \in [Segments -> Nat]
        BY <4>1 DEF Entry
      <4>3. cache.dont \ {index[f]} \in SUBSET Segments
        BY <4>1 DEF Entry
      <4>4. [cache EXCEPT !.times[index[f]] = plan[f], !.dont = @ \ {index[f]}] \in Entry
        BY <4>1, <4>2, <4>3 DEF Entry
      <4>5. QED
        BY <4>1, <4>4, TimeConstants DEF Inserted
    <3>2. QED
      BY <2>1, <3>1 DEF Inserted
  <2>5. \A i : Handed(i) => Handed(i)' \/ (i = index[f] /\ parsed[f])
    BY <1>0, <2>2, ActorKinds DEF Handed
  <2>6. \A b \in Workers : b # f /\ b \in Actors /\ pc'[b] = pc[b] /\ (Working(b)' <=> Working(b))
    BY <1>0, <2>2, ActorKinds DEF Working
  <2>7. PlansCurrent' /\ RowsCurrent' /\ WorkersAlone'
    BY <1>0, <2>1, <2>2, <2>4, <2>6 DEF Kept, PlansCurrent, RowsCurrent, WorkersAlone, Busy
  <2>8. DueKnown'
    BY <1>0, <2>1, <2>6, ActorKinds DEF Kept, DueKnown
  <2>9. WorkOwn'
    BY <1>0, <2>1, <2>4, <2>6 DEF Kept, WorkOwn, Own
  <2>10. CASE cache = NoEntry
    <3>1. \A b \in Workers : Working(b) => init # NoActor
      BY <2>10, ActorKinds DEF Kept, WorkersAlone
    <3>2. ASSUME NEW b \in Workers, Working(b), NEW e, Covers(e)
          PROVE  \A i \in Segments : db[i] # 0 => e.times[i] # 0 \/ i \in missed' \/ Handed(i)'
      BY <2>1, <2>4, <2>5, <2>10, <3>1, <3>2 DEF Covers
    <3>3. WorkCovers'
      <4>1. \A b \in Workers : pc[b] \in {"meta", "check", "measure"} => Working(b)
        BY DEF Working, WorkSteps
      <4>2. QED
        BY <1>0, <2>1, <2>6, <3>2, <4>1 DEF Kept, WorkCovers, Covers
    <3>4. CacheOwn' /\ CacheCovers'
      BY <2>4, <2>10 DEF CacheOwn, CacheCovers
    <3>5. QED
      BY <2>7, <2>8, <2>9, <3>3, <3>4 DEF Kept
  <2>11. CASE cache # NoEntry
    <3>1. compute = f /\ init = NoActor
      BY <2>1, <2>11 DEF Kept, WorkersAlone, Turns
    <3>2. \A b \in Workers : ~Working(b)
      BY <1>0, <3>1, ActorKinds DEF Turns, Workers
    <3>3. Own(cache) /\ Covers(cache)
      BY <2>11, <3>2 DEF Kept, CacheOwn, CacheCovers
    <3>4. \A b \in Workers : pc'[b] \notin {"meta", "check", "measure"}
      BY <2>6, <3>2 DEF Working, WorkSteps
    <3>5. WorkCovers'
      BY <3>4 DEF WorkCovers
    <3>6. cache \in Entry
      BY <1>0, <2>11
    <3>7. /\ \A i \in Segments : cache'.times[i] # 0 =>
                 \/ cache'.times[i] = cache.times[i]
                 \/ i = index[f] /\ cache'.times[i] = playlist /\ cache' # cache
          /\ \A i \in Segments : cache.times[i] # 0 => cache'.times[i] # 0
          /\ parsed[f] => cache'.times[index[f]] # 0
          /\ cache'.of = cache.of
      <4>1. CASE index[f] \in Known(cache) \/ ~parsed[f]
        <5>1. cache' = cache
          BY <2>1, <4>1 DEF Inserted
        <5>2. parsed[f] => cache.times[index[f]] # 0
          BY <4>1 DEF Known
        <5>3. QED
          BY <5>1, <5>2
      <4>2. CASE ~(index[f] \in Known(cache) \/ ~parsed[f])
        <5>1. cache' = [cache EXCEPT !.times[index[f]] = plan[f], !.dont = @ \ {index[f]}]
          BY <2>1, <2>11, <4>2 DEF Inserted
        <5>2. /\ cache'.of = cache.of
              /\ cache'.times = [cache.times EXCEPT ![index[f]] = plan[f]]
          BY <3>6, <5>1 DEF Entry
        <5>3. cache.times \in [Segments -> Nat]
          BY <3>6 DEF Entry
        <5>4. \A i \in Segments : cache'.times[i] = IF i = index[f] THEN playlist ELSE cache.times[i]
          BY <2>3, <5>2, <5>3
        <5>5. cache.times[index[f]] = 0
          BY <1>0, <4>2 DEF Known
        <5>6. cache'.times[index[f]] # cache.times[index[f]]
          BY <1>0, <5>4, <5>5
        <5>7. QED
          BY <1>0, <5>2, <5>4, <5>6
      <4>3. QED
        BY <4>1, <4>2
    <3>8. CacheOwn'
      <4>1. Own(cache)'
        BY <2>1, <2>3, <2>4, <3>3, <3>7 DEF Own
      <4>2. QED
        BY <4>1 DEF CacheOwn
    <3>9. CacheCovers'
      BY <2>1, <2>4, <2>5, <3>3, <3>7 DEF CacheCovers, Covers
    <3>10. QED
      BY <2>7, <2>8, <2>9, <3>5, <3>8, <3>9 DEF Kept
  <2>12. QED
    BY <2>10, <2>11
<1>4. QED
  BY <1>1, <1>2, <1>3 DEF FillStep

\* A call that is given up leaves what it knew among the missed.
LEMMA KeptAbort ==
    ASSUME TimeInv, Turns, Kept, NEW a \in Actors, Abort(a)
    PROVE  Kept'
<1>0. /\ TypeOK /\ a # NoActor /\ Goto(a, "end")
      /\ UNCHANGED <<playlist, plan, meta, db, cache, index, parsed, strayed, due>>
      /\ due \in [Listings -> SUBSET Segments]
      /\ pc[a] \in {"fast", "rows", "meta", "check", "measure", "row"} /\ Busy(a)
      /\ init' = IF init = a THEN NoActor ELSE init
      /\ missed' = IF a \in Fills THEN missed ELSE missed \cup Known(work[a])
      /\ work' = [work EXCEPT ![a] = Empty]
  BY ActorKinds DEF TimeInv, TypeOK, Abort, database, fill, Busy
<1>1. pc'[a] = "end" /\ \A b \in Actors : b # a => pc'[b] = pc[b]
  BY <1>0, GotoType DEF Steps
<1>2. \A b \in Actors : b # a => work'[b] = work[b]
  BY <1>0, WorkSet
<1>3. ~Working(a)' /\ ~Busy(a)'
  BY <1>1 DEF Working, WorkSteps, Busy
<1>4. CASE ~Working(a) \/ a \in Fills
  <2>1. UNCHANGED init /\ (a \in Workers => ~Working(a))
    BY <1>0, <1>4, ActorKinds DEF Turns, TimeInv, TypeOK, Workers
  <2>2. missed \subseteq missed'
    BY <1>0
  <2>3. QED
    BY <1>0, <1>1, <1>2, <1>3, <2>1, <2>2, IdleStep
<1>5. CASE Working(a) /\ a \in Workers
  <2>1. a \notin Fills /\ missed' = missed \cup Known(work[a])
    BY <1>0, <1>5, ActorKinds
  <2>2. \A b \in Workers : b # a => ~Working(b)
    BY <1>0, <1>5, Alone DEF Kept
  <2>3. \A b \in Workers : ~Working(b)' /\ pc'[b] \notin {"meta", "check", "measure"}
    BY <1>1, <1>3, <2>2, ActorKinds DEF Working, WorkSteps
  <2>4. \A i : Handed(i) => Handed(i)'
    BY <1>0, <1>1, <2>1, ActorKinds, HandedStays
  <2>5. PlansCurrent' /\ RowsCurrent' /\ CacheOwn'
    BY <1>0, <1>1 DEF Kept, PlansCurrent, RowsCurrent, CacheOwn, Own, Busy
  <2>6. WorkersAlone'
    BY <1>0, <2>3 DEF Kept, WorkersAlone
  <2>7. WorkOwn' /\ WorkCovers'
    BY <2>3 DEF WorkOwn, WorkCovers
  <2>8. CacheCovers'
    <3> SUFFICES ASSUME cache # NoEntry PROVE Covers(cache)'
      BY <1>0 DEF CacheCovers
    <3>1. pc[a] \in {"check", "measure"}
      BY <1>5, ActorKinds DEF Kept, WorkersAlone, Turns, Working, WorkSteps
    <3>2. Covers(work[a])
      BY <1>5, <3>1 DEF Kept, WorkCovers
    <3>3. QED
      BY <1>0, <2>1, <2>4, <3>2 DEF Covers, Known
  <2>9. DueKnown'
    <3>1. \A l \in Listings : ~Working(l)' /\ pc'[l] \notin {"meta", "check", "measure"}
      BY <2>3, ActorKinds
    <3>2. \A l \in Listings : pc'[l] = "fast" => pc[l] = "fast"
      BY <1>1, ActorKinds
    <3>3. QED
      BY <1>0, <3>1, <3>2 DEF Kept, DueKnown
  <2>10. QED
    BY <2>5, <2>6, <2>7, <2>8, <2>9 DEF Kept
<1>6. QED
  BY <1>4, <1>5, ActorKinds

LEMMA KeptStart ==
    ASSUME TimeInv, Turns, Kept, NEW a \in Actors, Start(a)
    PROVE  Kept'
<1>0. /\ TypeOK /\ pc[a] = "new" /\ plan' = [plan EXCEPT ![a] = playlist]
      /\ UNCHANGED <<playlist, meta, db, cache, init, work, index, parsed, missed, strayed, due>>
  BY DEF TimeInv, Start, database, locks, fill, history
<1>1. PICK step \in {"lock", "wait", "row"} : Goto(a, step)
  BY DEF Start
<1>2. pc'[a] = step /\ \A b \in Actors : b # a => pc'[b] = pc[b]
  BY <1>0, <1>1, GotoType DEF Steps
<1>3. plan'[a] = playlist /\ \A b \in Actors : b # a => plan'[b] = plan[b]
  BY <1>0 DEF TypeOK
<1>4. ~Working(a) /\ ~Working(a)'
  BY <1>0, <1>2 DEF Working, WorkSteps
<1>5. QED
  BY <1>0, <1>2, <1>3, <1>4, IdleStep

\* The playlist that comes, and the entry that goes, find nobody at work.
LEMMA KeptOthers ==
    ASSUME TimeInv, Turns, Kept, NewPlaylist \/ RecordPlaylist \/ Evict, ~crossed'
    PROVE  Kept'
<1>0. /\ TypeOK /\ UNCHANGED <<pc, work, plan, init, index, parsed, missed, strayed, due>>
      /\ playlist \in Nat /\ meta \in Nat /\ playlist # 0 /\ meta <= playlist
      /\ \A a \in Actors : ~Busy(a)
      /\ due \in [Listings -> SUBSET Segments]
  BY DEF TimeInv, TypeOK, NewPlaylist, RecordPlaylist, Evict, locks, fill, Kept, RowsCurrent
<1>1. \A a \in Actors : pc'[a] \in {"new", "listed", "end"} /\ ~Busy(a)'
  BY <1>0 DEF Busy
<1>2. PlansCurrent'
  BY <1>1 DEF PlansCurrent
<1>3. \A a \in Workers : pc'[a] \notin WorkSteps \cup {"fast"} /\ pc[a] \notin WorkSteps /\ ~Working(a)'
  BY <1>0, <1>1, ActorKinds DEF WorkSteps, Working
<1>4. WorkOwn' /\ WorkCovers' /\ DueKnown'
  BY <1>3, ActorKinds DEF WorkOwn, WorkCovers, DueKnown, WorkSteps
<1>5. init = NoActor
  BY <1>0, <1>3 DEF Turns, Working, TypeOK, Workers
<1>6. WorkersAlone'
  BY <1>0, <1>3, <1>5 DEF WorkersAlone
<1>7. \A i : Handed(i) => Handed(i)'
  BY <1>0, HandedStays
<1>8. RowsCurrent' /\ CacheOwn' /\ CacheCovers'
  <2>1. CASE NewPlaylist
    <3>1. playlist' = playlist + 1 /\ UNCHANGED <<meta, db, cache>>
      BY <2>1 DEF NewPlaylist, database
    <3>2. RowsCurrent'
      BY <1>0, <3>1 DEF RowsCurrent
    <3>3. CacheOwn' /\ CacheCovers'
      BY <1>0, <1>3, <1>7, <3>1 DEF Kept, CacheOwn, CacheCovers, Own, Covers, Working
    <3>4. QED
      BY <3>2, <3>3
  <2>2. CASE RecordPlaylist
    <3>1. /\ meta' = playlist /\ db' = NoTimes /\ UNCHANGED <<playlist, cache>>
      BY <2>2 DEF RecordPlaylist, Purge
    <3>2. \A i \in Segments : db'[i] = 0
      BY <3>1 DEF NoTimes
    <3>3. QED
      BY <1>0, <3>1, <3>2 DEF Kept, RowsCurrent, CacheOwn, Own, CacheCovers, Covers
  <2>3. CASE Evict
    <3>1. cache' = NoEntry /\ UNCHANGED <<playlist, meta, db>>
      BY <2>3 DEF Evict, database
    <3>2. QED
      BY <1>0, <3>1 DEF Kept, RowsCurrent, CacheOwn, CacheCovers
  <2>4. QED
    BY <2>1, <2>2, <2>3
<1>9. QED
  BY <1>2, <1>4, <1>6, <1>8 DEF Kept

LEMMA KeptNext ==
    ASSUME KeptInv, [Next]_vars
    PROVE  KeptInv'
<1>0. TimeInv /\ Turns
  BY DEF KeptInv
<1>1. TimeInv' /\ Turns'
  BY <1>0, NextInv, TurnsNext
<1>2. ASSUME ~crossed' PROVE ~crossed
  BY <1>2 DEF Next, vars, NewPlaylist, RecordPlaylist, Evict, Start, Abort, SlowStep,
     ListingStep, FillStep, history
<1>3. ASSUME ~crossed' PROVE Kept'
  <2>1. Kept
    BY <1>2, <1>3 DEF KeptInv
  <2>2. CASE UNCHANGED vars
    BY <2>1, <2>2 DEF vars, database, locks, fill, history, Kept, PlansCurrent, RowsCurrent,
       WorkersAlone, WorkOwn, CacheOwn, WorkCovers, CacheCovers, DueKnown, Own, Covers,
       Handed, Busy, Working
  <2>3. QED
    BY <1>0, <1>3, <2>1, <2>2, KeptOthers, KeptStart, KeptAbort, KeptSlow, KeptListing,
       KeptFill DEF Next
<1>4. QED
  BY <1>1, <1>3 DEF KeptInv

LEMMA KeptInit == Init => KeptInv
<1> SUFFICES ASSUME Init PROVE KeptInv
  OBVIOUS
<1>1. TimeInv
  BY InitInv
<1>2. \A a \in Actors : pc[a] = "new" /\ ~Busy(a) /\ ~Working(a)
  BY DEF Init, Busy, Working, WorkSteps
<1>3. \A i \in Segments : db[i] = 0
  BY DEF Init, NoTimes
<1>4. init = NoActor /\ cache = NoEntry /\ playlist = 1 /\ meta = 1 /\ strayed = {}
  BY DEF Init
<1>5. Turns
  BY <1>2, <1>4, ActorKinds DEF Turns
<1>6. PlansCurrent /\ RowsCurrent /\ WorkersAlone
  BY <1>2, <1>3, <1>4, ActorKinds DEF PlansCurrent, RowsCurrent, WorkersAlone
<1>7. WorkOwn /\ CacheOwn /\ WorkCovers /\ CacheCovers /\ DueKnown
  BY <1>2, <1>4, ActorKinds DEF WorkOwn, CacheOwn, WorkCovers, CacheCovers, DueKnown
<1>8. QED
  BY <1>1, <1>5, <1>6, <1>7 DEF KeptInv, Kept

\* The turns are kept on every behaviour, and what depends on the playlist as
\* long as none came while somebody worked.
THEOREM KeptInvariant == Spec => []KeptInv
<1>1. KeptInv /\ [Next]_vars => KeptInv'
  BY KeptNext
<1>2. QED
  BY <1>1, KeptInit, PTL DEF Spec

\* The entry never mixes times of two playlists, except as the property says.
THEOREM OnePlaylist == Spec => []TimesOfOnePlaylist
<1>1. KeptInv => TimesOfOnePlaylist
  BY DEF KeptInv, Kept, CacheOwn, Own, TimesOfOnePlaylist, Known
<1>2. QED
  BY <1>1, KeptInvariant, PTL

\* No update of the entry is lost to another.
THEOREM NothingLost == Spec => []NoTimeLost
<1>1. KeptInv => NoTimeLost
  <2> SUFFICES ASSUME KeptInv, \A a \in Actors : ~Busy(a), cache # NoEntry, ~crossed,
                      NEW i \in Segments, db[i] # 0
               PROVE  i \in Known(cache) \cup missed
    BY DEF NoTimeLost
  <2>1. \A a \in Workers : ~Working(a)
    BY ActorKinds DEF Busy, Working, WorkSteps
  <2>2. ~Handed(i)
    BY ActorKinds DEF Busy, Handed
  <2>3. Covers(cache)
    BY <2>1 DEF KeptInv, Kept, CacheCovers
  <2>4. QED
    BY <2>2, <2>3 DEF Covers, Known
<1>2. QED
  BY <1>1, KeptInvariant, PTL

\* A listing knows the first segments' times, except as the property says.
THEOREM FirstTimes == Spec => ListingKnowsFirstTimes
<1>1. KeptInv /\ [Next]_vars =>
          [\A l \in Listings : pc[l] # "listed" /\ pc'[l] = "listed" /\ ~crossed =>
               \A i \in due[l] :
                   \/ cache'.times[i] # 0
                   \/ pc[l] = "fast" /\ (i \in missed \/ InHand(i, l))]_vars
  <2> SUFFICES ASSUME KeptInv, [Next]_vars, NEW l \in Listings,
                      pc[l] # "listed", pc'[l] = "listed", ~crossed, NEW i \in due[l]
               PROVE  \/ cache'.times[i] # 0
                      \/ pc[l] = "fast" /\ (i \in missed \/ InHand(i, l))
    OBVIOUS
  <2>0. /\ TypeOK /\ l \in Actors /\ l \in Workers /\ l \notin Slows /\ l \notin Fills
        /\ Turns /\ Kept /\ i \in Segments
        /\ \A a \in Actors : pc[a] \in Steps
    BY ActorKinds DEF KeptInv, TimeInv, TypeOK, Steps
  <2>1. FastGetTimes(l) \/ Created(l)
    <3>1. pc' # pc
      OBVIOUS
    <3>2. PICK a \in Actors : \/ Start(a) \/ Abort(a)
                              \/ a \in Slows /\ SlowStep(a)
                              \/ a \in Listings /\ ListingStep(a)
                              \/ a \in Fills /\ FillStep(a)
      BY <3>1, ActorKinds DEF Next, vars, NewPlaylist, RecordPlaylist, Evict
    <3>3. PICK step \in Steps : Goto(a, step) \/ (UNCHANGED pc)
      BY <3>2, ActorKinds DEF Start, Abort, SlowStep, ListingStep, FillStep, LockSlow, TryCompute,
         FastGetTimes, ReadRows, ReadMetadata, CheckPlaylist, Measure, Created, Put,
         TakeOrList, Waited, Proceed, StoreSegment, LockInsert, BeginCompute, PutTime, Steps
    <3>4. a = l
      BY <2>0, <3>1, <3>3, GotoType
    <3>5. ASSUME NEW step2 \in Steps, Goto(l, step2) PROVE step2 = "listed"
      BY <2>0, <3>5, GotoType
    <3>6. ~Start(l) /\ ~Abort(l)
      BY <3>5 DEF Start, Abort, Steps
    <3>7. /\ ~ReadRows(l) /\ ~ReadMetadata(l) /\ ~CheckPlaylist(l) /\ ~Measure(l)
          /\ ~Waited(l)
      BY <3>1, <3>5 DEF ReadRows, ReadMetadata, CheckPlaylist, Measure, Waited, Proceed, Steps
    <3>8. QED
      BY <2>0, <3>2, <3>4, <3>6, <3>7 DEF ListingStep
  <2>2. CASE Created(l)
    <3>1. cache' = work[l] /\ pc[l] = "measure"
      BY <2>2 DEF Created
    <3>2. QED
      BY <3>1 DEF Kept, DueKnown, KeptInv
  <2>3. CASE FastGetTimes(l)
    <3>1. cache # NoEntry /\ cache' = cache /\ pc[l] = "fast" /\ db[i] # 0
      <4>1. pc[l] = "fast" /\ cache' = cache
        BY <2>0, <2>3, FastStep
      <4>2. cache # NoEntry
        <5>1. ~Goto(l, "rows")
          BY <2>0, GotoType DEF Steps
        <5>2. QED
          BY <2>0, <2>3, <5>1, FastStep
      <4>3. QED
        BY <2>0, <4>1, <4>2 DEF Kept, DueKnown
    <3>2. CASE \A a \in Workers : ~Working(a)
      <4>1. Covers(cache)
        BY <2>0, <3>1, <3>2 DEF Kept, CacheCovers
      <4>2. Handed(i) => InHand(i, l)
        BY <2>0, ActorKinds DEF Handed, InHand, Busy
      <4>3. QED
        BY <2>0, <3>1, <4>1, <4>2 DEF Covers
    <3>3. CASE \E a \in Workers : Working(a)
      <4>1. PICK a \in Workers : Working(a)
        BY <3>3
      <4>2. a # l /\ a \in Actors /\ a \notin Fills /\ Busy(a)
        BY <3>1, <4>1, ActorKinds DEF Working, WorkSteps, Busy
      <4>3. pc[a] \in {"check", "measure"}
        BY <2>0, <3>1, <4>1, ActorKinds DEF Kept, WorkersAlone, Turns, Working, WorkSteps
      <4>4. Covers(work[a])
        BY <2>0, <4>3 DEF Kept, WorkCovers
      <4>5. Handed(i) => InHand(i, l)
        BY <2>0, ActorKinds DEF Handed, InHand, Busy
      <4>6. work[a].times[i] # 0 => InHand(i, l)
        BY <2>0, <4>2 DEF InHand, Known
      <4>7. QED
        BY <2>0, <3>1, <4>4, <4>5, <4>6 DEF Covers
    <3>4. QED
      BY <3>2, <3>3
  <2>4. QED
    BY <2>1, <2>2, <2>3
<1>2. QED
  BY <1>1, KeptInvariant, PTL DEF Spec, ListingKnowsFirstTimes
=============================================================================
