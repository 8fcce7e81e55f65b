----------------------------- MODULE TimeCache -----------------------------
(***************************************************************************)
(* The cache of segment start times of one movie (time_cache_db.rs) and    *)
(* those who fill it: listings (compute_m3u8_real_segments_duration, with  *)
(* get_or_fetch), slow fetches (slow_fetch_times) and the fill tasks of    *)
(* SegmentStore, which insert the time of the segment they have stored.    *)
(*                                                                         *)
(* They meet at the entry of a moka cache (external), which has a lock for *)
(* whoever computes it (and_compute_with) and another for whoever creates  *)
(* it (or_try_insert_with); at the mutex segments_slow_fetch_times; and at *)
(* the rows of the database.                                               *)
(*                                                                         *)
(* Playlists of the movie are numbered.  Times are, by segment, the number *)
(* of the playlist whose segment was measured, 0 where none was.  Which    *)
(* segment to measure next is the subject of Intervals, and open here.     *)
(***************************************************************************)
EXTENDS Integers

CONSTANTS
    Slows, Listings, Fills,     \* what may run once each
    Segments,
    Initial,        \* initial_range, the segments a listing waits for
    MaxPlaylists,   \* bound on the playlists
    MaxRounds,      \* rounds of slow_fetch_times in its 20 minutes
    MaxFaults,      \* bound on errors, cancellations and evictions
    NoActor, NoEntry

Actors == Slows \cup Listings \cup Fills

\* SegmentTimeCacheValue: times by segment, the playlist they belong to, and
\* the indexes not to compute.
Entry == [times : [Segments -> Nat], of : Nat, dont : SUBSET Segments]

ASSUME TimeConstants ==
    /\ NoActor \notin Actors
    /\ NoEntry \notin Entry
    /\ Slows \cap Listings = {} /\ Slows \cap Fills = {}
    /\ Listings \cap Fills = {}
    /\ Initial \subseteq Segments
    /\ {MaxPlaylists, MaxRounds, MaxFaults} \subseteq Nat \ {0}

VARIABLES
    playlist,           \* the movie's playlist, as it was scraped last
    meta, db,           \* the database: the playlist recorded, and the times
    stored,             \* segments whose file is in the directory
    cache,              \* the entry: [times, of, dont], or NoEntry
    compute, init,      \* who computes the entry, and who creates it
    mutex,              \* who holds segments_slow_fetch_times
    pc, plan,           \* each actor: its next step, its playlist
    work,               \*  the entry it has in hand
    index, parsed,      \* each fill: its segment, whether that has a time
    rounds, faults,
    crossed,            \* history: a playlist came, or the entry went, while
                        \* somebody worked
    missed,             \* history: segments whose time was inserted while
                        \* the entry was being created, or was in hand when
                        \* its computation was abandoned
    strayed,            \* history: segments whose time was inserted into the
                        \* entry of an earlier playlist
    due                 \* history: the initial segments that had a row, or
                        \* were being stored, when a listing had waited, and
                        \* whose row was not deleted since

database == <<meta, db, stored>>
locks == <<compute, init, mutex>>
fill == <<index, parsed>>
history == <<crossed, missed, strayed, due>>
vars == <<playlist, database, cache, locks, pc, plan, work, fill, rounds,
          faults, history>>

NoTimes == [i \in Segments |-> 0]
Empty == [times |-> NoTimes, of |-> 0, dont |-> {}]

Init ==
    /\ playlist = 1 /\ meta = 1 /\ db = NoTimes /\ stored = {}
    /\ cache = NoEntry
    /\ compute = NoActor /\ init = NoActor /\ mutex = NoActor
    /\ pc = [a \in Actors |-> "new"]
    /\ plan = [a \in Actors |-> 0]
    /\ work = [a \in Actors |-> Empty]
    /\ index \in [Fills -> Segments] /\ parsed \in [Fills -> BOOLEAN]
    /\ rounds = [s \in Slows |-> 0] /\ faults = 0
    /\ crossed = FALSE /\ missed = {} /\ strayed = {}
    /\ due = [l \in Listings |-> {}]

Goto(a, step) == pc' = [pc EXCEPT ![a] = step]

Busy(a) == pc[a] \notin {"new", "listed", "end"}

Known(entry) == {i \in Segments : entry.times[i] # 0}

-----------------------------------------------------------------------------
(* What the others do to the movie.                                        *)

\* The movie is scraped again and its playlist has changed.
NewPlaylist ==
    /\ playlist < MaxPlaylists
    /\ playlist' = playlist + 1
    /\ crossed' = (crossed \/ \E a \in Actors : Busy(a))
    /\ UNCHANGED <<database, cache, locks, pc, plan, work, fill, rounds,
                   faults, missed, strayed, due>>

Purge(p) == meta' = p /\ db' = NoTimes /\ stored' = {}

StillDue == [l \in Listings |-> {i \in due[l] : db[i] # 0 => db'[i] # 0}]

\* new_metadata_received (MetadataQueue) records it.
RecordPlaylist ==
    /\ meta # playlist
    /\ Purge(playlist)
    /\ crossed' = (crossed \/ \E a \in Actors : Busy(a))
    /\ UNCHANGED <<playlist, cache, locks, pc, plan, work, fill, rounds,
                   faults, missed, strayed, due>>

\* moka drops the entry to make room.
Evict ==
    /\ cache # NoEntry
    /\ faults < MaxFaults /\ faults' = faults + 1
    /\ cache' = NoEntry
    /\ crossed' = (crossed \/ \E a \in Actors : Busy(a))
    /\ UNCHANGED <<playlist, database, locks, pc, plan, work, fill, rounds,
                   missed, strayed, due>>

-----------------------------------------------------------------------------
(* compute_times_without_cache, for a listing, which creates the entry, or *)
(* a slow fetch, which computes it (and creates it first when there is     *)
(* none, in fast_get_times).                                               *)

\* The entry in the cache is listed, or the slow fetch goes on from it.
TakeOrList(a) ==
    IF a \in Slows THEN work' = [work EXCEPT ![a] = cache'] /\ Goto(a, "check")
    ELSE work' = [work EXCEPT ![a] = Empty] /\ Goto(a, "listed")

\* fast_get_times: whoever finds no entry creates it, one at a time.
FastGetTimes(a) ==
    /\ pc[a] = "fast"
    /\ \/ /\ cache # NoEntry
          /\ UNCHANGED <<cache, init>> /\ TakeOrList(a)
       \/ /\ cache = NoEntry /\ init = NoActor
          /\ init' = a
          /\ Goto(a, "rows")
          /\ UNCHANGED <<cache, work>>
    /\ UNCHANGED <<database, compute, mutex, missed>>

\* get_all_times_new ...
ReadRows(a) ==
    /\ pc[a] = "rows"
    /\ work' = [work EXCEPT ![a] = [Empty EXCEPT !.times = db]]
    /\ Goto(a, "meta")
    /\ UNCHANGED <<database, cache, locks, missed>>

\* ... and get_playlist_metadata are two queries.
ReadMetadata(a) ==
    /\ pc[a] = "meta"
    /\ work' = [work EXCEPT ![a].of = meta]
    /\ Goto(a, "check")
    /\ UNCHANGED <<database, cache, locks, missed>>

\* The times of another playlist are kept.
CheckKeepingTimes(a) ==
    /\ pc[a] = "check"
    /\ work' = [work EXCEPT ![a].of = plan[a]]
    /\ IF work[a].of = plan[a] THEN UNCHANGED database ELSE Purge(plan[a])
    /\ Goto(a, "measure")
    /\ UNCHANGED <<cache, locks, missed>>

\* The times of another playlist are dropped, and the movie's files and rows
\* with them (delete_full_movie); indexes not to compute are kept.
CheckPlaylist(a) ==
    /\ pc[a] = "check"
    /\ \/ work[a].of = plan[a] /\ UNCHANGED <<database, work>>
       \/ /\ work[a].of # plan[a]
          /\ work' = [work EXCEPT ![a].of = plan[a], ![a].times = NoTimes]
          /\ Purge(plan[a])
    /\ Goto(a, "measure")
    /\ UNCHANGED <<cache, locks, missed>>

Unknown(a) == Segments \ (Known(work[a]) \cup work[a].dont)

\* get_segment_time, and set_segment_info, which may fail.
Measure(a) ==
    /\ pc[a] = "measure"
    /\ \E i \in Unknown(a) :
           \/ /\ work' = [work EXCEPT ![a].times[i] = plan[a]]
              /\ db' \in {db, [db EXCEPT ![i] = plan[a]]}
           \/ /\ work' = [work EXCEPT ![a].dont = @ \cup {i}]
              /\ UNCHANGED db
    /\ UNCHANGED <<pc, meta, stored, cache, locks, missed>>

\* Out of segments, or of long intervals, or of time.
Created(a) ==
    /\ pc[a] = "measure" /\ init = a
    /\ cache' = work[a] /\ init' = NoActor
    /\ TakeOrList(a)
    /\ UNCHANGED <<database, compute, mutex, missed>>

-----------------------------------------------------------------------------
(* slow_fetch_times.                                                       *)

LockSlow(s) ==
    /\ pc[s] = "lock" /\ mutex = NoActor
    /\ mutex' = s
    /\ Goto(s, "try")
    /\ UNCHANGED <<database, cache, compute, init, work, missed>>

\* and_try_compute_if_nobody_else: the closure drops the guard as it starts;
\* it is dropped unused when somebody computes the entry already.
TryCompute(s) ==
    /\ pc[s] = "try"
    /\ mutex' = NoActor
    /\ \/ compute # NoActor /\ Goto(s, "end") /\ UNCHANGED <<compute, work>>
       \/ /\ compute = NoActor
          /\ compute' = s
          /\ \/ cache = NoEntry /\ Goto(s, "fast") /\ UNCHANGED work
             \/ /\ cache # NoEntry
                /\ work' = [work EXCEPT ![s] = cache]
                /\ Goto(s, "check")
    /\ UNCHANGED <<database, cache, init, missed>>

\* Op::Put, and another round unless the fetch has finished or its time is
\* over.  A round that has measured the last segment does not know it has: it
\* finished when the round began with none left, or met a short interval.
Put(s) ==
    /\ pc[s] = "measure" /\ init # s
    /\ cache' = work[s] /\ work' = [work EXCEPT ![s] = Empty]
    /\ compute' = NoActor
    /\ \/ Goto(s, "end")
       \/ rounds[s] < MaxRounds /\ Goto(s, "lock")
    /\ UNCHANGED <<database, init, mutex, missed>>

SlowStep(s) ==
    /\ \/ LockSlow(s) \/ TryCompute(s) \/ FastGetTimes(s) \/ ReadRows(s)
       \/ ReadMetadata(s) \/ CheckPlaylist(s) \/ Measure(s) \/ Created(s)
       \/ Put(s)
    /\ rounds' = IF pc[s] = "lock" THEN [rounds EXCEPT ![s] = @ + 1]
                 ELSE rounds
    /\ due' = StillDue
    /\ UNCHANGED <<playlist, plan, fill, faults, crossed, strayed>>

-----------------------------------------------------------------------------
(* compute_m3u8_real_segments_duration.                                    *)

Filling(i) == {f \in Fills : index[f] = i /\ pc[f] = "row"}

Proceed(l) ==
    /\ due' = [due EXCEPT ![l] =
           {i \in Initial : \/ db[i] = plan[l]
                            \/ \E f \in Filling(i) :
                                   parsed[f] /\ plan[f] = plan[l]}]
    /\ Goto(l, "fast")
    /\ UNCHANGED <<database, cache, locks, work, missed>>

\* A listing that does not wait.
WaitedForNone(l) == pc[l] = "wait" /\ Proceed(l)

\* get_segments has found the files of the first segments or has started
\* their fills, and MultipleValueMutex::wait has waited for those to release
\* the segments' locks.
Waited(l) ==
    /\ pc[l] = "wait"
    /\ \A i \in Initial : Filling(i) = {}
    /\ Proceed(l)

ListingStep(l) ==
    /\ \/ Waited(l)
       \/ /\ \/ FastGetTimes(l) \/ ReadRows(l) \/ ReadMetadata(l)
             \/ CheckPlaylist(l) \/ Measure(l) \/ Created(l)
          /\ due' = StillDue
    /\ UNCHANGED <<playlist, plan, fill, rounds, faults, crossed, strayed>>

-----------------------------------------------------------------------------
(* The fill task, as far as times go: SegmentStore has the rest of it.     *)

\* set_segment_info and the rename; then the segment's lock is released.
StoreSegment(f) ==
    /\ pc[f] = "row"
    /\ db' = IF parsed[f] THEN [db EXCEPT ![index[f]] = plan[f]] ELSE db
    /\ stored' = stored \cup {index[f]}
    /\ Goto(f, "insert")
    /\ UNCHANGED <<meta, cache, locks, work, missed>>

\* An insertion that does not take the mutex.
LockNothing(f) ==
    /\ pc[f] = "insert"
    /\ Goto(f, "compute")
    /\ UNCHANGED <<database, cache, locks, work, missed>>

\* TimeCache::insert, under the mutex ...
LockInsert(f) ==
    /\ pc[f] = "insert" /\ mutex = NoActor
    /\ mutex' = f
    /\ Goto(f, "compute")
    /\ UNCHANGED <<database, cache, compute, init, work, missed>>

\* An insertion beside a computation.
ComputeBeside(f) ==
    /\ pc[f] = "compute"
    /\ Goto(f, "put")
    /\ UNCHANGED <<database, cache, locks, work, missed>>

\* ... and in its turn as the one who computes the entry.
BeginCompute(f) ==
    /\ pc[f] = "compute" /\ compute = NoActor
    /\ compute' = f
    /\ Goto(f, "put")
    /\ UNCHANGED <<database, cache, init, mutex, work, missed>>

Inserted(f) ==
    IF cache = NoEntry \/ index[f] \in Known(cache) \/ ~parsed[f] THEN cache
    ELSE [cache EXCEPT !.times[index[f]] = plan[f],
                       !.dont = @ \ {index[f]}]

PutTime(f) ==
    /\ pc[f] = "put"
    /\ cache' = Inserted(f)
    /\ missed' = IF cache = NoEntry /\ init # NoActor
                 THEN missed \cup {index[f]} ELSE missed
    /\ strayed' = IF cache' # cache /\ cache.of # plan[f]
                  THEN strayed \cup {index[f]} ELSE strayed
    /\ compute' = NoActor /\ mutex' = NoActor
    /\ Goto(f, "end")
    /\ UNCHANGED <<database, init, work>>

FillStep(f) ==
    /\ \/ /\ StoreSegment(f) \/ LockInsert(f) \/ BeginCompute(f)
          /\ UNCHANGED strayed
       \/ PutTime(f)
    /\ UNCHANGED <<playlist, plan, fill, rounds, faults, crossed, due>>

-----------------------------------------------------------------------------
\* Each has the playlist of its get_m3u8, which another request may still be
\* recording; a fill has the segment's lock and finds no file.
Start(a) ==
    /\ pc[a] = "new"
    /\ a \in Fills => Filling(index[a]) = {} /\ index[a] \notin stored
    /\ plan' = [plan EXCEPT ![a] = playlist]
    /\ Goto(a, IF a \in Slows THEN "lock"
               ELSE IF a \in Listings THEN "wait" ELSE "row")
    /\ UNCHANGED <<playlist, database, cache, locks, work, fill, rounds,
                   faults, history>>

\* An error of the database or of delete_full_movie, or a cancelled request,
\* drops what the call holds.
Abort(a) ==
    /\ pc[a] \in {"fast", "rows", "meta", "check", "measure", "row"}
    /\ faults < MaxFaults /\ faults' = faults + 1
    /\ compute' = IF compute = a THEN NoActor ELSE compute
    /\ init' = IF init = a THEN NoActor ELSE init
    /\ missed' = IF a \in Fills THEN missed ELSE missed \cup Known(work[a])
    /\ work' = [work EXCEPT ![a] = Empty]
    /\ Goto(a, "end")
    /\ UNCHANGED <<playlist, database, cache, mutex, plan, fill, rounds,
                   crossed, strayed, due>>

Ended == \A a \in Actors : pc[a] \in {"listed", "end"}

Next ==
    \/ NewPlaylist \/ RecordPlaylist \/ Evict
    \/ \E a \in Actors : Start(a) \/ Abort(a)
    \/ \E s \in Slows : SlowStep(s)
    \/ \E l \in Listings : ListingStep(l)
    \/ \E f \in Fills : FillStep(f)
    \/ Ended /\ UNCHANGED vars

Spec == Init /\ [][Next]_vars

-----------------------------------------------------------------------------
TypeOK ==
    /\ playlist \in Nat /\ meta \in Nat /\ db \in [Segments -> Nat]
    /\ stored \in SUBSET Segments
    /\ cache \in Entry \cup {NoEntry}
    /\ compute \in Slows \cup Fills \cup {NoActor}
    /\ init \in Slows \cup Listings \cup {NoActor}
    /\ mutex \in Slows \cup Fills \cup {NoActor}
    /\ pc \in [Actors -> {"new", "wait", "fast", "rows", "meta", "check",
                          "measure", "lock", "try", "row", "insert",
                          "compute", "put", "listed", "end"}]
    /\ plan \in [Actors -> Nat] /\ work \in [Actors -> Entry]
    /\ index \in [Fills -> Segments] /\ due \in [Listings -> SUBSET Segments]

\* A slow fetch gives up only for another slow fetch of the movie, never for
\* the short computation of a fill that inserts a time.
GivesUpForSlowFetch ==
    [][\A s \in Slows :
           pc[s] = "try" /\ pc'[s] = "end" => compute \in Slows]_vars

\* The entry never mixes times of two playlists, nor keeps times measured in
\* another than its own; unless the playlist changed while a listing, a fetch
\* or a fill was under way, or a fill of the next playlist inserted its time
\* before a slow fetch had replaced the entry.
TimesOfOnePlaylist ==
    cache # NoEntry /\ ~crossed =>
        \A i \in Known(cache) : cache.times[i] = cache.of \/ i \in strayed

\* With nobody at work, the entry knows every segment that the database
\* knows: no update is lost to another, whichever way fetches,
\* listings, insertions and evictions interleave; except that of a fill which
\* found no entry while one was being created from rows already read.
NoTimeLost ==
    (\A a \in Actors : ~Busy(a)) /\ cache # NoEntry /\ ~crossed
    => \A i \in Segments : db[i] # 0 => i \in Known(cache) \cup missed

\* Somebody other than l has a time of segment i that is not in the entry.
InHand(i, l) ==
    \E a \in Actors \ {l} : Busy(a) /\ IF a \in Fills THEN index[a] = i
                                       ELSE i \in Known(work[a])

\* A listing (the entry as it is when the listing is made) knows when the
\* initial segments of its playlist start, if the database knew it once their
\* locks had been waited for and has not forgotten it since.  One made from an
\* entry found in the cache may lack a time that somebody has in hand, as a
\* fill that has released the lock and not inserted it yet, or that was missed;
\* one that creates the entry may not.
ListingKnowsFirstTimes ==
    [][\A l \in Listings : pc[l] # "listed" /\ pc'[l] = "listed" /\ ~crossed =>
           \A i \in due[l] :
               \/ cache'.times[i] # 0
               \/ pc[l] = "fast" /\ (i \in missed \/ InHand(i, l))]_vars
=============================================================================
