------------------------------ MODULE Intervals ------------------------------
(***************************************************************************)
(* The search for segment times: intervals.rs and the loop of              *)
(* compute_times_without_cache in time_cache_db.rs.                        *)
(*                                                                         *)
(* A playlist has Count segments.  Some have a measured start time, some   *)
(* have failed and are forbidden.  A computation places the times it knows *)
(* and keeps what is left as half-open ranges of indexes with the times at *)
(* both ends.  Again and again it measures the middle of the range of the  *)
(* longest duration, until that duration is short enough, the deadline has *)
(* passed, or nothing is left.  The next computation continues with the    *)
(* times and the forbidden segments of the last one, and between two of    *)
(* them other requests may add times (TimeCache::insert).                  *)
(*                                                                         *)
(* Times are whole numbers and may be in any order: they come from streams *)
(* of third parties.  A computation that is cancelled leaves the cache as  *)
(* it found it; that is the state it started in, and no action of its own. *)
(***************************************************************************)
EXTENDS Integers

CONSTANTS
    Count,              \* segments in the playlist
    Times,              \* start times a segment may have
    MovieDuration,
    Target,             \* target_time_between_segments
    MaxBetween          \* max_time_between_segments

\* An empty playlist has the duration 0 and is never searched.
ASSUME IntervalConstants ==
    /\ Count \in Nat \ {0}
    /\ Times \subseteq Nat
    /\ MovieDuration \in Nat
    /\ Target \in Nat
    /\ MaxBetween \in Nat

VARIABLES
    pc,         \* where the computation is: "idle", "new", "loop", "fetch", "panic"
    times,      \* segments_time: the start time of each measured index
    forbidden,  \* dont_compute: indexes whose measurement has failed
    todo,       \* initial_segments not placed yet
    ranges,     \* the heap of items
    top, index, \* the item at the top of the heap and the index chosen in it
    finished    \* finished_computing

vars == <<pc, times, forbidden, todo, ranges, top, index, finished>>

Indexes == 0 .. Count - 1

Item(lo, hi, from, to) == [lo |-> lo, hi |-> hi, from |-> from, to |-> to]
Segs(r) == r.lo .. r.hi - 1
Whole == Item(0, Count, 0, MovieDuration)

Duration(r) == IF r.to > r.from THEN r.to - r.from ELSE 0
IsEmpty(r) == Segs(r) \subseteq forbidden

(***************************************************************************)
(* middle_index: the allowed index nearest to the middle, the lower one of *)
(* two.  The distance is bounded by half the length, rounded up, exclusive.*)
(***************************************************************************)
Mid(r) == r.lo + (r.hi - r.lo) \div 2
\* Faulty variant of Reach: the search stops one index too early.
ShortReach(r) == (r.hi - r.lo + 1) \div 2 - 2

Reach(r) == (r.hi - r.lo + 1) \div 2 - 1
Distance(i, j) == IF i < j THEN j - i ELSE i - j

\* Faulty variant of Candidates: forbidden indexes are offered again.
AllCandidates(r) == {i \in Segs(r) : Distance(i, Mid(r)) <= Reach(r)}

Candidates(r) == {i \in Segs(r) \ forbidden : Distance(i, Mid(r)) <= Reach(r)}
IsMiddle(r, i) ==
    /\ i \in Candidates(r)
    /\ \A j \in Candidates(r) :
          \/ Distance(i, Mid(r)) < Distance(j, Mid(r))
          \/ Distance(i, Mid(r)) = Distance(j, Mid(r)) /\ i <= j

\* Faulty variant of IsTop: the order is reversed, the shortest item is on top.
IsShortest(r) == r \in ranges /\ \A s \in ranges : Duration(s) >= Duration(r)

\* peek of the heap: of several items of the same duration any may be on top.
IsTop(r) == r \in ranges /\ \A s \in ranges : Duration(s) <= Duration(r)

\* Faulty variants of SplitAt: the upper item still contains the split segment,
\* or still starts at the time the whole item started at.
SplitKeeping(r, i, t) ==
    (ranges \ {r}) \cup
        {p \in {Item(r.lo, i, r.from, t), Item(i, r.hi, t, r.to)} : ~IsEmpty(p)}

SplitStale(r, i, t) ==
    (ranges \ {r}) \cup
        {p \in {Item(r.lo, i, r.from, t), Item(i + 1, r.hi, r.from, r.to)} : ~IsEmpty(p)}

\* The heap after item r has been split at index i, which starts at time t.
SplitAt(r, i, t) ==
    (ranges \ {r}) \cup
        {p \in {Item(r.lo, i, r.from, t), Item(i + 1, r.hi, t, r.to)} : ~IsEmpty(p)}

-----------------------------------------------------------------------------
\* The cache entry of a movie that is new to the process has times from the
\* database; that of a movie that has changed has none, but keeps dont_compute.
Init ==
    /\ pc = "idle"
    /\ times \in UNION {[S -> Times] : S \in SUBSET Indexes}
    /\ forbidden \in SUBSET Indexes
    /\ forbidden = {} \/ DOMAIN times = {}
    /\ todo = {}
    /\ ranges = {}
    /\ top = Whole
    /\ index = 0
    /\ finished = FALSE

\* A computation starts: Interval::new, up to its loop.
New ==
    /\ pc = "idle"
    /\ pc' = "new"
    /\ todo' = DOMAIN times
    /\ ranges' = {Whole}
    /\ finished' = FALSE
    /\ UNCHANGED <<times, forbidden, top, index>>

\* One known segment, in the order of the indexes, splits the item it is in.
\* ("A range should be here": without one the program panics, and Place has no step.)
Place(i) ==
    /\ pc = "new"
    /\ i \in todo /\ \A j \in todo : i <= j
    /\ \E r \in ranges :
          /\ i \in Segs(r)
          /\ ranges' = SplitAt(r, i, times[i])
    /\ todo' = todo \ {i}
    /\ UNCHANGED <<pc, times, forbidden, top, index, finished>>

\* Faulty variant of StartLoop: the loop starts before all times are placed.
StartLoopEarly ==
    /\ pc = "new"
    /\ pc' = "loop"
    /\ finished' = (ranges = {})
    /\ UNCHANGED <<times, forbidden, todo, ranges, top, index>>

StartLoop ==
    /\ pc = "new"
    /\ todo = {}
    /\ pc' = "loop"
    /\ finished' = (ranges = {})
    /\ UNCHANGED <<times, forbidden, todo, ranges, top, index>>

\* The computation returns: the entry keeps the times and forbidden indexes.
Return(f) ==
    /\ pc' = "idle"
    /\ ranges' = {}
    /\ top' = Whole
    /\ index' = 0
    /\ finished' = f
    /\ UNCHANGED <<times, forbidden, todo>>

NothingLeft ==
    /\ pc = "loop"
    /\ ranges = {}
    /\ Return(finished)

\* The top of the heap has no middle: next_best_to_split panics.
NoMiddle(r) ==
    /\ pc = "loop"
    /\ IsTop(r)
    /\ Candidates(r) = {}
    /\ pc' = "panic"
    /\ top' = r
    /\ UNCHANGED <<times, forbidden, todo, ranges, index, finished>>

CloseEnough(r) ==
    /\ pc = "loop"
    /\ IsTop(r)
    /\ Candidates(r) # {}
    /\ Duration(r) < Target
    /\ Return(TRUE)

\* The deadline has passed, and the gap is acceptable.
Late(r) ==
    /\ pc = "loop"
    /\ IsTop(r)
    /\ Candidates(r) # {}
    /\ Duration(r) >= Target
    /\ Duration(r) < MaxBetween
    /\ Return(finished)

Choose(r, i) ==
    /\ pc = "loop"
    /\ IsTop(r)
    /\ IsMiddle(r, i)
    /\ Duration(r) >= Target
    /\ pc' = "fetch"
    /\ top' = r
    /\ index' = i
    /\ UNCHANGED <<times, forbidden, todo, ranges, finished>>

-----------------------------------------------------------------------------
\* The answers of get_segment_time.
FetchOk(t) ==
    /\ pc = "fetch"
    /\ pc' = "loop"
    /\ times' = [j \in DOMAIN times \cup {index} |-> IF j = index THEN t ELSE times[j]]
    /\ ranges' = SplitAt(top, index, t)
    /\ UNCHANGED <<forbidden, todo, top, index, finished>>

FetchTimeout ==
    /\ pc = "fetch"
    /\ Return(finished)

\* Faulty variant of FetchFails: the failure is not remembered.
FetchForgets ==
    /\ pc = "fetch"
    /\ pc' = "loop"
    /\ UNCHANGED <<times, forbidden, todo, ranges, top, index, finished>>

FetchFails ==
    /\ pc = "fetch"
    /\ pc' = "loop"
    /\ forbidden' = forbidden \cup {index}
    /\ ranges' = IF Segs(top) \subseteq forbidden' THEN ranges \ {top} ELSE ranges
    /\ UNCHANGED <<times, todo, top, index, finished>>

\* Faulty variant of Insert: dont_compute keeps the segment.
InsertForbidden(i, t) ==
    /\ pc = "idle"
    /\ i \notin DOMAIN times
    /\ times' = [j \in DOMAIN times \cup {i} |-> IF j = i THEN t ELSE times[j]]
    /\ UNCHANGED <<pc, forbidden, todo, ranges, top, index, finished>>

\* TimeCache::insert, which waits for the entry while it is computed.
Insert(i, t) ==
    /\ pc = "idle"
    /\ i \notin DOMAIN times
    /\ times' = [j \in DOMAIN times \cup {i} |-> IF j = i THEN t ELSE times[j]]
    /\ forbidden' = forbidden \ {i}
    /\ UNCHANGED <<pc, todo, ranges, top, index, finished>>

Compute ==
    \/ \E i \in todo : Place(i)
    \/ StartLoop
    \/ NothingLeft
    \/ \E r \in ranges : \/ NoMiddle(r) \/ CloseEnough(r) \/ Late(r)
                         \/ \E i \in Segs(r) : Choose(r, i)
    \/ \E t \in Times : FetchOk(t)
    \/ FetchTimeout
    \/ FetchFails

Next == New \/ Compute \/ \E i \in Indexes, t \in Times : Insert(i, t)

Spec == Init /\ [][Next]_vars

\* A computation runs, and get_segment_time ends: it makes at most ten attempts.
\* That each exchange ends is an assumption, for the client has no time limit.
FairSpec == Spec /\ WF_vars(Compute)

-----------------------------------------------------------------------------
(* Properties *)

Stamps == Times \cup {0, MovieDuration}
Items == [lo : 0 .. Count, hi : 0 .. Count, from : Stamps, to : Stamps]

\* Every variable has its type; a computation that is not running has no ranges,
\* and one that has started its loop has placed all it knew.
TypeOK ==
    /\ pc \in {"idle", "new", "loop", "fetch", "panic"}
    /\ DOMAIN times \subseteq Indexes
    /\ times \in [DOMAIN times -> Times]
    /\ forbidden \subseteq Indexes
    /\ todo \subseteq DOMAIN times
    /\ ranges \subseteq Items
    /\ top \in Items
    /\ index \in Indexes
    /\ finished \in BOOLEAN
    /\ pc = "idle" => ranges = {}
    /\ pc # "new" => todo = {}

\* The times that have been placed among the ranges.
Placed == DOMAIN times \ todo

\* Interval::new, split and remove partition the playlist: the ranges do not
\* overlap, hold no index whose time has been placed, and cover every other index
\* that may still be measured.
Partition ==
    pc # "idle" =>
        /\ \A r, s \in ranges : r # s => Segs(r) \cap Segs(s) = {}
        /\ \A r \in ranges : Segs(r) \cap Placed = {}
        /\ \A i \in Indexes \ (Placed \cup forbidden) : \E r \in ranges : i \in Segs(r)

\* The times at the ends of a range, from which its duration is computed, are those
\* of the measured segments next to it, or the beginning and the end of the movie.
RangesFollowTimes ==
    \A r \in ranges :
        /\ \/ r.lo = 0 /\ r.from = 0
           \/ r.lo - 1 \in Placed /\ r.from = times[r.lo - 1]
        /\ \/ r.hi = Count /\ r.to = MovieDuration
           \/ r.hi \in Placed /\ r.to = times[r.hi]

\* The expect of Interval::new holds: a known segment is in a range, whatever
\* was dropped before because of forbidden indexes.
RangeFound == pc = "new" => \A i \in todo : \E r \in ranges : i \in Segs(r)

\* next_best_to_split offers only a segment that was neither measured before, by
\* this computation, an earlier one or an insert, nor has failed.
FreshFetch == pc = "fetch" => index \notin DOMAIN times \cup forbidden

\* middle_index panics in two cases only: nothing of the whole playlist is left
\* (Interval::new does not ask whether its first item is empty), or only the first
\* index of a range of even length is (the search does not get that far).
PanicCause ==
    pc = "panic" =>
        LET left == Segs(top) \ forbidden IN
        \/ left = {} /\ top = Whole /\ DOMAIN times = {}
        \/ left = {top.lo} /\ (top.hi - top.lo) % 2 = 0

\* "Middle index called on an empty item" (intervals.rs): the search for a middle
\* gives up only on an item without an index to offer.  The code violates it.
PanicOnlyOnEmptyItem == pc = "panic" => IsEmpty(top)

\* Between the marks -1 and Count, the start and the end of the movie, the times
\* around a segment are those of the nearest measured ones.
Marks == DOMAIN times \cup {-1, Count}
Stamp(m) == CASE m = -1 -> 0 [] m = Count -> MovieDuration [] OTHER -> times[m]
Around(a, i, b) == a < i /\ i < b /\ \A c \in Marks : c <= a \/ b <= c

\* A computation that reports that it has finished leaves no segment to measure in
\* a gap of the target duration or more (what slow_fetch_times relies on to stop).
FinishedMeansClose ==
    [][pc # "idle" /\ pc' = "idle" /\ finished' =>
        \A i \in Indexes \ (DOMAIN times \cup forbidden) : \A a, b \in Marks :
            Around(a, i, b) => Stamp(b) - Stamp(a) < Target]_vars

\* A computation ends: no segment is tried for ever.
ComputationEnds == (pc = "new") ~> (pc \in {"idle", "panic"})
=============================================================================
