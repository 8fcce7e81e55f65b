------------------------------ MODULE Prefetch ------------------------------
(***************************************************************************)
(* load_cache (populate_cache.rs), the one task that downloads segments    *)
(* ahead of the player, for one movie: the requests sent to it, its heap,  *)
(* and the segments it remembers having computed (MovieData, kept in a     *)
(* SmallCache).                                                            *)
(*                                                                         *)
(* Durations are given by the times at which segments start: segment j     *)
(* lasts at[j + 1] - at[j], what end_time - start_time (or the default of  *)
(* 10 s) comes to.  It is negative when the times run backwards.           *)
(***************************************************************************)
EXTENDS Integers, FiniteSets, SequencesExt

CONSTANTS
    MaxCount,       \* bound on the number of segments of a playlist
    Counts,         \* numbers of segments the playlist can have
    Starts,         \* functions: the time at which each segment starts
    Aheads,         \* cache_in_the_future, initial_cache_in_the_future
    MaxRequests,    \* bound on the requests made
    MaxFaults,      \* bound on failures and on new playlists
    NoEntry, NotComputed

ASSUME PrefetchConstants ==
    /\ Counts \subseteq 1 .. MaxCount
    /\ \A f \in Starts : f \in [0 .. MaxCount -> Int]
    /\ Aheads \subseteq Nat
    /\ MaxCount \in Nat
    /\ NoEntry \notin [future : Nat, total : Nat]
    /\ NotComputed \notin [next : Int, time : Int]

VARIABLES
    count, at,      \* the playlist: how many segments, when each starts
    channel,        \* the requests not received yet
    heap,           \* by segment: [future, total], or NoEntry
    pc, cur,        \* the task: its next step, the entry it took
    known,          \* MovieData.segments_count, 0 without a MovieData
    memory,         \* next_compute, by segment: [next, time], or NotComputed
    asked,          \* history: every request made
    fetched,        \* history: every segment downloaded
    lost,           \* history: an entry was dropped on a failure
    least, faults   \* history: the smallest count, how many disturbances

task == <<heap, pc, cur>>
memo == <<known, memory>>
history == <<fetched, lost, faults>>
vars == <<count, at, channel, task, memo, asked, least, history>>

Segs == 0 .. MaxCount
None == -1                          \* next_compute: nothing is left
Duration(j) == at[j + 1] - at[j]

Forgotten == [j \in Segs |-> NotComputed]
NoCur == [seg |-> 0, future |-> 0, total |-> 0, count |-> 0]

Init ==
    /\ count \in Counts
    /\ at \in Starts
    /\ channel = <<>>
    /\ heap = [s \in Segs |-> NoEntry]
    /\ pc = "idle" /\ cur = NoCur
    /\ known = 0 /\ memory = Forgotten
    /\ asked = {} /\ fetched = {}
    /\ lost = FALSE /\ least = count /\ faults = 0

-----------------------------------------------------------------------------
(* The heap.                                                               *)

\* A merge whose longer entry keeps its duration_in_future.
MergeKeepingFuture(old, new) ==
    LET newFirst == new.future < old.future
        smaller == IF newFirst THEN new ELSE old
        bigger == IF newFirst THEN old ELSE new
        shifted == [bigger EXCEPT
                        !.total = @ - (bigger.future - smaller.future)]
    IN  IF smaller.total > shifted.total THEN smaller ELSE shifted

\* A merge that keeps the entry that reaches less far.
MergeShorter(old, new) == IF new.total < old.total THEN new ELSE old

\* add_to_cache for a segment that has an entry: both are brought to the
\* smaller duration_in_future, and the one that reaches further is kept.
Merge(old, new) ==
    LET newFirst == new.future < old.future
        smaller == IF newFirst THEN new ELSE old
        bigger == IF newFirst THEN old ELSE new
        shifted == [future |-> smaller.future,
                    total |-> bigger.total - (bigger.future - smaller.future)]
    IN  IF smaller.total > shifted.total THEN smaller ELSE shifted

AddToCache(h, s, future, total) ==
    LET new == [future |-> future, total |-> total]
    IN  [h EXCEPT ![s] = IF @ = NoEntry THEN new ELSE Merge(@, new)]

Entries(h) == {s \in Segs : h[s] # NoEntry}

\* Every request in the channel, through try_recv.
Drained == FoldSeq(LAMBDA r, h : AddToCache(h, r.seg, 0, r.total),
                   heap, channel)

-----------------------------------------------------------------------------
(* MovieData.                                                              *)

\* get_next_compute_inner, by segment: the chain of computed segments that
\* begins there, followed to its end.
Chain[j \in Segs] ==
    IF memory[j] = NotComputed \/ memory[j].next = None THEN memory[j]
    ELSE LET rest == Chain[memory[j].next]
         IN  IF rest = NotComputed THEN memory[j]
             ELSE [next |-> rest.next, time |-> memory[j].time + rest.time]

\* The segments that call follows from j, whose entries it brings up to date.
OnChain(j) ==
    LET Follows[k \in Segs] ==
            \/ k = j
            \/ \E i \in j .. k - 1 : /\ Follows[i]
                                     /\ memory[i] # NotComputed
                                     /\ memory[i].next = k
    IN  {k \in j .. MaxCount : Follows[k]}

\* The chain is compressed without adding up its durations.
CompressedUntimed(j) ==
    [k \in Segs |-> IF k \in OnChain(j) /\ memory[k] # NotComputed
                    THEN [memory[k] EXCEPT !.next = Chain[k].next]
                    ELSE memory[k]]

Compressed(j) ==
    [k \in Segs |-> IF k \in OnChain(j) THEN Chain[k] ELSE memory[k]]

\* get_next_to_compute, which gives nothing when next is None.
NextToCompute(j) ==
    IF memory[j] = NotComputed THEN [next |-> j, time |-> 0] ELSE Chain[j]

-----------------------------------------------------------------------------
(* LocalPlayer::get_segments, for the segments that follow those it is     *)
(* asked for, and load_initial_segments.                                   *)
Request(s, total) ==
    /\ Cardinality(asked) < MaxRequests
    /\ <<s, total>> \notin asked
    /\ asked' = asked \cup {<<s, total>>}
    /\ channel' = IF pc = "dead" THEN channel
                  ELSE Append(channel, [seg |-> s, total |-> total])
    /\ UNCHANGED <<count, at, task, memo, least, history>>

\* The cache of players is renewed: the playlist has another length.
NewPlaylist ==
    /\ faults < MaxFaults
    /\ count' \in Counts \ {count}
    /\ least' = IF count' < least THEN count' ELSE least
    /\ faults' = faults + 1
    /\ UNCHANGED <<at, channel, task, memo, asked, fetched, lost>>

\* A pass of the task for another movie removes this one from the
\* SmallCache, where it has been idle for 15 minutes (SmallCache::cleanup).
Expire ==
    /\ pc = "idle" /\ known # 0
    /\ faults < MaxFaults /\ faults' = faults + 1
    /\ known' = 0 /\ memory' = Forgotten
    /\ UNCHANGED <<count, at, channel, task, asked, least, fetched, lost>>

-----------------------------------------------------------------------------
Take(s, e, h) ==
    /\ heap' = h
    /\ cur' = [seg |-> s, future |-> e.future, total |-> e.total,
               count |-> 0]
    /\ pc' = "playlist"

\* The requests are drained; the entry least far in the future is popped.
Pop ==
    /\ pc = "idle"
    /\ channel' = <<>>
    /\ \E s \in Entries(Drained) :
           /\ \A o \in Entries(Drained) :
                  Drained[s].future <= Drained[o].future
           /\ Take(s, Drained[s], [Drained EXCEPT ![s] = NoEntry])
    /\ UNCHANGED <<count, at, memo, asked, least, history>>

Wait ==
    /\ pc = "idle" /\ channel = <<>> /\ Entries(heap) = {}
    /\ pc' = "recv"
    /\ UNCHANGED <<count, at, channel, heap, cur, memo, asked, least, history>>

Recv ==
    /\ pc = "recv" /\ channel # <<>>
    /\ Take(Head(channel).seg, [future |-> 0, total |-> Head(channel).total],
            heap)
    /\ channel' = Tail(channel)
    /\ UNCHANGED <<count, at, memo, asked, least, history>>

Continue == pc' = "idle" /\ cur' = NoCur /\ heap' = heap

ContinueWith(s, future) ==
    /\ pc' = "idle" /\ cur' = NoCur
    /\ heap' = AddToCache(heap, s, future, cur.total)

\* An entry is put back at its next segment even if that is itself.
SkipsAlways(n) == TRUE

\* Whether computed segments were skipped.
Skips(n) == n.time # 0

\* get_m3u8 answers: the segment is compared with the playlist, and the
\* computed segments after it are skipped.
Playlist ==
    /\ pc = "playlist"
    /\ \/ cur.seg >= count /\ Continue /\ UNCHANGED memo
       \/ /\ cur.seg < count
          /\ known' = IF known = 0 THEN count ELSE known
          /\ memory' = Compressed(cur.seg)
          /\ LET n == NextToCompute(cur.seg)
                 future == cur.future + n.time
             IN  \/ n.next = None /\ Continue
                 \/ n.next # None /\ future >= cur.total /\ Continue
                 \/ /\ n.next # None /\ future < cur.total /\ Skips(n)
                    /\ ContinueWith(n.next, future)
                 \/ /\ n.next # None /\ future < cur.total /\ ~Skips(n)
                    /\ pc' = "fetch"
                    /\ cur' = [cur EXCEPT !.seg = n.next, !.count = count]
                    /\ heap' = heap
    /\ UNCHANGED <<count, at, channel, asked, least, history>>

\* get_m3u8, get_segments or its stream fails: the entry is dropped.
Fail ==
    /\ pc \in {"playlist", "fetch"}
    /\ \/ faults < MaxFaults /\ faults' = faults + 1 /\ lost' = TRUE
       \/ pc = "fetch" /\ cur.seg >= count /\ UNCHANGED <<faults, lost>>
    /\ Continue
    /\ UNCHANGED <<count, at, channel, memo, asked, least, fetched>>

\* The segment is downloaded and its times are parsed.  A negative duration
\* makes Duration::from_secs_f64 panic, and the task is gone.
Fetch ==
    /\ pc = "fetch" /\ cur.seg < count
    /\ fetched' = fetched \cup {cur.seg}
    /\ \/ /\ Duration(cur.seg) < 0
          /\ pc' = "dead"
          /\ UNCHANGED <<heap, cur, memo>>
       \/ /\ Duration(cur.seg) >= 0
          /\ memory' = [memory EXCEPT ![cur.seg] =
                 [next |-> IF cur.seg + 1 < known THEN cur.seg + 1 ELSE None,
                  time |-> Duration(cur.seg)]]
          /\ LET future == cur.future + Duration(cur.seg)
             IN  IF future >= cur.total \/ cur.seg + 1 >= cur.count
                 THEN Continue
                 ELSE ContinueWith(cur.seg + 1, future)
          /\ UNCHANGED known
    /\ UNCHANGED <<count, at, channel, asked, least, lost, faults>>

Step == Pop \/ Wait \/ Recv \/ Playlist \/ Fail \/ Fetch

Next ==
    \/ \E s \in Segs, total \in Aheads : Request(s, total)
    \/ NewPlaylist \/ Expire
    \/ Step

\* The task is polled, and what it awaits ends.
Spec == Init /\ [][Next]_vars /\ WF_vars(Step)

-----------------------------------------------------------------------------
\* An entry still has time to cover, so that the subtractions of durations
\* in add_to_cache, which panic below zero, never do.
TypeOK ==
    /\ pc \in {"idle", "recv", "playlist", "fetch", "dead"}
    /\ known \in Counts \cup {0}
    /\ \A s \in Entries(heap) :
           heap[s].future \in Nat /\ heap[s].total \in Nat
    /\ \A s \in Entries(heap) :
           heap[s].future < heap[s].total \/ heap[s].future = 0

\* A computed segment's entry jumps over computed segments only, and carries
\* exactly the time they last, in whatever order requests had the segments
\* computed and the chains compressed.
ChainsExact ==
    \A j \in Segs : memory[j] # NotComputed =>
        LET end == IF memory[j].next # None THEN memory[j].next
                   ELSE IF j < known THEN known ELSE j + 1
        IN  /\ j < end
            /\ \A k \in j .. end - 1 : memory[k] # NotComputed
            /\ memory[j].time = at[end] - at[j]

Settled == pc = "recv" /\ channel = <<>>

\* Once the task waits for requests, every request has had the segments of
\* its next minutes downloaded, though requests were merged, the movie was
\* forgotten and the playlist's length changed; unless a failure dropped an
\* entry, and as far as every playlist went.
ReachesAhead ==
    Settled /\ ~lost =>
        \A r \in asked, j \in Segs :
            /\ r[1] <= j /\ j < least
            /\ \A k \in r[1] .. j : at[k] - at[r[1]] < r[2]
            => j \in fetched

\* The task comes to the end of its heap and waits again, provided that no
\* segment's times run backwards; segments of no duration do not hold it.
Settles == (\A j \in 0 .. MaxCount - 1 : Duration(j) >= 0) => <>[]Settled
=============================================================================
