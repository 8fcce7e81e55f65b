-------------------------- MODULE Prefetch_proofs --------------------------
(***************************************************************************)
(* Safety of the prefetcher for playlists of any length, any times, any    *)
(* number of requests and disturbances.                                    *)
(*                                                                         *)
(* The invariant says of the memory that each computed segment leads over  *)
(* computed segments to a later one, and knows how long they last; of the  *)
(* heap that no entry is behind; and of both, with the channel and the     *)
(* entry the task holds, that whatever was asked for has been downloaded   *)
(* or is still to be come to (Pending).  Merging keeps the larger need of  *)
(* two entries, skipping a chain leaves the time to cover from where it    *)
(* ends, and a segment that was computed has been downloaded.  When the    *)
(* task waits nothing is pending, so everything has been downloaded.       *)
(*                                                                         *)
(* That it comes to wait, or dies, rests on a measure of what is pending   *)
(* (Rank), which each of its steps decreases.                              *)
(***************************************************************************)
EXTENDS Prefetch, FiniteSetTheorems, WellFoundedInduction, TLAPS

-----------------------------------------------------------------------------
(* Induction over data. *)

\* The order of the natural numbers, as a set of pairs.
Less == {p \in Nat \X Nat : p[1] < p[2]}

(***************************************************************************)
(* Induction over the natural numbers, for a set instead of a predicate.   *)
(***************************************************************************)
LEMMA Inductive ==
    ASSUME NEW N, 0 \in N, \A n \in Nat : n \in N => n + 1 \in N
    PROVE  Nat \subseteq N
<1> DEFINE T == Nat \ N
<1> SUFFICES ASSUME T # {} PROVE FALSE
  OBVIOUS
<1>1. IsWellFoundedOn(Less, Nat)
  <2>1. OpToRel(<, Nat) = Less
    BY DEF OpToRel, Less
  <2> QED BY <2>1, NatLessThanWellFounded
<1>2. PICK m \in T : \A n \in T : ~ (<<n, m>> \in Less)
  BY <1>1, WFMin
<1>3. m \in Nat /\ m # 0 /\ m - 1 \in Nat /\ m - 1 < m
  BY SMT
<1>4. <<m - 1, m>> \in Less
  BY <1>3 DEF Less
<1>5. m - 1 \in N
  BY <1>2, <1>3, <1>4
<1>6. m = (m - 1) + 1
  BY <1>3
<1> QED BY <1>3, <1>5, <1>6

-----------------------------------------------------------------------------
(* What is remembered: chains of computed segments. *)

\* The memory of a computed segment: where to go on, and after how much time.
Hops == [next : Segs \cup {None}, time : Nat]

\* The segment that a memory m of segment j reaches.
EndOf(m, j) ==
    IF m.next # None THEN m.next ELSE IF j < known THEN known ELSE j + 1

\* It jumps over computed segments, and knows how long they last.
Spans(m, j) ==
    /\ m \in Hops
    /\ m.next # None => m.next < known
    /\ j < EndOf(m, j) /\ EndOf(m, j) <= MaxCount
    /\ \A k \in j .. EndOf(m, j) - 1 : memory[k] # NotComputed
    /\ m.time = at[EndOf(m, j)] - at[j]

AllSpan == \A j \in Segs : memory[j] # NotComputed => Spans(memory[j], j)

\* What the recursion of Chain says of g at segment j.
Link(g, j) ==
    IF memory[j] = NotComputed \/ memory[j].next = None THEN memory[j]
    ELSE LET rest == g[memory[j].next]
         IN  IF rest = NotComputed THEN memory[j]
             ELSE [next |-> rest.next, time |-> memory[j].time + rest.time]

(***************************************************************************)
(* No segment is remembered by a value that stands for none.               *)
(***************************************************************************)
LEMMA HopsComputed == \A m \in Hops : m # NotComputed
<1>1. Segs \cup {None} \subseteq Int /\ Nat \subseteq Int
  BY PrefetchConstants DEF None, Segs
<1>2. \A m \in Hops : m \in [next : Int, time : Int]
  BY <1>1, Zenon DEF Hops
<1> QED BY <1>2, PrefetchConstants

(***************************************************************************)
(* The chains lead forward, so that following them is well defined.        *)
(***************************************************************************)
LEMMA ChainLinks ==
    ASSUME AllSpan
    PROVE  \A j \in Segs : Chain[j] = Link(Chain, j)
<1> DEFINE P(n, g) == /\ g = [j \in Segs |-> g[j]]
                      /\ \A j \in Segs : j > MaxCount - n => g[j] = Link(g, j)
           N == {n \in Nat : \E g : P(n, g)}
<1>a. MaxCount \in Nat /\ \A j \in Segs : j \in Nat /\ j <= MaxCount
  BY PrefetchConstants DEF Segs
<1>b. \A j \in Segs : memory[j] # NotComputed /\ memory[j].next # None =>
         memory[j].next \in Segs /\ memory[j].next > j
  BY <1>a DEF AllSpan, Spans, EndOf, Hops, Segs
<1>1. 0 \in N
  <2> DEFINE g == [j \in Segs |-> 0]
  <2>1. P(0, g)
    BY <1>a
  <2> HIDE DEF g
  <2>2. \E k : P(0, k)
    BY <2>1
  <2> QED BY <2>2
<1>2. ASSUME NEW n \in Nat, n \in N PROVE n + 1 \in N
  <2>1. PICK g : P(n, g)
    BY <1>2
  <2> DEFINE h == [j \in Segs |-> IF j > MaxCount - n THEN g[j] ELSE Link(g, j)]
  <2>2. ASSUME NEW j \in Segs, j > MaxCount - (n + 1) PROVE h[j] = Link(h, j)
    <3>1. h[j] = Link(g, j)
      BY <2>1
    <3>2. memory[j] # NotComputed /\ memory[j].next # None =>
             h[memory[j].next] = g[memory[j].next]
      <4> SUFFICES ASSUME memory[j] # NotComputed, memory[j].next # None
                   PROVE  h[memory[j].next] = g[memory[j].next]
        OBVIOUS
      <4> DEFINE k == memory[j].next
      <4>1. k \in Segs /\ k > j
        BY <1>b
      <4>2. k > MaxCount - n
        <5> HIDE DEF k
        <5> QED BY <1>a, <2>2, <4>1
      <4> HIDE DEF k
      <4>3. h[k] = g[k]
        BY <4>1, <4>2
      <4> QED BY <4>3 DEF k
    <3> HIDE DEF h
    <3> QED BY <3>1, <3>2 DEF Link
  <2>3. h = [j \in Segs |-> h[j]]
    OBVIOUS
  <2> HIDE DEF h
  <2>4. P(n + 1, h)
    BY <2>2, <2>3
  <2>5. \E k : P(n + 1, k)
    BY <2>4
  <2> HIDE DEF P
  <2> QED BY <2>5
<1>3. MaxCount + 1 \in N
  <2> HIDE DEF N
  <2>1. Nat \subseteq N
    BY <1>1, <1>2, Inductive
  <2> QED BY <1>a, <2>1
<1>4. PICK g : P(MaxCount + 1, g)
  BY <1>3
<1>5. g = [j \in Segs |-> Link(g, j)]
  <2>1. \A j \in Segs : g[j] = Link(g, j)
    BY <1>a, <1>4
  <2>2. [j \in Segs |-> g[j]] = [j \in Segs |-> Link(g, j)]
    BY <2>1
  <2> QED BY <1>4, <2>2, Zenon
<1>6. Chain = [j \in Segs |-> Link(Chain, j)]
  BY <1>5, Zenon DEF Chain, Link
<1> QED BY <1>6, Zenon

(***************************************************************************)
(* Following a chain to its end jumps over computed segments, and adds up  *)
(* how long they last.                                                     *)
(***************************************************************************)
LEMMA ChainSpans ==
    ASSUME AllSpan, at \in [Segs -> Int], known \in Nat
    PROVE  \A j \in Segs : IF memory[j] = NotComputed THEN Chain[j] = NotComputed
                                                      ELSE Spans(Chain[j], j)
<1> DEFINE Good(j) == IF memory[j] = NotComputed THEN Chain[j] = NotComputed
                                                 ELSE Spans(Chain[j], j)
           N == {n \in Nat : \A j \in Segs : j > MaxCount - n => Good(j)}
<1>a. MaxCount \in Nat /\ \A j \in Segs : j \in Nat /\ j <= MaxCount
  BY PrefetchConstants DEF Segs
<1>1. 0 \in N
  BY <1>a
<1>2. ASSUME NEW n \in Nat, n \in N PROVE n + 1 \in N
  <2>1. ASSUME NEW j \in Segs, j > MaxCount - (n + 1) PROVE Good(j)
    <3> DEFINE m == memory[j]
               k == m.next
    <3>1. Chain[j] = Link(Chain, j)
      BY ChainLinks
    <3>2. CASE m = NotComputed
      BY <3>1, <3>2 DEF Link
    <3>3. CASE m # NotComputed /\ k = None
      BY <3>1, <3>3 DEF Link, AllSpan
    <3>4. CASE m # NotComputed /\ k # None
      <4>1. /\ m \in Hops /\ k < known /\ j < k /\ k <= MaxCount
            /\ k \in Segs
            /\ \A i \in j .. k - 1 : memory[i] # NotComputed
            /\ m.time = at[k] - at[j]
        BY <3>4 DEF AllSpan, Spans, EndOf, Hops
      <4>2. Good(k)
        <5>1. k > MaxCount - n
          <6> HIDE DEF k
          <6> QED BY <1>a, <2>1, <4>1
        <5> HIDE DEF Good, k
        <5> QED BY <1>2, <4>1, <5>1
      <4>3. CASE memory[k] = NotComputed
        <5>1. Chain[j] = m
          BY <3>1, <3>4, <4>2, <4>3 DEF Link
        <5>2. Spans(m, j)
          BY <3>4 DEF AllSpan
        <5> QED BY <3>4, <5>1, <5>2
      <4>4. CASE memory[k] # NotComputed
        <5> DEFINE r == Chain[k]
                   q == [next |-> r.next, time |-> m.time + r.time]
                   e == EndOf(r, k)
        <5>1. Spans(r, k)
          BY <4>2, <4>4
        <5>2. r # NotComputed /\ r \in Hops
          BY <5>1, HopsComputed DEF Spans
        <5>3. Chain[j] = q
          BY <3>1, <3>4, <5>2 DEF Link
        <5>4. q \in Hops
          BY <4>1, <5>2 DEF Hops
        <5>5. EndOf(q, j) = e
          <6>1. r.next = None => e = known /\ EndOf(q, j) = known
            BY <1>a, <4>1 DEF EndOf
          <6>2. r.next # None => e = r.next /\ EndOf(q, j) = r.next
            BY DEF EndOf
          <6> QED BY <6>1, <6>2
        <5>6. /\ e \in Segs /\ k < e /\ e <= MaxCount
              /\ \A i \in k .. e - 1 : memory[i] # NotComputed
              /\ r.time = at[e] - at[k]
              /\ r.next # None => r.next < known
          <6>1. e \in Nat
            BY <1>a, <4>1, <5>2 DEF EndOf, Hops, Segs
          <6> HIDE DEF e
          <6>2. k < e /\ e <= MaxCount
            BY <5>1 DEF Spans, e
          <6>3. e \in Segs
            BY <1>a, <6>1, <6>2 DEF Segs
          <6> QED BY <5>1, <6>2, <6>3 DEF Spans, e
        <5>7. \A i \in j .. e - 1 : memory[i] # NotComputed
          <6>1. j \in Int /\ k \in Int /\ e \in Int
            BY <1>a, <4>1, <5>6
          <6> HIDE DEF k, e
          <6>2. \A i \in j .. e - 1 : i \in j .. k - 1 \/ i \in k .. e - 1
            BY <6>1
          <6> QED BY <4>1, <5>6, <6>2
        <5>8. q.time = at[e] - at[j] /\ j < e
          <6>1. at[j] \in Int /\ at[k] \in Int /\ at[e] \in Int
            BY <4>1, <5>6
          <6>2. j \in Int /\ k \in Int /\ e \in Int
            BY <1>a, <4>1, <5>6
          <6>3. q.time = m.time + r.time
            OBVIOUS
          <6> HIDE DEF q, r, m, k, e
          <6> QED BY <4>1, <5>6, <6>1, <6>2, <6>3
        <5>9. q.next = r.next
          OBVIOUS
        <5>10. Spans(q, j)
          <6> HIDE DEF q, r, e
          <6> QED BY <5>4, <5>5, <5>6, <5>7, <5>8, <5>9 DEF Spans
        <5> QED BY <3>4, <5>3, <5>10
      <4> QED BY <4>3, <4>4
    <3> QED BY <3>2, <3>3, <3>4
  <2> HIDE DEF Good
  <2> QED BY <2>1
<1>3. MaxCount + 1 \in N
  <2> HIDE DEF N
  <2>1. Nat \subseteq N
    BY <1>1, <1>2, Inductive
  <2> QED BY <1>a, <2>1
<1> HIDE DEF Good
<1>4. \A j \in Segs : Good(j)
  BY <1>a, <1>3
<1> QED BY <1>4 DEF Good

-----------------------------------------------------------------------------
(* The heap: merging keeps what every request still needs. *)

Entry == [future : Nat, total : Nat]

\* The time an entry still has to cover.
Need(e) == e.total - e.future

\* It is not behind, so that no subtraction of durations goes below zero.
Ahead(e) == e.future < e.total \/ e.future = 0

Heaps ==
    {h \in [Segs -> Entry \cup {NoEntry}] : \A s \in Entries(h) : Ahead(h[s])}

\* No entry of h needs more than what h2 has at the same segment.
Keeps(h, h2) ==
    \A s \in Entries(h) : s \in Entries(h2) /\ Need(h[s]) <= Need(h2[s])

(***************************************************************************)
(* The entry that two are merged into starts with the nearer and reaches   *)
(* as far as both.                                                         *)
(***************************************************************************)
LEMMA MergeReaches ==
    ASSUME NEW old \in Entry, NEW new \in Entry, Ahead(old), Ahead(new)
    PROVE  /\ Merge(old, new) \in Entry
           /\ Ahead(Merge(old, new))
           /\ Need(old) <= Need(Merge(old, new))
           /\ Need(new) <= Need(Merge(old, new))
<1> DEFINE first == IF new.future < old.future THEN new ELSE old
           last == IF new.future < old.future THEN old ELSE new
           shifted == [future |-> first.future,
                       total |-> last.total - (last.future - first.future)]
<1>1. /\ first \in Entry /\ last \in Entry /\ Ahead(first) /\ Ahead(last)
      /\ first.future \in Nat /\ first.total \in Nat
      /\ last.future \in Nat /\ last.total \in Nat
      /\ first.future <= last.future
      /\ {first, last} = {old, new}
  BY DEF Entry
<1>2. Merge(old, new) = IF first.total > shifted.total THEN first ELSE shifted
  BY DEF Merge
<1> HIDE DEF first, last
<1>3. shifted.future = first.future
      /\ shifted.total = last.total - (last.future - first.future)
  OBVIOUS
<1>4. shifted.total \in Nat
  BY <1>1, <1>3 DEF Ahead
<1>5. shifted \in Entry
  BY <1>1, <1>4 DEF Entry
<1>6. Ahead(shifted) /\ Need(shifted) = Need(last)
  BY <1>1, <1>3, <1>4 DEF Ahead, Need
<1> HIDE DEF shifted
<1>7. /\ Merge(old, new) \in {first, shifted}
      /\ Need(first) <= Need(Merge(old, new))
      /\ Need(last) <= Need(Merge(old, new))
  BY <1>1, <1>2, <1>3, <1>4, <1>6 DEF Need
<1> QED BY <1>1, <1>5, <1>6, <1>7

(***************************************************************************)
(* add_to_cache forgets no entry, and serves the new one.                  *)
(***************************************************************************)
LEMMA AddKeeps ==
    ASSUME NEW h \in Heaps, NEW s \in Segs, NEW future \in Nat, NEW total \in Nat,
           future < total \/ future = 0
    PROVE  /\ AddToCache(h, s, future, total) \in Heaps
           /\ Keeps(h, AddToCache(h, s, future, total))
           /\ s \in Entries(AddToCache(h, s, future, total))
           /\ total - future <= Need(AddToCache(h, s, future, total)[s])
<1> DEFINE new == [future |-> future, total |-> total]
           e == IF h[s] = NoEntry THEN new ELSE Merge(h[s], new)
           g == [h EXCEPT ![s] = e]
<1>1. AddToCache(h, s, future, total) = g
  BY DEF AddToCache
<1>2. new \in Entry /\ Ahead(new) /\ Need(new) = total - future
  BY DEF Entry, Ahead, Need
<1>3. h \in [Segs -> Entry \cup {NoEntry}] /\ \A o \in Entries(h) : Ahead(h[o])
  BY DEF Heaps
<1> HIDE DEF new
<1>4. /\ e \in Entry /\ Ahead(e) /\ Need(new) <= Need(e)
      /\ h[s] # NoEntry => Need(h[s]) <= Need(e)
  <2>1. CASE h[s] = NoEntry
    <3>1. Need(new) \in Int
      BY <1>2
    <3> QED BY <1>2, <2>1, <3>1
  <2>2. CASE h[s] # NoEntry
    <3>1. h[s] \in Entry /\ Ahead(h[s])
      BY <1>3, <2>2 DEF Entries
    <3> QED BY <1>2, <2>2, <3>1, MergeReaches
  <2> QED BY <2>1, <2>2
<1> HIDE DEF e
<1>5. e # NoEntry
  BY <1>4, PrefetchConstants DEF Entry
<1>6. g \in [Segs -> Entry \cup {NoEntry}] /\ g[s] = e
      /\ \A o \in Segs \ {s} : g[o] = h[o]
  BY <1>3, <1>4
<1> HIDE DEF g
<1>7. s \in Entries(g) /\ Entries(h) \subseteq Entries(g)
      /\ \A o \in Entries(g) : o = s \/ (o \in Entries(h) /\ o # s)
  BY <1>5, <1>6 DEF Entries
<1>8. g \in Heaps
  BY <1>3, <1>4, <1>6, <1>7 DEF Heaps, Entries
<1>9. Keeps(h, g)
  <2> SUFFICES ASSUME NEW o \in Entries(h)
               PROVE  o \in Entries(g) /\ Need(h[o]) <= Need(g[o])
    BY DEF Keeps
  <2>1. CASE o = s
    BY <1>4, <1>6, <1>7, <2>1 DEF Entries
  <2>2. CASE o # s
    <3>1. g[o] = h[o] /\ h[o] \in Entry
      BY <1>3, <1>6, <2>2 DEF Entries
    <3>2. Need(h[o]) \in Int
      BY <3>1 DEF Need, Entry
    <3> QED BY <1>7, <3>1, <3>2
  <2> QED BY <2>1, <2>2
<1> QED BY <1>1, <1>2, <1>4, <1>6, <1>7, <1>8, <1>9

(***************************************************************************)
(* What an entry needs is a number, and keeping is transitive.             *)
(***************************************************************************)
LEMMA KeepsTrans ==
    ASSUME NEW f \in Heaps, NEW g \in Heaps, NEW h \in Heaps,
           Keeps(f, g), Keeps(g, h)
    PROVE  Keeps(f, h)
<1>1. \A k \in Heaps : \A s \in Entries(k) : Need(k[s]) \in Int
  <2> SUFFICES ASSUME NEW k \in Heaps, NEW s \in Entries(k)
               PROVE  Need(k[s]) \in Int
    OBVIOUS
  <2>1. k[s] \in Entry
    BY DEF Heaps, Entries
  <2> QED BY <2>1 DEF Need, Entry
<1> SUFFICES ASSUME NEW s \in Entries(f)
             PROVE  s \in Entries(h) /\ Need(f[s]) <= Need(h[s])
  BY DEF Keeps
<1>2. /\ s \in Entries(g) /\ Need(f[s]) <= Need(g[s])
      /\ s \in Entries(h) /\ Need(g[s]) <= Need(h[s])
  BY DEF Keeps
<1>3. Need(f[s]) \in Int /\ Need(g[s]) \in Int /\ Need(h[s]) \in Int
  BY <1>1, <1>2
<1> QED BY <1>2, <1>3

-----------------------------------------------------------------------------
(* Draining the channel. *)

Sent == [seg : Segs, total : Nat]

Pick(S) == CHOOSE x \in S : TRUE

\* What the recursion of Drained says of g at a set s of positions.
Drain(g, s) ==
    IF s = {} THEN heap
    ELSE LET r == channel[Pick(s)]
         IN  AddToCache(g[s \ {Pick(s)}], r.seg, 0, r.total)

Positions == DOMAIN channel

(***************************************************************************)
(* The positions of the channel are finite sets, and so is what is left    *)
(* without the one that is picked.                                         *)
(***************************************************************************)
LEMMA PositionsFinite ==
    ASSUME channel \in Seq(Sent)
    PROVE  /\ \A s \in SUBSET Positions :
                 IsFiniteSet(s) /\ Cardinality(s) \in Nat
           /\ \A s \in SUBSET Positions : s # {} =>
                 /\ Pick(s) \in s /\ channel[Pick(s)] \in Sent
                 /\ s \ {Pick(s)} \in SUBSET Positions
                 /\ Cardinality(s \ {Pick(s)}) = Cardinality(s) - 1
<1>1. Positions = 1 .. Len(channel) /\ Len(channel) \in Nat
  BY DEF Positions
<1>2. IsFiniteSet(Positions)
  BY <1>1, FS_Interval
<1>3. \A s \in SUBSET Positions : IsFiniteSet(s) /\ Cardinality(s) \in Nat
  BY <1>2, FS_Subset, FS_CardinalityType
<1>4. ASSUME NEW s \in SUBSET Positions, s # {}
      PROVE  /\ Pick(s) \in s /\ channel[Pick(s)] \in Sent
             /\ s \ {Pick(s)} \in SUBSET Positions
             /\ Cardinality(s \ {Pick(s)}) = Cardinality(s) - 1
  <2>1. Pick(s) \in s
    BY <1>4 DEF Pick
  <2>2. channel[Pick(s)] \in Sent
    <3>1. Pick(s) \in DOMAIN channel
      BY <2>1 DEF Positions
    <3> QED BY <3>1
  <2>3. Cardinality(s \ {Pick(s)}) = Cardinality(s) - 1
    BY <1>3, <2>1, FS_RemoveElement, Zenon
  <2> QED BY <2>1, <2>2, <2>3
<1> QED BY <1>3, <1>4

(***************************************************************************)
(* The recursion has a solution.                                           *)
(***************************************************************************)
LEMMA DrainExists ==
    ASSUME channel \in Seq(Sent)
    PROVE  \E g : g = [s \in SUBSET Positions |-> Drain(g, s)]
<1> DEFINE P(n, g) ==
       /\ g = [s \in SUBSET Positions |-> g[s]]
       /\ \A s \in SUBSET Positions : Cardinality(s) <= n => g[s] = Drain(g, s)
           N == {n \in Nat : \E g : P(n, g)}
<1>1. 0 \in N
  <2> DEFINE g == [s \in SUBSET Positions |-> heap]
  <2>1. P(0, g)
    <3> SUFFICES ASSUME NEW s \in SUBSET Positions, Cardinality(s) <= 0
                 PROVE  g[s] = Drain(g, s)
      OBVIOUS
    <3>1. s = {}
      BY PositionsFinite, FS_EmptySet
    <3> QED BY <3>1 DEF Drain
  <2> HIDE DEF g
  <2>2. \E k : P(0, k)
    BY <2>1
  <2> QED BY <2>2
<1>2. ASSUME NEW n \in Nat, n \in N PROVE n + 1 \in N
  <2>1. PICK g : P(n, g)
    BY <1>2
  <2> DEFINE h == [s \in SUBSET Positions |->
                     IF Cardinality(s) <= n THEN g[s] ELSE Drain(g, s)]
  <2>2. ASSUME NEW s \in SUBSET Positions, Cardinality(s) <= n + 1
        PROVE  h[s] = Drain(h, s)
    <3>1. h[s] = Drain(g, s)
      BY <2>1
    <3>2. s # {} => h[s \ {Pick(s)}] = g[s \ {Pick(s)}]
      <4> SUFFICES ASSUME s # {} PROVE h[s \ {Pick(s)}] = g[s \ {Pick(s)}]
        OBVIOUS
      <4> DEFINE r == s \ {Pick(s)}
      <4>1. r \in SUBSET Positions /\ Cardinality(r) = Cardinality(s) - 1
            /\ Cardinality(s) \in Nat
        BY PositionsFinite
      <4>2. Cardinality(r) <= n
        BY <2>2, <4>1
      <4> HIDE DEF r
      <4>3. h[r] = g[r]
        BY <4>1, <4>2
      <4> QED BY <4>3 DEF r
    <3> HIDE DEF h
    <3> QED BY <3>1, <3>2 DEF Drain
  <2>3. h = [s \in SUBSET Positions |-> h[s]]
    OBVIOUS
  <2> HIDE DEF h
  <2>4. \E k : P(n + 1, k)
    BY <2>2, <2>3
  <2> HIDE DEF P
  <2> QED BY <2>4
<1>3. Cardinality(Positions) \in N
  <2> HIDE DEF N
  <2>1. Nat \subseteq N
    BY <1>1, <1>2, Inductive
  <2> QED BY <2>1, PositionsFinite
<1>4. PICK g : P(Cardinality(Positions), g)
  BY <1>3
<1>5. \A s \in SUBSET Positions : g[s] = Drain(g, s)
  BY <1>4, PositionsFinite, FS_Subset
<1>6. [s \in SUBSET Positions |-> g[s]] = [s \in SUBSET Positions |-> Drain(g, s)]
  BY <1>5
<1>7. g = [s \in SUBSET Positions |-> Drain(g, s)]
  BY <1>4, <1>6, Zenon
<1> QED BY <1>7

(***************************************************************************)
(* Draining the channel forgets no entry and serves every request in it,   *)
(* however many of them are for one segment.                               *)
(***************************************************************************)
LEMMA DrainKeeps ==
    ASSUME channel \in Seq(Sent), heap \in Heaps
    PROVE  /\ Drained \in Heaps
           /\ Keeps(heap, Drained)
           /\ \A i \in DOMAIN channel :
                 /\ channel[i].seg \in Entries(Drained)
                 /\ channel[i].total <= Need(Drained[channel[i].seg])
<1> DEFINE g == CHOOSE f : f = [s \in SUBSET Positions |-> Drain(f, s)]
<1>1. Drained = g[Positions]
  BY DEF Drained, FoldSeq, FoldFunction, FoldFunctionOnSet, MapThenFoldSet,
     Drain, Pick, Positions
<1>2. g = [s \in SUBSET Positions |-> Drain(g, s)]
  BY DrainExists, Zenon
<1> HIDE DEF g
<1>3. \A s \in SUBSET Positions : g[s] = Drain(g, s)
  BY <1>2, Zenon
<1> DEFINE Good(s) ==
       /\ g[s] \in Heaps
       /\ Keeps(heap, g[s])
       /\ \A i \in s : /\ channel[i].seg \in Entries(g[s])
                       /\ channel[i].total <= Need(g[s][channel[i].seg])
           N == {n \in Nat : \A s \in SUBSET Positions :
                    Cardinality(s) <= n => Good(s)}
<1>4. \A h \in Heaps : \A o \in Entries(h) : Need(h[o]) \in Int
  <2> SUFFICES ASSUME NEW h \in Heaps, NEW o \in Entries(h)
               PROVE  Need(h[o]) \in Int
    OBVIOUS
  <2>1. h[o] \in Entry
    BY DEF Heaps, Entries
  <2> QED BY <2>1 DEF Need, Entry
<1>5. Good({})
  <2>1. g[{}] = heap
    BY <1>3 DEF Drain
  <2>2. Keeps(heap, heap)
    BY <1>4 DEF Keeps
  <2> QED BY <2>1, <2>2
<1>6. ASSUME NEW s \in SUBSET Positions, s # {}, Good(s \ {Pick(s)})
      PROVE  Good(s)
  <2> DEFINE p == Pick(s)
             h == g[s \ {p}]
             r == channel[p]
  <2>1. p \in s /\ r \in Sent
    BY <1>6, PositionsFinite
  <2>2. g[s] = AddToCache(h, r.seg, 0, r.total)
    BY <1>3, <1>6 DEF Drain
  <2>3. h \in Heaps /\ Keeps(heap, h)
    BY <1>6
  <2>4. r.seg \in Segs /\ r.total \in Nat /\ 0 \in Nat
    BY <2>1 DEF Sent
  <2> DEFINE k == AddToCache(h, r.seg, 0, r.total)
  <2>5. /\ k \in Heaps /\ Keeps(h, k)
        /\ r.seg \in Entries(k) /\ r.total - 0 <= Need(k[r.seg])
    BY <2>3, <2>4, AddKeeps
  <2>6. k = g[s]
    BY <2>2
  <2> HIDE DEF k, h
  <2>7. Keeps(heap, k)
    BY <2>3, <2>5, KeepsTrans
  <2>8. ASSUME NEW i \in s
        PROVE  channel[i].seg \in Entries(k)
               /\ channel[i].total <= Need(k[channel[i].seg])
    <3>1. CASE i = p
      <4>1. Need(k[r.seg]) \in Int
        BY <1>4, <2>5
      <4>2. r.total <= Need(k[r.seg])
        BY <2>4, <2>5, <4>1
      <4> QED BY <2>5, <3>1, <4>2
    <3>2. CASE i # p
      <4> DEFINE q == channel[i].seg
      <4>1. q \in Entries(h) /\ channel[i].total <= Need(h[q])
        BY <1>6, <3>2 DEF h
      <4>2. q \in Entries(k) /\ Need(h[q]) <= Need(k[q])
        BY <2>5, <4>1 DEF Keeps
      <4>3. channel[i].total \in Nat
        <5>1. channel[i] \in Sent
          BY DEF Positions
        <5> QED BY <5>1 DEF Sent
      <4>4. Need(h[q]) \in Int /\ Need(k[q]) \in Int
        BY <1>4, <2>3, <2>5, <4>1, <4>2
      <4> QED BY <4>1, <4>2, <4>3, <4>4
    <3> QED BY <3>1, <3>2
  <2> QED BY <2>5, <2>6, <2>7, <2>8
<1> HIDE DEF Good
<1>7. 0 \in N
  <2> SUFFICES ASSUME NEW s \in SUBSET Positions, Cardinality(s) <= 0
               PROVE  Good(s)
    OBVIOUS
  <2>1. s = {}
    BY PositionsFinite, FS_EmptySet
  <2> QED BY <1>5, <2>1
<1>8. ASSUME NEW n \in Nat, n \in N PROVE n + 1 \in N
  <2> SUFFICES ASSUME NEW s \in SUBSET Positions, Cardinality(s) <= n + 1
               PROVE  Good(s)
    OBVIOUS
  <2>1. CASE s = {}
    BY <1>5, <2>1
  <2>2. CASE s # {}
    <3>1. s \ {Pick(s)} \in SUBSET Positions
          /\ Cardinality(s \ {Pick(s)}) = Cardinality(s) - 1
          /\ Cardinality(s) \in Nat
      BY <2>2, PositionsFinite
    <3>2. Cardinality(s \ {Pick(s)}) <= n
      BY <3>1
    <3> QED BY <1>6, <1>8, <2>2, <3>1, <3>2
  <2> QED BY <2>1, <2>2
<1>9. Good(Positions)
  <2> HIDE DEF N
  <2>1. Nat \subseteq N
    BY <1>7, <1>8, Inductive
  <2>2. Cardinality(Positions) \in Nat
    BY PositionsFinite
  <2>3. Cardinality(Positions) \in N
    BY <2>1, <2>2
  <2> QED BY <2>2, <2>3 DEF N
<1> QED BY <1>1, <1>9 DEF Good, Positions

-----------------------------------------------------------------------------
(* The inductive invariant. *)

Work == [seg : Segs, future : Nat, total : Nat, count : Nat]

Types ==
    /\ count \in Counts /\ at \in Starts
    /\ channel \in Seq(Sent)
    /\ heap \in Heaps
    /\ pc \in {"idle", "recv", "playlist", "fetch", "dead"}
    /\ cur \in Work
    /\ known \in Counts \cup {0}
    /\ memory \in [Segs -> Hops \cup {NotComputed}]
    /\ asked \subseteq Segs \X Aheads
    /\ least \in Nat

\* No playlist that the task goes by is shorter than the shortest so far.
LeastSoFar ==
    /\ least <= count
    /\ known # 0 => least <= known
    /\ pc = "fetch" => known # 0 /\ least <= cur.count

\* The task waits for requests only when it has no entry left.
WaitsEmpty == pc = "recv" => Entries(heap) = {}

\* Only a movie that is remembered has computed segments, and these have been
\* downloaded.
Remembered ==
    \A j \in Segs : memory[j] # NotComputed => known # 0 /\ j \in fetched

\* An entry at segment s with that much time to cover comes to segment j.
Reaches(s, need, j) == s <= j /\ \A k \in s .. j : at[k] - at[s] < need

\* A request, an entry or the task itself will come to j.
Pending(j) ==
    \/ \E i \in DOMAIN channel : Reaches(channel[i].seg, channel[i].total, j)
    \/ \E s \in Entries(heap) : Reaches(s, Need(heap[s]), j)
    \/ pc \in {"playlist", "fetch"} /\ Reaches(cur.seg, Need(cur), j)

\* What was asked for has been downloaded, or somebody will come to it.
Promised ==
    ~lost /\ pc # "dead" =>
        \A r \in asked, j \in Segs :
            j < least /\ Reaches(r[1], r[2], j) => j \in fetched \/ Pending(j)

Shape == Types /\ LeastSoFar /\ WaitsEmpty /\ Remembered /\ AllSpan

PrefetchInv == Shape /\ Promised

(***************************************************************************)
(* Segments and times are numbers.                                         *)
(***************************************************************************)
LEMMA Numbers ==
    ASSUME Types
    PROVE  /\ MaxCount \in Nat /\ Segs = 0 .. MaxCount
           /\ at \in [Segs -> Int]
           /\ known \in Nat /\ known <= MaxCount
           /\ count \in Nat /\ count <= MaxCount
           /\ \A n \in Counts : n \in Nat /\ n <= MaxCount
BY PrefetchConstants DEF Types, Segs

(***************************************************************************)
(* Reaching is monotone in the time to cover.                              *)
(***************************************************************************)
LEMMA ReachMore ==
    ASSUME Types, NEW s \in Segs, NEW j \in Segs, NEW n \in Int, NEW m \in Int,
           n <= m, Reaches(s, n, j)
    PROVE  Reaches(s, m, j)
<1>1. \A k \in s .. j : k \in Segs
  BY Numbers
<1>2. \A k \in s .. j : at[k] \in Int /\ at[s] \in Int
  BY <1>1, Numbers
<1> QED BY <1>2 DEF Reaches

(***************************************************************************)
(* What entries need is a number.                                          *)
(***************************************************************************)
LEMMA NeedInt ==
    /\ \A h \in Heaps : \A s \in Entries(h) :
          h[s] \in Entry /\ Need(h[s]) \in Int /\ s \in Segs
    /\ \A w \in Work : Need(w) \in Int /\ w.seg \in Segs
<1>1. ASSUME NEW h \in Heaps, NEW s \in Entries(h)
      PROVE  h[s] \in Entry /\ Need(h[s]) \in Int /\ s \in Segs
  <2>1. h[s] \in Entry /\ s \in Segs
    BY DEF Heaps, Entries
  <2> QED BY <2>1 DEF Need, Entry
<1>2. ASSUME NEW w \in Work PROVE Need(w) \in Int /\ w.seg \in Segs
  BY DEF Need, Work
<1> QED BY <1>1, <1>2

(***************************************************************************)
(* The promise is kept by a step after which somebody still comes to every *)
(* segment that somebody would come to.                                    *)
(***************************************************************************)
LEMMA PromiseKept ==
    ASSUME PrefetchInv, UNCHANGED asked, UNCHANGED at, fetched \subseteq fetched',
           least' \in Nat, least' <= least, lost => lost', pc # "dead",
           \A j \in Segs : ~lost' /\ pc' # "dead" /\ j < least' /\ Pending(j) =>
               j \in fetched' \/ Pending(j)'
    PROVE  Promised'
<1> SUFFICES ASSUME ~lost', pc' # "dead",
                    NEW r \in asked, NEW j \in Segs, j < least',
                    Reaches(r[1], r[2], j)'
             PROVE  j \in fetched' \/ Pending(j)'
  BY DEF Promised
<1>1. Reaches(r[1], r[2], j)
  BY DEF Reaches
<1>2. j < least
  <2>1. j \in Int /\ least \in Int
    BY Numbers DEF PrefetchInv, Shape, Types
  <2> QED BY <2>1
<1>3. j \in fetched \/ Pending(j)
  BY <1>1, <1>2 DEF PrefetchInv, Promised
<1> QED BY <1>3

(***************************************************************************)
(* The memory and where it leads, kept by a step that forgets nothing.     *)
(***************************************************************************)
LEMMA SpansKept ==
    ASSUME UNCHANGED <<at, known>>,
           \A k \in Segs : memory[k] # NotComputed => memory'[k] # NotComputed,
           Types,
           \A j \in Segs : memory'[j] # NotComputed => Spans(memory'[j], j)
    PROVE  AllSpan'
<1> SUFFICES ASSUME NEW j \in Segs, memory'[j] # NotComputed
             PROVE  Spans(memory[j], j)'
  BY DEF AllSpan
<1> DEFINE m == memory'[j]
           e == EndOf(m, j)
<1>1. Spans(m, j)
  OBVIOUS
<1>2. /\ m \in Hops /\ (m.next # None => m.next < known)
      /\ j < e /\ e <= MaxCount
      /\ \A k \in j .. e - 1 : memory[k] # NotComputed
      /\ m.time = at[e] - at[j]
  BY <1>1 DEF Spans
<1>3. EndOf(memory[j], j)' = e
  BY DEF EndOf
<1>4. e \in Nat
  BY <1>2, Numbers DEF EndOf, Hops
<1> HIDE DEF m, e
<1>5. \A k \in j .. e - 1 : k \in Segs
  BY <1>2, <1>4, Numbers
<1>6. \A k \in j .. e - 1 : memory'[k] # NotComputed
  BY <1>2, <1>5
<1> QED BY <1>2, <1>3, <1>6 DEF Spans, m, e

-----------------------------------------------------------------------------
(* The requests, the playlist and the memory's expiry. *)

(***************************************************************************)
(* The first state.                                                        *)
(***************************************************************************)
LEMMA InitPrefetch == Init => PrefetchInv
<1> SUFFICES ASSUME Init PROVE PrefetchInv
  OBVIOUS
<1> USE DEF Init
<1>1. heap \in Heaps
  BY DEF Heaps, Entries
<1>2. cur \in Work
  BY PrefetchConstants DEF NoCur, Work, Segs
<1>3. memory \in [Segs -> Hops \cup {NotComputed}]
      /\ \A j \in Segs : memory[j] = NotComputed
  BY DEF Forgotten
<1>4. least \in Nat /\ least <= count
  BY PrefetchConstants
<1>5. Types
  BY <1>1, <1>2, <1>3, <1>4 DEF Types
<1>6. LeastSoFar /\ WaitsEmpty /\ Remembered /\ AllSpan
  BY <1>3, <1>4 DEF LeastSoFar, WaitsEmpty, Remembered, AllSpan
<1>7. Promised
  BY DEF Promised
<1> QED BY <1>5, <1>6, <1>7 DEF PrefetchInv, Shape

(***************************************************************************)
(* A request joins the channel.                                            *)
(***************************************************************************)
LEMMA StepRequest ==
    ASSUME PrefetchInv, NEW s \in Segs, NEW total \in Aheads, Request(s, total)
    PROVE  PrefetchInv'
<1> USE DEF Request, task, memo, history
<1>a. Types /\ LeastSoFar /\ WaitsEmpty /\ Remembered /\ AllSpan /\ Promised
  BY DEF PrefetchInv, Shape
<1> DEFINE r == [seg |-> s, total |-> total]
<1>1. r \in Sent
  BY PrefetchConstants DEF Sent
<1>2. channel' \in Seq(Sent)
  BY <1>a, <1>1 DEF Types
<1>3. Types'
  BY <1>a, <1>2 DEF Types
<1>4. (LeastSoFar /\ WaitsEmpty /\ Remembered /\ AllSpan)'
  BY <1>a DEF LeastSoFar, WaitsEmpty, Remembered, AllSpan, Spans, EndOf
<1>5. Promised'
  <2> SUFFICES ASSUME ~lost, pc # "dead", NEW q \in asked', NEW j \in Segs,
                      j < least, Reaches(q[1], q[2], j)'
               PROVE  j \in fetched \/ Pending(j)'
    BY DEF Promised
  <2>1. channel' = Append(channel, r) /\ channel \in Seq(Sent)
    BY <1>a DEF Types
  <2>2. \A i \in DOMAIN channel : i \in DOMAIN channel' /\ channel'[i] = channel[i]
    BY <2>1
  <2>3. Reaches(q[1], q[2], j)
    BY DEF Reaches
  <2>4. CASE q \in asked
    <3>1. j \in fetched \/ Pending(j)
      BY <1>a, <2>3, <2>4 DEF Promised
    <3>2. Pending(j) => Pending(j)'
      BY <2>2 DEF Pending, Reaches, Entries
    <3> QED BY <3>1, <3>2
  <2>5. CASE q = <<s, total>>
    <3>1. Len(channel) + 1 \in DOMAIN channel'
          /\ channel'[Len(channel) + 1] = r
      BY <2>1
    <3>2. r.seg = q[1] /\ r.total = q[2]
      BY <2>5
    <3>3. Reaches(r.seg, r.total, j)'
      BY <2>3, <3>2 DEF Reaches
    <3> HIDE DEF r
    <3> QED BY <3>1, <3>3 DEF Pending, Reaches
  <2> QED BY <2>4, <2>5
<1> QED BY <1>3, <1>4, <1>5 DEF PrefetchInv, Shape

(***************************************************************************)
(* The playlist gets longer or shorter.                                    *)
(***************************************************************************)
LEMMA StepNewPlaylist ==
    ASSUME PrefetchInv, NewPlaylist
    PROVE  PrefetchInv'
<1> USE DEF NewPlaylist, task, memo
<1>a. Types /\ LeastSoFar /\ WaitsEmpty /\ Remembered /\ AllSpan /\ Promised
  BY DEF PrefetchInv, Shape
<1>1. count' \in Nat /\ least' \in Nat /\ least' <= least /\ least' <= count'
  BY <1>a, Numbers DEF Types
<1>2. Types'
  BY <1>a, <1>1 DEF Types
<1>3. LeastSoFar'
  <2>1. known \in Nat /\ cur.count \in Nat /\ least \in Nat
    BY <1>a, Numbers DEF Types, Work
  <2> QED BY <1>a, <1>1, <2>1 DEF LeastSoFar
<1>4. (WaitsEmpty /\ Remembered /\ AllSpan)'
  BY <1>a DEF WaitsEmpty, Remembered, AllSpan, Spans, EndOf, Entries
<1>5. Promised'
  <2>1. CASE pc = "dead"
    BY <2>1 DEF Promised
  <2>2. CASE pc # "dead"
    <3>1. \A j \in Segs : Pending(j) => Pending(j)'
      BY DEF Pending, Reaches, Entries
    <3> QED BY <1>1, <2>2, <3>1, PromiseKept
  <2> QED BY <2>1, <2>2
<1> QED BY <1>2, <1>3, <1>4, <1>5 DEF PrefetchInv, Shape

(***************************************************************************)
(* The movie is forgotten.                                                 *)
(***************************************************************************)
LEMMA StepExpire ==
    ASSUME PrefetchInv, Expire
    PROVE  PrefetchInv'
<1> USE DEF Expire, task
<1>a. Types /\ LeastSoFar /\ WaitsEmpty /\ Remembered /\ AllSpan /\ Promised
  BY DEF PrefetchInv, Shape
<1>1. memory' \in [Segs -> Hops \cup {NotComputed}]
      /\ \A j \in Segs : memory'[j] = NotComputed
  BY DEF Forgotten
<1>2. Types'
  BY <1>a, <1>1 DEF Types
<1>3. (LeastSoFar /\ WaitsEmpty)'
  BY <1>a DEF LeastSoFar, WaitsEmpty, Entries
<1>4. Remembered' /\ AllSpan'
  BY <1>1 DEF Remembered, AllSpan
<1>5. Promised'
  <2>1. \A j \in Segs : Pending(j) => Pending(j)'
    BY DEF Pending, Reaches, Entries
  <2>2. least \in Nat /\ least <= least
    BY <1>a DEF Types
  <2> QED BY <2>1, <2>2, PromiseKept
<1> QED BY <1>2, <1>3, <1>4, <1>5 DEF PrefetchInv, Shape

-----------------------------------------------------------------------------
(* The task takes an entry. *)

(***************************************************************************)
(* An entry leaves the heap.                                               *)
(***************************************************************************)
LEMMA Popped ==
    ASSUME NEW h \in Heaps, NEW s \in Entries(h)
    PROVE  /\ [h EXCEPT ![s] = NoEntry] \in Heaps
           /\ \A o \in Entries(h) \ {s} :
                 /\ o \in Entries([h EXCEPT ![s] = NoEntry])
                 /\ [h EXCEPT ![s] = NoEntry][o] = h[o]
<1> DEFINE g == [h EXCEPT ![s] = NoEntry]
<1>1. h \in [Segs -> Entry \cup {NoEntry}] /\ \A o \in Entries(h) : Ahead(h[o])
  BY DEF Heaps
<1>2. g \in [Segs -> Entry \cup {NoEntry}]
      /\ \A o \in Segs : g[o] = IF o = s THEN NoEntry ELSE h[o]
  BY <1>1 DEF Entries
<1> HIDE DEF g
<1>3. \A o \in Segs : o \in Entries(g) <=> o \in Entries(h) /\ o # s
  BY <1>2 DEF Entries
<1>4. \A o \in Entries(g) : o \in Segs /\ g[o] = h[o] /\ o \in Entries(h)
  BY <1>2, <1>3 DEF Entries
<1>5. g \in Heaps
  BY <1>1, <1>2, <1>4 DEF Heaps
<1>6. \A o \in Entries(h) \ {s} : o \in Entries(g) /\ g[o] = h[o]
  BY <1>2, <1>3 DEF Entries
<1> QED BY <1>5, <1>6 DEF g

LEMMA StepPop ==
    ASSUME PrefetchInv, Pop
    PROVE  PrefetchInv'
<1> USE DEF memo, history
<1>a. Types /\ LeastSoFar /\ WaitsEmpty /\ Remembered /\ AllSpan /\ Promised
  BY DEF PrefetchInv, Shape
<1>b. channel \in Seq(Sent) /\ heap \in Heaps
  BY <1>a DEF Types
<1>1. PICK s \in Entries(Drained) :
         Take(s, Drained[s], [Drained EXCEPT ![s] = NoEntry])
  BY DEF Pop
<1> DEFINE h == Drained
           e == h[s]
<1>2. /\ h \in Heaps /\ Keeps(heap, h)
      /\ \A i \in DOMAIN channel : /\ channel[i].seg \in Entries(h)
                                   /\ channel[i].total <= Need(h[channel[i].seg])
  BY <1>b, DrainKeeps
<1>3. /\ heap' = [h EXCEPT ![s] = NoEntry] /\ pc' = "playlist"
      /\ cur' = [seg |-> s, future |-> e.future, total |-> e.total, count |-> 0]
  BY <1>1 DEF Take
<1>4. /\ pc = "idle" /\ channel' = <<>>
      /\ UNCHANGED <<count, at, known, memory, asked, least, fetched, lost>>
  BY DEF Pop
<1>5. s \in Entries(h)
  OBVIOUS
<1> HIDE DEF h, e
<1>6. e \in Entry /\ s \in Segs
  BY <1>2, <1>5, NeedInt DEF e
<1>7. cur' \in Work /\ cur'.seg = s /\ Need(cur)' = Need(h[s])
  BY <1>3, <1>6 DEF Work, Entry, Need, e
<1>8. heap' \in Heaps
      /\ \A o \in Entries(h) \ {s} : o \in Entries(heap') /\ heap'[o] = h[o]
  BY <1>2, <1>3, <1>5, Popped
<1>9. Types'
  BY <1>a, <1>3, <1>4, <1>7, <1>8 DEF Types
<1>10. (LeastSoFar /\ WaitsEmpty /\ Remembered /\ AllSpan)'
  BY <1>a, <1>3, <1>4 DEF LeastSoFar, WaitsEmpty, Remembered, AllSpan, Spans,
     EndOf
<1>11. ASSUME NEW j \in Segs, Pending(j) PROVE Pending(j)'
  <2>1. \E o \in Entries(h) : Reaches(o, Need(h[o]), j)
    <3>1. CASE \E i \in DOMAIN channel :
                  Reaches(channel[i].seg, channel[i].total, j)
      <4>1. PICK i \in DOMAIN channel :
               Reaches(channel[i].seg, channel[i].total, j)
        BY <3>1
      <4>2. channel[i] \in Sent
        BY <1>b
      <4>3. channel[i].seg \in Segs /\ channel[i].total \in Int
        BY <4>2 DEF Sent
      <4>4. channel[i].seg \in Entries(h)
            /\ channel[i].total <= Need(h[channel[i].seg])
            /\ Need(h[channel[i].seg]) \in Int
        BY <1>2, NeedInt
      <4> QED BY <1>a, <4>1, <4>3, <4>4, ReachMore
    <3>2. CASE \E o \in Entries(heap) : Reaches(o, Need(heap[o]), j)
      <4>1. PICK o \in Entries(heap) : Reaches(o, Need(heap[o]), j)
        BY <3>2
      <4>2. o \in Segs /\ Need(heap[o]) \in Int
        BY <1>b, NeedInt
      <4>3. o \in Entries(h) /\ Need(heap[o]) <= Need(h[o])
            /\ Need(h[o]) \in Int
        BY <1>2, NeedInt DEF Keeps
      <4> QED BY <1>a, <4>1, <4>2, <4>3, ReachMore
    <3> QED BY <1>4, <1>11, <3>1, <3>2 DEF Pending
  <2>2. PICK o \in Entries(h) : Reaches(o, Need(h[o]), j)
    BY <2>1
  <2>3. CASE o = s
    <3>1. Reaches(cur'.seg, Need(cur)', j)
      BY <1>7, <2>2, <2>3
    <3>2. Reaches(cur.seg, Need(cur), j)'
      BY <1>4, <3>1 DEF Reaches
    <3> QED BY <1>3, <3>2 DEF Pending
  <2>4. CASE o # s
    <3>1. o \in Entries(heap') /\ heap'[o] = h[o]
      BY <1>8, <2>4
    <3>2. Reaches(o, Need(heap[o]), j)'
      BY <1>4, <2>2, <3>1 DEF Reaches, Need
    <3> QED BY <3>1, <3>2 DEF Pending, Entries
  <2> QED BY <2>3, <2>4
<1>12. Promised'
  <2>1. least \in Nat /\ least <= least
    BY <1>a DEF Types
  <2> QED BY <1>4, <1>11, <2>1, PromiseKept
<1> QED BY <1>9, <1>10, <1>12 DEF PrefetchInv, Shape

(***************************************************************************)
(* There is nothing to do but to wait.                                     *)
(***************************************************************************)
LEMMA StepWait ==
    ASSUME PrefetchInv, Wait
    PROVE  PrefetchInv'
<1> USE DEF memo, history, Wait
<1>a. Types /\ LeastSoFar /\ WaitsEmpty /\ Remembered /\ AllSpan /\ Promised
  BY DEF PrefetchInv, Shape
<1>1. Types'
  BY <1>a DEF Types
<1>2. (LeastSoFar /\ WaitsEmpty /\ Remembered /\ AllSpan)'
  BY <1>a DEF LeastSoFar, WaitsEmpty, Remembered, AllSpan, Spans, EndOf, Entries
<1>3. Promised'
  <2>1. \A j \in Segs : Pending(j) => Pending(j)'
    BY DEF Pending, Reaches, Entries
  <2>2. least \in Nat /\ least <= least
    BY <1>a DEF Types
  <2> QED BY <2>1, <2>2, PromiseKept
<1> QED BY <1>1, <1>2, <1>3 DEF PrefetchInv, Shape

(***************************************************************************)
(* A request ends the wait.                                                *)
(***************************************************************************)
LEMMA StepRecv ==
    ASSUME PrefetchInv, Recv
    PROVE  PrefetchInv'
<1> USE DEF memo, history, Recv, Take
<1>a. Types /\ LeastSoFar /\ WaitsEmpty /\ Remembered /\ AllSpan /\ Promised
  BY DEF PrefetchInv, Shape
<1> DEFINE r == Head(channel)
<1>1. channel \in Seq(Sent) /\ channel # <<>>
  BY <1>a DEF Types
<1>2. r \in Sent /\ Tail(channel) \in Seq(Sent)
  BY <1>1
<1>3. cur' \in Work /\ cur'.seg = r.seg /\ Need(cur)' = r.total
  <2>1. r.seg \in Segs /\ r.total \in Nat
    BY <1>2 DEF Sent
  <2>2. cur' = [seg |-> r.seg, future |-> 0, total |-> r.total, count |-> 0]
    OBVIOUS
  <2> HIDE DEF r
  <2> QED BY <2>1, <2>2 DEF Work, Need
<1>4. Types'
  BY <1>a, <1>2, <1>3 DEF Types
<1>5. (LeastSoFar /\ WaitsEmpty /\ Remembered /\ AllSpan)'
  BY <1>a DEF LeastSoFar, WaitsEmpty, Remembered, AllSpan, Spans, EndOf, Entries
<1>6. ASSUME NEW j \in Segs, Pending(j) PROVE Pending(j)'
  <2>1. PICK i \in DOMAIN channel : Reaches(channel[i].seg, channel[i].total, j)
    BY <1>a, <1>6 DEF Pending, WaitsEmpty
  <2>2. CASE i = 1
    <3>1. Reaches(cur'.seg, Need(cur)', j)
      BY <1>1, <1>3, <2>1, <2>2
    <3>2. Reaches(cur.seg, Need(cur), j)'
      BY <3>1 DEF Reaches
    <3> QED BY <3>2 DEF Pending
  <2>3. CASE i # 1
    <3>1. i - 1 \in DOMAIN channel' /\ channel'[i - 1] = channel[i]
      BY <1>1, <2>3
    <3> QED BY <2>1, <3>1 DEF Pending, Reaches
  <2> QED BY <2>2, <2>3
<1>7. Promised'
  <2>1. least \in Nat /\ least <= least
    BY <1>a DEF Types
  <2> QED BY <1>6, <2>1, PromiseKept
<1> QED BY <1>4, <1>5, <1>7 DEF PrefetchInv, Shape

-----------------------------------------------------------------------------
(* The task works on its entry. *)

(***************************************************************************)
(* A step of the task keeps the promise when what its own entry would come *)
(* to is downloaded or still has somebody to come to it.                   *)
(***************************************************************************)
LEMMA WorkPromise ==
    ASSUME PrefetchInv, pc # "dead", UNCHANGED <<at, asked, channel, least>>,
           fetched \subseteq fetched', lost => lost',
           heap' \in Heaps, Keeps(heap, heap'),
           \A j \in Segs :
               ~lost' /\ pc' # "dead" /\ j < least /\ Reaches(cur.seg, Need(cur), j)
                  => j \in fetched' \/ Pending(j)'
    PROVE  Promised'
<1>a. Types
  BY DEF PrefetchInv, Shape
<1>1. ASSUME NEW j \in Segs, Pending(j), ~lost', pc' # "dead", j < least
      PROVE  j \in fetched' \/ Pending(j)'
  <2>1. CASE \E i \in DOMAIN channel : Reaches(channel[i].seg, channel[i].total, j)
    BY <2>1 DEF Pending, Reaches
  <2>2. CASE \E s \in Entries(heap) : Reaches(s, Need(heap[s]), j)
    <3>1. PICK s \in Entries(heap) : Reaches(s, Need(heap[s]), j)
      BY <2>2
    <3>2. s \in Segs /\ Need(heap[s]) \in Int
      BY <1>a, NeedInt DEF Types
    <3>3. s \in Entries(heap') /\ Need(heap[s]) <= Need(heap'[s])
          /\ Need(heap'[s]) \in Int
      BY NeedInt DEF Keeps
    <3>4. Reaches(s, Need(heap'[s]), j)
      BY <1>a, <3>1, <3>2, <3>3, ReachMore
    <3>5. Reaches(s, Need(heap[s]), j)'
      BY <3>4 DEF Reaches, Need
    <3> QED BY <3>3, <3>5 DEF Pending, Entries
  <2>3. CASE Reaches(cur.seg, Need(cur), j)
    BY <1>1, <2>3
  <2> QED BY <1>1, <2>1, <2>2, <2>3 DEF Pending
<1>2. least' \in Nat /\ least' <= least
  BY <1>a DEF Types
<1> QED BY <1>1, <1>2, PromiseKept

(***************************************************************************)
(* Going on without the entry.                                             *)
(***************************************************************************)
LEMMA ContinueKeeps ==
    ASSUME Types, Continue
    PROVE  heap' \in Heaps /\ Keeps(heap, heap') /\ cur' \in Work /\ pc' = "idle"
<1>1. heap \in Heaps /\ heap' = heap /\ pc' = "idle" /\ cur' = NoCur
  BY DEF Types, Continue
<1>2. Keeps(heap, heap)
  BY <1>1, NeedInt DEF Keeps
<1>3. NoCur \in Work
  BY PrefetchConstants DEF NoCur, Work, Segs
<1> QED BY <1>1, <1>2, <1>3

(***************************************************************************)
(* Putting the entry back further on.                                      *)
(***************************************************************************)
LEMMA ContinueWithKeeps ==
    ASSUME Types, NEW s \in Segs, NEW future \in Nat, future < cur.total,
           ContinueWith(s, future), UNCHANGED at
    PROVE  /\ heap' \in Heaps /\ Keeps(heap, heap') /\ cur' \in Work
           /\ pc' = "idle"
           /\ \A j \in Segs : Reaches(s, cur.total - future, j) => Pending(j)'
<1>1. /\ heap \in Heaps /\ heap' = AddToCache(heap, s, future, cur.total)
      /\ cur' = NoCur /\ pc' = "idle" /\ cur.total \in Nat
  BY DEF Types, ContinueWith, Work
<1>2. /\ heap' \in Heaps /\ Keeps(heap, heap')
      /\ s \in Entries(heap') /\ cur.total - future <= Need(heap'[s])
  BY <1>1, AddKeeps
<1>3. NoCur \in Work
  BY PrefetchConstants DEF NoCur, Work, Segs
<1>4. ASSUME NEW j \in Segs, Reaches(s, cur.total - future, j) PROVE Pending(j)'
  <2>1. cur.total - future \in Int /\ Need(heap'[s]) \in Int
    BY <1>1, <1>2, NeedInt
  <2>2. Reaches(s, Need(heap'[s]), j)
    BY <1>2, <1>4, <2>1, ReachMore
  <2>3. Reaches(s, Need(heap[s]), j)'
    BY <2>2 DEF Reaches, Need
  <2> QED BY <1>2, <2>3 DEF Pending, Entries
<1> QED BY <1>1, <1>2, <1>3, <1>4

(***************************************************************************)
(* What get_next_to_compute says of a segment: where the computed segments *)
(* that follow it end, and after how much time.                            *)
(***************************************************************************)
LEMMA NextSkips ==
    ASSUME Shape, NEW c \in Segs
    PROVE  LET n == NextToCompute(c)
           IN  /\ n.time \in Nat
               /\ n.next # None =>
                     /\ n.next \in Segs /\ c <= n.next
                     /\ n.time = at[n.next] - at[c]
                     /\ \A k \in c .. n.next - 1 : k \in fetched
               /\ n.next = None =>
                     \A k \in c .. least - 1 : k \in fetched
<1>a. Types /\ LeastSoFar /\ Remembered /\ AllSpan
  BY DEF Shape
<1>b. c \in Nat /\ at[c] \in Int
  BY <1>a, Numbers
<1> DEFINE n == NextToCompute(c)
<1>1. CASE memory[c] = NotComputed
  <2>1. n.next = c /\ n.time = 0
    BY <1>1 DEF NextToCompute
  <2>2. c # None
    BY <1>b DEF None
  <2> HIDE DEF n
  <2>3. at[c] - at[c] = 0 /\ \A k \in c .. c - 1 : FALSE
    BY <1>b
  <2> QED BY <1>b, <2>1, <2>2, <2>3 DEF n
<1>2. CASE memory[c] # NotComputed
  <2>1. n = Chain[c] /\ Spans(n, c)
    BY <1>a, <1>2, ChainSpans, Numbers DEF NextToCompute
  <2> HIDE DEF n
  <2>2. n \in Hops /\ n.time \in Nat
    BY <2>1 DEF Spans, Hops
  <2>3. \A k \in c .. EndOf(n, c) - 1 : k \in Segs
    <3>1. EndOf(n, c) \in Nat /\ EndOf(n, c) <= MaxCount
      BY <1>a, <1>b, <2>1, <2>2, Numbers DEF Spans, EndOf, Hops
    <3> QED BY <1>a, <1>b, <3>1, Numbers
  <2>4. \A k \in c .. EndOf(n, c) - 1 : k \in fetched
    BY <1>a, <2>1, <2>3 DEF Spans, Remembered
  <2>5. CASE n.next # None
    <3>1. EndOf(n, c) = n.next /\ n.next \in Segs /\ c < n.next
          /\ n.time = at[n.next] - at[c]
      BY <2>1, <2>2, <2>5 DEF Spans, EndOf, Hops
    <3>2. n.next \in Nat
      BY <1>a, <3>1, Numbers
    <3> QED BY <1>b, <2>2, <2>4, <2>5, <3>1, <3>2 DEF n
  <2>6. CASE n.next = None
    <3>1. known # 0
      BY <1>a, <1>2 DEF Remembered
    <3>2. least <= known /\ known \in Nat /\ least \in Nat
      BY <1>a, <3>1, Numbers DEF LeastSoFar, Types
    <3>3. \A k \in c .. least - 1 : k \in c .. EndOf(n, c) - 1
      BY <1>b, <2>6, <3>2 DEF EndOf
    <3> QED BY <2>2, <2>4, <2>6, <3>3 DEF n
  <2> QED BY <2>5, <2>6
<1> QED BY <1>1, <1>2

(***************************************************************************)
(* So an entry that skips them still comes to all it would have come to.   *)
(***************************************************************************)
LEMMA SkipReaches ==
    ASSUME Shape, NEW j \in Segs, j < least, Reaches(cur.seg, Need(cur), j),
           j \notin fetched
    PROVE  LET n == NextToCompute(cur.seg)
           IN  /\ n.next # None
               /\ cur.future + n.time < cur.total
               /\ Reaches(n.next, cur.total - (cur.future + n.time), j)
<1> DEFINE c == cur.seg
           n == NextToCompute(c)
           e == n.next
<1>a. Types
  BY DEF Shape
<1>b. /\ c \in Segs /\ c \in Nat /\ j \in Nat /\ least \in Nat
      /\ cur.future \in Nat /\ cur.total \in Nat
  BY <1>a, Numbers DEF Types, Work
<1>1. c <= j /\ \A k \in c .. j : at[k] - at[c] < cur.total - cur.future
  BY DEF Reaches, Need
<1>2. /\ n.time \in Nat
      /\ e # None =>
            /\ e \in Segs /\ c <= e /\ n.time = at[e] - at[c]
            /\ \A k \in c .. e - 1 : k \in fetched
      /\ e = None => \A k \in c .. least - 1 : k \in fetched
  BY <1>b, NextSkips
<1> HIDE DEF c, n
<1>3. e # None
  <2>1. j \in c .. least - 1
    BY <1>b, <1>1
  <2> QED BY <1>2, <2>1
<1>4. e \in Nat
  BY <1>a, <1>2, <1>3, Numbers
<1> DEFINE t == n.time
<1>c. t \in Nat
  BY <1>2
<1>d. c <= e /\ t = at[e] - at[c] /\ \A k \in c .. e - 1 : k \in fetched
  BY <1>2, <1>3
<1>e. e \in Segs
  BY <1>2, <1>3
<1> HIDE DEF e, t
<1>5. e <= j
  <2>1. ~(j \in c .. e - 1)
    BY <1>d
  <2> QED BY <1>b, <1>1, <1>4, <2>1
<1>6. t < cur.total - cur.future
  <2>1. e \in c .. j
    BY <1>b, <1>4, <1>5, <1>d
  <2> QED BY <1>1, <1>d, <2>1
<1>7. cur.future + t < cur.total
  BY <1>6, <1>b, <1>c
<1>8. ASSUME NEW k \in e .. j
      PROVE  at[k] - at[e] < cur.total - (cur.future + t)
  <2>1. k \in c .. j /\ k \in Segs
    BY <1>a, <1>b, <1>4, <1>d, Numbers
  <2>2. at[k] - at[c] < cur.total - cur.future
    BY <1>1, <2>1
  <2>3. at[k] \in Int /\ at[c] \in Int /\ at[e] \in Int
    BY <1>a, <1>b, <1>e, <2>1, Numbers
  <2> QED BY <1>b, <1>c, <1>d, <2>2, <2>3
<1>9. Reaches(e, cur.total - (cur.future + t), j)
  BY <1>5, <1>8 DEF Reaches
<1> QED BY <1>3, <1>7, <1>9 DEF c, n, e, t

(***************************************************************************)
(* Compressing a chain forgets no segment, and what is remembered stays    *)
(* true.                                                                   *)
(***************************************************************************)
LEMMA CompressedSpans ==
    ASSUME Shape, NEW c \in Segs
    PROVE  /\ Compressed(c) \in [Segs -> Hops \cup {NotComputed}]
           /\ \A k \in Segs :
                 IF memory[k] = NotComputed
                 THEN Compressed(c)[k] = NotComputed
                 ELSE /\ Compressed(c)[k] # NotComputed
                      /\ Spans(Compressed(c)[k], k)
<1>a. Types /\ AllSpan /\ at \in [Segs -> Int] /\ known \in Nat
  BY Numbers DEF Shape
<1>1. ASSUME NEW k \in Segs
      PROVE  IF memory[k] = NotComputed
             THEN Compressed(c)[k] = NotComputed
             ELSE Spans(Compressed(c)[k], k)
  <2>1. Compressed(c)[k] = Chain[k] \/ Compressed(c)[k] = memory[k]
    BY DEF Compressed
  <2>2. IF memory[k] = NotComputed THEN Chain[k] = NotComputed
                                   ELSE Spans(Chain[k], k)
    BY <1>a, ChainSpans
  <2>3. memory[k] # NotComputed => Spans(memory[k], k)
    BY <1>a DEF AllSpan
  <2> QED BY <2>1, <2>2, <2>3
<1>2. \A k \in Segs : Spans(Compressed(c)[k], k) =>
         Compressed(c)[k] \in Hops /\ Compressed(c)[k] # NotComputed
  BY HopsComputed DEF Spans
<1>3. \A k \in Segs : Compressed(c)[k] \in Hops \cup {NotComputed}
  BY <1>1, <1>2
<1>4. Compressed(c) = [k \in Segs |-> Compressed(c)[k]]
  BY DEF Compressed
<1>5. [k \in Segs |-> Compressed(c)[k]] \in [Segs -> Hops \cup {NotComputed}]
  BY <1>3
<1> QED BY <1>1, <1>2, <1>4, <1>5

(***************************************************************************)
(* The entry is compared with the playlist.                                *)
(***************************************************************************)
LEMMA StepPlaylist ==
    ASSUME PrefetchInv, Playlist
    PROVE  PrefetchInv'
<1> USE DEF memo, history
<1>a. /\ Shape /\ Types /\ LeastSoFar /\ WaitsEmpty /\ Remembered /\ AllSpan
      /\ Promised
  BY DEF PrefetchInv, Shape
<1> DEFINE c == cur.seg
<1>b. /\ c \in Segs /\ c \in Nat /\ cur \in Work /\ cur.total \in Nat
      /\ cur.future \in Nat
      /\ count \in Nat /\ least \in Nat /\ least <= count
      /\ known \in Nat /\ heap \in Heaps
  BY <1>a, Numbers DEF Types, Work, LeastSoFar
<1>c. /\ UNCHANGED <<count, at, channel, asked, least, fetched, lost>>
      /\ pc = "playlist"
  BY DEF Playlist
<1>1. CASE cur.seg >= count /\ Continue /\ UNCHANGED memo
  <2>1. heap' \in Heaps /\ Keeps(heap, heap') /\ cur' \in Work /\ pc' = "idle"
    BY <1>a, <1>1, ContinueKeeps
  <2>2. Types'
    BY <1>a, <1>c, <1>1, <2>1 DEF Types
  <2>3. (LeastSoFar /\ WaitsEmpty /\ Remembered /\ AllSpan)'
    BY <1>a, <1>c, <1>1, <2>1 DEF LeastSoFar, WaitsEmpty, Remembered, AllSpan,
       Spans, EndOf
  <2>4. \A j \in Segs : ~(j < least /\ Reaches(c, Need(cur), j))
    <3> SUFFICES ASSUME NEW j \in Segs, j < least, c <= j PROVE FALSE
      BY DEF Reaches
    <3>1. j \in Nat
      BY <1>a, Numbers
    <3> QED BY <1>b, <1>1, <3>1
  <2>5. Promised'
    BY <1>c, <2>1, <2>4, WorkPromise
  <2> QED BY <2>2, <2>3, <2>5 DEF PrefetchInv, Shape
<1>2. CASE ~(cur.seg >= count /\ Continue /\ UNCHANGED memo)
  <2> DEFINE n == NextToCompute(c)
             future == cur.future + n.time
  <2>1. /\ known' = IF known = 0 THEN count ELSE known
        /\ memory' = Compressed(c)
        /\ \/ n.next = None /\ Continue
           \/ n.next # None /\ future >= cur.total /\ Continue
           \/ n.next # None /\ future < cur.total /\ Skips(n)
              /\ ContinueWith(n.next, future)
           \/ n.next # None /\ future < cur.total /\ ~Skips(n)
              /\ pc' = "fetch"
              /\ cur' = [cur EXCEPT !.seg = n.next, !.count = count]
              /\ heap' = heap
    BY <1>2, Zenon DEF Playlist
  <2>2. /\ n.time \in Nat
        /\ n.next # None => n.next \in Segs
    BY <1>a, <1>b, NextSkips
  <2>3. \A j \in Segs :
           j < least /\ Reaches(c, Need(cur), j) /\ j \notin fetched =>
              /\ n.next # None /\ future < cur.total
              /\ Reaches(n.next, cur.total - future, j)
    BY <1>a, SkipReaches
  <2>4. /\ memory' \in [Segs -> Hops \cup {NotComputed}]
        /\ \A k \in Segs : IF memory[k] = NotComputed
                           THEN memory'[k] = NotComputed
                           ELSE memory'[k] # NotComputed /\ Spans(memory'[k], k)
    BY <1>a, <1>b, <2>1, CompressedSpans
  <2>5. known' \in Counts \cup {0} /\ known' # 0 /\ least <= known'
    <3>1. count \in Counts /\ count # 0
      BY <1>a, PrefetchConstants DEF Types
    <3> QED BY <1>a, <1>b, <2>1, <3>1 DEF Types, LeastSoFar
  <2>6. Remembered'
    BY <1>a, <1>c, <2>4, <2>5 DEF Remembered
  <2>7. AllSpan'
    <3>1. CASE known = 0
      BY <1>a, <2>4, <3>1 DEF Remembered, AllSpan
    <3>2. CASE known # 0
      BY <1>a, <1>c, <2>1, <2>4, <3>2, SpansKept
    <3> QED BY <3>1, <3>2
  <2> HIDE DEF n
  <2>b. future \in Nat
    BY <1>b, <2>2
  <2> HIDE DEF future
  <2>8. /\ heap' \in Heaps /\ Keeps(heap, heap') /\ cur' \in Work
        /\ pc' \in {"idle", "fetch"}
        /\ pc' = "fetch" => cur'.count = count
        /\ \A j \in Segs :
              j < least /\ Reaches(c, Need(cur), j) /\ j \notin fetched =>
                 Pending(j)'
    <3>1. CASE Continue /\ (n.next = None \/ future >= cur.total)
      <4>1. heap' \in Heaps /\ Keeps(heap, heap') /\ cur' \in Work /\ pc' = "idle"
        BY <1>a, <3>1, ContinueKeeps
      <4>2. ~(future < cur.total) \/ n.next = None
        BY <1>b, <2>b, <3>1
      <4> QED BY <2>3, <4>1, <4>2
    <3>2. CASE n.next # None /\ future < cur.total /\ ContinueWith(n.next, future)
      <4>1. /\ heap' \in Heaps /\ Keeps(heap, heap') /\ cur' \in Work
            /\ pc' = "idle"
            /\ \A j \in Segs : Reaches(n.next, cur.total - future, j) => Pending(j)'
        BY <1>a, <1>c, <2>2, <2>b, <3>2, ContinueWithKeeps
      <4> QED BY <2>3, <4>1
    <3>3. CASE /\ n.next # None /\ ~Skips(n) /\ pc' = "fetch" /\ heap' = heap
               /\ cur' = [cur EXCEPT !.seg = n.next, !.count = count]
      <4>1. cur' \in Work /\ cur'.seg = n.next /\ cur'.count = count
            /\ cur'.total = cur.total /\ cur'.future = cur.future
        BY <1>b, <2>2, <3>3 DEF Work
      <4>2. future = cur.future
        <5>1. n.time = 0
          BY <2>2, <3>3 DEF Skips
        <5> QED BY <1>b, <5>1 DEF future
      <4>3. Need(cur)' = cur.total - future
        BY <4>1, <4>2 DEF Need
      <4>4. \A j \in Segs : Reaches(n.next, cur.total - future, j) =>
               Reaches(cur.seg, Need(cur), j)'
        BY <1>c, <4>1, <4>3 DEF Reaches
      <4>5. Keeps(heap, heap')
        BY <1>b, <3>3, NeedInt DEF Keeps
      <4> QED BY <1>b, <2>3, <3>3, <4>1, <4>4, <4>5 DEF Pending
    <3> QED BY <2>1, <3>1, <3>2, <3>3
  <2>9. Types'
    BY <1>a, <1>c, <2>4, <2>5, <2>8 DEF Types
  <2>10. (LeastSoFar /\ WaitsEmpty)'
    BY <1>b, <1>c, <2>5, <2>8 DEF LeastSoFar, WaitsEmpty
  <2>11. Promised'
    BY <1>c, <2>8, WorkPromise
  <2> QED BY <2>6, <2>7, <2>9, <2>10, <2>11 DEF PrefetchInv, Shape
<1> QED BY <1>1, <1>2

(***************************************************************************)
(* A step of the task fails.                                               *)
(***************************************************************************)
LEMMA StepFail ==
    ASSUME PrefetchInv, Fail
    PROVE  PrefetchInv'
<1> USE DEF memo, history, Fail
<1>a. Types /\ LeastSoFar /\ WaitsEmpty /\ Remembered /\ AllSpan /\ Promised
  BY DEF PrefetchInv, Shape
<1>1. heap' \in Heaps /\ Keeps(heap, heap') /\ cur' \in Work /\ pc' = "idle"
  BY <1>a, ContinueKeeps
<1>2. UNCHANGED <<count, at, channel, memo, asked, least, fetched>>
  OBVIOUS
<1>3. Types'
  BY <1>a, <1>1, <1>2 DEF Types
<1>4. (LeastSoFar /\ WaitsEmpty /\ Remembered /\ AllSpan)'
  BY <1>a, <1>1, <1>2 DEF LeastSoFar, WaitsEmpty, Remembered, AllSpan, Spans,
     EndOf
<1>5. Promised'
  <2>1. CASE lost'
    BY <2>1 DEF Promised
  <2>2. CASE ~lost'
    <3>1. pc = "fetch" /\ cur.seg >= count /\ lost' = lost
      BY <2>2
    <3>2. \A j \in Segs : ~(j < least /\ Reaches(cur.seg, Need(cur), j))
      <4> SUFFICES ASSUME NEW j \in Segs, j < least, cur.seg <= j PROVE FALSE
        BY DEF Reaches
      <4>1. j \in Nat /\ cur.seg \in Nat /\ count \in Nat /\ least \in Nat
            /\ least <= count
        BY <1>a, Numbers DEF Types, Work, LeastSoFar
      <4> QED BY <3>1, <4>1
    <3> QED BY <1>1, <1>2, <3>1, <3>2, WorkPromise
  <2> QED BY <2>1, <2>2
<1> QED BY <1>3, <1>4, <1>5 DEF PrefetchInv, Shape

(***************************************************************************)
(* A segment is downloaded.                                                *)
(***************************************************************************)
LEMMA StepFetch ==
    ASSUME PrefetchInv, Fetch
    PROVE  PrefetchInv'
<1> USE DEF memo, history
<1>a. Types /\ LeastSoFar /\ WaitsEmpty /\ Remembered /\ AllSpan /\ Promised
  BY DEF PrefetchInv, Shape
<1> DEFINE c == cur.seg
           d == Duration(c)
           future == cur.future + d
<1>b. /\ UNCHANGED <<count, at, channel, asked, least, lost>>
      /\ pc = "fetch" /\ c < count /\ fetched' = fetched \cup {c}
  BY DEF Fetch
<1>c. /\ c \in Segs /\ c \in Nat /\ cur.total \in Nat /\ cur.future \in Nat
      /\ cur.count \in Nat /\ count \in Nat /\ count <= MaxCount
      /\ MaxCount \in Nat /\ least \in Nat /\ known \in Nat /\ known # 0
      /\ least <= cur.count /\ heap \in Heaps
  BY <1>a, <1>b, Numbers DEF Types, Work, LeastSoFar
<1>d. c + 1 \in Segs /\ c + 1 <= MaxCount
  BY <1>a, <1>b, <1>c, Numbers
<1>e. at[c] \in Int /\ at[c + 1] \in Int /\ d = at[c + 1] - at[c] /\ d \in Int
  BY <1>a, <1>c, <1>d, Numbers DEF Duration
<1> HIDE DEF c, d
<1>1. CASE d < 0 /\ pc' = "dead" /\ UNCHANGED <<heap, cur, memo>>
  <2>1. Types'
    BY <1>a, <1>b, <1>1 DEF Types
  <2>2. (LeastSoFar /\ WaitsEmpty /\ Remembered /\ AllSpan)'
    BY <1>a, <1>b, <1>1 DEF LeastSoFar, WaitsEmpty, Remembered, AllSpan, Spans,
       EndOf
  <2>3. Promised'
    BY <1>1 DEF Promised
  <2> QED BY <2>1, <2>2, <2>3 DEF PrefetchInv, Shape
<1>2. CASE ~(d < 0 /\ pc' = "dead" /\ UNCHANGED <<heap, cur, memo>>)
  <2> DEFINE m == [next |-> IF c + 1 < known THEN c + 1 ELSE None, time |-> d]
  <2>1. /\ d \in Nat
        /\ memory' = [memory EXCEPT ![c] = m]
        /\ IF future >= cur.total \/ c + 1 >= cur.count
           THEN Continue
           ELSE ContinueWith(c + 1, future)
        /\ known' = known
    <3>1. /\ d >= 0
          /\ memory' = [memory EXCEPT ![c] = m]
          /\ IF future >= cur.total \/ c + 1 >= cur.count
             THEN Continue
             ELSE ContinueWith(c + 1, future)
          /\ known' = known
      BY <1>2 DEF Fetch, c, d
    <3> HIDE DEF future, m
    <3> QED BY <1>e, <3>1
  <2>2. /\ m \in Hops /\ m.time = d
        /\ m.next # None => m.next = c + 1 /\ m.next < known
        /\ EndOf(m, c) = c + 1
    <3>1. m \in Hops
      BY <1>d, <2>1 DEF Hops
    <3>2. c + 1 # None
      BY <1>c DEF None
    <3>3. m.next = (IF c + 1 < known THEN c + 1 ELSE None) /\ m.time = d
      OBVIOUS
    <3> HIDE DEF m
    <3>4. CASE c + 1 < known
      BY <3>1, <3>2, <3>3, <3>4 DEF EndOf
    <3>5. CASE ~(c + 1 < known)
      <4>1. m.next = None
        BY <3>3, <3>5
      <4>2. c < known => known = c + 1
        BY <1>c, <3>5
      <4> QED BY <3>1, <3>3, <4>1, <4>2 DEF EndOf
    <3> QED BY <3>4, <3>5
  <2>3. m # NotComputed
    BY <2>2, HopsComputed
  <2> HIDE DEF m, future
  <2>4. /\ memory' \in [Segs -> Hops \cup {NotComputed}]
        /\ memory'[c] = m
        /\ \A k \in Segs \ {c} : memory'[k] = memory[k]
    BY <1>a, <1>c, <2>1, <2>2 DEF Types
  <2>5. \A k \in Segs : memory[k] # NotComputed => memory'[k] # NotComputed
    BY <2>3, <2>4
  <2>6. AllSpan'
    <3> SUFFICES ASSUME NEW j \in Segs, memory'[j] # NotComputed
                 PROVE  Spans(memory[j], j)'
      BY DEF AllSpan
    <3> DEFINE n == memory'[j]
               e == EndOf(n, j)
    <3>1. /\ n \in Hops /\ (n.next # None => n.next < known)
          /\ e \in Nat /\ j < e /\ e <= MaxCount
          /\ \A k \in j .. e - 1 : memory'[k] # NotComputed
          /\ n.time = at[e] - at[j]
      <4>1. CASE j = c
        <5>1. n = m /\ e = c + 1
          BY <2>2, <2>4, <4>1
        <5>2. \A k \in c .. (c + 1) - 1 : k = c
          BY <1>c
        <5>3. \A k \in j .. e - 1 : memory'[k] # NotComputed
          BY <2>3, <2>4, <4>1, <5>1, <5>2
        <5>4. c + 1 \in Nat /\ c < c + 1
          BY <1>c
        <5> HIDE DEF n, e
        <5> QED BY <1>d, <1>e, <2>2, <4>1, <5>1, <5>3, <5>4
      <4>2. CASE j # c
        <5>1. n = memory[j]
          BY <2>4, <4>2
        <5>2. Spans(n, j)
          BY <1>a, <5>1 DEF AllSpan
        <5>3. /\ n \in Hops /\ (n.next # None => n.next < known)
              /\ j < e /\ e <= MaxCount
              /\ \A k \in j .. e - 1 : memory[k] # NotComputed
              /\ n.time = at[e] - at[j]
          BY <5>2 DEF Spans
        <5>4. e \in Nat /\ j \in Nat
          BY <1>a, <5>3, Numbers DEF EndOf, Hops
        <5> HIDE DEF n, e
        <5>5. \A k \in j .. e - 1 : k \in Segs
          BY <1>a, <5>3, <5>4, Numbers
        <5> QED BY <2>5, <5>3, <5>4, <5>5
      <4> QED BY <4>1, <4>2
    <3>2. EndOf(memory[j], j)' = e
      BY <2>1 DEF EndOf
    <3> HIDE DEF n, e
    <3> QED BY <1>b, <2>1, <3>1, <3>2 DEF Spans, n
  <2>7. Remembered'
    BY <1>a, <1>b, <1>c, <2>1, <2>4 DEF Remembered
  <2>b. future \in Nat
    BY <1>c, <2>1 DEF future
  <2>8. /\ heap' \in Heaps /\ Keeps(heap, heap') /\ cur' \in Work /\ pc' = "idle"
        /\ \A j \in Segs :
              j < least /\ Reaches(c, Need(cur), j) =>
                 j \in fetched' \/ Pending(j)'
    <3>1. ASSUME NEW j \in Segs, j < least, Reaches(c, Need(cur), j), j # c
          PROVE  /\ future < cur.total /\ c + 1 < cur.count
                 /\ Reaches(c + 1, cur.total - future, j)
      <4>1. c <= j /\ \A k \in c .. j : at[k] - at[c] < cur.total - cur.future
        BY <3>1 DEF Reaches, Need
      <4>2. j \in Nat /\ c + 1 <= j
        BY <1>a, <1>c, <3>1, <4>1, Numbers
      <4>3. c + 1 < cur.count
        BY <1>c, <3>1, <4>2
      <4>4. d < cur.total - cur.future
        <5>1. c + 1 \in c .. j
          BY <1>c, <4>2
        <5> QED BY <1>e, <4>1, <5>1
      <4>5. future < cur.total
        BY <1>c, <2>1, <4>4 DEF future
      <4>6. ASSUME NEW k \in c + 1 .. j
            PROVE  at[k] - at[c + 1] < cur.total - future
        <5>1. k \in c .. j /\ k \in Segs
          BY <1>a, <1>c, <4>2, Numbers
        <5>2. at[k] - at[c] < cur.total - cur.future /\ at[k] \in Int
          BY <1>a, <4>1, <5>1, Numbers
        <5> QED BY <1>c, <1>e, <2>1, <5>2 DEF future
      <4> QED BY <4>2, <4>3, <4>5, <4>6 DEF Reaches
    <3>2. CASE future >= cur.total \/ c + 1 >= cur.count
      <4>1. heap' \in Heaps /\ Keeps(heap, heap') /\ cur' \in Work /\ pc' = "idle"
        BY <1>a, <2>1, <3>2, ContinueKeeps
      <4>2. ~(future < cur.total /\ c + 1 < cur.count)
        BY <1>c, <2>b, <3>2
      <4> QED BY <1>b, <3>1, <4>1, <4>2
    <3>3. CASE ~(future >= cur.total \/ c + 1 >= cur.count)
      <4>1. future < cur.total /\ ContinueWith(c + 1, future)
        BY <1>c, <2>1, <2>b, <3>3
      <4>2. /\ heap' \in Heaps /\ Keeps(heap, heap') /\ cur' \in Work
            /\ pc' = "idle"
            /\ \A j \in Segs : Reaches(c + 1, cur.total - future, j) => Pending(j)'
        BY <1>a, <1>b, <1>d, <2>b, <4>1, ContinueWithKeeps
      <4> QED BY <1>b, <3>1, <4>2
    <3> QED BY <3>2, <3>3
  <2>9. Types'
    BY <1>a, <1>b, <2>1, <2>4, <2>8 DEF Types
  <2>10. (LeastSoFar /\ WaitsEmpty)'
    BY <1>a, <1>b, <2>1, <2>8 DEF LeastSoFar, WaitsEmpty
  <2>11. Promised'
    BY <1>b, <2>8, WorkPromise DEF c
  <2> QED BY <2>6, <2>7, <2>9, <2>10, <2>11 DEF PrefetchInv, Shape
<1> QED BY <1>1, <1>2

-----------------------------------------------------------------------------
(* The theorems. *)

(***************************************************************************)
(* Every step keeps the invariant.                                         *)
(***************************************************************************)
LEMMA StepPrefetch == PrefetchInv /\ [Next]_vars => PrefetchInv'
<1> SUFFICES ASSUME PrefetchInv, [Next]_vars PROVE PrefetchInv'
  OBVIOUS
<1>1. CASE UNCHANGED vars
  <2> USE <1>1 DEF vars, task, memo, history
  <2>1. Types'
    BY DEF PrefetchInv, Shape, Types
  <2>2. (LeastSoFar /\ WaitsEmpty /\ Remembered /\ AllSpan)'
    BY DEF PrefetchInv, Shape, LeastSoFar, WaitsEmpty, Remembered, AllSpan,
       Spans, EndOf, Entries
  <2>3. Promised'
    BY DEF PrefetchInv, Promised, Pending, Reaches, Entries
  <2> QED BY <2>1, <2>2, <2>3 DEF PrefetchInv, Shape
<1>2. CASE Next
  BY <1>2, StepRequest, StepNewPlaylist, StepExpire, StepPop, StepWait, StepRecv,
     StepPlaylist, StepFail, StepFetch DEF Next, Step
<1> QED BY <1>1, <1>2

(***************************************************************************)
(* In every state the entries and the memory are well formed, and every    *)
(* segment that a request asked for is downloaded or still to be come to.  *)
(***************************************************************************)
THEOREM PrefetchInvariant == Spec => []PrefetchInv
<1>1. Init => PrefetchInv
  BY InitPrefetch
<1>2. PrefetchInv /\ [Next]_vars => PrefetchInv'
  BY StepPrefetch
<1> QED BY <1>1, <1>2, PTL DEF Spec

(***************************************************************************)
(* No subtraction of durations in add_to_cache goes below zero, and so     *)
(* none panics, in whatever order requests and entries meet.               *)
(***************************************************************************)
THEOREM NoUnderflow == Spec => []TypeOK
<1>1. PrefetchInv => TypeOK
  <2> SUFFICES ASSUME PrefetchInv PROVE TypeOK
    OBVIOUS
  <2>1. Types
    BY DEF PrefetchInv, Shape
  <2>2. ASSUME NEW s \in Entries(heap)
        PROVE  /\ heap[s].future \in Nat /\ heap[s].total \in Nat
               /\ heap[s].future < heap[s].total \/ heap[s].future = 0
    <3>1. heap[s] \in Entry /\ Ahead(heap[s])
      BY <2>1, NeedInt DEF Types, Heaps
    <3> QED BY <3>1 DEF Entry, Ahead
  <2> QED BY <2>1, <2>2 DEF TypeOK, Types
<1> QED BY <1>1, PrefetchInvariant, PTL

(***************************************************************************)
(* A computed segment's memory jumps over computed segments only, and adds *)
(* up exactly the time they last, however the chains were compressed.      *)
(***************************************************************************)
THEOREM ExactChains == Spec => []ChainsExact
<1>1. PrefetchInv => ChainsExact
  BY DEF PrefetchInv, Shape, AllSpan, Spans, EndOf, ChainsExact
<1> QED BY <1>1, PrefetchInvariant, PTL

(***************************************************************************)
(* Once the task waits for requests again, what every request asked for    *)
(* has been downloaded: merging entries, skipping computed segments,       *)
(* forgetting the movie and new playlists have dropped nothing.            *)
(***************************************************************************)
THEOREM AllReached == Spec => []ReachesAhead
<1>1. PrefetchInv => ReachesAhead
  <2> SUFFICES ASSUME PrefetchInv, pc = "recv", channel = <<>>, ~lost,
                      NEW r \in asked, NEW j \in Segs,
                      r[1] <= j /\ j < least,
                      \A k \in r[1] .. j : at[k] - at[r[1]] < r[2]
               PROVE  j \in fetched
    BY DEF ReachesAhead, Settled
  <2>1. Reaches(r[1], r[2], j)
    BY DEF Reaches
  <2>2. ~Pending(j)
    BY DEF Pending, PrefetchInv, Shape, WaitsEmpty
  <2> QED BY <2>1, <2>2 DEF PrefetchInv, Promised
<1> QED BY <1>1, PrefetchInvariant, PTL

-----------------------------------------------------------------------------
(* The task comes to the end of its work, but for fairness.                *)

\* How many segments there are from s on.
Column(s) == MaxCount + 1 - s

\* Together, for each of the segments in S, as the size of a set.
Area(S) == {p \in Segs \X Segs : p[1] \in S /\ p[1] <= p[2]}
Extent(S) == Cardinality(Area(S))

\* How many steps the task still takes at most before it waits or dies, if
\* nothing else is asked for: every entry only moves forward.
Turn ==
    CASE pc = "idle" -> 1
      [] pc = "playlist" -> 4 * Column(cur.seg) - 1
      [] pc = "fetch" -> 4 * Column(cur.seg) - 2
      [] OTHER -> 0

Backlog == Len(channel) * (MaxCount + 1)

Rank == 4 * Extent(Entries(heap)) + 4 * Backlog + Turn

\* Each step of the task brings the end of its work nearer, whatever it finds
\* in the heap and in the memory, and whether it succeeds or fails.
RunsOut == [][Step => Rank \in Nat /\ Rank' < Rank]_vars

(***************************************************************************)
(* The extent of one segment is its column, and extents add up.            *)
(***************************************************************************)
LEMMA Extents ==
    ASSUME NEW S \in SUBSET Segs
    PROVE  /\ Extent(S) \in Nat
           /\ \A s \in Segs : Column(s) \in 1 .. MaxCount + 1
           /\ \A s \in S : Extent(S \ {s}) = Extent(S) - Column(s)
           /\ \A s \in Segs : Extent(S \cup {s}) <= Extent(S) + Column(s)
<1>1. MaxCount \in Nat /\ Segs = 0 .. MaxCount
  BY PrefetchConstants DEF Segs
<1>2. IsFiniteSet(Segs \X Segs)
  <2>1. IsFiniteSet(Segs)
    BY <1>1, FS_Interval
  <2> QED BY <2>1, FS_Product, Zenon
<1>3. \A T \in SUBSET Segs : IsFiniteSet(Area(T)) /\ Extent(T) \in Nat
  <2> SUFFICES ASSUME NEW T \in SUBSET Segs
               PROVE  IsFiniteSet(Area(T)) /\ Extent(T) \in Nat
    OBVIOUS
  <2>1. Area(T) \in SUBSET (Segs \X Segs)
    BY DEF Area
  <2>2. IsFiniteSet(Area(T))
    BY <1>2, <2>1, FS_Subset
  <2> QED BY <2>2, FS_CardinalityType DEF Extent
<1>4. ASSUME NEW s \in Segs
      PROVE  Extent({s}) = Column(s) /\ Column(s) \in 1 .. MaxCount + 1
  <2>1. s \in Int /\ MaxCount \in Int /\ 0 <= s /\ s <= MaxCount
    BY <1>1
  <2>2. Area({s}) = {s} \X (s .. MaxCount)
    BY <1>1, <2>1 DEF Area
  <2>3. IsFiniteSet({s}) /\ Cardinality({s}) = 1
    BY FS_Singleton, Zenon
  <2>4. IsFiniteSet(s .. MaxCount) /\ Cardinality(s .. MaxCount) = MaxCount - s + 1
    BY <2>1, FS_Interval
  <2>5. Cardinality({s} \X (s .. MaxCount))
          = Cardinality({s}) * Cardinality(s .. MaxCount)
    BY <2>3, <2>4, FS_Product, Zenon
  <2>6. Extent({s}) = 1 * (MaxCount - s + 1)
    BY <2>2, <2>3, <2>4, <2>5, Zenon DEF Extent
  <2> QED BY <2>1, <2>6 DEF Column
<1>5. ASSUME NEW s \in S PROVE Extent(S \ {s}) = Extent(S) - Column(s)
  <2>1. Area(S) \cap Area({s}) = Area({s}) /\ Area(S \ {s}) = Area(S) \ Area({s})
    BY DEF Area
  <2>2. Cardinality(Area(S) \ Area({s}))
          = Cardinality(Area(S)) - Cardinality(Area(S) \cap Area({s}))
    BY <1>3, FS_Difference
  <2> QED BY <1>4, <2>1, <2>2 DEF Extent
<1>6. ASSUME NEW s \in Segs PROVE Extent(S \cup {s}) <= Extent(S) + Column(s)
  <2>1. Area(S \cup {s}) = Area(S) \cup Area({s})
    BY DEF Area
  <2>2. IsFiniteSet(Area(S)) /\ IsFiniteSet(Area({s}))
    BY <1>3
  <2>3. Cardinality(Area(S) \cup Area({s}))
          = Cardinality(Area(S)) + Cardinality(Area({s}))
              - Cardinality(Area(S) \cap Area({s}))
    BY <2>2, FS_Union
  <2>4. Cardinality(Area(S) \cap Area({s})) \in Nat
    BY <2>2, FS_Intersection, FS_CardinalityType
  <2>5. Extent(S) \in Nat /\ Extent({s}) = Column(s) /\ Column(s) \in Int
    BY <1>3, <1>4
  <2>6. Extent(S \cup {s})
          = Extent(S) + Extent({s}) - Cardinality(Area(S) \cap Area({s}))
    BY <2>1, <2>3, Zenon DEF Extent
  <2> QED BY <2>4, <2>5, <2>6
<1> QED BY <1>3, <1>4, <1>5, <1>6

(***************************************************************************)
(* A new entry adds at most its column.                                    *)
(***************************************************************************)
LEMMA AddExtent ==
    ASSUME NEW h, DOMAIN h = Segs, NEW s \in Segs, NEW future, NEW total
    PROVE  /\ DOMAIN AddToCache(h, s, future, total) = Segs
           /\ Extent(Entries(AddToCache(h, s, future, total)))
                <= Extent(Entries(h)) + Column(s)
<1> DEFINE g == AddToCache(h, s, future, total)
<1>1. DOMAIN g = Segs /\ \A o \in Segs \ {s} : g[o] = h[o]
  BY DEF AddToCache
<1> HIDE DEF g
<1>2. Entries(h) \in SUBSET Segs /\ Entries(g) \in SUBSET Segs
  BY DEF Entries
<1>3. Extent(Entries(g)) \in Nat /\ Extent(Entries(h)) \in Nat
      /\ Column(s) \in 1 .. MaxCount + 1 /\ MaxCount \in Nat
  BY <1>2, Extents, PrefetchConstants
<1>4. Extent(Entries(g)) <= Extent(Entries(h)) + Column(s)
  <2>1. CASE Entries(g) = Entries(h) \cup {s}
    BY <1>2, <2>1, Extents
  <2>2. CASE s \notin Entries(g) /\ s \in Entries(h)
    <3>1. Entries(g) = Entries(h) \ {s}
      BY <1>1, <2>2 DEF Entries
    <3>2. Extent(Entries(g)) = Extent(Entries(h)) - Column(s)
      BY <1>2, <2>2, <3>1, Extents
    <3> QED BY <1>3, <3>2
  <2>3. CASE s \notin Entries(g) /\ s \notin Entries(h)
    <3>1. Entries(g) = Entries(h)
      BY <1>1, <2>3 DEF Entries
    <3> QED BY <1>3, <3>1
  <2>4. s \in Entries(g) => Entries(g) = Entries(h) \cup {s}
    BY <1>1 DEF Entries
  <2> QED BY <2>1, <2>2, <2>3, <2>4
<1> QED BY <1>1, <1>4 DEF g

LEMMA OneMore == \A n, k \in Nat : (n + 1) * k = n * k + k
OBVIOUS

(***************************************************************************)
(* Draining the channel adds at most a column for each request.            *)
(***************************************************************************)
LEMMA DrainExtent ==
    ASSUME channel \in Seq(Sent), DOMAIN heap = Segs
    PROVE  Extent(Entries(Drained)) <= Extent(Entries(heap)) + Backlog
<1> DEFINE g == CHOOSE f : f = [s \in SUBSET Positions |-> Drain(f, s)]
           K == MaxCount + 1
<1>1. Drained = g[Positions]
  BY DEF Drained, FoldSeq, FoldFunction, FoldFunctionOnSet, MapThenFoldSet,
     Drain, Pick, Positions
<1>2. g = [s \in SUBSET Positions |-> Drain(g, s)]
  BY DrainExists, Zenon
<1> HIDE DEF g
<1>3. \A s \in SUBSET Positions : g[s] = Drain(g, s)
  BY <1>2, Zenon
<1>4. K \in Nat /\ \A h : Extent(Entries(h)) \in Nat
  <2>1. \A h : Entries(h) \in SUBSET Segs
    BY DEF Entries
  <2> QED BY <2>1, Extents, PrefetchConstants
<1> HIDE DEF K
<1> DEFINE Good(s) ==
       /\ DOMAIN g[s] = Segs
       /\ Extent(Entries(g[s])) <= Extent(Entries(heap)) + Cardinality(s) * K
           N == {n \in Nat : \A s \in SUBSET Positions :
                    Cardinality(s) <= n => Good(s)}
<1>5. Good({})
  <2>1. g[{}] = heap
    BY <1>3 DEF Drain
  <2>2. Cardinality({}) = 0 /\ 0 * K = 0
    BY <1>4, FS_EmptySet
  <2> QED BY <1>4, <2>1, <2>2
<1>6. ASSUME NEW s \in SUBSET Positions, s # {}, Good(s \ {Pick(s)})
      PROVE  Good(s)
  <2> DEFINE p == Pick(s)
             h == g[s \ {p}]
             r == channel[p]
             n == Cardinality(s \ {p})
  <2>1. r \in Sent /\ n = Cardinality(s) - 1 /\ n \in Nat /\ Cardinality(s) \in Nat
    BY <1>6, PositionsFinite
  <2>2. g[s] = AddToCache(h, r.seg, 0, r.total)
    BY <1>3, <1>6 DEF Drain
  <2>3. r.seg \in Segs
    BY <2>1 DEF Sent
  <2>4. DOMAIN h = Segs /\ Extent(Entries(h)) <= Extent(Entries(heap)) + n * K
    BY <1>6
  <2>5. DOMAIN g[s] = Segs
        /\ Extent(Entries(g[s])) <= Extent(Entries(h)) + Column(r.seg)
    <3> HIDE DEF h, r
    <3> QED BY <2>2, <2>3, <2>4, AddExtent
  <2>6. Column(r.seg) \in Int /\ Column(r.seg) <= K
    BY <2>3, PrefetchConstants DEF Column, K, Segs
  <2>7. Cardinality(s) = n + 1 /\ (n + 1) * K = n * K + K /\ n * K \in Int
    BY <1>4, <2>1, OneMore
  <2> HIDE DEF h, r, n
  <2> DEFINE a == Extent(Entries(g[s]))
             b == Extent(Entries(h))
             e == Extent(Entries(heap))
             c == Column(r.seg)
             m == n * K
  <2>8. /\ a \in Int /\ b \in Int /\ e \in Int /\ c \in Int /\ m \in Int /\ K \in Int
        /\ a <= b + c /\ b <= e + m /\ c <= K /\ Cardinality(s) * K = m + K
    BY <1>4, <2>4, <2>5, <2>6, <2>7
  <2> HIDE DEF a, b, e, c, m
  <2>9. a <= e + (m + K)
    BY <2>8
  <2> QED BY <2>5, <2>8, <2>9 DEF a, e
<1> HIDE DEF Good
<1>7. 0 \in N
  <2> SUFFICES ASSUME NEW s \in SUBSET Positions, Cardinality(s) <= 0
               PROVE  Good(s)
    OBVIOUS
  <2>1. s = {}
    BY PositionsFinite, FS_EmptySet
  <2> QED BY <1>5, <2>1
<1>8. ASSUME NEW n \in Nat, n \in N PROVE n + 1 \in N
  <2> SUFFICES ASSUME NEW s \in SUBSET Positions, Cardinality(s) <= n + 1
               PROVE  Good(s)
    OBVIOUS
  <2>1. CASE s = {}
    BY <1>5, <2>1
  <2>2. CASE s # {}
    <3>1. s \ {Pick(s)} \in SUBSET Positions
          /\ Cardinality(s \ {Pick(s)}) = Cardinality(s) - 1
          /\ Cardinality(s) \in Nat
      BY <2>2, PositionsFinite
    <3>2. Cardinality(s \ {Pick(s)}) <= n
      BY <3>1
    <3> QED BY <1>6, <1>8, <2>2, <3>1, <3>2
  <2> QED BY <2>1, <2>2
<1>9. Good(Positions)
  <2> HIDE DEF N
  <2>1. Nat \subseteq N
    BY <1>7, <1>8, Inductive
  <2>2. Cardinality(Positions) \in Nat
    BY PositionsFinite
  <2>3. Cardinality(Positions) \in N
    BY <2>1, <2>2
  <2> QED BY <2>2, <2>3 DEF N
<1>10. Cardinality(Positions) = Len(channel)
  <2>1. Positions = 1 .. Len(channel) /\ Len(channel) \in Nat
    BY DEF Positions
  <2>2. Cardinality(1 .. Len(channel))
          = IF 1 > Len(channel) THEN 0 ELSE Len(channel) - 1 + 1
    BY <2>1, FS_Interval
  <2> QED BY <2>1, <2>2
<1> QED BY <1>1, <1>9, <1>10 DEF Good, Backlog, K

(***************************************************************************)
(* The measure is a number.                                                *)
(***************************************************************************)
LEMMA RankNat ==
    ASSUME Types
    PROVE  /\ Extent(Entries(heap)) \in Nat /\ Backlog \in Nat
           /\ cur.seg \in Segs /\ Column(cur.seg) \in 1 .. MaxCount + 1
           /\ Rank \in Nat
<1>1. Entries(heap) \in SUBSET Segs /\ cur.seg \in Segs
  BY NeedInt DEF Entries, Types
<1>2. Extent(Entries(heap)) \in Nat /\ Column(cur.seg) \in 1 .. MaxCount + 1
  BY <1>1, Extents
<1>3. Len(channel) \in Nat /\ MaxCount \in Nat
  BY PrefetchConstants DEF Types
<1>4. Backlog \in Nat
  BY <1>3 DEF Backlog
<1>5. Turn \in Nat
  BY <1>2, <1>3 DEF Turn
<1> QED BY <1>1, <1>2, <1>4, <1>5 DEF Rank

(***************************************************************************)
(* Taking an entry, from the heap or from the channel.                     *)
(***************************************************************************)
LEMMA PopShortens ==
    ASSUME PrefetchInv, Pop
    PROVE  Rank' < Rank
<1>a. Types /\ channel \in Seq(Sent) /\ heap \in Heaps
  BY DEF PrefetchInv, Shape, Types
<1>1. PICK s \in Entries(Drained) :
         Take(s, Drained[s], [Drained EXCEPT ![s] = NoEntry])
  BY DEF Pop
<1> DEFINE h == Drained
<1>2. pc = "idle" /\ pc' = "playlist" /\ channel' = <<>> /\ cur'.seg = s
      /\ heap' = [h EXCEPT ![s] = NoEntry]
  BY <1>1 DEF Pop, Take
<1>3. h \in Heaps /\ DOMAIN heap = Segs
  BY <1>a, DrainKeeps DEF Heaps
<1>4. Extent(Entries(h)) <= Extent(Entries(heap)) + Backlog
  BY <1>a, <1>3, DrainExtent
<1>5. s \in Entries(h) /\ s \in Segs /\ Entries(h) \in SUBSET Segs
  BY DEF Entries
<1> HIDE DEF h
<1>6. Entries(heap') = Entries(h) \ {s}
  BY <1>2, <1>3, <1>5 DEF Entries, Heaps
<1>7. Extent(Entries(heap')) = Extent(Entries(h)) - Column(s)
      /\ Extent(Entries(h)) \in Nat /\ Column(s) \in 1 .. MaxCount + 1
  BY <1>5, <1>6, Extents
<1>8. Backlog' = 0
  <2>1. Len(channel') = 0 /\ MaxCount \in Nat
    BY <1>2, PrefetchConstants
  <2> QED BY <2>1 DEF Backlog
<1>9. Extent(Entries(heap))' = Extent(Entries(heap'))
  BY DEF Extent, Area, Entries
<1>10. Turn = 1 /\ Turn' = 4 * Column(s) - 1
  BY <1>2 DEF Turn, Column
<1>11. /\ Rank = 4 * Extent(Entries(heap)) + 4 * Backlog + Turn
       /\ Rank' = 4 * Extent(Entries(heap))' + 4 * Backlog' + Turn'
  BY DEF Rank
<1>12. Extent(Entries(heap)) \in Nat /\ Backlog \in Nat /\ MaxCount \in Nat
  BY <1>a, RankNat, PrefetchConstants
<1> QED BY <1>4, <1>7, <1>8, <1>9, <1>10, <1>11, <1>12

LEMMA RecvShortens ==
    ASSUME PrefetchInv, Recv
    PROVE  Rank' < Rank
<1>a. Types /\ channel \in Seq(Sent)
  BY DEF PrefetchInv, Shape, Types
<1> DEFINE s == cur'.seg
<1>1. /\ pc = "recv" /\ pc' = "playlist" /\ heap' = heap
      /\ channel # <<>> /\ channel' = Tail(channel) /\ s = Head(channel).seg
  BY DEF Recv, Take
<1>2. s \in Segs
  <2>1. Head(channel) \in Sent
    BY <1>a, <1>1
  <2>2. Head(channel).seg \in Segs
    BY <2>1, Zenon DEF Sent
  <2> HIDE DEF s
  <2> QED BY <1>1, <2>2
<1> HIDE DEF s
<1>3. Column(s) \in 1 .. MaxCount + 1 /\ MaxCount \in Nat
  BY <1>2, Extents, PrefetchConstants
<1>4. Backlog = Backlog' + (MaxCount + 1)
  <2>1. Len(channel') \in Nat /\ Len(channel) = Len(channel') + 1
    BY <1>a, <1>1
  <2> QED BY <1>3, <2>1, OneMore DEF Backlog
<1>5. Extent(Entries(heap))' = Extent(Entries(heap))
  BY <1>1 DEF Extent, Area, Entries
<1>6. Turn = 0 /\ Turn' = 4 * Column(s) - 1
  BY <1>1 DEF Turn, Column, s
<1>7. /\ Rank = 4 * Extent(Entries(heap)) + 4 * Backlog + Turn
      /\ Rank' = 4 * Extent(Entries(heap))' + 4 * Backlog' + Turn'
  BY DEF Rank
<1>8. Extent(Entries(heap)) \in Nat /\ Backlog \in Nat /\ Backlog' \in Int
  <2>1. Len(channel') \in Nat
    BY <1>a, <1>1
  <2> QED BY <1>a, <1>3, <2>1, RankNat DEF Backlog
<1> QED BY <1>3, <1>4, <1>5, <1>6, <1>7, <1>8

(***************************************************************************)
(* The arithmetic of it.                                                   *)
(***************************************************************************)
LEMMA Falls ==
    ASSUME NEW e \in Int, NEW e2 \in Int, NEW b \in Int, NEW t \in Int,
           NEW t2 \in Int, NEW d \in Int, e2 <= e + d, 4 * d + t2 < t
    PROVE  4 * e2 + 4 * b + t2 < 4 * e + 4 * b + t
OBVIOUS

\* What the task does with its entry: it drops it, puts it back further on,
\* or goes on with it.
Drops == pc' \in {"idle", "dead"} /\ heap' = heap
PutsBack == \E s \in Segs, future \in Nat : cur.seg < s /\ ContinueWith(s, future)
GoesOn == /\ pc = "playlist" /\ pc' = "fetch" /\ heap' = heap
          /\ cur'.seg \in Segs /\ cur.seg <= cur'.seg

LEMMA WorkShortens ==
    ASSUME PrefetchInv, pc \in {"playlist", "fetch"}, UNCHANGED channel,
           Drops \/ PutsBack \/ GoesOn
    PROVE  Rank' < Rank
<1>a. Types /\ MaxCount \in Nat /\ DOMAIN heap = Segs
  BY PrefetchConstants DEF PrefetchInv, Shape, Types, Heaps
<1>b. /\ Extent(Entries(heap)) \in Nat /\ Backlog \in Nat
      /\ cur.seg \in Segs /\ Column(cur.seg) \in 1 .. MaxCount + 1
      /\ Backlog' = Backlog
  BY <1>a, RankNat DEF Backlog
<1>c. /\ Rank = 4 * Extent(Entries(heap)) + 4 * Backlog + Turn
      /\ Rank' = 4 * Extent(Entries(heap))' + 4 * Backlog' + Turn'
  BY DEF Rank
<1>d. /\ Turn \in Int /\ Turn >= 4 * Column(cur.seg) - 2
      /\ pc = "playlist" => Turn = 4 * Column(cur.seg) - 1
  BY <1>a, <1>b DEF Turn
<1>1. CASE Drops
  <2>1. Extent(Entries(heap))' = Extent(Entries(heap))
    BY <1>1 DEF Drops, Extent, Area, Entries
  <2>2. Turn' \in Int /\ Turn' < Turn
    <3>1. Turn' \in 0 .. 1
      BY <1>1 DEF Drops, Turn
    <3>2. Column(cur.seg) >= 1 /\ Column(cur.seg) \in Int
      BY <1>a, <1>b
    <3> QED BY <1>d, <3>1, <3>2
  <2> QED BY <1>b, <1>c, <1>d, <2>1, <2>2
<1>2. CASE PutsBack
  <2>1. PICK s \in Segs, future \in Nat : cur.seg < s /\ ContinueWith(s, future)
    BY <1>2 DEF PutsBack
  <2>2. pc' = "idle" /\ heap' = AddToCache(heap, s, future, cur.total)
    BY <2>1 DEF ContinueWith
  <2>3. Extent(Entries(heap')) <= Extent(Entries(heap)) + Column(s)
    BY <1>a, <2>2, AddExtent
  <2>4. Extent(Entries(heap))' = Extent(Entries(heap'))
        /\ Extent(Entries(heap')) \in Nat
    <3>1. Entries(heap') \in SUBSET Segs
      BY DEF Entries
    <3>2. Extent(Entries(heap')) \in Nat
      BY <3>1, Extents
    <3> QED BY <3>2 DEF Extent, Area, Entries
  <2>5. Column(s) <= Column(cur.seg) - 1 /\ Column(s) \in Int
    BY <1>a, <1>b, <2>1 DEF Column, Segs
  <2>6. Turn' \in Int /\ 4 * Column(s) + Turn' < Turn
    <3>1. Turn' = 1
      BY <2>2 DEF Turn
    <3> QED BY <1>a, <1>b, <1>d, <2>5, <3>1
  <2> QED BY <1>b, <1>c, <1>d, <2>3, <2>4, <2>5, <2>6, Falls
<1>3. CASE GoesOn
  <2>1. Extent(Entries(heap))' = Extent(Entries(heap))
    BY <1>3 DEF GoesOn, Extent, Area, Entries
  <2>2. Turn' = 4 * Column(cur'.seg) - 2
    BY <1>3 DEF GoesOn, Turn, Column
  <2>3. Column(cur'.seg) <= Column(cur.seg) /\ Column(cur'.seg) \in Int
    BY <1>a, <1>b, <1>3 DEF GoesOn, Column, Segs
  <2>4. Turn' \in Int /\ Turn' < Turn
    <3>1. Turn = 4 * Column(cur.seg) - 1
      BY <1>3, <1>d DEF GoesOn
    <3> QED BY <1>b, <2>2, <2>3, <3>1
  <2> QED BY <1>b, <1>c, <1>d, <2>1, <2>4
<1> QED BY <1>1, <1>2, <1>3

(***************************************************************************)
(* Computed segments are skipped only forwards.                            *)
(***************************************************************************)
LEMMA PlaylistShortens ==
    ASSUME PrefetchInv, Playlist
    PROVE  Rank' < Rank
<1>a. Shape /\ Types
  BY DEF PrefetchInv, Shape
<1>b. cur.seg \in Segs /\ cur.future \in Nat /\ cur \in Work
  BY <1>a DEF Types, Work
<1> DEFINE n == NextToCompute(cur.seg)
<1>1. /\ n.time \in Nat
      /\ n.next # None =>
            /\ n.next \in Segs /\ cur.seg <= n.next
            /\ n.time = at[n.next] - at[cur.seg]
  BY <1>a, <1>b, NextSkips
<1>2. \/ Continue
      \/ n.next # None /\ Skips(n) /\ ContinueWith(n.next, cur.future + n.time)
      \/ /\ n.next # None /\ pc' = "fetch" /\ heap' = heap
         /\ cur' = [cur EXCEPT !.seg = n.next, !.count = count]
  BY DEF Playlist
<1>3. pc = "playlist" /\ UNCHANGED channel
  BY DEF Playlist
<1> HIDE DEF n
<1>4. CASE Continue
  BY <1>3, <1>4, WorkShortens DEF Continue, Drops
<1>5. CASE n.next # None /\ Skips(n) /\ ContinueWith(n.next, cur.future + n.time)
  <2>1. n.next # cur.seg
    <3> SUFFICES ASSUME n.next = cur.seg PROVE FALSE
      OBVIOUS
    <3>1. n.time = at[cur.seg] - at[cur.seg] /\ at[cur.seg] \in Int
      BY <1>a, <1>b, <1>1, <1>5, Numbers
    <3> QED BY <1>5, <3>1 DEF Skips
  <2>2. n.next \in Segs /\ cur.seg < n.next
    BY <1>a, <1>b, <1>1, <1>5, <2>1, Numbers
  <2>3. cur.future + n.time \in Nat
    BY <1>b, <1>1
  <2>4. PutsBack
    BY <1>5, <2>2, <2>3 DEF PutsBack
  <2> QED BY <1>3, <2>4, WorkShortens
<1>6. CASE /\ n.next # None /\ pc' = "fetch" /\ heap' = heap
           /\ cur' = [cur EXCEPT !.seg = n.next, !.count = count]
  <2>1. cur'.seg = n.next
    BY <1>b, <1>6 DEF Work
  <2>2. GoesOn
    BY <1>1, <1>3, <1>6, <2>1 DEF GoesOn
  <2> QED BY <1>3, <2>2, WorkShortens
<1> QED BY <1>2, <1>4, <1>5, <1>6

LEMMA FetchShortens ==
    ASSUME PrefetchInv, Fetch
    PROVE  Rank' < Rank
<1>a. Types
  BY DEF PrefetchInv, Shape
<1>1. pc = "fetch" /\ cur.seg < count /\ UNCHANGED channel
  BY DEF Fetch
<1>2. cur.seg + 1 \in Segs /\ cur.seg < cur.seg + 1
      /\ cur.future \in Nat /\ Duration(cur.seg) \in Int
  <2>1. cur.seg \in Segs /\ cur.future \in Nat
    BY <1>a DEF Types, Work
  <2>2. cur.seg + 1 \in Segs /\ cur.seg < cur.seg + 1
    BY <1>a, <1>1, <2>1, Numbers
  <2>3. at[cur.seg] \in Int /\ at[cur.seg + 1] \in Int
    BY <1>a, <2>1, <2>2, Numbers
  <2> QED BY <2>1, <2>2, <2>3 DEF Duration
<1>3. \/ pc' = "dead" /\ heap' = heap
      \/ Continue
      \/ /\ Duration(cur.seg) >= 0
         /\ ContinueWith(cur.seg + 1, cur.future + Duration(cur.seg))
  BY DEF Fetch
<1>4. CASE (pc' = "dead" /\ heap' = heap) \/ Continue
  BY <1>1, <1>4, WorkShortens DEF Continue, Drops
<1>5. CASE /\ Duration(cur.seg) >= 0
           /\ ContinueWith(cur.seg + 1, cur.future + Duration(cur.seg))
  <2>1. cur.future + Duration(cur.seg) \in Nat
    BY <1>2, <1>5
  <2>2. PutsBack
    BY <1>2, <1>5, <2>1 DEF PutsBack
  <2> QED BY <1>1, <2>2, WorkShortens
<1> QED BY <1>3, <1>4, <1>5

(***************************************************************************)
(* With finitely many requests the task makes finitely many steps: no      *)
(* entry is put back where it was, so that the loop cannot spin.  What     *)
(* Settles needs besides is fairness, and that the task does not die.      *)
(***************************************************************************)
THEOREM WorkRunsOut == Spec => RunsOut
<1>1. PrefetchInv /\ Step => Rank \in Nat /\ Rank' < Rank
  <2> SUFFICES ASSUME PrefetchInv, Step PROVE Rank' < Rank
    BY RankNat DEF PrefetchInv, Shape
  <2>1. CASE Wait
    <3>1. pc = "idle" /\ pc' = "recv" /\ UNCHANGED <<channel, heap>>
      BY <2>1 DEF Wait
    <3>2. Turn = 1 /\ Turn' = 0
      BY <3>1 DEF Turn
    <3>3. Extent(Entries(heap))' = Extent(Entries(heap)) /\ Backlog' = Backlog
      BY <3>1 DEF Extent, Area, Entries, Backlog
    <3>4. /\ Rank = 4 * Extent(Entries(heap)) + 4 * Backlog + Turn
          /\ Rank' = 4 * Extent(Entries(heap))' + 4 * Backlog' + Turn'
      BY DEF Rank
    <3>5. Extent(Entries(heap)) \in Nat /\ Backlog \in Nat
      BY RankNat DEF PrefetchInv, Shape
    <3> QED BY <3>2, <3>3, <3>4, <3>5
  <2>2. CASE Fail
    <3>1. pc \in {"playlist", "fetch"} /\ UNCHANGED channel /\ Continue
      BY <2>2 DEF Fail
    <3> QED BY <3>1, WorkShortens DEF Continue, Drops
  <2> QED
    BY <2>1, <2>2, PopShortens, RecvShortens, PlaylistShortens, FetchShortens
    DEF Step
<1>2. PrefetchInv /\ [Next]_vars => [Step => Rank \in Nat /\ Rank' < Rank]_vars
  BY <1>1
<1> QED BY <1>2, PrefetchInvariant, PTL DEF Spec, RunsOut
=============================================================================
