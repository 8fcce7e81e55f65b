-------------------------- MODULE Intervals_proofs --------------------------
(***************************************************************************)
(* Proofs about the interval search, for every number of segments and all  *)
(* times.  The invariant says that the ranges are what the placed times    *)
(* leave of the playlist; Splitting shows that one split keeps that, and   *)
(* both Place and FetchOk are splits.  The last section is about the end   *)
(* of a computation: how many steps are left (Rank), and that there is a   *)
(* next one.                                                               *)
(***************************************************************************)
EXTENDS Intervals, FiniteSetTheorems, TLAPS

\* A set R of ranges that the times tm of the indexes in P leave.
Proper(R) == R \subseteq Items /\ \A r \in R : r.lo < r.hi
Disjoint(R) == \A r, s \in R : r # s => Segs(r) \cap Segs(s) = {}
Avoids(R, P) == \A r \in R : Segs(r) \cap P = {}
Covers(R, P) == \A i \in Indexes \ (P \cup forbidden) : \E r \in R : i \in Segs(r)
Follows(R, P, tm) ==
    \A r \in R :
        /\ \/ r.lo = 0 /\ r.from = 0
           \/ r.lo - 1 \in P /\ r.from = tm[r.lo - 1]
        /\ \/ r.hi = Count /\ r.to = MovieDuration
           \/ r.hi \in P /\ r.to = tm[r.hi]
\* Only the first range may have nothing to measure.
Alive(R, P) == \A r \in R : (r = Whole /\ P = {}) \/ ~IsEmpty(r)

Tiles(R, P, tm) ==
    /\ Proper(R)
    /\ Disjoint(R)
    /\ Avoids(R, P)
    /\ Covers(R, P)
    /\ Follows(R, P, tm)
    /\ Alive(R, P)

Tiling == pc # "idle" => Tiles(ranges, Placed, times)
NeverBoth == DOMAIN times \cap forbidden = {}
Chosen == pc = "fetch" => top \in ranges /\ index \in Candidates(top)
Stopped == pc = "panic" => top \in ranges /\ Candidates(top) = {}
FinishedAtOnce == pc # "idle" /\ finished => ranges = {}

IInv == TypeOK /\ Tiling /\ NeverBoth /\ Chosen /\ Stopped /\ FinishedAtOnce

-----------------------------------------------------------------------------
\* The fields of an item.
LEMMA ItemFields ==
    ASSUME NEW lo \in 0 .. Count, NEW hi \in 0 .. Count,
           NEW from \in Stamps, NEW to \in Stamps
    PROVE  /\ Item(lo, hi, from, to) \in Items
           /\ Item(lo, hi, from, to).lo = lo
           /\ Item(lo, hi, from, to).hi = hi
           /\ Item(lo, hi, from, to).from = from
           /\ Item(lo, hi, from, to).to = to
BY DEF Item, Items

LEMMA WholeFields ==
    /\ Whole \in Items
    /\ Whole.lo = 0 /\ Whole.hi = Count
    /\ Whole.from = 0 /\ Whole.to = MovieDuration
BY IntervalConstants DEF Whole, Item, Items, Stamps

\* The first range is all there is to measure when nothing has been placed.
LEMMA WholeTiles ==
    ASSUME NEW tm
    PROVE  Tiles({Whole}, {}, tm)
BY WholeFields, IntervalConstants
DEF Tiles, Proper, Disjoint, Avoids, Covers, Follows, Alive, Segs, Indexes

\* Splitting a range at an index of it keeps the tiling, with the index placed.
LEMMA Splitting ==
    ASSUME NEW P, P \subseteq Indexes, NEW tm, NEW tn,
           Tiles(ranges, P, tm),
           NEW r \in ranges, NEW i \in Segs(r), NEW t \in Times,
           \A j \in P : tn[j] = tm[j], tn[i] = t
    PROVE  Tiles(SplitAt(r, i, t), P \cup {i}, tn)
<1> DEFINE A == Item(r.lo, i, r.from, t)
           B == Item(i + 1, r.hi, t, r.to)
           Q == P \cup {i}
           R == SplitAt(r, i, t)
<1>1. /\ r \in Items /\ r.lo \in 0 .. Count /\ r.hi \in 0 .. Count /\ r.lo < r.hi
      /\ r.from \in Stamps /\ r.to \in Stamps
  BY DEF Tiles, Proper, Items
<1>2. i \in Int /\ r.lo <= i /\ i < r.hi /\ Count \in Nat /\ t \in Stamps
  BY <1>1, IntervalConstants DEF Segs, Stamps
<1>3. /\ A \in Items /\ A.lo = r.lo /\ A.hi = i /\ A.from = r.from /\ A.to = t
  BY <1>1, <1>2, ItemFields
<1>4. /\ B \in Items /\ B.lo = i + 1 /\ B.hi = r.hi /\ B.from = t /\ B.to = r.to
  BY <1>1, <1>2, ItemFields
<1>5. Segs(A) = r.lo .. i - 1 /\ Segs(B) = i + 1 .. r.hi - 1
  BY <1>3, <1>4 DEF Segs
<1>6. Segs(r) = Segs(A) \cup {i} \cup Segs(B)
  <2>1. Segs(r) = r.lo .. r.hi - 1
    BY DEF Segs
  <2>2. \A k : k \in r.lo .. r.hi - 1 <=>
               k \in r.lo .. i - 1 \/ k = i \/ k \in i + 1 .. r.hi - 1
    BY <1>1, <1>2
  <2> HIDE DEF A, B
  <2> QED
    BY <2>1, <2>2, <1>5
<1>7. \A s \in R : \/ s \in ranges /\ s # r
                   \/ s = A /\ ~IsEmpty(A)
                   \/ s = B /\ ~IsEmpty(B)
  BY DEF SplitAt
<1>8. /\ \A s \in ranges : s # r => s \in R
      /\ ~IsEmpty(A) => A \in R
      /\ ~IsEmpty(B) => B \in R
  BY DEF SplitAt
<1>9. \A s \in ranges : s # r => Segs(s) \cap Segs(r) = {}
  BY DEF Tiles, Disjoint
<1> HIDE DEF A, B, R
<1>10. Proper(R)
  <2>1. ~IsEmpty(A) => A.lo < A.hi
    BY <1>1, <1>2, <1>3, <1>5 DEF IsEmpty
  <2>2. ~IsEmpty(B) => B.lo < B.hi
    BY <1>1, <1>2, <1>4, <1>5 DEF IsEmpty
  <2> QED
    BY <1>3, <1>4, <1>7, <2>1, <2>2 DEF Tiles, Proper
<1>11. Disjoint(R)
  <2>1. Segs(A) \cap Segs(B) = {}
    BY <1>2, <1>5
  <2>2. \A s \in ranges : s # r => Segs(s) \cap Segs(A) = {} /\ Segs(s) \cap Segs(B) = {}
    BY <1>6, <1>9
  <2>3. \A s, u \in ranges : s # u => Segs(s) \cap Segs(u) = {}
    BY DEF Tiles, Disjoint
  <2> QED
    BY <1>7, <2>1, <2>2, <2>3, Zenon DEF Disjoint
<1>12. Avoids(R, Q)
  <2>1. \A s \in ranges : Segs(s) \cap P = {}
    BY DEF Tiles, Avoids
  <2>2. i \notin Segs(A) /\ i \notin Segs(B)
    BY <1>2, <1>5
  <2>3. \A s \in ranges : s # r => i \notin Segs(s)
    BY <1>9
  <2>4. Segs(A) \cap P = {} /\ Segs(B) \cap P = {}
    BY <1>6, <2>1
  <2> QED
    BY <1>7, <2>1, <2>2, <2>3, <2>4 DEF Avoids
<1>13. Covers(R, Q)
  <2> SUFFICES ASSUME NEW k \in Indexes, k \notin P, k # i, k \notin forbidden
               PROVE  \E s \in R : k \in Segs(s)
    BY DEF Covers
  <2>1. PICK s \in ranges : k \in Segs(s)
    BY DEF Tiles, Covers
  <2>2. CASE s # r
    BY <1>8, <2>1, <2>2
  <2>3. CASE s = r
    <3>1. k \in Segs(A) \/ k \in Segs(B)
      BY <1>6, <2>1, <2>3
    <3>2. \/ k \in Segs(A) /\ A \in R
          \/ k \in Segs(B) /\ B \in R
      BY <1>8, <3>1 DEF IsEmpty
    <3> QED
      BY <3>2
  <2> QED
    BY <2>2, <2>3
<1>14. Follows(R, Q, tn)
  <2> DEFINE From(s, X, f) == \/ s.lo = 0 /\ s.from = 0
                              \/ s.lo - 1 \in X /\ s.from = f[s.lo - 1]
             To(s, X, f) == \/ s.hi = Count /\ s.to = MovieDuration
                            \/ s.hi \in X /\ s.to = f[s.hi]
  <2>1. \A s \in ranges : From(s, P, tm) /\ To(s, P, tm)
    BY DEF Tiles, Follows
  <2>2. \A s \in ranges : From(s, Q, tn) /\ To(s, Q, tn)
    BY <2>1
  <2>3. From(A, Q, tn) /\ To(A, Q, tn)
    BY <2>2, <1>3
  <2>4. From(B, Q, tn) /\ To(B, Q, tn)
    <3>1. B.lo - 1 = i
      BY <1>2, <1>4
    <3> QED
      BY <2>2, <1>4, <3>1
  <2>5. \A s \in R : From(s, Q, tn) /\ To(s, Q, tn)
    BY <1>7, <2>2, <2>3, <2>4
  <2> QED
    BY <2>5 DEF Follows
<1>15. Alive(R, Q)
  <2>1. ASSUME NEW s \in ranges, s # r PROVE ~IsEmpty(s)
    <3>1. r.lo \in Segs(r) /\ r.lo \in Segs(Whole)
      BY <1>1, WholeFields, IntervalConstants DEF Segs
    <3>2. s # Whole
      BY <3>1, <1>9, <2>1
    <3> QED
      BY <3>2, <2>1 DEF Tiles, Alive
  <2> QED
    BY <1>7, <2>1 DEF Alive
<1> QED
  BY <1>10, <1>11, <1>12, <1>13, <1>14, <1>15 DEF Tiles, R

-----------------------------------------------------------------------------
\* The search for a middle reaches every index but the first of an even range.
LEMMA OutOfReach ==
    ASSUME NEW r \in Items, r.lo < r.hi, NEW i \in Segs(r),
           Distance(i, Mid(r)) > Reach(r)
    PROVE  i = r.lo /\ (r.hi - r.lo) % 2 = 0
<1>1. /\ r.lo \in Int /\ r.hi \in Int /\ i \in Int
      /\ r.lo <= i /\ i < r.hi
  BY IntervalConstants DEF Items, Segs
<1> DEFINE n == r.hi - r.lo
<1>2. n \in Nat /\ n > 0
  BY <1>1
<1>3. PICK k \in Nat : n = 2 * k \/ n = 2 * k + 1
  <2>1. n \div 2 \in Nat /\ (n = 2 * (n \div 2) \/ n = 2 * (n \div 2) + 1)
    BY <1>2
  <2> QED
    BY <2>1
<1>4. CASE n = 2 * k
  <2>1. n \div 2 = k /\ (n + 1) \div 2 = k /\ n % 2 = 0
    BY <1>3, <1>4
  <2>2. Mid(r) = r.lo + k /\ Reach(r) = k - 1
    BY <2>1, <1>1, <1>3 DEF Mid, Reach
  <2>3. k > 0 /\ r.hi = r.lo + 2 * k
    BY <1>1, <1>2, <1>3, <1>4
  <2>4. \/ i < r.lo + k /\ r.lo + k - i > k - 1
        \/ r.lo + k <= i /\ i - (r.lo + k) > k - 1
    BY <1>1, <1>3, <2>2 DEF Distance
  <2> QED
    BY <1>1, <1>3, <2>1, <2>3, <2>4
<1>5. CASE n = 2 * k + 1
  <2> HIDE DEF n
  <2>1. n \div 2 = k /\ (n + 1) \div 2 = k + 1
    <3>1. n \div 2 = k
      BY <1>3, <1>5
    <3>2. n + 1 = 2 * (k + 1)
      BY <1>3, <1>5
    <3>3. \A j \in Nat : (2 * j) \div 2 = j
      OBVIOUS
    <3> QED
      BY <1>3, <3>1, <3>2, <3>3
  <2> USE DEF n
  <2>2. Mid(r) = r.lo + k /\ Reach(r) = k
    BY <2>1 DEF Mid, Reach
  <2> QED
    BY <1>1, <1>3, <1>5, <2>2 DEF Distance
<1> QED
  BY <1>3, <1>4, <1>5

-----------------------------------------------------------------------------
\* A computation that returns has no ranges, and there is nothing to say of them.
LEMMA Returned ==
    ASSUME IInv, NEW f \in BOOLEAN, Return(f), pc \in {"loop", "fetch"}
    PROVE  IInv'
<1>1. TypeOK'
  <2>1. Whole \in Items /\ 0 \in Indexes
    BY WholeFields, IntervalConstants DEF Indexes
  <2> QED
    BY <2>1 DEF IInv, TypeOK, Return
<1>2. (Tiling /\ NeverBoth /\ Chosen /\ Stopped /\ FinishedAtOnce)'
  BY DEF IInv, Return, Tiling, NeverBoth, Chosen, Stopped, FinishedAtOnce
<1> QED
  BY <1>1, <1>2 DEF IInv

LEMMA Initially == Init => IInv
<1> SUFFICES ASSUME Init PROVE IInv
  OBVIOUS
<1>1. PICK S \in SUBSET Indexes : times \in [S -> Times]
  BY DEF Init
<1>2. DOMAIN times = S
  BY <1>1
<1>3. TypeOK
  <2>1. times \in [DOMAIN times -> Times] /\ DOMAIN times \subseteq Indexes
    BY <1>1, <1>2
  <2>2. 0 \in Indexes /\ Whole \in Items
    BY WholeFields, IntervalConstants DEF Indexes
  <2> QED
    BY <2>1, <2>2 DEF Init, TypeOK
<1>4. NeverBoth
  BY DEF Init, NeverBoth
<1> QED
  BY <1>3, <1>4 DEF Init, IInv, Tiling, Chosen, Stopped, FinishedAtOnce

LEMMA NewKeeps == IInv /\ New => IInv'
<1> SUFFICES ASSUME IInv, New PROVE IInv'
  OBVIOUS
<1>1. TypeOK'
  BY WholeFields DEF IInv, TypeOK, New
<1>2. Tiling'
  <2>1. Tiles({Whole}, {}, times)
    BY WholeTiles
  <2>2. Placed' = {} /\ ranges' = {Whole} /\ times' = times /\ forbidden' = forbidden
    BY DEF New, Placed
  <2>3. Tiles({Whole}, {}, times)'
    BY <2>1, <2>2 DEF Tiles, Proper, Disjoint, Avoids, Covers, Follows, Alive, IsEmpty
  <2> QED
    BY <2>2, <2>3 DEF Tiling
<1>3. (NeverBoth /\ Chosen /\ Stopped /\ FinishedAtOnce)'
  BY DEF IInv, New, NeverBoth, Chosen, Stopped, FinishedAtOnce
<1> QED
  BY <1>1, <1>2, <1>3 DEF IInv

LEMMA PlaceKeeps == IInv => \A i \in todo : Place(i) => IInv'
<1> SUFFICES ASSUME IInv, NEW i \in todo, Place(i) PROVE IInv'
  OBVIOUS
<1>1. PICK r \in ranges : i \in Segs(r) /\ ranges' = SplitAt(r, i, times[i])
  BY DEF Place
<1>2. Tiles(ranges, Placed, times)
  BY DEF IInv, Tiling, Place
<1>3. Placed \subseteq Indexes /\ times[i] \in Times /\ i \in DOMAIN times
  BY DEF IInv, TypeOK, Placed
<1>4. Tiles(ranges', Placed \cup {i}, times)
  BY <1>1, <1>2, <1>3, Splitting
<1>5. Placed' = Placed \cup {i} /\ times' = times /\ forbidden' = forbidden
  BY <1>3 DEF Place, Placed
<1>6. Tiling'
  BY <1>4, <1>5 DEF Tiling, Tiles, Proper, Disjoint, Avoids, Covers, Follows, Alive, IsEmpty
<1>7. TypeOK'
  BY <1>4 DEF IInv, TypeOK, Place, Tiles, Proper
<1>8. (NeverBoth /\ Chosen /\ Stopped /\ FinishedAtOnce)'
  BY <1>1 DEF IInv, Place, NeverBoth, Chosen, Stopped, FinishedAtOnce
<1> QED
  BY <1>6, <1>7, <1>8 DEF IInv

LEMMA StartLoopKeeps == IInv /\ StartLoop => IInv'
<1> SUFFICES ASSUME IInv, StartLoop PROVE IInv'
  OBVIOUS
<1>1. TypeOK'
  BY DEF IInv, TypeOK, StartLoop
<1>2. Tiling'
  <2>1. Tiles(ranges, Placed, times)
    BY DEF IInv, Tiling, StartLoop
  <2>2. UNCHANGED <<ranges, times, todo, forbidden>>
    BY DEF StartLoop
  <2> QED
    BY <2>1, <2>2
    DEF Tiling, Placed, Tiles, Proper, Disjoint, Avoids, Covers, Follows, Alive, IsEmpty
<1>3. (NeverBoth /\ Chosen /\ Stopped /\ FinishedAtOnce)'
  BY DEF IInv, StartLoop, NeverBoth, Chosen, Stopped, FinishedAtOnce
<1> QED
  BY <1>1, <1>2, <1>3 DEF IInv

LEMMA NoMiddleKeeps == IInv => \A r \in ranges : NoMiddle(r) => IInv'
<1> SUFFICES ASSUME IInv, NEW r \in ranges, NoMiddle(r) PROVE IInv'
  OBVIOUS
<1>1. TypeOK'
  BY DEF IInv, TypeOK, NoMiddle
<1>2. Tiling'
  <2>1. Tiles(ranges, Placed, times)
    BY DEF IInv, Tiling, NoMiddle
  <2>2. UNCHANGED <<ranges, times, todo, forbidden>>
    BY DEF NoMiddle
  <2> QED
    BY <2>1, <2>2
    DEF Tiling, Placed, Tiles, Proper, Disjoint, Avoids, Covers, Follows, Alive, IsEmpty
<1>3. (NeverBoth /\ Chosen /\ Stopped /\ FinishedAtOnce)'
  BY DEF IInv, NoMiddle, NeverBoth, Chosen, Stopped, FinishedAtOnce, Candidates
<1> QED
  BY <1>1, <1>2, <1>3 DEF IInv

LEMMA ChooseKeeps ==
    IInv => \A r \in ranges : \A i \in Segs(r) : Choose(r, i) => IInv'
<1> SUFFICES ASSUME IInv, NEW r \in ranges, NEW i \in Segs(r), Choose(r, i) PROVE IInv'
  OBVIOUS
<1>1. Tiles(ranges, Placed, times)
  BY DEF IInv, Tiling, Choose
<1>2. r \in Items /\ i \in Indexes
  BY <1>1, IntervalConstants DEF Tiles, Proper, Items, Segs, Indexes
<1>3. TypeOK'
  BY <1>2 DEF IInv, TypeOK, Choose
<1>4. Tiling'
  <2>1. UNCHANGED <<ranges, times, todo, forbidden>>
    BY DEF Choose
  <2> QED
    BY <1>1, <2>1
    DEF Tiling, Placed, Tiles, Proper, Disjoint, Avoids, Covers, Follows, Alive, IsEmpty
<1>5. Chosen'
  BY DEF Chosen, Choose, IsMiddle, Candidates
<1>6. (NeverBoth /\ Stopped /\ FinishedAtOnce)'
  BY DEF IInv, Choose, NeverBoth, Stopped, FinishedAtOnce
<1> QED
  BY <1>3, <1>4, <1>5, <1>6 DEF IInv

LEMMA FetchOkKeeps == IInv => \A t \in Times : FetchOk(t) => IInv'
<1> SUFFICES ASSUME IInv, NEW t \in Times, FetchOk(t) PROVE IInv'
  OBVIOUS
<1>1. Tiles(ranges, Placed, times) /\ Placed = DOMAIN times
  BY DEF IInv, TypeOK, Tiling, FetchOk, Placed
<1>2. top \in ranges /\ index \in Segs(top) /\ index \notin forbidden /\ index \in Indexes
  BY DEF IInv, TypeOK, Chosen, FetchOk, Candidates
<1>3. index \notin DOMAIN times
  BY <1>1, <1>2 DEF Tiles, Avoids
<1>4. /\ DOMAIN times' = DOMAIN times \cup {index}
      /\ times'[index] = t
      /\ \A j \in DOMAIN times : times'[j] = times[j]
  BY <1>3 DEF FetchOk
<1>5. Placed \subseteq Indexes
  BY <1>1 DEF IInv, TypeOK
<1>6. Tiles(SplitAt(top, index, t), Placed \cup {index}, times')
  BY <1>1, <1>2, <1>4, <1>5, Splitting
<1>7. /\ Placed' = Placed \cup {index}
      /\ ranges' = SplitAt(top, index, t) /\ forbidden' = forbidden
  BY <1>1, <1>4 DEF IInv, TypeOK, FetchOk, Placed
<1>8. Tiling'
  BY <1>6, <1>7 DEF Tiling, Tiles, Proper, Disjoint, Avoids, Covers, Follows, Alive, IsEmpty
<1>9. TypeOK'
  <2>1. times' \in [DOMAIN times' -> Times] /\ DOMAIN times' \subseteq Indexes
    BY <1>2, <1>4 DEF IInv, TypeOK, FetchOk
  <2>2. ranges' \subseteq Items
    BY <1>6, <1>7 DEF Tiles, Proper
  <2> QED
    BY <2>1, <2>2 DEF IInv, TypeOK, FetchOk
<1>10. (NeverBoth /\ Chosen /\ Stopped)'
  BY <1>2, <1>4 DEF IInv, FetchOk, NeverBoth, Chosen, Stopped
<1>11. FinishedAtOnce'
  BY <1>2 DEF IInv, FetchOk, FinishedAtOnce
<1> QED
  BY <1>8, <1>9, <1>10, <1>11 DEF IInv

\* A failed index is in no other range than the top, which is dropped when it
\* has nothing else.
LEMMA FetchFailsKeeps == IInv /\ FetchFails => IInv'
<1> SUFFICES ASSUME IInv, FetchFails PROVE IInv'
  OBVIOUS
<1>1. Tiles(ranges, Placed, times) /\ Placed = DOMAIN times
  BY DEF IInv, TypeOK, Tiling, FetchFails, Placed
<1>2. top \in ranges /\ index \in Segs(top) /\ index \notin forbidden /\ index \in Indexes
  BY DEF IInv, TypeOK, Chosen, FetchFails, Candidates
<1>3. index \notin DOMAIN times
  BY <1>1, <1>2 DEF Tiles, Avoids
<1>4. /\ forbidden' = forbidden \cup {index}
      /\ times' = times /\ Placed' = Placed
      /\ ranges' = IF Segs(top) \subseteq forbidden' THEN ranges \ {top} ELSE ranges
  BY DEF FetchFails, Placed
<1>5. ranges' \subseteq ranges
  BY <1>4
<1>6. Tiles(ranges, Placed, times)'
  <2>1. Proper(ranges') /\ Disjoint(ranges') /\ Avoids(ranges', Placed)
    BY <1>1, <1>5 DEF Tiles, Proper, Disjoint, Avoids
  <2>2. Follows(ranges', Placed, times)
    BY <1>1, <1>5 DEF Tiles, Follows
  <2>3. ASSUME NEW i \in Indexes \ (Placed \cup forbidden')
        PROVE  \E r \in ranges' : i \in Segs(r)
    <3>1. PICK r \in ranges : i \in Segs(r)
      BY <1>1, <1>4, <2>3 DEF Tiles, Covers
    <3>2. r \in ranges'
      BY <1>4, <2>3, <3>1
    <3> QED
      BY <3>1, <3>2
  <2>4. ASSUME NEW r \in ranges'
        PROVE  (r = Whole /\ Placed = {}) \/ ~(Segs(r) \subseteq forbidden')
    <3>1. CASE r = top
      BY <1>4, <3>1
    <3>2. CASE r # top
      <4>1. index \notin Segs(r)
        BY <1>1, <1>2, <1>5, <3>2 DEF Tiles, Disjoint
      <4>2. (r = Whole /\ Placed = {}) \/ ~(Segs(r) \subseteq forbidden)
        BY <1>1, <1>5 DEF Tiles, Alive, IsEmpty
      <4> QED
        BY <1>4, <4>1, <4>2
    <3> QED
      BY <3>1, <3>2
  <2>5. Covers(ranges, Placed)'
    BY <1>4, <2>3 DEF Covers
  <2>6. Alive(ranges, Placed)'
    BY <1>4, <2>4 DEF Alive, IsEmpty
  <2>7. (Proper(ranges) /\ Disjoint(ranges) /\ Avoids(ranges, Placed))'
    BY <1>4, <2>1 DEF Proper, Disjoint, Avoids
  <2>8. Follows(ranges, Placed, times)'
    BY <1>4, <2>2 DEF Follows
  <2> QED
    BY <2>5, <2>6, <2>7, <2>8 DEF Tiles
<1>7. TypeOK'
  BY <1>2, <1>4, <1>5 DEF IInv, TypeOK, FetchFails
<1>8. (NeverBoth /\ Chosen /\ Stopped /\ FinishedAtOnce)'
  BY <1>2, <1>3, <1>4 DEF IInv, FetchFails, NeverBoth, Chosen, Stopped, FinishedAtOnce
<1>9. Tiling'
  BY <1>6 DEF Tiling
<1> QED
  BY <1>7, <1>8, <1>9 DEF IInv

LEMMA InsertKeeps == IInv => \A i \in Indexes, t \in Times : Insert(i, t) => IInv'
<1> SUFFICES ASSUME IInv, NEW i \in Indexes, NEW t \in Times, Insert(i, t) PROVE IInv'
  OBVIOUS
<1>1. DOMAIN times' = DOMAIN times \cup {i} /\ times' \in [DOMAIN times' -> Times]
  BY DEF IInv, TypeOK, Insert
<1>2. TypeOK'
  BY <1>1 DEF IInv, TypeOK, Insert
<1>3. NeverBoth'
  BY <1>1 DEF IInv, NeverBoth, Insert
<1>4. (Tiling /\ Chosen /\ Stopped /\ FinishedAtOnce)'
  BY DEF Insert, Tiling, Chosen, Stopped, FinishedAtOnce
<1> QED
  BY <1>2, <1>3, <1>4 DEF IInv

LEMMA NextKeeps == IInv /\ [Next]_vars => IInv'
<1> SUFFICES ASSUME IInv, [Next]_vars PROVE IInv'
  OBVIOUS
<1>1. CASE New
  BY <1>1, NewKeeps
<1>2. CASE \E i \in todo : Place(i)
  BY <1>2, PlaceKeeps
<1>3. CASE StartLoop
  BY <1>3, StartLoopKeeps
<1>4. finished \in BOOLEAN
  BY DEF IInv, TypeOK
<1>5. CASE NothingLeft
  BY <1>4, <1>5, Returned DEF NothingLeft
<1>6. CASE \E r \in ranges : NoMiddle(r)
  BY <1>6, NoMiddleKeeps
<1>7. CASE \E r \in ranges : CloseEnough(r)
  BY <1>7, Returned DEF CloseEnough
<1>8. CASE \E r \in ranges : Late(r)
  BY <1>4, <1>8, Returned DEF Late
<1>9. CASE \E r \in ranges : \E i \in Segs(r) : Choose(r, i)
  BY <1>9, ChooseKeeps
<1>10. CASE \E t \in Times : FetchOk(t)
  BY <1>10, FetchOkKeeps
<1>11. CASE FetchTimeout
  BY <1>4, <1>11, Returned DEF FetchTimeout
<1>12. CASE FetchFails
  BY <1>12, FetchFailsKeeps
<1>13. CASE \E i \in Indexes, t \in Times : Insert(i, t)
  BY <1>13, InsertKeeps
<1>14. CASE UNCHANGED vars
  <2>1. UNCHANGED <<pc, times, forbidden, todo, ranges, top, index, finished>>
    BY <1>14 DEF vars
  <2>2. TypeOK' /\ (NeverBoth /\ Chosen /\ Stopped /\ FinishedAtOnce)'
    BY <2>1 DEF IInv, TypeOK, NeverBoth, Chosen, Stopped, FinishedAtOnce, Candidates
  <2>3. Tiling'
    BY <2>1
    DEF IInv, Tiling, Placed, Tiles, Proper, Disjoint, Avoids, Covers, Follows, Alive, IsEmpty
  <2> QED
    BY <2>2, <2>3 DEF IInv
<1> QED
  BY <1>1, <1>2, <1>3, <1>5, <1>6, <1>7, <1>8, <1>9, <1>10, <1>11, <1>12, <1>13, <1>14
  DEF Next, Compute

\* The inductive invariant of the search.
THEOREM Invariant == Spec => []IInv
BY Initially, NextKeeps, PTL DEF Spec

\* The variables keep their types.
THEOREM TypeCorrect == Spec => []TypeOK
BY Invariant, PTL DEF IInv

\* The ranges and the placed times partition what may still be measured
\* (Interval::new, split, remove).
THEOREM PartitionKept == Spec => []Partition
<1>1. IInv => Partition
  BY DEF IInv, Tiling, Partition, Tiles, Disjoint, Avoids, Covers
<1> QED
  BY <1>1, Invariant, PTL

\* The duration of a range is that of the gap between its neighbours.
THEOREM RangesFollow == Spec => []RangesFollowTimes
<1>1. IInv => RangesFollowTimes
  <2>1. CASE pc = "idle"
    BY <2>1 DEF IInv, TypeOK, RangesFollowTimes
  <2>2. CASE pc # "idle"
    BY <2>2 DEF IInv, Tiling, RangesFollowTimes, Tiles, Follows
  <2> QED
    BY <2>1, <2>2
<1> QED
  BY <1>1, Invariant, PTL

\* The expect of Interval::new never fails.
THEOREM AlwaysFound == Spec => []RangeFound
<1>1. IInv => RangeFound
  <2> SUFFICES ASSUME IInv, pc = "new", NEW i \in todo
               PROVE  \E r \in ranges : i \in Segs(r)
    BY DEF RangeFound
  <2>1. i \in Indexes \ (Placed \cup forbidden)
    BY DEF IInv, TypeOK, NeverBoth, Placed
  <2> QED
    BY <2>1 DEF IInv, Tiling, Tiles, Covers
<1> QED
  BY <1>1, Invariant, PTL

\* No segment is measured twice, and none again that has failed.
THEOREM Fresh == Spec => []FreshFetch
<1>1. IInv => FreshFetch
  <2> SUFFICES ASSUME IInv, pc = "fetch"
               PROVE  index \notin DOMAIN times \cup forbidden
    BY DEF FreshFetch
  <2>1. top \in ranges /\ index \in Segs(top) \ forbidden
    BY DEF IInv, Chosen, Candidates
  <2>2. Segs(top) \cap DOMAIN times = {}
    BY <2>1 DEF IInv, TypeOK, Tiling, Tiles, Avoids, Placed
  <2> QED
    BY <2>1, <2>2
<1> QED
  BY <1>1, Invariant, PTL

\* middle_index panics for one of two reasons.
THEOREM PanicCauses == Spec => []PanicCause
<1>1. IInv => PanicCause
  <2> SUFFICES ASSUME IInv, pc = "panic" PROVE PanicCause
    BY DEF PanicCause
  <2>1. top \in ranges /\ Candidates(top) = {} /\ todo = {} /\ Placed = DOMAIN times
    BY DEF IInv, TypeOK, Stopped, Placed
  <2>2. Tiles(ranges, Placed, times)
    BY DEF IInv, Tiling
  <2>3. top \in Items /\ top.lo < top.hi
    BY <2>1, <2>2 DEF Tiles, Proper
  <2>4. CASE IsEmpty(top)
    <3>1. top = Whole /\ Placed = {}
      BY <2>1, <2>2, <2>4 DEF Tiles, Alive
    <3> QED
      BY <2>1, <2>4, <3>1 DEF PanicCause, IsEmpty
  <2>5. CASE ~IsEmpty(top)
    <3>1. ASSUME NEW i \in Segs(top) \ forbidden
          PROVE  i = top.lo /\ (top.hi - top.lo) % 2 = 0
      <4>1. ~(Distance(i, Mid(top)) <= Reach(top))
        BY <2>1 DEF Candidates
      <4>2. Distance(i, Mid(top)) \in Int /\ Reach(top) \in Int
        BY <2>3, IntervalConstants DEF Distance, Mid, Reach, Items, Segs
      <4>3. Distance(i, Mid(top)) > Reach(top)
        BY <4>1, <4>2
      <4> QED
        BY <2>3, <4>3, OutOfReach
    <3>2. PICK i \in Segs(top) : i \notin forbidden
      BY <2>5 DEF IsEmpty
    <3>3. Segs(top) \ forbidden = {top.lo}
      BY <3>1, <3>2
    <3> QED
      BY <3>1, <3>2, <3>3 DEF PanicCause
  <2> QED
    BY <2>4, <2>5
<1> QED
  BY <1>1, Invariant, PTL

\* The nearest measured segments around an index of a range are at its ends.
LEMMA Neighbours ==
    ASSUME IInv, Tiles(ranges, DOMAIN times, times),
           NEW r \in ranges, NEW i \in Segs(r),
           NEW a \in Marks, NEW b \in Marks, Around(a, i, b)
    PROVE  Stamp(a) = r.from /\ Stamp(b) = r.to
<1>1. /\ r \in Items /\ r.lo \in Int /\ r.hi \in Int
      /\ 0 <= r.lo /\ r.lo <= i /\ i < r.hi /\ r.hi <= Count /\ i \in Int
  BY IntervalConstants DEF Tiles, Proper, Items, Segs
<1>2. Marks \subseteq Int /\ Count \in Nat \ {0}
  BY IntervalConstants DEF IInv, TypeOK, Marks, Indexes
<1>3. \/ r.lo = 0 /\ r.from = 0
      \/ r.lo - 1 \in DOMAIN times /\ r.from = times[r.lo - 1]
  BY DEF Tiles, Follows
<1>4. \/ r.hi = Count /\ r.to = MovieDuration
      \/ r.hi \in DOMAIN times /\ r.to = times[r.hi]
  BY DEF Tiles, Follows
<1>5. \A c \in Marks : c <= r.lo - 1 \/ r.hi <= c
  <2> SUFFICES ASSUME NEW c \in Marks, r.lo <= c, c < r.hi PROVE FALSE
    BY <1>1, <1>2
  <2>1. c \in DOMAIN times
    BY <1>1, <1>2 DEF Marks
  <2>2. c \in Segs(r)
    BY <1>1, <1>2 DEF Segs
  <2> QED
    BY <2>1, <2>2 DEF Tiles, Avoids
<1>6. r.lo - 1 \in Marks /\ r.hi \in Marks
  BY <1>1, <1>3, <1>4 DEF Marks
<1>7. a = r.lo - 1
  BY <1>1, <1>2, <1>5, <1>6 DEF Around
<1>8. b = r.hi
  BY <1>1, <1>2, <1>5, <1>6 DEF Around
<1>9. DOMAIN times \subseteq 0 .. Count - 1
  BY DEF IInv, TypeOK, Indexes
<1>10. Stamp(a) = r.from
  <2>1. CASE r.lo = 0
    BY <1>2, <1>3, <1>7, <1>9, <2>1 DEF Stamp
  <2>2. CASE r.lo # 0
    BY <1>1, <1>2, <1>3, <1>7, <1>9, <2>2 DEF Stamp
  <2> QED
    BY <2>1, <2>2
<1>11. Stamp(b) = r.to
  <2>1. CASE r.hi = Count
    BY <1>2, <1>4, <1>8, <1>9, <2>1 DEF Stamp
  <2>2. CASE r.hi # Count
    BY <1>1, <1>2, <1>4, <1>8, <1>9, <2>2 DEF Stamp
  <2> QED
    BY <2>1, <2>2
<1> QED
  BY <1>10, <1>11

\* A computation that reports it has finished leaves no gap of the target duration.
THEOREM FinishedClose == Spec => FinishedMeansClose
<1> DEFINE Gaps == \A i \in Indexes \ (DOMAIN times \cup forbidden) : \A a, b \in Marks :
                      Around(a, i, b) => Stamp(b) - Stamp(a) < Target
           Goal == pc # "idle" /\ pc' = "idle" /\ finished' => Gaps
<1>1. ASSUME IInv, [Next]_vars PROVE Goal
  <2> SUFFICES ASSUME pc # "idle", pc' = "idle", finished' PROVE Gaps
    OBVIOUS
  <2>1. CASE ranges = {}
    <3>1. todo = {} => Indexes \ (DOMAIN times \cup forbidden) = {}
      BY <1>1, <2>1 DEF IInv, Tiling, Tiles, Covers, Placed
    <3>2. pc # "new"
      BY <1>1 DEF Next, Compute, vars, New, Place, StartLoop, NothingLeft, NoMiddle,
                  CloseEnough, Late, Choose, FetchOk, FetchTimeout, FetchFails, Insert
    <3>3. todo = {}
      BY <1>1, <3>2 DEF IInv, TypeOK
    <3> QED
      BY <3>1, <3>3
  <2>2. CASE ranges # {}
    <3>1. finished = FALSE
      BY <1>1, <2>2 DEF IInv, TypeOK, FinishedAtOnce
    <3>2. PICK r \in ranges : CloseEnough(r)
      BY <1>1, <2>2, <3>1
      DEF Next, Compute, vars, New, Place, StartLoop, NothingLeft, NoMiddle, Late, Choose,
          FetchOk, FetchTimeout, FetchFails, Insert, Return
    <3>3. Tiles(ranges, DOMAIN times, times)
      BY <1>1, <3>2 DEF IInv, TypeOK, Tiling, CloseEnough, Placed
    <3>4. ASSUME NEW i \in Indexes \ (DOMAIN times \cup forbidden),
                 NEW a \in Marks, NEW b \in Marks, Around(a, i, b)
          PROVE  Stamp(b) - Stamp(a) < Target
      <4>1. PICK s \in ranges : i \in Segs(s)
        BY <3>3 DEF Tiles, Covers
      <4>2. Stamp(a) = s.from /\ Stamp(b) = s.to
        BY <1>1, <3>3, <3>4, <4>1, Neighbours
      <4>3. Duration(s) <= Duration(r) /\ Duration(r) < Target
        BY <3>2 DEF CloseEnough, IsTop
      <4>4. /\ s.from \in Int /\ s.to \in Int /\ r.from \in Int /\ r.to \in Int
            /\ Target \in Int
        <5>1. s \in Items /\ r \in Items
          BY <3>3 DEF Tiles, Proper
        <5>2. Stamps \subseteq Int /\ Target \in Int
          BY IntervalConstants DEF Stamps
        <5> QED
          BY <5>1, <5>2 DEF Items
      <4>5. s.to - s.from <= Duration(s) /\ Duration(s) \in Int /\ Duration(r) \in Int
        BY <4>4 DEF Duration
      <4>6. s.to - s.from < Target
        BY <4>3, <4>4, <4>5
      <4> QED
        BY <4>2, <4>6
    <3> QED
      BY <3>4
  <2> QED
    BY <2>1, <2>2
<1>2. IInv /\ [Next]_vars => [Goal]_vars
  BY <1>1
<1> QED
  BY <1>2, Invariant, PTL DEF Spec, FinishedMeansClose

-----------------------------------------------------------------------------
(* A computation ends, as far as it is not a matter of fairness.           *)

\* What may still be measured.
Left == Indexes \ (DOMAIN times \cup forbidden)

\* How many steps a computation still makes at most before it returns or
\* panics: two for each segment left, one for each time to be placed.
Rank ==
    Cardinality(todo) + 2 * Cardinality(Left)
        + (IF pc = "new" THEN 2 ELSE IF pc = "loop" THEN 1 ELSE 0)

\* Every step of a computation brings it nearer to its end, which is never
\* further away than three steps for each segment.
Shortens ==
    [][pc # "idle" => /\ Rank \in 0 .. 3 * Count + 2
                      /\ pc' \in {"idle", "panic"} \/ Rank' < Rank]_vars

\* A computation always has a next step: the first time to be placed has its
\* range, and some range is on top of the heap, which panics or has a middle.
GoesOn ==
    /\ pc = "new" /\ todo # {} =>
           \E i \in todo, r \in ranges : (\A j \in todo : i <= j) /\ i \in Segs(r)
    /\ pc = "loop" /\ ranges # {} =>
           \E r \in ranges :
               IsTop(r) /\ (Candidates(r) = {} \/ \E i \in Segs(r) : IsMiddle(r, i))

\* Sets of indexes are finite.
LEMMA IndexSets ==
    \A S \in SUBSET Indexes : IsFiniteSet(S) /\ Cardinality(S) \in 0 .. Count
<1>1. IsFiniteSet(Indexes) /\ Cardinality(Indexes) = Count
  BY IntervalConstants, FS_Interval DEF Indexes
<1> QED
  BY <1>1, FS_Subset, FS_CardinalityType, IntervalConstants

LEMMA RankBounds ==
    ASSUME TypeOK
    PROVE  Rank \in 0 .. 3 * Count + 2
<1>1. todo \subseteq Indexes /\ Left \subseteq Indexes
  BY DEF TypeOK, Left
<1>2. Cardinality(todo) \in 0 .. Count /\ Cardinality(Left) \in 0 .. Count
  BY <1>1, IndexSets
<1> QED
  BY <1>2, IntervalConstants DEF Rank

\* A segment that was measured, or has failed, is not left.
LEMMA OneLess ==
    ASSUME IInv, pc = "fetch", Left' = Left \ {index}
    PROVE  Cardinality(Left') = Cardinality(Left) - 1
<1>1. index \in Left
  <2>1. top \in ranges /\ index \in Segs(top) \ forbidden /\ index \in Indexes
    BY DEF IInv, TypeOK, Chosen, Candidates
  <2>2. Segs(top) \cap DOMAIN times = {}
    BY <2>1 DEF IInv, TypeOK, Tiling, Tiles, Avoids, Placed
  <2> QED
    BY <2>1, <2>2 DEF Left
<1>2. IsFiniteSet(Left)
  BY IndexSets DEF Left
<1> QED
  BY <1>1, <1>2, FS_RemoveElement, Zenon

\* The search ends: every computation runs out of steps, whatever it measures.
THEOREM StepsRunOut == Spec => Shortens
<1> DEFINE Goal == pc # "idle" => /\ Rank \in 0 .. 3 * Count + 2
                                  /\ pc' \in {"idle", "panic"} \/ Rank' < Rank
<1>1. ASSUME IInv, [Next]_vars PROVE [Goal]_vars
  <2> SUFFICES ASSUME pc # "idle", Next, pc' \notin {"idle", "panic"}
               PROVE  Rank' < Rank
    BY <1>1, RankBounds DEF IInv
  <2>1. /\ todo \subseteq Indexes /\ Left \subseteq Indexes
        /\ Cardinality(todo) \in Nat /\ Cardinality(Left) \in Nat
    BY <1>1, IndexSets DEF IInv, TypeOK, Left
  <2>2. ASSUME NEW i \in todo, Place(i) PROVE Rank' < Rank
    <3>1. IsFiniteSet(todo) /\ todo' = todo \ {i} /\ Left' = Left
          /\ pc = "new" /\ pc' = "new"
      BY <2>1, <2>2, IndexSets DEF Place, Left
    <3>2. Cardinality(todo') = Cardinality(todo) - 1
      BY <3>1, FS_RemoveElement
    <3> QED
      BY <2>1, <3>1, <3>2 DEF Rank
  <2>3. CASE StartLoop
    BY <2>1, <2>3 DEF StartLoop, Rank, Left
  <2>4. ASSUME NEW r \in ranges, NEW i \in Segs(r), Choose(r, i) PROVE Rank' < Rank
    BY <2>1, <2>4 DEF Choose, Rank, Left
  <2>5. CASE FetchFails \/ \E t \in Times : FetchOk(t)
    <3>1. Left' = Left \ {index} /\ pc = "fetch" /\ pc' = "loop" /\ todo' = todo
      BY <2>5 DEF FetchFails, FetchOk, Left
    <3>2. Cardinality(Left') = Cardinality(Left) - 1
      BY <1>1, <3>1, OneLess
    <3> QED
      BY <2>1, <3>1, <3>2 DEF Rank
  <2> QED
    BY <2>2, <2>3, <2>4, <2>5
    DEF Next, Compute, New, NothingLeft, NoMiddle, CloseEnough, Late, FetchTimeout,
        Return, Insert
<1>2. IInv /\ [Next]_vars => [Goal]_vars
  BY <1>1
<1> QED
  BY <1>2, Invariant, PTL DEF Spec, Shortens

\* Of things that have a number each, one has the least.
LEMMA LeastOf ==
    ASSUME NEW S, S # {}, NEW f \in [S -> Nat]
    PROVE  \E m \in S : \A x \in S : f[m] <= f[x]
<1> DEFINE T == {f[x] : x \in S}
<1>1. T \subseteq Nat /\ T # {}
  OBVIOUS
<1>2. OpToRel(<, Nat) = {p \in Nat \X Nat : p[1] < p[2]}
  BY DEF OpToRel
<1>3. PICK n \in T : \A k \in T : ~ (<<k, n>> \in {p \in Nat \X Nat : p[1] < p[2]})
  BY <1>1, <1>2, NatLessThanWellFounded, WFMin
<1>4. ASSUME NEW k \in T PROVE n <= k
  <2>1. n \in Nat /\ k \in Nat
    BY <1>1
  <2> HIDE DEF T
  <2>2. ~ (k < n)
    BY <1>3, <2>1
  <2> QED
    BY <2>1, <2>2
<1> QED
  BY <1>4

\* There are at most as many ranges as segments.
LEMMA RangesFinite ==
    ASSUME IInv, pc # "idle"
    PROVE  IsFiniteSet(ranges)
<1> DEFINE f == [r \in ranges |-> r.lo]
<1>1. Tiles(ranges, Placed, times)
  BY DEF IInv, Tiling
<1>2. \A r \in ranges : r.lo \in 0 .. Count /\ r.lo \in Segs(r)
  BY <1>1, IntervalConstants DEF Tiles, Proper, Items, Segs
<1>3. f \in Injection(ranges, 0 .. Count)
  <2>1. f \in [ranges -> 0 .. Count]
    BY <1>2
  <2>2. \A r, s \in ranges : f[r] = f[s] => r = s
    BY <1>1, <1>2 DEF Tiles, Disjoint
  <2> QED
    BY <2>1, <2>2 DEF Injection, IsInjective
<1>4. IsFiniteSet(0 .. Count)
  BY FS_Interval, IntervalConstants
<1> QED
  BY <1>3, <1>4, FS_Injection

\* One of them is the longest, which has fewest that are longer.
LEMMA TopExists ==
    ASSUME IInv, pc # "idle", ranges # {}
    PROVE  \E r \in ranges : IsTop(r)
<1> DEFINE Longer(r) == {s \in ranges : Duration(s) > Duration(r)}
           f == [r \in ranges |-> Cardinality(Longer(r))]
<1>1. \A r \in ranges : IsFiniteSet(Longer(r)) /\ Cardinality(Longer(r)) \in Nat
  BY RangesFinite, FS_Subset, FS_CardinalityType
<1>2. f \in [ranges -> Nat]
  BY <1>1
<1> HIDE DEF f
<1>3. PICK r \in ranges : \A s \in ranges : f[r] <= f[s]
  BY <1>2, LeastOf
<1>4. \A s \in ranges : Duration(s) \in Nat
  <2>1. \A s \in ranges : s.from \in Int /\ s.to \in Int
    BY IntervalConstants DEF IInv, TypeOK, Items, Stamps
  <2> QED
    BY <2>1 DEF Duration
<1>5. ASSUME NEW s \in ranges PROVE Duration(s) <= Duration(r)
  <2> SUFFICES ASSUME Duration(s) > Duration(r) PROVE FALSE
    BY <1>4
  <2>1. Longer(s) \in SUBSET Longer(r) /\ s \in Longer(r) /\ s \notin Longer(s)
    BY <1>4
  <2>2. Cardinality(Longer(s)) <= Cardinality(Longer(r))
        /\ Cardinality(Longer(s)) # Cardinality(Longer(r))
    BY <1>1, <2>1, FS_Subset
  <2>3. f[r] = Cardinality(Longer(r)) /\ f[s] = Cardinality(Longer(s))
    BY DEF f
  <2> QED
    BY <1>1, <1>3, <2>2, <2>3
<1> QED
  BY <1>5 DEF IsTop

\* Of the candidates one is nearest to the middle, the lower one of two.
LEMMA MiddleExists ==
    ASSUME NEW r \in Items, Candidates(r) # {}
    PROVE  \E i \in Segs(r) : IsMiddle(r, i)
<1> DEFINE C == Candidates(r)
           f == [i \in C |-> Distance(i, Mid(r))]
           B == {i \in C : \A j \in C : f[i] <= f[j]}
           g == [i \in B |-> i]
<1>1. C \subseteq Segs(r) /\ C \subseteq Nat /\ Mid(r) \in Int
  BY IntervalConstants DEF Candidates, Segs, Items, Mid
<1>2. f \in [C -> Nat]
  BY <1>1 DEF Distance
<1>3. B # {}
  <2> HIDE DEF f, C
  <2> QED
    BY <1>2, LeastOf DEF C
<1>4. g \in [B -> Nat]
  BY <1>1
<1>5. PICK i \in B : \A j \in B : g[i] <= g[j]
  <2> HIDE DEF B, g
  <2> QED
    BY <1>3, <1>4, LeastOf
<1>6. ASSUME NEW j \in C
      PROVE  \/ Distance(i, Mid(r)) < Distance(j, Mid(r))
             \/ Distance(i, Mid(r)) = Distance(j, Mid(r)) /\ i <= j
  <2>1. f[i] <= f[j] /\ f[i] \in Nat /\ f[j] \in Nat
    BY <1>2
  <2>2. f[i] = f[j] => i <= j
    <3>1. f[i] = f[j] => j \in B
      OBVIOUS
    <3> QED
      BY <1>5, <3>1
  <2>3. f[i] = Distance(i, Mid(r)) /\ f[j] = Distance(j, Mid(r))
    OBVIOUS
  <2> HIDE DEF f, B
  <2> QED
    BY <2>1, <2>2, <2>3
<1> QED
  BY <1>1, <1>6 DEF IsMiddle

\* No computation stops half-way: with StepsRunOut, all that ComputationEnds needs
\* beside fairness and an answer of get_segment_time.
THEOREM NeverStopsShort == Spec => []GoesOn
<1>1. ASSUME IInv PROVE GoesOn
  <2>1. ASSUME pc = "new", todo # {}
        PROVE  \E i \in todo, r \in ranges : (\A j \in todo : i <= j) /\ i \in Segs(r)
    <3> DEFINE f == [i \in todo |-> i]
    <3>1. f \in [todo -> Nat]
      BY <1>1, IntervalConstants DEF IInv, TypeOK, Indexes
    <3>2. PICK i \in todo : \A j \in todo : f[i] <= f[j]
      <4> HIDE DEF f
      <4> QED
        BY <2>1, <3>1, LeastOf
    <3>3. i \in Indexes \ (Placed \cup forbidden)
      BY <1>1 DEF IInv, TypeOK, NeverBoth, Placed
    <3>4. PICK r \in ranges : i \in Segs(r)
      BY <1>1, <2>1, <3>3 DEF IInv, Tiling, Tiles, Covers
    <3> QED
      BY <3>2, <3>4
  <2>2. ASSUME pc = "loop", ranges # {}
        PROVE  \E r \in ranges :
                  IsTop(r) /\ (Candidates(r) = {} \/ \E i \in Segs(r) : IsMiddle(r, i))
    <3>1. PICK r \in ranges : IsTop(r)
      BY <1>1, <2>2, TopExists
    <3>2. r \in Items
      BY <1>1 DEF IInv, TypeOK
    <3> QED
      BY <3>1, <3>2, MiddleExists
  <2> QED
    BY <2>1, <2>2 DEF GoesOn
<1>2. IInv => GoesOn
  BY <1>1
<1> QED
  BY <1>2, Invariant, PTL
=============================================================================
