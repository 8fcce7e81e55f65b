------------------------ MODULE MetadataQueue_proofs ------------------------
(***************************************************************************)
(* Proofs about MetadataQueue, for any number of calls, players, playlists *)
(* and scrapes, and any number of faults.                                  *)
(*                                                                         *)
(* Every entry is in one place (QueueInv).  Of a player that has not raced *)
(* the entries are recorded in the order of their scrapes (InOrder), so    *)
(* that the row is that of the last one recorded, or an entry is pending   *)
(* that sets it right, whatever the fetches of times have done             *)
(* (RowLatest).  And every file, every call and the playlist scraped last  *)
(* are accounted for: of the playlist recorded or of one still to be       *)
(* recorded (Accounted).                                                   *)
(***************************************************************************)
EXTENDS MetadataQueue, SequenceTheorems, FiniteSetTheorems, TLAPS

PcSteps == {"idle", "drain", "join", "download",
            "times", "purge", "rows", "insert", "put"}
ItemSteps == {"read", "set", "delete", "rows", "insert"}
Roles == {"none", "create", "slow"}

Items == [entry : Entry, step : ItemSteps]

Distinct(q) == \A i, j \in DOMAIN q : q[i] = q[j] => i = j

\* The entries of a call are distinct, and finitely many.
ItemsDistinct(c) ==
    /\ \A i, j \in items[c] : i.entry = j.entry => i = j
    /\ IsFiniteSet(items[c])

\* The scrapes so far number the entries: the next one's are new.
ScrapesNumbered ==
    /\ pushed \subseteq Entry /\ \A e \in pushed : e.scrape <= scrapes
    /\ \A d, e \in pushed : d.key = e.key /\ d.scrape = e.scrape => d = e

\* A call that goes on has a playlist.
HasPlaylist == \A c \in Calls : pc[c] # "idle" => got[c] # NoMeta

QueueInv ==
    /\ TypeOK /\ NoEntryLost /\ ScrapesNumbered /\ HasPlaylist
    /\ \A c \in Calls : IsFiniteSet(items[c])

-----------------------------------------------------------------------------
(* Sequences.                                                              *)

LEMMA Appended ==
    ASSUME NEW S, NEW q \in Seq(S), NEW T \in SUBSET S, IsFiniteSet(T),
           NEW s \in Orders(T)
    PROVE  /\ q \o s \in Seq(S)
           /\ Range(q \o s) = Range(q) \cup T
           /\ Distinct(q) /\ Range(q) \cap T = {} => Distinct(q \o s)
<1> DEFINE n == Cardinality(T)
<1>1. n \in Nat
  BY FS_CardinalityType
<1>2. /\ s \in [1 .. n -> T] /\ \A e \in T : \E i \in 1 .. n : s[i] = e
      /\ \A i, j \in 1 .. n : s[i] = s[j] => i = j
  BY DEF Orders, Bijection, Injection, Surjection, IsInjective
<1> HIDE DEF n
<1>3. s \in Seq(S) /\ Len(s) = n /\ DOMAIN s = 1 .. n
  <2>1. s \in [1 .. n -> S]
    BY <1>2
  <2>2. s \in Seq(S)
    BY <1>1, <2>1, IsASeq
  <2>3. QED
    BY <1>1, <2>1, <2>2, LenProperties
<1>4. Range(s) = T
  BY <1>2, <1>3 DEF Range
<1>5. Range(q \o s) = Range(q) \cup T
  BY <1>3, <1>4, RangeConcatenation
<1>6. ASSUME Distinct(q), Range(q) \cap T = {}
      PROVE  Distinct(q \o s)
  <2>1. /\ Len(q) \in Nat /\ DOMAIN q = 1 .. Len(q)
        /\ DOMAIN (q \o s) = 1 .. Len(q) + n
        /\ \A i \in 1 .. Len(q) + n :
               (q \o s)[i] = IF i <= Len(q) THEN q[i] ELSE s[i - Len(q)]
    <3>1. Len(q) \in Nat /\ DOMAIN q = 1 .. Len(q)
      BY LenProperties
    <3>2. /\ q \o s \in Seq(S) /\ Len(q \o s) = Len(q) + Len(s)
          /\ \A i \in 1 .. Len(q) + Len(s) :
                 (q \o s)[i] = IF i <= Len(q) THEN q[i] ELSE s[i - Len(q)]
      BY <1>3, ConcatProperties
    <3>3. DOMAIN (q \o s) = 1 .. Len(q \o s)
      BY <3>2, LenProperties
    <3>4. Len(s) = n
      BY <1>3
    <3>5. QED
      BY <3>1, <3>2, <3>3, <3>4
  <2> SUFFICES ASSUME NEW i \in 1 .. Len(q) + n, NEW j \in 1 .. Len(q) + n,
                      (q \o s)[i] = (q \o s)[j]
               PROVE  i = j
    BY <2>1 DEF Distinct
  <2>2. CASE i <= Len(q) /\ j <= Len(q)
    BY <1>1, <1>6, <2>1, <2>2 DEF Distinct
  <2>3. CASE i > Len(q) /\ j > Len(q)
    <3>1. i - Len(q) \in 1 .. n /\ j - Len(q) \in 1 .. n
      BY <1>1, <2>1, <2>3
    <3>2. s[i - Len(q)] = s[j - Len(q)]
      BY <1>1, <2>1, <2>3
    <3>3. i - Len(q) = j - Len(q)
      BY <1>2, <3>1, <3>2
    <3>4. QED
      BY <1>1, <2>1, <3>3
  <2>4. \A x \in 1 .. Len(q), y \in 1 .. n : q[x] # s[y]
    BY <1>2, <1>6, <2>1 DEF Range
  <2>5. CASE i <= Len(q) /\ j > Len(q)
    <3>1. i \in 1 .. Len(q) /\ j - Len(q) \in 1 .. n
      BY <1>1, <2>1, <2>5
    <3>2. QED
      BY <1>1, <2>1, <2>4, <2>5, <3>1
  <2>6. CASE i > Len(q) /\ j <= Len(q)
    <3>1. j \in 1 .. Len(q) /\ i - Len(q) \in 1 .. n
      BY <1>1, <2>1, <2>6
    <3>2. QED
      BY <1>1, <2>1, <2>4, <2>6, <3>1
  <2>7. QED
    BY <1>1, <2>1, <2>2, <2>3, <2>5, <2>6
<1>7. QED
  BY <1>3, <1>5, <1>6, ConcatProperties

LEMMA Popped ==
    ASSUME NEW S, NEW q \in Seq(S), q # <<>>
    PROVE  /\ Head(q) \in S /\ Tail(q) \in Seq(S)
           /\ Range(q) = {Head(q)} \cup Range(Tail(q))
           /\ Distinct(q) => Distinct(Tail(q)) /\ Head(q) \notin Range(Tail(q))
<1>1. /\ Head(q) \in S /\ Tail(q) \in Seq(S) /\ Len(q) \in Nat \ {0}
      /\ Len(Tail(q)) = Len(q) - 1 /\ DOMAIN q = 1 .. Len(q)
      /\ DOMAIN Tail(q) = 1 .. Len(q) - 1 /\ Head(q) = q[1]
      /\ \A i \in 1 .. Len(q) - 1 : Tail(q)[i] = q[i + 1]
  BY HeadTailProperties, LenProperties, EmptySeq
<1>2. \A i \in 2 .. Len(q) : q[i] = Tail(q)[i - 1] /\ i - 1 \in 1 .. Len(q) - 1
  BY <1>1
<1>3. Range(q) \subseteq {Head(q)} \cup Range(Tail(q))
  <2> SUFFICES ASSUME NEW i \in 1 .. Len(q) PROVE q[i] \in {Head(q)} \cup Range(Tail(q))
    BY <1>1 DEF Range
  <2>1. i = 1 \/ i \in 2 .. Len(q)
    BY <1>1
  <2>2. QED
    BY <1>1, <1>2, <2>1 DEF Range
<1>4. {Head(q)} \cup Range(Tail(q)) \subseteq Range(q)
  <2>1. 1 \in 1 .. Len(q) /\ \A i \in 1 .. Len(q) - 1 : i + 1 \in 1 .. Len(q)
    BY <1>1
  <2>2. QED
    BY <1>1, <2>1 DEF Range
<1>5. ASSUME Distinct(q) PROVE Distinct(Tail(q)) /\ Head(q) \notin Range(Tail(q))
  <2>1. /\ 1 \in 1 .. Len(q)
        /\ \A i \in 1 .. Len(q) - 1 : i + 1 \in 1 .. Len(q) /\ i + 1 # 1 /\ i \in Int
    BY <1>1
  <2>2. \A i, j \in 1 .. Len(q) - 1 : Tail(q)[i] = Tail(q)[j] => i + 1 = j + 1
    BY <1>1, <1>5, <2>1 DEF Distinct
  <2>3. Distinct(Tail(q))
    BY <1>1, <2>1, <2>2 DEF Distinct
  <2>4. \A i \in 1 .. Len(q) - 1 : Tail(q)[i] # Head(q)
    BY <1>1, <1>5, <2>1 DEF Distinct
  <2>5. QED
    BY <1>1, <2>3, <2>4 DEF Range
<1>6. QED
  BY <1>1, <1>3, <1>4, <1>5

-----------------------------------------------------------------------------
(* Where the entries are: R in the queue, E[c] with call c, D recorded, P  *)
(* all of them.                                                            *)

Placed(R, E, D, P) ==
    /\ \A e : e \in P <=> e \in D \/ e \in R \/ \E c \in Calls : e \in E[c]
    /\ \A e \in D : e \notin R /\ \A c \in Calls : e \notin E[c]
    /\ \A c \in Calls : \A e \in E[c] : e \notin R
    /\ \A c, o \in Calls : \A e \in E[c] : e \in E[o] => c = o

Held == [c \in Calls |-> Entries(c)]

Exactly ==
    /\ Placed(Range(queue), Held, recorded, pushed)
    /\ Distinct(queue)
    /\ \A c \in Calls : \A i, j \in items[c] : i.entry = j.entry => i = j

LEMMA PlacedInv == NoEntryLost <=> Exactly
<1>1. \A e : e \in Pending <=> e \in Range(queue) \/ \E c \in Calls : e \in Held[c]
  BY DEF Pending, Held
<1>2. /\ pushed = recorded \cup Pending <=>
             \A e : e \in pushed <=> e \in recorded \/ e \in Pending
      /\ recorded \cap Pending = {} <=> \A e \in recorded : e \notin Pending
      /\ \A c \in Calls : Entries(c) \cap Range(queue) = {} <=>
                              \A e \in Held[c] : e \notin Range(queue)
      /\ \A c, o \in Calls : (Entries(c) \cap Entries(o) # {} => c = o) <=>
                                 \A e \in Held[c] : e \in Held[o] => c = o
  BY DEF Held
<1>3. QED
  BY <1>1, <1>2 DEF Exactly, NoEntryLost, Placed, Distinct

LEMMA PlacedNext == Exactly' => NoEntryLost'
<1>1. QED
  BY PlacedInv, PTL

LEMMA PlacedPop ==
    ASSUME NEW S, NEW E, NEW D, NEW P, NEW F, NEW c \in Calls, NEW h,
           Placed({h} \cup S, E, D, P), h \notin S,
           F[c] = E[c] \cup {h}, \A o \in Calls : o # c => F[o] = E[o]
    PROVE  Placed(S, F, D, P)
<1>1. \A o \in Calls : \A e : e \in F[o] <=> e \in E[o] \/ (o = c /\ e = h)
  OBVIOUS
<1>2. h \notin D /\ (\A o \in Calls : h \notin E[o])
      /\ \A e : e \in {h} \cup S <=> e = h \/ e \in S
  BY DEF Placed
<1>3. QED
  BY <1>1, <1>2 DEF Placed

LEMMA PlacedRecord ==
    ASSUME NEW R, NEW E, NEW D, NEW P, NEW F, NEW c \in Calls, NEW e \in E[c],
           Placed(R, E, D, P),
           F[c] = E[c] \ {e}, \A o \in Calls : o # c => F[o] = E[o]
    PROVE  Placed(R, F, D \cup {e}, P)
<1>1. \A o \in Calls : \A x : x \in F[o] <=> x \in E[o] /\ ~(o = c /\ x = e)
  OBVIOUS
<1>2. /\ e \notin R /\ \A o \in Calls : e \in E[o] => o = c
      /\ \A x : x \in D \cup {e} <=> x \in D \/ x = e
  BY DEF Placed
<1>3. QED
  BY <1>1, <1>2 DEF Placed

LEMMA PlacedBack ==
    ASSUME NEW R, NEW E, NEW D, NEW P, NEW F, NEW c \in Calls,
           Placed(R, E, D, P),
           F[c] = {}, \A o \in Calls : o # c => F[o] = E[o]
    PROVE  Placed(R \cup E[c], F, D, P)
<1>1. \A o \in Calls : \A x : x \in F[o] <=> x \in E[o] /\ o # c
  OBVIOUS
<1>2. \A x : x \in R \cup E[c] <=> x \in R \/ x \in E[c]
  OBVIOUS
<1>3. QED
  BY <1>1, <1>2 DEF Placed

LEMMA PlacedScrape ==
    ASSUME NEW R, NEW E, NEW D, NEW P, NEW N,
           Placed(R, E, D, P), \A e \in N : e \notin P
    PROVE  Placed(R \cup N, E, D, P \cup N)
<1>1. \A x : (x \in R \cup N <=> x \in R \/ x \in N)
             /\ (x \in P \cup N <=> x \in P \/ x \in N)
  OBVIOUS
<1>2. \A e \in N : e \notin D /\ e \notin R /\ \A c \in Calls : e \notin E[c]
  BY DEF Placed
<1>3. QED
  BY <1>1, <1>2 DEF Placed

-----------------------------------------------------------------------------
(* Steps.                                                                  *)

LEMMA ItemFields ==
    ASSUME NEW e \in Entry, NEW step \in ItemSteps
    PROVE  /\ Item(e, step) \in Items
           /\ Item(e, step).entry = e /\ Item(e, step).step = step
  BY DEF Item, Items

LEMMA InitInv == Init => QueueInv
<1> SUFFICES ASSUME Init PROVE QueueInv
  OBVIOUS
<1>1. TypeOK
  BY QueueConstants DEF Init, TypeOK
<1>2. /\ \A c \in Calls : items[c] = {} /\ Entries(c) = {}
      /\ Range(queue) = {} /\ pushed = {} /\ recorded = {}
  BY DEF Init, Entries, Range
<1>3. NoEntryLost
  BY <1>2 DEF Init, NoEntryLost, Pending
<1>4. QED
  BY <1>1, <1>2, <1>3, FS_EmptySet DEF Init, QueueInv, ScrapesNumbered, HasPlaylist

LEMMA GotoType ==
    ASSUME TypeOK, NEW c \in Calls, NEW step \in PcSteps, Goto(c, step)
    PROVE  /\ pc' \in [Calls -> PcSteps]
           /\ HasPlaylist /\ UNCHANGED got /\ (pc[c] # "idle" \/ step = "idle")
              => HasPlaylist'
  BY DEF TypeOK, Goto, PcSteps, HasPlaylist

\* A step that moves no entry.
LEMMA NothingMoved ==
    ASSUME QueueInv, TypeOK', HasPlaylist',
           UNCHANGED <<queue, items, scrapes, pushed, recorded>>
    PROVE  QueueInv'
<1>1. NoEntryLost'
  BY DEF QueueInv, NoEntryLost, Pending, Entries
<1>2. QED
  BY <1>1 DEF QueueInv, ScrapesNumbered

LEMMA AnswerType ==
    ASSUME TypeOK, NEW c \in Calls, NEW k \in Keys,
           NEW playlist \in Metas \cup {NoMeta}, Answer(c, k, playlist)
    PROVE  /\ key' \in [Calls -> Keys] /\ got' \in [Calls -> Metas \cup {NoMeta}]
           /\ pc' \in [Calls -> PcSteps]
           /\ HasPlaylist => HasPlaylist'
<1>1. PICK step \in PcSteps : Goto(c, step)
  BY DEF Answer, PcSteps
<1>2. HasPlaylist => HasPlaylist'
  BY DEF Answer, Goto, HasPlaylist, TypeOK
<1>3. QED
  BY <1>1, <1>2, GotoType DEF Answer, TypeOK

LEMMA CachedInv ==
    ASSUME QueueInv, NEW c \in Calls, NEW k \in Keys, Cached(c, k)
    PROVE  QueueInv'
<1>1. MovieOf[k] \in Movies /\ k \in KeysOf(MovieOf[k])
  BY DEF Movies, KeysOf
<1>2. players[MovieOf[k]][k] \in Metas \cup {NoMeta}
  BY <1>1 DEF Cached, QueueInv, TypeOK
<1>3. /\ Answer(c, k, players[MovieOf[k]][k])
      /\ UNCHANGED <<players, queue, database, items, fetch, scrapes, pushed, recorded>>
  BY DEF Cached, history
<1>4. TypeOK'
  BY <1>2, <1>3, AnswerType DEF QueueInv, TypeOK, PcSteps, database, fetch, Movies, KeysOf
<1>5. HasPlaylist'
  BY <1>2, <1>3, AnswerType DEF QueueInv
<1>6. QED
  BY <1>3, <1>4, <1>5, NothingMoved

LEMMA ScrapeInv ==
    ASSUME QueueInv, NEW c \in Calls, NEW k \in Keys, Scrape(c, k)
    PROVE  QueueInv'
<1>0. /\ TypeOK /\ NoEntryLost /\ ScrapesNumbered
      /\ scrapes \in 0 .. MaxScrapes /\ MaxScrapes \in Nat
      /\ queue \in Seq(Entry)
  BY QueueConstants DEF QueueInv, TypeOK
<1> DEFINE m == MovieOf[k]
<1>1. PICK f \in [KeysOf(m) -> Metas \cup {NoMeta}] :
          LET new == {[key |-> o, scrape |-> scrapes + 1, meta |-> f[o]] :
                      o \in {x \in DOMAIN f : f[x] # NoMeta}}
          IN  /\ \E s \in Orders(new) : queue' = queue \o s
              /\ players' = [players EXCEPT ![m] = f]
              /\ Answer(c, k, f[k])
              /\ pushed' = pushed \cup new
  BY DEF Scrape
<1> DEFINE with == {x \in KeysOf(m) : f[x] # NoMeta}
           new == {[key |-> o, scrape |-> scrapes + 1, meta |-> f[o]] : o \in with}
<1>2. /\ with \subseteq Keys
      /\ \A o \in with : f[o] \in Metas
  BY DEF KeysOf
<1>3. scrapes + 1 \in 1 .. MaxScrapes
  BY <1>0 DEF Scrape
<1>4. new \in SUBSET Entry /\ \A e \in new : e.scrape = scrapes + 1
  BY <1>2, <1>3 DEF Entry
<1>5. IsFiniteSet(new)
  <2> DEFINE g == [o \in with |-> [key |-> o, scrape |-> scrapes + 1, meta |-> f[o]]]
  <2>1. IsFiniteSet(with)
    BY <1>2, QueueConstants, FS_Subset
  <2>2. g \in Surjection(with, new)
    BY DEF Surjection
  <2>3. QED
    <3> HIDE DEF g, with, new
    <3>1. QED
      BY <2>1, <2>2, FS_Surjection
<1>6. PICK s \in Orders(new) : queue' = queue \o s
  BY <1>1
<1>7. /\ players' = [players EXCEPT ![m] = f] /\ Answer(c, k, f[k])
      /\ pushed' = pushed \cup new
  BY <1>1
<1>8. \A e \in new : e \notin pushed
  BY <1>0, <1>4 DEF ScrapesNumbered
<1> HIDE DEF new
<1>9. /\ queue' \in Seq(Entry) /\ Range(queue') = Range(queue) \cup new
      /\ Distinct(queue) /\ Range(queue) \cap new = {} => Distinct(queue')
  BY <1>0, <1>4, <1>5, <1>6, Appended
<1>10. Range(queue) \cap new = {} /\ Distinct(queue)
  BY <1>0, <1>8 DEF NoEntryLost, Pending, Distinct
<1>11. UNCHANGED <<items, recorded, database, fetch>> /\ scrapes' = scrapes + 1
  BY DEF Scrape
<1>12. Held' = Held
  BY <1>11 DEF Held, Entries
<1>13. NoEntryLost'
  <2>1. Placed(Range(queue) \cup new, Held, recorded, pushed \cup new)
    BY <1>0, <1>8, PlacedInv, PlacedScrape DEF Exactly
  <2>2. Placed(Range(queue'), Held', recorded', pushed')
    BY <1>7, <1>9, <1>11, <1>12, <2>1
  <2>3. \A o \in Calls : \A i, j \in items'[o] : i.entry = j.entry => i = j
    BY <1>0, <1>11, PlacedInv DEF Exactly
  <2>4. (Placed(Range(queue), Held, recorded, pushed))'
    BY <2>2 DEF Placed
  <2>5. Exactly'
    BY <1>9, <1>10, <2>3, <2>4 DEF Exactly, Distinct
  <2>6. QED
    BY <2>5, PlacedNext
<1>14. TypeOK'
  <2>1. f[k] \in Metas \cup {NoMeta}
    BY DEF KeysOf
  <2>2. /\ key' \in [Calls -> Keys] /\ got' \in [Calls -> Metas \cup {NoMeta}]
        /\ pc' \in [Calls -> PcSteps]
    BY <1>0, <1>7, <2>1, AnswerType
  <2>3. /\ DOMAIN players' = Movies
        /\ \A x \in Movies : \/ players'[x] = NotScraped
                             \/ players'[x] \in [KeysOf(x) -> Metas \cup {NoMeta}]
    BY <1>0, <1>7 DEF TypeOK
  <2>4. scrapes' \in 0 .. MaxScrapes
    BY <1>0, <1>3, <1>11
  <2>5. /\ meta' \in [Keys -> Metas \cup {NoMeta}]
        /\ stored' \in [Keys -> SUBSET Metas] /\ dir' \in SUBSET Keys
        /\ timed' \in [Keys -> Metas \cup {NoMeta}] /\ role' \in [Calls -> Roles]
        /\ items' \in [Calls -> SUBSET [entry : Entry,
                              step : {"read", "set", "delete", "rows", "insert"}]]
    BY <1>0, <1>11 DEF TypeOK, database, fetch, Roles
  <2>6. QED
    BY <1>9, <2>2, <2>3, <2>4, <2>5 DEF TypeOK, PcSteps, Roles
<1>15. ScrapesNumbered'
  <2>1. \A e \in pushed : e \in Entry /\ e.scrape \in Int /\ e.scrape <= scrapes
    BY <1>0 DEF ScrapesNumbered, Entry
  <2>2. \A e \in pushed : e \in Entry /\ e.scrape <= scrapes + 1
    BY <1>0, <2>1
  <2>3. \A e \in new : e \in Entry /\ e.scrape <= scrapes + 1
    BY <1>0, <1>4
  <2>4. \A d, e \in new : d.key = e.key => d = e
    BY DEF new
  <2>5. \A d \in pushed, e \in new : d.scrape # e.scrape
    BY <1>0, <1>4, <2>1
  <2>6. \A d, e \in pushed \cup new : d.key = e.key /\ d.scrape = e.scrape => d = e
    BY <1>0, <2>4, <2>5 DEF ScrapesNumbered
  <2>7. QED
    BY <1>7, <1>11, <2>2, <2>3, <2>6 DEF ScrapesNumbered
<1>16. HasPlaylist'
  <2>1. f[k] \in Metas \cup {NoMeta}
    BY DEF KeysOf
  <2>2. QED
    BY <1>7, <2>1, AnswerType DEF QueueInv
<1>17. QED
  BY <1>11, <1>13, <1>14, <1>15, <1>16 DEF QueueInv

LEMMA PopInv ==
    ASSUME QueueInv, NEW c \in Calls, Pop(c)
    PROVE  QueueInv'
<1> DEFINE h == Head(queue)
           i == Item(h, "read")
<1>0. /\ TypeOK /\ NoEntryLost /\ ScrapesNumbered /\ queue \in Seq(Entry)
      /\ items \in [Calls -> SUBSET Items] /\ queue # <<>> /\ queue' = Tail(queue)
      /\ items' = [items EXCEPT ![c] = @ \cup {i}]
      /\ UNCHANGED <<players, database, pc, key, got, fetch, scrapes, pushed, recorded>>
      /\ \A o \in Calls : IsFiniteSet(items[o])
  BY DEF QueueInv, TypeOK, Pop, Items, ItemSteps
<1>1. /\ h \in Entry /\ Tail(queue) \in Seq(Entry)
      /\ Range(queue) = {h} \cup Range(Tail(queue))
      /\ Distinct(queue) => Distinct(Tail(queue)) /\ h \notin Range(Tail(queue))
  BY <1>0, Popped
<1>2. i \in Items /\ i.entry = h
  BY <1>1, ItemFields DEF ItemSteps
<1> HIDE DEF i, h
<1>3. /\ items'[c] = items[c] \cup {i} /\ \A o \in Calls : o # c => items'[o] = items[o]
  BY <1>0
<1>4. /\ Held'[c] = Held[c] \cup {h} /\ \A o \in Calls : o # c => Held'[o] = Held[o]
  BY <1>2, <1>3 DEF Held, Entries
<1>5. /\ Placed(Range(queue), Held, recorded, pushed) /\ Distinct(queue)
      /\ \A o \in Calls : \A x, y \in items[o] : x.entry = y.entry => x = y
  BY <1>0, PlacedInv DEF Exactly
<1>6. Placed(Range(Tail(queue)), Held', recorded, pushed)
  <2>1. h \notin Range(Tail(queue)) /\ Range(queue) = {h} \cup Range(Tail(queue))
    BY <1>1, <1>5
  <2> DEFINE S == Range(Tail(queue))
             E == Held
             F == Held'
  <2>2. /\ Placed({h} \cup S, E, recorded, pushed) /\ h \notin S
        /\ F[c] = E[c] \cup {h} /\ \A o \in Calls : o # c => F[o] = E[o]
    BY <1>4, <1>5, <2>1
  <2> HIDE DEF S, E, F
  <2>3. Placed(S, F, recorded, pushed)
    BY <2>2, PlacedPop
  <2>4. QED
    BY <2>3 DEF S, F
<1>7. \A o \in Calls : \A x, y \in items'[o] : x.entry = y.entry => x = y
  <2>1. \A x \in items[c] : x.entry # h
    <3>1. h \in Range(queue)
      BY <1>1
    <3>2. \A x \in items[c] : x.entry \in Held[c]
      BY DEF Held, Entries
    <3>3. QED
      BY <1>5, <3>1, <3>2 DEF Placed
  <2>2. QED
    BY <1>2, <1>3, <1>5, <2>1
<1>8. NoEntryLost'
  <2>1. (Placed(Range(queue), Held, recorded, pushed))'
    BY <1>0, <1>6 DEF Placed
  <2>2. Exactly'
    BY <1>0, <1>1, <1>5, <1>7, <2>1 DEF Exactly, Distinct
  <2>3. QED
    BY <2>2, PlacedNext
<1>9. TypeOK'
  BY <1>0, <1>1, <1>2, <1>3 DEF TypeOK, Items, ItemSteps, database, fetch, Movies, KeysOf
<1>10. \A o \in Calls : IsFiniteSet(items'[o])
  BY <1>0, <1>3, FS_AddElement
<1>11. QED
  BY <1>0, <1>8, <1>9, <1>10 DEF QueueInv, ScrapesNumbered, HasPlaylist

\* A future takes its next step.
LEMMA Advanced ==
    ASSUME QueueInv, NEW c \in Calls, NEW i \in items[c], NEW step \in ItemSteps,
           Advance(c, i, step), UNCHANGED <<queue, pushed, recorded>>
    PROVE  /\ NoEntryLost' /\ items' \in [Calls -> SUBSET Items]
           /\ \A o \in Calls : IsFiniteSet(items'[o])
<1> DEFINE j == Item(i.entry, step)
<1>0. /\ items \in [Calls -> SUBSET Items] /\ NoEntryLost
      /\ \A o \in Calls : IsFiniteSet(items[o])
  BY DEF QueueInv, TypeOK, Items, ItemSteps
<1>1. j \in Items /\ j.entry = i.entry
  BY <1>0, ItemFields DEF Items
<1> HIDE DEF j
<1>2. /\ items' \in [Calls -> SUBSET Items] /\ items'[c] = (items[c] \ {i}) \cup {j}
      /\ \A o \in Calls : o # c => items'[o] = items[o]
  BY <1>0, <1>1 DEF Advance, j
<1>3. \A o \in Calls : IsFiniteSet(items'[o])
  <2>1. IsFiniteSet(items[c] \ {i})
    BY <1>0, FS_RemoveElement
  <2>2. IsFiniteSet((items[c] \ {i}) \cup {j})
    BY <2>1, FS_AddElement
  <2>3. QED
    BY <1>0, <1>2, <2>1, <2>2
<1>4. \A o \in Calls : Held'[o] = Held[o]
  <2>1. \A e : e \in Held'[c] <=> e \in Held[c]
    BY <1>1, <1>2 DEF Held, Entries
  <2>2. \A o \in Calls : o # c => Held'[o] = Held[o]
    BY <1>2 DEF Held, Entries
  <2>3. Held'[c] = Held[c]
    BY <2>1 DEF Held, Entries
  <2>4. QED
    BY <2>2, <2>3
<1>5. Exactly
  BY <1>0, PlacedInv
<1>6. \A o \in Calls : \A x, y \in items'[o] : x.entry = y.entry => x = y
  BY <1>1, <1>2, <1>5 DEF Exactly
<1>7. Exactly'
  <2>1. Held' = Held
    BY <1>4 DEF Held
  <2>2. (Placed(Range(queue), Held, recorded, pushed))'
    BY <1>5, <2>1 DEF Exactly, Placed
  <2>3. QED
    BY <1>5, <1>6, <2>2 DEF Exactly, Distinct
<1>8. QED
  BY <1>2, <1>3, <1>7, PlacedNext

\* A future records its entry.
LEMMA Recorded ==
    ASSUME QueueInv, NEW c \in Calls, NEW i \in items[c],
           Record(c, i), UNCHANGED <<queue, pushed>>
    PROVE  /\ NoEntryLost' /\ items' \in [Calls -> SUBSET Items]
           /\ meta' \in [Keys -> Metas \cup {NoMeta}]
           /\ \A o \in Calls : IsFiniteSet(items'[o])
<1>0. /\ items \in [Calls -> SUBSET Items] /\ NoEntryLost
      /\ \A o \in Calls : IsFiniteSet(items[o])
  BY DEF QueueInv, TypeOK, Items, ItemSteps
<1>1. i \in Items /\ i.entry \in Entry /\ i.entry.key \in Keys /\ i.entry.meta \in Metas
  BY <1>0 DEF Items, Entry
<1>2. meta' \in [Keys -> Metas \cup {NoMeta}]
  BY <1>1 DEF Record, QueueInv, TypeOK
<1>3. /\ items' \in [Calls -> SUBSET Items] /\ items'[c] = items[c] \ {i}
      /\ \A o \in Calls : o # c => items'[o] = items[o]
  BY <1>0 DEF Record
<1>4. \A o \in Calls : IsFiniteSet(items'[o])
  BY <1>0, <1>3, FS_RemoveElement
<1>5. Exactly
  BY <1>0, PlacedInv
<1> DEFINE e == i.entry
           E == Held
           F == Held'
<1>6. e \in E[c] /\ \A o \in Calls : o # c => F[o] = E[o]
  BY <1>3 DEF Held, Entries
<1>7. F[c] = E[c] \ {e}
  <2>1. \A x \in items[c] : x.entry = e => x = i
    BY <1>5 DEF Exactly
  <2>2. \A x : x \in F[c] <=> x \in E[c] /\ x # e
    BY <1>3, <2>1 DEF Held, Entries
  <2>3. F[c] = Entries(c)' /\ E[c] = Entries(c)
    BY DEF Held
  <2>4. QED
    BY <2>2, <2>3 DEF Entries
<1>8. Placed(Range(queue), E, recorded, pushed)
  BY <1>5 DEF Exactly
<1> HIDE DEF E, F, e
<1>9. Placed(Range(queue), F, recorded \cup {e}, pushed)
  BY <1>6, <1>7, <1>8, PlacedRecord
<1>10. Exactly'
  <2>1. recorded' = recorded \cup {e}
    BY DEF Record, e
  <2>2. (Placed(Range(queue), Held, recorded, pushed))'
    BY <1>9, <2>1 DEF Placed, F
  <2>3. \A o \in Calls : \A x, y \in items'[o] : x.entry = y.entry => x = y
    BY <1>3, <1>5 DEF Exactly
  <2>4. QED
    BY <1>5, <2>2, <2>3 DEF Exactly, Distinct
<1>11. QED
  BY <1>2, <1>3, <1>4, <1>10, PlacedNext

LEMMA JoinInv ==
    ASSUME QueueInv, NEW c \in Calls, Join(c)
    PROVE  QueueInv'
<1>0. TypeOK /\ ScrapesNumbered
  BY DEF QueueInv
<1>1. PICK i \in items[c] :
          \/ Read(c, i) \/ SetMetadata(c, i)
          \/ DeleteFiles(c, i) \/ DeleteRows(c, i) \/ Insert(c, i)
  BY DEF Join
<1>2. UNCHANGED <<players, queue, pc, key, got, timed, role, scrapes, pushed>>
  BY DEF Join, fetch
<1>3. i.entry.key \in Keys
  BY <1>0 DEF TypeOK, Entry
<1>4. /\ NoEntryLost' /\ items' \in [Calls -> SUBSET Items]
      /\ meta' \in [Keys -> Metas \cup {NoMeta}]
      /\ \A o \in Calls : IsFiniteSet(items'[o])
      /\ UNCHANGED dir /\ stored' \in [Keys -> SUBSET Metas]
  <2>1. CASE Read(c, i)
    <3>1. PICK step \in ItemSteps : Advance(c, i, step)
      BY <2>1 DEF Read, ItemSteps
    <3>2. QED
      BY <1>0, <1>2, <2>1, <3>1, Advanced DEF Read, TypeOK, database
  <2>2. CASE SetMetadata(c, i)
    BY <1>0, <1>2, <2>2, Recorded DEF SetMetadata, TypeOK
  <2>3. CASE DeleteFiles(c, i)
    <3>1. Advance(c, i, "rows") /\ "rows" \in ItemSteps
      BY <2>3 DEF DeleteFiles, ItemSteps
    <3>2. /\ UNCHANGED <<meta, dir, recorded>>
          /\ stored' = [stored EXCEPT ![i.entry.key] = {}]
      BY <2>3 DEF DeleteFiles
    <3>3. meta' \in [Keys -> Metas \cup {NoMeta}] /\ stored' \in [Keys -> SUBSET Metas]
      BY <1>0, <3>2 DEF TypeOK
    <3>4. QED
      BY <1>2, <3>1, <3>2, <3>3, Advanced
  <2>4. CASE DeleteRows(c, i)
    <3>1. Advance(c, i, "insert") /\ "insert" \in ItemSteps
      BY <2>4 DEF DeleteRows, ItemSteps
    <3>2. /\ UNCHANGED <<stored, dir, recorded>>
          /\ meta' = [meta EXCEPT ![i.entry.key] = NoMeta]
      BY <2>4 DEF DeleteRows
    <3>3. meta' \in [Keys -> Metas \cup {NoMeta}] /\ stored' \in [Keys -> SUBSET Metas]
      BY <1>0, <3>2 DEF TypeOK
    <3>4. QED
      BY <1>2, <3>1, <3>2, <3>3, Advanced
  <2>5. CASE Insert(c, i)
    BY <1>0, <1>2, <2>5, Recorded DEF Insert, TypeOK
  <2>6. QED
    BY <1>1, <2>1, <2>2, <2>3, <2>4, <2>5
<1>5. TypeOK'
  BY <1>0, <1>2, <1>4 DEF TypeOK, Items, ItemSteps
<1>6. QED
  BY <1>0, <1>2, <1>4, <1>5 DEF QueueInv, ScrapesNumbered, HasPlaylist

\* A call that fails pushes its entries back.
LEMMA PushBackInv ==
    ASSUME QueueInv, NEW c \in Calls, PushBack(c)
    PROVE  QueueInv'
<1>0. /\ TypeOK /\ ScrapesNumbered /\ NoEntryLost /\ queue \in Seq(Entry)
      /\ items \in [Calls -> SUBSET Items]
      /\ \A o \in Calls : IsFiniteSet(items[o])
  BY DEF QueueInv, TypeOK, Items, ItemSteps
<1>1. Entries(c) \in SUBSET Entry
  BY <1>0 DEF Entries, Items
<1>2. IsFiniteSet(Entries(c))
  <2> DEFINE g == [i \in items[c] |-> i.entry]
  <2>1. g \in Surjection(items[c], Entries(c))
    BY DEF Surjection, Entries
  <2>2. QED
    <3> HIDE DEF g
    <3>1. QED
      BY <1>0, <2>1, FS_Surjection
<1>3. PICK s \in Orders(Entries(c)) : queue' = queue \o s
  BY DEF PushBack
<1>4. /\ queue' \in Seq(Entry) /\ Range(queue') = Range(queue) \cup Entries(c)
      /\ Distinct(queue) /\ Range(queue) \cap Entries(c) = {} => Distinct(queue')
  BY <1>0, <1>1, <1>2, <1>3, Appended
<1>5. /\ items'[c] = {} /\ \A o \in Calls : o # c => items'[o] = items[o]
      /\ items' \in [Calls -> SUBSET Items]
      /\ UNCHANGED <<players, database, key, got, fetch, scrapes, pushed, recorded>>
      /\ Goto(c, "idle")
  BY <1>0 DEF PushBack
<1>6. Exactly
  BY <1>0, PlacedInv
<1> DEFINE E == Held
           F == Held'
<1>7. /\ E[c] = Entries(c) /\ F[c] = {} /\ \A o \in Calls : o # c => F[o] = E[o]
  BY <1>5 DEF Held, Entries
<1>8. Placed(Range(queue), E, recorded, pushed) /\ Distinct(queue)
  BY <1>6 DEF Exactly
<1>9. Range(queue) \cap Entries(c) = {}
  BY <1>7, <1>8 DEF Placed
<1> HIDE DEF E, F
<1>10. Placed(Range(queue) \cup E[c], F, recorded, pushed)
  BY <1>7, <1>8, PlacedBack
<1>11. Exactly'
  <2>1. (Placed(Range(queue), Held, recorded, pushed))'
    BY <1>4, <1>5, <1>7, <1>10 DEF Placed, F
  <2>2. \A o \in Calls : \A x, y \in items'[o] : x.entry = y.entry => x = y
    BY <1>5, <1>6 DEF Exactly
  <2>3. QED
    BY <1>4, <1>8, <1>9, <2>1, <2>2 DEF Exactly, Distinct
<1>12. TypeOK'
  <2>1. pc' \in [Calls -> PcSteps]
    BY <1>0, <1>5, GotoType DEF PcSteps
  <2>2. QED
    BY <1>0, <1>4, <1>5, <2>1 DEF TypeOK, Items, ItemSteps, PcSteps, database, fetch
<1>13. \A o \in Calls : IsFiniteSet(items'[o])
  BY <1>0, <1>5, FS_EmptySet
<1>14. HasPlaylist'
  BY <1>0, <1>5, GotoType DEF QueueInv, PcSteps
<1>15. QED
  BY <1>0, <1>5, <1>11, <1>12, <1>13, <1>14, PlacedNext DEF QueueInv, ScrapesNumbered

\* A fetch moves no entry.
LEMMA FetchInv ==
    ASSUME QueueInv, NEW c \in Calls, Fetch(c)
    PROVE  QueueInv'
<1>0. /\ TypeOK /\ HasPlaylist /\ key[c] \in Keys
      /\ meta \in [Keys -> Metas \cup {NoMeta}] /\ stored \in [Keys -> SUBSET Metas]
      /\ timed \in [Keys -> Metas \cup {NoMeta}] /\ role \in [Calls -> Roles]
      /\ got[c] \in Metas \cup {NoMeta}
  BY DEF QueueInv, TypeOK, Roles
<1>1. /\ pc[c] # "idle" /\ \E step \in PcSteps : Goto(c, step)
      /\ UNCHANGED <<players, queue, dir, key, got, items, scrapes, pushed, recorded>>
  BY DEF Fetch, Compare, FetchFiles, FetchRows, FetchInsert, Put, FetchNoDirectory,
     FetchFails, FetchEnds, Leave, PcSteps, database, history
<1>2. meta' \in [Keys -> Metas \cup {NoMeta}]
  <2>1. meta' \in {meta, [meta EXCEPT ![key[c]] = NoMeta], [meta EXCEPT ![key[c]] = got[c]]}
    BY DEF Fetch, Compare, FetchFiles, FetchRows, FetchInsert, Put, FetchNoDirectory,
       FetchFails, FetchEnds, database
  <2>2. QED
    BY <1>0, <2>1
<1>3. stored' \in [Keys -> SUBSET Metas]
  <2>1. stored' \in {stored, [stored EXCEPT ![key[c]] = {}]}
    BY DEF Fetch, Compare, FetchFiles, FetchRows, FetchInsert, Put, FetchNoDirectory,
       FetchFails, FetchEnds, database
  <2>2. QED
    BY <1>0, <2>1
<1>4. timed' \in [Keys -> Metas \cup {NoMeta}] /\ role' \in [Calls -> Roles]
  <2>1. timed' \in {timed, [timed EXCEPT ![key[c]] = got[c]]}
    BY DEF Fetch, Compare, FetchFiles, FetchRows, FetchInsert, Put, FetchNoDirectory,
       FetchFails, FetchEnds, fetch
  <2>2. \E r \in Roles : role' \in {role, [role EXCEPT ![c] = r]}
    BY DEF Fetch, Compare, FetchFiles, FetchRows, FetchInsert, Put, FetchNoDirectory,
       FetchFails, FetchEnds, Leave, fetch, Roles
  <2>3. QED
    BY <1>0, <2>1, <2>2
<1>5. pc' \in [Calls -> PcSteps] /\ HasPlaylist'
  BY <1>0, <1>1, GotoType
<1>6. TypeOK'
  BY <1>0, <1>1, <1>2, <1>3, <1>4, <1>5 DEF TypeOK, PcSteps, Roles
<1>7. QED
  BY <1>1, <1>5, <1>6, NothingMoved

LEMMA NextInv == QueueInv /\ [Next]_vars => QueueInv'
<1> SUFFICES ASSUME QueueInv, [Next]_vars PROVE QueueInv'
  OBVIOUS
<1>0. TypeOK
  BY DEF QueueInv
<1>1. ASSUME NEW c \in Calls, Drained(c) \/ Return(c) PROVE QueueInv'
  <2>1. PICK step \in PcSteps : Goto(c, step)
    BY <1>1 DEF Drained, Return, PcSteps
  <2>2. UNCHANGED <<players, queue, database, key, got, items, fetch, scrapes,
                    pushed, recorded>>
    BY <1>1 DEF Drained, Return, history
  <2>3. pc' \in [Calls -> PcSteps] /\ HasPlaylist'
    BY <1>0, <1>1, <2>1, <2>2, GotoType DEF Drained, Return, QueueInv
  <2>4. TypeOK'
    BY <1>0, <2>2, <2>3 DEF TypeOK, PcSteps, database, fetch
  <2>5. QED
    BY <2>2, <2>3, <2>4, NothingMoved
<1>2. ASSUME NEW c \in Calls, Download(c) PROVE QueueInv'
  <2>1. Goto(c, "idle")
        /\ UNCHANGED <<players, queue, meta, key, got, items, fetch, scrapes,
                       pushed, recorded>>
    BY <1>2 DEF Download, history
  <2>2. pc' \in [Calls -> PcSteps] /\ HasPlaylist'
    BY <1>0, <2>1, GotoType DEF PcSteps, QueueInv
  <2>3. stored' \in [Keys -> SUBSET Metas] /\ dir' \in SUBSET Keys
    <3>1. got[c] \in Metas /\ key[c] \in Keys
      BY <1>0, <1>2 DEF Download, TypeOK, QueueInv, HasPlaylist
    <3>2. QED
      BY <1>0, <1>2, <3>1 DEF Download, TypeOK
  <2>4. TypeOK'
    BY <1>0, <2>1, <2>2, <2>3 DEF TypeOK, PcSteps, fetch
  <2>5. QED
    BY <2>1, <2>2, <2>4, NothingMoved
<1>3. ASSUME NEW m \in Movies, Invalidate(m) PROVE QueueInv'
  <2>1. /\ players' = [players EXCEPT ![m] = NotScraped]
        /\ UNCHANGED <<queue, database, call, fetch, scrapes, pushed, recorded>>
    BY <1>3 DEF Invalidate, history
  <2>2. TypeOK'
    BY <1>0, <2>1 DEF TypeOK, database, call, fetch
  <2>3. QED
    BY <2>1, <2>2, NothingMoved DEF call, QueueInv, HasPlaylist
<1>4. CASE UNCHANGED vars
  <2>1. TypeOK'
    BY <1>0, <1>4 DEF TypeOK, vars, database, call, fetch
  <2>2. QED
    BY <1>4, <2>1, NothingMoved DEF vars, call, history, QueueInv, HasPlaylist
<1>5. ASSUME NEW c \in Calls, NoDirectory(c) \/ Fault(c) PROVE QueueInv'
  BY <1>5, PushBackInv DEF NoDirectory, Fault
<1>6. ASSUME NEW k \in Keys, Evict(k) PROVE QueueInv'
  <2>1. /\ timed' = [timed EXCEPT ![k] = NoMeta]
        /\ UNCHANGED <<players, queue, database, call, role, scrapes, pushed, recorded>>
    BY <1>6 DEF Evict, history
  <2>2. TypeOK'
    BY <1>0, <2>1 DEF TypeOK, database, call
  <2>3. QED
    BY <2>1, <2>2, NothingMoved DEF call, QueueInv, HasPlaylist
<1>7. QED
  BY <1>1, <1>2, <1>3, <1>4, <1>5, <1>6, CachedInv, ScrapeInv, PopInv, JoinInv, FetchInv
     DEF Next

\* The inductive invariant.
THEOREM Invariant == Spec => []QueueInv
<1>1. QED
  BY InitInv, NextInv, PTL DEF Spec

\* Every variable keeps its type: no call goes on without a playlist, and no
\* row or file is of none.
THEOREM TypeCorrect == Spec => []TypeOK
<1>1. QueueInv => TypeOK
  BY DEF QueueInv
<1>2. QED
  BY <1>1, Invariant, PTL

\* However many calls pop, fail, are cancelled and push back at once, every
\* entry scraped is in exactly one place until it is recorded.
THEOREM EntriesKept == Spec => []NoEntryLost
<1>1. QueueInv => NoEntryLost
  BY DEF QueueInv
<1>2. QED
  BY <1>1, Invariant, PTL

-----------------------------------------------------------------------------
(* In which order the entries of a player are recorded.                    *)

\* Of a player that has not raced one call holds at most one entry, which is
\* older than those in the queue; these are in the order of their scrapes;
\* and what is recorded is older than what is pending.
InOrder(k) ==
    /\ \A c, o \in Calls : \A i \in items[c], j \in items[o] :
           i.entry.key = k /\ j.entry.key = k => c = o /\ i = j
    /\ \A c \in Calls : \A i \in items[c] : \A e \in Range(queue) :
           i.entry.key = k /\ e.key = k => i.entry.scrape < e.scrape
    /\ \A p, q \in DOMAIN queue :
           p < q /\ queue[p].key = k /\ queue[q].key = k
           => queue[p].scrape < queue[q].scrape
    /\ \A e \in recorded, o \in Pending :
           e.key = k /\ o.key = k => e.scrape < o.scrape

\* The playlist that the cache has of a player is the one pushed last.
PlayersPushed ==
    \A k \in Keys : players[MovieOf[k]] # NotScraped /\ players[MovieOf[k]][k] # NoMeta =>
        \E e \in Newest(k) : e.meta = players[MovieOf[k]][k]

OrderInv == QueueInv /\ PlayersPushed /\ \A k \in Keys \ raced : InOrder(k)

LEMMA PendingIs == QueueInv => Pending = pushed \ recorded
  BY DEF QueueInv, NoEntryLost

LEMMA PendingNext == QueueInv' => Pending' = pushed' \ recorded'
  BY DEF QueueInv, NoEntryLost

\* Scrapes are numbers.
LEMMA Numbers ==
    ASSUME QueueInv
    PROVE  /\ \A e \in pushed : e \in Entry /\ e.scrape \in Int /\ e.key \in Keys /\ e.meta \in Metas
           /\ Range(queue) \subseteq pushed /\ recorded \subseteq pushed
           /\ \A c \in Calls : \A i \in items[c] :
                  /\ i.entry \in pushed /\ i.entry \notin recorded /\ i.entry \in Pending
                  /\ i \in Items
<1>1. /\ pushed \subseteq Entry /\ pushed = recorded \cup Pending
      /\ recorded \cap Pending = {}
  BY DEF QueueInv, ScrapesNumbered, NoEntryLost
<1>2. \A e \in Entry : e.scrape \in Int /\ e.key \in Keys /\ e.meta \in Metas
  BY DEF Entry
<1>3. Range(queue) \subseteq Pending
  BY DEF Pending
<1>4. \A c \in Calls : \A i \in items[c] : i.entry \in Pending
  BY DEF Pending, Entries
<1>5. \A c \in Calls : \A i \in items[c] : i \in Items
  BY DEF QueueInv, TypeOK, Items, ItemSteps
<1>6. QED
  BY <1>1, <1>2, <1>3, <1>4, <1>5

\* A step that moves no entry.
LEMMA OrderSame ==
    ASSUME OrderInv, UNCHANGED <<queue, items, pushed, recorded, raced>>,
           \A m \in Movies : players'[m] \in {NotScraped, players[m]}
    PROVE  PlayersPushed' /\ \A x \in Keys \ raced' : InOrder(x)'
<1>1. Pending' = Pending
  BY DEF Pending, Entries
<1>2. ASSUME NEW x \in Keys \ raced' PROVE InOrder(x)'
  BY <1>1, <1>2 DEF OrderInv, InOrder
<1>3. \A x \in Keys : MovieOf[x] \in Movies /\ Newest(x)' = Newest(x)
  BY DEF Movies, Newest
<1>4. PlayersPushed'
  BY <1>3 DEF OrderInv, PlayersPushed
<1>5. QED
  BY <1>2, <1>4

\* Where an appended entry stands.
LEMMA AppendedOrder ==
    ASSUME NEW S, NEW q \in Seq(S), NEW T \in SUBSET S, IsFiniteSet(T),
           NEW s \in Orders(T)
    PROVE  \A i, j \in DOMAIN (q \o s) : i < j =>
               \/ /\ i \in DOMAIN q /\ j \in DOMAIN q
                  /\ (q \o s)[i] = q[i] /\ (q \o s)[j] = q[j]
               \/ (q \o s)[i] \in Range(q) /\ (q \o s)[j] \in T
               \/ (q \o s)[i] \in T /\ (q \o s)[j] \in T /\ (q \o s)[i] # (q \o s)[j]
<1> DEFINE r == q \o s
<1> SUFFICES ASSUME NEW i \in DOMAIN r, NEW j \in DOMAIN r, i < j
             PROVE  \/ /\ i \in DOMAIN q /\ j \in DOMAIN q
                       /\ r[i] = q[i] /\ r[j] = q[j]
                    \/ r[i] \in Range(q) /\ r[j] \in T
                    \/ r[i] \in T /\ r[j] \in T /\ r[i] # r[j]
  OBVIOUS
<1> DEFINE n == Cardinality(T)
<1>1. n \in Nat
  BY FS_CardinalityType
<1>2. /\ s \in [1 .. n -> T] /\ \A x, y \in 1 .. n : s[x] = s[y] => x = y
  BY DEF Orders, Bijection, Injection, IsInjective
<1> HIDE DEF n
<1>3. s \in Seq(S) /\ Len(s) = n /\ Len(q) \in Nat /\ DOMAIN q = 1 .. Len(q)
  <2>1. s \in [1 .. n -> S]
    BY <1>2
  <2>2. s \in Seq(S)
    BY <1>1, <2>1, IsASeq
  <2>3. QED
    BY <1>1, <1>2, <2>2, LenProperties
<1>4. /\ DOMAIN r = 1 .. Len(q) + n
      /\ \A x \in 1 .. Len(q) + n :
             r[x] = IF x <= Len(q) THEN q[x] ELSE s[x - Len(q)]
  <2>1. /\ q \o s \in Seq(S) /\ Len(q \o s) = Len(q) + Len(s)
        /\ \A x \in 1 .. Len(q) + Len(s) :
               (q \o s)[x] = IF x <= Len(q) THEN q[x] ELSE s[x - Len(q)]
    BY <1>3, ConcatProperties
  <2>2. DOMAIN (q \o s) = 1 .. Len(q \o s)
    BY <2>1, LenProperties
  <2>3. QED
    BY <1>3, <2>1, <2>2
<1> HIDE DEF r
<1>5. CASE j <= Len(q)
  BY <1>1, <1>3, <1>4, <1>5
<1>6. CASE i <= Len(q) /\ j > Len(q)
  <2>1. i \in 1 .. Len(q) /\ j - Len(q) \in 1 .. n
    BY <1>1, <1>3, <1>4, <1>6
  <2>2. r[i] = q[i] /\ r[j] = s[j - Len(q)]
    BY <1>1, <1>3, <1>4, <1>6
  <2>3. QED
    BY <1>2, <1>3, <2>1, <2>2 DEF Range
<1>7. CASE i > Len(q) /\ j > Len(q)
  <2>1. i - Len(q) \in 1 .. n /\ j - Len(q) \in 1 .. n /\ i - Len(q) # j - Len(q)
    BY <1>1, <1>3, <1>4, <1>7
  <2>2. r[i] = s[i - Len(q)] /\ r[j] = s[j - Len(q)]
    BY <1>1, <1>3, <1>4, <1>7
  <2>3. QED
    BY <1>2, <2>1, <2>2
<1>8. QED
  BY <1>1, <1>3, <1>4, <1>5, <1>6, <1>7

LEMMA ScrapeOrder ==
    ASSUME OrderInv, QueueInv', NEW c \in Calls, NEW k \in Keys, Scrape(c, k)
    PROVE  PlayersPushed' /\ \A x \in Keys \ raced' : InOrder(x)'
<1>0. /\ QueueInv /\ PlayersPushed /\ \A x \in Keys \ raced : InOrder(x)
      /\ scrapes \in Int /\ queue \in Seq(Entry) /\ DOMAIN players = Movies
      /\ \A e \in pushed : e.scrape <= scrapes
  BY DEF OrderInv, QueueInv, TypeOK, PcSteps, ScrapesNumbered
<1> DEFINE m == MovieOf[k]
<1>1. PICK f \in [KeysOf(m) -> Metas \cup {NoMeta}] :
          LET new == {[key |-> o, scrape |-> scrapes + 1, meta |-> f[o]] :
                      o \in {x \in DOMAIN f : f[x] # NoMeta}}
          IN  /\ \E s \in Orders(new) : queue' = queue \o s
              /\ players' = [players EXCEPT ![m] = f]
              /\ Answer(c, k, f[k])
              /\ pushed' = pushed \cup new
  BY DEF Scrape
<1> DEFINE with == {x \in KeysOf(m) : f[x] # NoMeta}
           new == {[key |-> o, scrape |-> scrapes + 1, meta |-> f[o]] : o \in with}
<1>2. PICK s \in Orders(new) : queue' = queue \o s
  BY <1>1
<1>3. /\ players' = [players EXCEPT ![m] = f] /\ Answer(c, k, f[k])
      /\ pushed' = pushed \cup new
      /\ UNCHANGED <<items, recorded, raced>>
  BY <1>1 DEF Scrape
<1>4. /\ \A e \in new : e.scrape = scrapes + 1 /\ e.key \in KeysOf(m) /\ e.meta = f[e.key]
      /\ \A o \in KeysOf(m) : f[o] # NoMeta =>
             \E e \in new : e.key = o /\ e.meta = f[o] /\ e.scrape = scrapes + 1
      /\ \A d, e \in new : d.key = e.key => d = e
  <2>1. \A e \in new : \E o \in with :
            e = [key |-> o, scrape |-> scrapes + 1, meta |-> f[o]]
    OBVIOUS
  <2>2. \A o \in with : [key |-> o, scrape |-> scrapes + 1, meta |-> f[o]] \in new
    OBVIOUS
  <2>3. \A o \in KeysOf(m) : f[o] # NoMeta => o \in with
    OBVIOUS
  <2>4. with \subseteq KeysOf(m)
    OBVIOUS
  <2> HIDE DEF new, with
  <2>5. \A e \in new : e.scrape = scrapes + 1 /\ e.key \in KeysOf(m) /\ e.meta = f[e.key]
    BY <2>1, <2>4
  <2>6. \A o \in KeysOf(m) : f[o] # NoMeta =>
            \E e \in new : e.key = o /\ e.meta = f[o] /\ e.scrape = scrapes + 1
    BY <2>2, <2>3
  <2>7. \A d, e \in new : d.key = e.key => d = e
    BY <2>1
  <2>8. QED
    BY <2>5, <2>6, <2>7
<1>5. m \in Movies /\ k \in KeysOf(m) /\ \A x \in Keys : MovieOf[x] = m => x \in KeysOf(m)
  BY DEF Movies, KeysOf
<1>6. new \in SUBSET Entry /\ IsFiniteSet(new)
  <2>1. new \subseteq pushed'
    BY <1>3
  <2>2. pushed' \subseteq Entry
    BY DEF QueueInv, ScrapesNumbered
  <2> DEFINE g == [o \in with |-> [key |-> o, scrape |-> scrapes + 1, meta |-> f[o]]]
  <2>3. IsFiniteSet(with)
    BY QueueConstants, FS_Subset DEF KeysOf
  <2>4. g \in Surjection(with, new)
    BY DEF Surjection
  <2>5. IsFiniteSet(new)
    <3> HIDE DEF g, with, new
    <3>1. QED
      BY <2>3, <2>4, FS_Surjection
  <2>6. QED
    BY <2>1, <2>2, <2>5
<1> HIDE DEF new, with
<1>7. Range(queue') = Range(queue) \cup new
  BY <1>0, <1>2, <1>6, Appended
<1>a. \A i, j \in DOMAIN queue' : i < j =>
           \/ /\ i \in DOMAIN queue /\ j \in DOMAIN queue
              /\ queue'[i] = queue[i] /\ queue'[j] = queue[j]
           \/ queue'[i] \in Range(queue) /\ queue'[j] \in new
           \/ queue'[i] \in new /\ queue'[j] \in new /\ queue'[i] # queue'[j]
  <2>1. queue \in Seq(Entry) /\ new \in SUBSET Entry /\ IsFiniteSet(new) /\ s \in Orders(new)
    BY <1>0, <1>6
  <2>2. \A i, j \in DOMAIN (queue \o s) : i < j =>
            \/ /\ i \in DOMAIN queue /\ j \in DOMAIN queue
               /\ (queue \o s)[i] = queue[i] /\ (queue \o s)[j] = queue[j]
            \/ (queue \o s)[i] \in Range(queue) /\ (queue \o s)[j] \in new
            \/ (queue \o s)[i] \in new /\ (queue \o s)[j] \in new /\ (queue \o s)[i] # (queue \o s)[j]
    BY <2>1, AppendedOrder, Zenon
  <2>3. QED
    BY <1>2, <2>2, Zenon
<1>8. Pending' = Pending \cup new
  BY <1>3, <1>7 DEF Pending, Entries
<1>9. PlayersPushed'
  <2> SUFFICES ASSUME NEW x \in Keys, players'[MovieOf[x]] # NotScraped,
                      players'[MovieOf[x]][x] # NoMeta
               PROVE  \E e \in pushed' : /\ e.key = x /\ e.meta = players'[MovieOf[x]][x]
                                         /\ \A o \in pushed' : o.key = x => o.scrape <= e.scrape
    BY DEF PlayersPushed, Newest
  <2>1. CASE MovieOf[x] = m
    <3>1. players'[MovieOf[x]] = f /\ x \in KeysOf(m)
      BY <1>0, <1>3, <1>5, <2>1
    <3>2. PICK e \in new : e.key = x /\ e.meta = f[x] /\ e.scrape = scrapes + 1
      BY <1>4, <3>1
    <3>3. \A o \in pushed' : o.scrape <= scrapes + 1
      BY <1>0, <1>3, <1>4, Numbers
    <3>4. QED
      BY <1>3, <3>1, <3>2, <3>3
  <2>2. CASE MovieOf[x] # m
    <3>1. players'[MovieOf[x]] = players[MovieOf[x]]
      BY <1>0, <1>3, <2>2 DEF Movies
    <3>2. PICK e \in pushed : /\ e.key = x /\ e.meta = players[MovieOf[x]][x]
                              /\ \A o \in pushed : o.key = x => o.scrape <= e.scrape
      BY <1>0, <3>1 DEF PlayersPushed, Newest
    <3>3. \A o \in new : o.key # x
      BY <1>4, <2>2 DEF KeysOf
    <3>4. QED
      BY <1>3, <3>1, <3>2, <3>3
  <2>3. QED
    BY <2>1, <2>2
<1>10. ASSUME NEW x \in Keys \ raced PROVE InOrder(x)'
  <2>0. InOrder(x)
    BY <1>0, <1>10
  <2>1. \A d \in pushed, e \in new : d.scrape < e.scrape
    BY <1>0, <1>4, Numbers
  <2>2. \A o \in Calls : \A i \in items[o] : \A e \in Range(queue') :
            i.entry.key = x /\ e.key = x => i.entry.scrape < e.scrape
    BY <1>7, <2>0, <2>1, Numbers, <1>0 DEF InOrder
  <2>3. ASSUME NEW p \in DOMAIN queue', NEW q \in DOMAIN queue', p < q,
               queue'[p].key = x, queue'[q].key = x
        PROVE  queue'[p].scrape < queue'[q].scrape
    <3>1. \/ /\ p \in DOMAIN queue /\ q \in DOMAIN queue
             /\ queue'[p] = queue[p] /\ queue'[q] = queue[q]
          \/ queue'[p] \in Range(queue) /\ queue'[q] \in new
          \/ queue'[p] \in new /\ queue'[q] \in new /\ queue'[p] # queue'[q]
      BY <1>a, <2>3
    <3>2. ~(queue'[p] \in new /\ queue'[q] \in new /\ queue'[p] # queue'[q])
      BY <1>4, <2>3
    <3>3. QED
      BY <1>0, <2>0, <2>1, <2>3, <3>1, <3>2, Numbers DEF InOrder
  <2>4. \A e \in recorded', o \in Pending' : e.key = x /\ o.key = x => e.scrape < o.scrape
    BY <1>0, <1>3, <1>8, <2>0, <2>1, Numbers DEF InOrder
  <2>5. \A o, u \in Calls : \A i \in items'[o], j \in items'[u] :
            i.entry.key = x /\ j.entry.key = x => o = u /\ i = j
    BY <1>3, <2>0 DEF InOrder
  <2>6. QED
    BY <1>3, <2>2, <2>3, <2>4, <2>5 DEF InOrder
<1>11. QED
  BY <1>3, <1>9, <1>10

LEMMA PopOrder ==
    ASSUME OrderInv, QueueInv', NEW c \in Calls, Pop(c)
    PROVE  PlayersPushed' /\ \A x \in Keys \ raced' : InOrder(x)'
<1> DEFINE h == Head(queue)
           i == Item(h, "read")
<1>0. /\ QueueInv /\ PlayersPushed /\ \A x \in Keys \ raced : InOrder(x)
      /\ items \in [Calls -> SUBSET Items] /\ queue \in Seq(Entry) /\ queue # <<>>
      /\ queue' = Tail(queue) /\ items' = [items EXCEPT ![c] = @ \cup {i}]
      /\ UNCHANGED <<players, pushed, recorded>>
      /\ raced' = raced \cup {k \in {h.key} : \E o \in Calls : \E e \in Entries(o) : e.key = k}
  BY DEF OrderInv, QueueInv, TypeOK, Pop, Items, ItemSteps
<1>1. /\ h \in Entry /\ DOMAIN queue = 1 .. Len(queue) /\ Len(queue) \in Nat \ {0}
      /\ h = queue[1] /\ DOMAIN queue' = 1 .. Len(queue) - 1
      /\ \A p \in 1 .. Len(queue) - 1 : queue'[p] = queue[p + 1]
  <2>1. /\ Head(queue) \in Entry /\ Tail(queue) \in Seq(Entry) /\ Len(queue) \in Nat \ {0}
        /\ Len(Tail(queue)) = Len(queue) - 1 /\ Head(queue) = queue[1]
        /\ \A p \in 1 .. Len(queue) - 1 : Tail(queue)[p] = queue[p + 1]
    BY <1>0, HeadTailProperties, EmptySeq
  <2>2. DOMAIN queue = 1 .. Len(queue) /\ DOMAIN Tail(queue) = 1 .. Len(Tail(queue))
    BY <1>0, <2>1, LenProperties
  <2>3. QED
    BY <1>0, <2>1, <2>2
<1>2. i.entry = h /\ i.step = "read"
  BY <1>1, ItemFields DEF ItemSteps
<1> HIDE DEF i, h
<1>3. items'[c] = items[c] \cup {i} /\ \A o \in Calls : o # c => items'[o] = items[o]
  BY <1>0
<1>4. Range(queue') \subseteq Range(queue) /\ h \in Range(queue)
  <2>1. \A p \in 1 .. Len(queue) - 1 : p + 1 \in 1 .. Len(queue)
    BY <1>1
  <2>2. 1 \in 1 .. Len(queue)
    BY <1>1
  <2>3. QED
    BY <1>1, <2>1, <2>2 DEF Range
<1>5. Pending' = Pending
  BY <1>0, PendingIs, PendingNext
<1>6. PlayersPushed'
  BY <1>0 DEF PlayersPushed, Newest
<1>7. ASSUME NEW x \in Keys, x \notin raced' PROVE InOrder(x)'
  <2>0. InOrder(x) /\ (h.key = x => \A o \in Calls : \A j \in items[o] : j.entry.key # x)
    BY <1>0, <1>7 DEF Entries
  <2>1. \A o \in Calls : \A j \in items'[o] : j \in items[o] \/ (o = c /\ j = i)
    BY <1>3
  <2>2. \A o, u \in Calls : \A j \in items'[o], l \in items'[u] :
            j.entry.key = x /\ l.entry.key = x => o = u /\ j = l
    BY <1>2, <2>0, <2>1 DEF InOrder
  <2>3. \A e \in Range(queue') : h.key = x /\ e.key = x => h.scrape < e.scrape
    <3> SUFFICES ASSUME NEW p \in 1 .. Len(queue) - 1, h.key = x, queue'[p].key = x
                 PROVE  h.scrape < queue'[p].scrape
      BY <1>1 DEF Range
    <3>1. 1 \in 1 .. Len(queue) /\ p + 1 \in 1 .. Len(queue) /\ 1 < p + 1
      BY <1>1
    <3>2. queue[1].scrape < queue[p + 1].scrape
      BY <1>1, <2>0, <3>1 DEF InOrder
    <3>3. QED
      BY <1>1, <3>2
  <2>4. \A o \in Calls : \A j \in items'[o] : \A e \in Range(queue') :
            j.entry.key = x /\ e.key = x => j.entry.scrape < e.scrape
    BY <1>2, <1>4, <2>0, <2>1, <2>3 DEF InOrder
  <2>5. ASSUME NEW p \in DOMAIN queue', NEW q \in DOMAIN queue', p < q,
               queue'[p].key = x, queue'[q].key = x
        PROVE  queue'[p].scrape < queue'[q].scrape
    <3>1. /\ p \in 1 .. Len(queue) - 1 /\ q \in 1 .. Len(queue) - 1
          /\ p + 1 \in 1 .. Len(queue) /\ q + 1 \in 1 .. Len(queue) /\ p + 1 < q + 1
      BY <1>1, <2>5
    <3>2. queue'[p] = queue[p + 1] /\ queue'[q] = queue[q + 1]
      BY <1>1, <3>1
    <3>3. QED
      BY <1>1, <2>0, <2>5, <3>1, <3>2 DEF InOrder
  <2>6. \A e \in recorded', o \in Pending' : e.key = x /\ o.key = x => e.scrape < o.scrape
    BY <1>0, <1>5, <2>0 DEF InOrder
  <2>7. QED
    BY <2>2, <2>4, <2>5, <2>6 DEF InOrder
<1>8. QED
  BY <1>6, <1>7

\* What a call pushes back goes behind all entries of the queue, and none of
\* these is of its players unless they race.
LEMMA PushBackOrder ==
    ASSUME OrderInv, QueueInv', NEW c \in Calls, PushBack(c)
    PROVE  PlayersPushed' /\ \A x \in Keys \ raced' : InOrder(x)'
<1>0. /\ QueueInv /\ PlayersPushed /\ \A x \in Keys \ raced : InOrder(x)
      /\ items \in [Calls -> SUBSET Items] /\ queue \in Seq(Entry)
      /\ IsFiniteSet(items[c])
      /\ UNCHANGED <<players, pushed, recorded>>
      /\ raced' = raced \cup {k \in {e.key : e \in Entries(c)} : \E e \in Range(queue) : e.key = k}
  BY DEF OrderInv, QueueInv, TypeOK, PushBack, Items, ItemSteps
<1>1. /\ items'[c] = {} /\ \A o \in Calls : o # c => items'[o] = items[o]
  BY <1>0 DEF PushBack
<1>2. PICK s \in Orders(Entries(c)) : queue' = queue \o s
  BY DEF PushBack
<1>3. Entries(c) \in SUBSET Entry
  BY <1>0 DEF Entries, Items
<1>4. IsFiniteSet(Entries(c))
  <2> DEFINE g == [i \in items[c] |-> i.entry]
  <2>1. g \in Surjection(items[c], Entries(c))
    BY DEF Surjection, Entries
  <2>2. QED
    <3> HIDE DEF g
    <3>1. QED
      BY <1>0, <2>1, FS_Surjection
<1>5. Range(queue') = Range(queue) \cup Entries(c)
  BY <1>0, <1>2, <1>3, <1>4, Appended
<1>6. \A i, j \in DOMAIN queue' : i < j =>
           \/ /\ i \in DOMAIN queue /\ j \in DOMAIN queue
              /\ queue'[i] = queue[i] /\ queue'[j] = queue[j]
           \/ queue'[i] \in Range(queue) /\ queue'[j] \in Entries(c)
           \/ queue'[i] \in Entries(c) /\ queue'[j] \in Entries(c) /\ queue'[i] # queue'[j]
  <2>1. \A i, j \in DOMAIN (queue \o s) : i < j =>
            \/ /\ i \in DOMAIN queue /\ j \in DOMAIN queue
               /\ (queue \o s)[i] = queue[i] /\ (queue \o s)[j] = queue[j]
            \/ (queue \o s)[i] \in Range(queue) /\ (queue \o s)[j] \in Entries(c)
            \/ /\ (queue \o s)[i] \in Entries(c) /\ (queue \o s)[j] \in Entries(c)
               /\ (queue \o s)[i] # (queue \o s)[j]
    BY <1>0, <1>3, <1>4, AppendedOrder, Zenon
  <2>2. QED
    BY <1>2, <2>1, Zenon
<1>7. Pending' = Pending
  BY <1>0, PendingIs, PendingNext
<1>8. PlayersPushed'
  BY <1>0 DEF PlayersPushed, Newest
<1>9. ASSUME NEW x \in Keys, x \notin raced' PROVE InOrder(x)'
  <2>0. InOrder(x) /\ (\A d \in Entries(c), e \in Range(queue) : d.key = x => e.key # x)
    BY <1>0, <1>9
  <2>1. \A d, e \in Entries(c) : d.key = x /\ e.key = x => d = e
    BY <2>0 DEF InOrder, Entries
  <2>2. \A o \in Calls : \A j \in items'[o] : j \in items[o] /\ o # c
    BY <1>1
  <2>3. \A o, u \in Calls : \A j \in items'[o], l \in items'[u] :
            j.entry.key = x /\ l.entry.key = x => o = u /\ j = l
    BY <2>0, <2>2 DEF InOrder
  <2>4. ASSUME NEW o \in Calls, NEW j \in items'[o], NEW e \in Range(queue'),
               j.entry.key = x, e.key = x
        PROVE  j.entry.scrape < e.scrape
    <3>1. e \notin Entries(c)
      <4> SUFFICES ASSUME NEW i \in items[c], e = i.entry PROVE FALSE
        BY DEF Entries
      <4>1. QED
        BY <2>0, <2>2, <2>4 DEF InOrder
    <3>2. QED
      BY <1>5, <2>0, <2>2, <2>4, <3>1 DEF InOrder
  <2>5. ASSUME NEW p \in DOMAIN queue', NEW q \in DOMAIN queue', p < q,
               queue'[p].key = x, queue'[q].key = x
        PROVE  queue'[p].scrape < queue'[q].scrape
    <3>1. /\ p \in DOMAIN queue /\ q \in DOMAIN queue
          /\ queue'[p] = queue[p] /\ queue'[q] = queue[q]
      BY <1>6, <2>0, <2>1, <2>5
    <3>2. QED
      BY <2>0, <2>5, <3>1 DEF InOrder
  <2>6. \A e \in recorded', o \in Pending' : e.key = x /\ o.key = x => e.scrape < o.scrape
    BY <1>0, <1>7, <2>0 DEF InOrder
  <2>7. QED
    BY <2>3, <2>4, <2>5, <2>6 DEF InOrder
<1>10. QED
  BY <1>8, <1>9

\* A future that takes its next step keeps its entry.
LEMMA AdvanceOrder ==
    ASSUME QueueInv, QueueInv', NEW c \in Calls, NEW i \in items[c], NEW step \in ItemSteps,
           Advance(c, i, step), UNCHANGED <<queue, pushed, recorded>>,
           NEW x \in Keys, InOrder(x)
    PROVE  InOrder(x)'
<1> DEFINE j == Item(i.entry, step)
<1>1. j.entry = i.entry
  BY Numbers, ItemFields DEF Items
<1> HIDE DEF j
<1>2. items'[c] = (items[c] \ {i}) \cup {j} /\ \A o \in Calls : o # c => items'[o] = items[o]
  BY DEF Advance, j, QueueInv, TypeOK
<1>3. \A o \in Calls : \A l \in items'[o] :
          \/ l \in items[o] /\ ~(o = c /\ l = i)
          \/ o = c /\ l = j
  BY <1>2
<1>4. Pending' = Pending
  BY PendingIs, PendingNext
<1>5. \A o, u \in Calls : \A k \in items'[o], l \in items'[u] :
          k.entry.key = x /\ l.entry.key = x => o = u /\ k = l
  BY <1>1, <1>3 DEF InOrder
<1>6. \A o \in Calls : \A l \in items'[o] : \A e \in Range(queue') :
          l.entry.key = x /\ e.key = x => l.entry.scrape < e.scrape
  BY <1>1, <1>3 DEF InOrder
<1>7. QED
  BY <1>4, <1>5, <1>6 DEF InOrder

\* A future records its entry, the oldest pending of its player.
LEMMA RecordOrder ==
    ASSUME QueueInv, QueueInv', NEW c \in Calls, NEW i \in items[c], Record(c, i),
           UNCHANGED <<queue, pushed>>, NEW x \in Keys, InOrder(x)
    PROVE  InOrder(x)'
<1> DEFINE e == i.entry
<1>0. e \in pushed /\ e \in Pending /\ e.key \in Keys
  BY Numbers
<1>1. /\ items'[c] = items[c] \ {i} /\ \A o \in Calls : o # c => items'[o] = items[o]
      /\ recorded' = recorded \cup {e}
  BY DEF Record, QueueInv, TypeOK
<1>2. \A o \in Calls : \A l \in items'[o] : l \in items[o] /\ ~(o = c /\ l = i)
  BY <1>1
<1> HIDE DEF e
<1>3. Pending' = Pending \ {e}
  BY <1>0, <1>1, PendingIs, PendingNext
<1>4. \A o, u \in Calls : \A k \in items'[o], l \in items'[u] :
          k.entry.key = x /\ l.entry.key = x => o = u /\ k = l
  BY <1>2 DEF InOrder
<1>5. \A o \in Calls : \A l \in items'[o] : \A d \in Range(queue') :
          l.entry.key = x /\ d.key = x => l.entry.scrape < d.scrape
  BY <1>2 DEF InOrder
<1>6. ASSUME NEW d \in recorded', NEW o \in Pending', d.key = x, o.key = x
      PROVE  d.scrape < o.scrape
  <2>1. CASE d \in recorded
    BY <1>3, <1>6, <2>1 DEF InOrder
  <2>2. CASE d = e
    <3>1. CASE o \in Range(queue)
      BY <1>6, <2>2, <3>1 DEF InOrder, e
    <3>2. CASE \E u \in Calls : o \in Entries(u)
      <4>1. PICK u \in Calls : o \in Entries(u)
        BY <3>2
      <4>2. PICK l \in items[u] : o = l.entry
        BY <4>1 DEF Entries
      <4>3. l = i
        BY <1>6, <2>2, <4>2 DEF InOrder, e
      <4>4. QED
        BY <1>3, <1>6, <4>2, <4>3 DEF e
    <3>3. QED
      BY <1>3, <1>6, <3>1, <3>2 DEF Pending
  <2>3. QED
    BY <1>1, <1>6, <2>1, <2>2
<1>7. QED
  BY <1>4, <1>5, <1>6 DEF InOrder

LEMMA JoinOrder ==
    ASSUME OrderInv, QueueInv', NEW c \in Calls, Join(c)
    PROVE  PlayersPushed' /\ \A x \in Keys \ raced' : InOrder(x)'
<1>0. /\ QueueInv /\ PlayersPushed /\ \A x \in Keys \ raced : InOrder(x)
      /\ UNCHANGED <<players, queue, pushed, raced>>
  BY DEF OrderInv, Join
<1>1. PICK i \in items[c] :
          \/ Read(c, i) \/ SetMetadata(c, i)
          \/ DeleteFiles(c, i) \/ DeleteRows(c, i) \/ Insert(c, i)
  BY DEF Join
<1>2. PlayersPushed'
  BY <1>0 DEF PlayersPushed, Newest
<1>3. \/ (\E step \in ItemSteps : Advance(c, i, step)) /\ UNCHANGED recorded
      \/ Record(c, i)
  BY <1>1 DEF Read, SetMetadata, DeleteFiles, DeleteRows, Insert, ItemSteps
<1>4. ASSUME NEW x \in Keys \ raced' PROVE InOrder(x)'
  BY <1>0, <1>3, <1>4, AdvanceOrder, RecordOrder
<1>5. QED
  BY <1>2, <1>4

LEMMA OrderInit == Init => OrderInv
<1> SUFFICES ASSUME Init PROVE OrderInv
  OBVIOUS
<1>1. QueueInv
  BY InitInv
<1>2. (\A c \in Calls : items[c] = {}) /\ queue = <<>> /\ recorded = {}
  BY DEF Init
<1>3. PlayersPushed
  BY DEF Init, PlayersPushed, Movies
<1>4. ASSUME NEW k \in Keys PROVE InOrder(k)
  BY <1>2 DEF InOrder
<1>5. QED
  BY <1>1, <1>3, <1>4 DEF OrderInv

LEMMA OrderNext == OrderInv /\ [Next]_vars => OrderInv'
<1> SUFFICES ASSUME OrderInv, [Next]_vars PROVE OrderInv'
  OBVIOUS
<1>1. QueueInv'
  BY NextInv DEF OrderInv
<1>2. CASE \/ UNCHANGED vars
           \/ \E m \in Movies : Invalidate(m)
           \/ \E k \in Keys : Evict(k)
           \/ \E c \in Calls : \/ \E k \in Keys : Cached(c, k)
                              \/ Drained(c) \/ Return(c) \/ Download(c) \/ Fetch(c)
  <2>1. /\ UNCHANGED <<queue, items, pushed, recorded, raced>>
        /\ players' = players \/ \E m \in Movies : Invalidate(m)
    BY <1>2 DEF vars, call, history, Invalidate, Evict, Cached, Drained, Return,
       Download, Fetch, Compare, FetchFiles, FetchRows, FetchInsert, Put,
       FetchNoDirectory, FetchFails, FetchEnds
  <2>2. \A m \in Movies : players'[m] \in {NotScraped, players[m]}
    BY <2>1 DEF Invalidate, OrderInv, QueueInv, TypeOK
  <2>3. QED
    BY <1>1, <2>1, <2>2, OrderSame DEF OrderInv
<1>3. ASSUME NEW c \in Calls, NoDirectory(c) \/ Fault(c) PROVE OrderInv'
  BY <1>1, <1>3, PushBackOrder DEF NoDirectory, Fault, OrderInv
<1>4. ASSUME NEW c \in Calls, (\E k \in Keys : Scrape(c, k)) \/ Pop(c) \/ Join(c)
      PROVE  OrderInv'
  BY <1>1, <1>4, ScrapeOrder, PopOrder, JoinOrder DEF OrderInv
<1>5. QED
  BY <1>2, <1>3, <1>4 DEF Next

\* Of a player that has not raced, entries are recorded in the order in which
\* they were scraped.
THEOREM OrderInvariant == Spec => []OrderInv
<1>1. QED
  BY OrderInit, OrderNext, PTL DEF Spec

-----------------------------------------------------------------------------
(* Which playlist's metadata is recorded.                                  *)

\* Nothing newer than the playlist recorded is left behind: the row is that of
\* the last entry recorded, or it is missing, or a fetch was faster, and an
\* entry that sets it right is pending.
RowLatest(k) ==
    \A e \in recorded :
        e.key = k /\ (\A o \in recorded : o.key = k => o.scrape <= e.scrape) =>
            \/ meta[k] = e.meta
            \/ \E p \in Pending : p.key = k /\ meta[k] \in {NoMeta, p.meta}

RowInv == OrderInv /\ \A k \in Keys \ (raced \cup rewound) : RowLatest(k)

LEMMA NewestIs ==
    ASSUME QueueInv, NEW k \in Keys, NEW d \in Newest(k), NEW e \in Newest(k)
    PROVE  d = e
<1>1. d \in pushed /\ e \in pushed /\ d.scrape <= e.scrape /\ e.scrape <= d.scrape
      /\ d.key = e.key
  BY DEF Newest
<1>2. d.scrape = e.scrape
  BY <1>1, Numbers
<1>3. QED
  BY <1>1, <1>2 DEF QueueInv, ScrapesNumbered

\* While one of a player's entries is pending, so is its newest.
LEMMA NewestPending ==
    ASSUME QueueInv, NEW k \in Keys, InOrder(k), NEW e \in Pending, e.key = k,
           NEW n \in Newest(k)
    PROVE  n \in Pending
<1>1. e \in pushed
  BY PendingIs
<1>2. n \in pushed /\ n.key = k /\ e.scrape <= n.scrape
  BY <1>1 DEF Newest
<1>3. n \in recorded => n.scrape < e.scrape
  BY <1>2 DEF InOrder
<1>4. QED
  BY <1>1, <1>2, <1>3, PendingIs, Numbers

LEMMA RowKept ==
    ASSUME NEW k \in Keys, RowLatest(k), UNCHANGED recorded, meta'[k] = meta[k],
           Pending \subseteq Pending'
    PROVE  RowLatest(k)'
  BY DEF RowLatest

LEMMA RecordRow ==
    ASSUME OrderInv, QueueInv', NEW c \in Calls, NEW i \in items[c], Record(c, i),
           UNCHANGED <<queue, pushed, raced>>,
           NEW k \in Keys \ raced, k = i.entry.key \/ RowLatest(k)
    PROVE  RowLatest(k)'
<1> DEFINE e == i.entry
<1>0. QueueInv /\ InOrder(k)
  BY DEF OrderInv
<1>1. e \in Pending /\ e \in pushed /\ e.key \in Keys /\ recorded \subseteq pushed
  BY <1>0, Numbers
<1>2. /\ recorded' = recorded \cup {e}
      /\ meta'[k] = IF k = e.key THEN e.meta ELSE meta[k]
  BY <1>0, <1>1 DEF Record, QueueInv, TypeOK
<1> HIDE DEF e
<1>3. Pending' = Pending \ {e}
  BY <1>0, <1>1, <1>2, PendingIs, PendingNext
<1>4. CASE k = e.key
  <2>1. \A d \in recorded : d.key = k => d.scrape < e.scrape
    BY <1>0, <1>1, <1>4 DEF InOrder
  <2>2. \A d \in pushed : d.scrape \in Int
    BY <1>0, Numbers
  <2>3. ASSUME NEW d \in recorded', d.key = k,
               \A o \in recorded' : o.key = k => o.scrape <= d.scrape
        PROVE  d = e
    <3>1. e \in recorded' /\ e.scrape <= d.scrape
      BY <1>2, <1>4, <2>3
    <3>2. QED
      BY <1>1, <1>2, <2>1, <2>2, <2>3, <3>1
  <2>4. QED
    BY <1>2, <1>4, <2>3 DEF RowLatest
<1>5. CASE k # e.key /\ RowLatest(k)
  <2>1. \A d \in recorded' : d.key = k => d \in recorded
    BY <1>2, <1>5
  <2>2. recorded \subseteq recorded' /\ meta'[k] = meta[k]
    BY <1>2, <1>5
  <2>3. \A p \in Pending : p.key = k => p \in Pending'
    BY <1>3, <1>5
  <2>4. QED
    BY <1>5, <2>1, <2>2, <2>3 DEF RowLatest
<1>6. QED
  BY <1>4, <1>5 DEF e

LEMMA JoinRow ==
    ASSUME RowInv, QueueInv', NEW c \in Calls, Join(c)
    PROVE  \A k \in Keys \ (raced' \cup rewound') : RowLatest(k)'
<1>0. /\ OrderInv /\ QueueInv /\ \A k \in Keys \ (raced \cup rewound) : RowLatest(k)
      /\ UNCHANGED <<queue, pushed, raced>>
  BY DEF RowInv, OrderInv, Join
<1>1. PICK i \in items[c] :
          \/ Read(c, i) \/ SetMetadata(c, i)
          \/ DeleteFiles(c, i) \/ DeleteRows(c, i) \/ Insert(c, i)
  BY DEF Join
<1>2. i.entry \in Pending /\ i.entry.key \in Keys
  BY <1>0, Numbers
<1>3. CASE Read(c, i) \/ DeleteFiles(c, i)
  <2>1. UNCHANGED <<recorded, meta, rewound>>
    BY <1>3 DEF Read, DeleteFiles, database
  <2>2. Pending' = Pending
    BY <1>0, <2>1, PendingIs, PendingNext
  <2>3. QED
    BY <1>0, <2>1, <2>2, RowKept
<1>4. CASE DeleteRows(c, i)
  <2>1. /\ UNCHANGED <<recorded, rewound>>
        /\ \A k \in Keys : meta'[k] = IF k = i.entry.key THEN NoMeta ELSE meta[k]
    BY <1>0, <1>2, <1>4 DEF DeleteRows, QueueInv, TypeOK
  <2>2. Pending' = Pending
    BY <1>0, <2>1, PendingIs, PendingNext
  <2>3. ASSUME NEW k \in Keys, k = i.entry.key PROVE RowLatest(k)'
    BY <1>2, <2>1, <2>2, <2>3 DEF RowLatest
  <2>4. ASSUME NEW k \in Keys, RowLatest(k), k # i.entry.key PROVE RowLatest(k)'
    BY <2>1, <2>2, <2>4, RowKept
  <2>5. QED
    BY <1>0, <2>1, <2>3, <2>4
<1>5. CASE SetMetadata(c, i) \/ Insert(c, i)
  <2>1. Record(c, i)
    BY <1>5 DEF SetMetadata, Insert
  <2>2. rewound' = rewound \ {i.entry.key}
    BY <2>1 DEF Record
  <2>3. QED
    BY <1>0, <2>1, <2>2, RecordRow
<1>6. QED
  BY <1>1, <1>3, <1>4, <1>5

\* What a fetch records, if it is the playlist scraped last.
LEMMA FetchRow ==
    ASSUME RowInv, QueueInv', NEW c \in Calls, Fetch(c)
    PROVE  \A k \in Keys \ (raced' \cup rewound') : RowLatest(k)'
<1>0. /\ QueueInv /\ \A k \in Keys \ (raced \cup rewound) : RowLatest(k)
      /\ key[c] \in Keys /\ meta \in [Keys -> Metas \cup {NoMeta}]
  BY DEF RowInv, OrderInv, QueueInv, TypeOK
<1>1. UNCHANGED <<queue, items, pushed, recorded, raced>>
  BY DEF Fetch, Compare, FetchFiles, FetchRows, FetchInsert, Put, FetchNoDirectory,
     FetchFails, FetchEnds, history
<1>2. Pending' = Pending
  BY <1>0, <1>1, PendingIs, PendingNext
<1>3. \A k \in Keys : k # key[c] => meta'[k] = meta[k]
  BY <1>0 DEF Fetch, Compare, FetchFiles, FetchRows, FetchInsert, Put,
     FetchNoDirectory, FetchFails, FetchEnds, database
<1>4. ASSUME NEW k \in Keys \ (raced' \cup rewound'), k # key[c] PROVE RowLatest(k)'
  <2>1. k \notin rewound
    BY <1>4 DEF Fetch, Compare, FetchFiles, FetchRows, FetchInsert, Put,
       FetchNoDirectory, FetchFails, FetchEnds, history
  <2>2. QED
    BY <1>0, <1>1, <1>2, <1>3, <1>4, <2>1, RowKept
<1>5. ASSUME NEW k \in Keys \ (raced' \cup rewound'), k = key[c] PROVE RowLatest(k)'
  <2>1. CASE FetchInsert(c)
    <3>1. ~Outdated(c) /\ meta'[k] = got[c]
      BY <1>0, <1>5, <2>1 DEF FetchInsert
    <3>2. PICK n \in Newest(k) : n.meta = got[c]
      BY <1>5, <3>1 DEF Outdated
    <3>3. CASE n \in Pending
      BY <1>2, <3>1, <3>2, <3>3 DEF RowLatest, Newest
    <3>4. CASE n \in recorded
      <4>1. ASSUME NEW e \in recorded, e.key = k,
                   \A o \in recorded : o.key = k => o.scrape <= e.scrape
            PROVE  e = n
        <5>1. e \in pushed /\ n.key = k /\ n.scrape <= e.scrape
          BY <1>0, <3>4, <4>1, Numbers DEF Newest
        <5>2. e \in Newest(k)
          BY <1>0, <4>1, <5>1, Numbers DEF Newest
        <5>3. QED
          BY <1>0, <5>2, NewestIs
      <4>2. QED
        BY <1>1, <3>1, <3>2, <4>1 DEF RowLatest
    <3>5. QED
      BY <1>0, <3>3, <3>4, PendingIs DEF Newest
  <2>2. CASE FetchRows(c)
    BY <1>5, <2>2 DEF FetchRows
  <2>3. CASE ~FetchInsert(c) /\ ~FetchRows(c)
    <3>1. UNCHANGED <<meta, rewound>>
      BY <2>3 DEF Fetch, Compare, FetchFiles, Put, FetchNoDirectory, FetchFails,
         FetchEnds, database, history
    <3>2. QED
      BY <1>0, <1>1, <1>2, <1>5, <3>1, RowKept
  <2>4. QED
    BY <2>1, <2>2, <2>3
<1>6. QED
  BY <1>4, <1>5

LEMMA RowNext == RowInv /\ [Next]_vars => RowInv'
<1> SUFFICES ASSUME RowInv, [Next]_vars PROVE RowInv'
  OBVIOUS
<1>1. OrderInv' /\ QueueInv' /\ QueueInv
  BY OrderNext DEF RowInv, OrderInv
<1>2. CASE \/ UNCHANGED vars
           \/ \E m \in Movies : Invalidate(m)
           \/ \E k \in Keys : Evict(k)
           \/ \E c \in Calls :
                  \/ \E k \in Keys : Cached(c, k) \/ Scrape(c, k)
                  \/ Pop(c) \/ Drained(c) \/ Return(c) \/ Download(c)
                  \/ NoDirectory(c) \/ Fault(c)
  <2>1. /\ UNCHANGED <<recorded, meta, rewound>> /\ pushed \subseteq pushed'
        /\ raced \subseteq raced'
    BY <1>2 DEF vars, call, history, database, Invalidate, Evict, Cached, Scrape, Pop,
       Drained, Return, Download, NoDirectory, Fault, PushBack
  <2>2. Pending \subseteq Pending'
    BY <1>1, <2>1, PendingIs, PendingNext
  <2>3. QED
    BY <1>1, <2>1, <2>2, RowKept DEF RowInv
<1>3. ASSUME NEW c \in Calls, Join(c) \/ Fetch(c) PROVE RowInv'
  BY <1>1, <1>3, JoinRow, FetchRow DEF RowInv
<1>4. QED
  BY <1>2, <1>3 DEF Next

\* The metadata of a player with nothing pending is that of its last scrape,
\* whichever calls have popped, failed, recorded and fetched times, except as
\* the property says.
THEOREM Latest == Spec => []LatestRecorded
<1>1. Init => RowInv
  BY OrderInit DEF Init, RowInv, RowLatest
<1>2. RowInv => LatestRecorded
  <2> SUFFICES ASSUME RowInv, NEW k \in Keys \ (raced \cup rewound), PendingFor(k) = {},
                      NEW e \in Newest(k)
               PROVE  meta[k] = e.meta
    BY DEF LatestRecorded
  <2>0. QueueInv
    BY DEF RowInv, OrderInv
  <2>1. e \in pushed /\ e.key = k /\ \A o \in pushed : o.key = k => o.scrape <= e.scrape
    BY DEF Newest
  <2>2. e \in recorded /\ recorded \subseteq pushed
    BY <2>0, <2>1, PendingIs, Numbers DEF PendingFor
  <2>3. QED
    BY <2>1, <2>2 DEF RowInv, RowLatest, PendingFor
<1>3. QED
  BY <1>1, <1>2, RowNext, PTL DEF Spec

-----------------------------------------------------------------------------
(* Which playlists have files.                                             *)

Active(c) == pc[c] \in {"drain", "join", "download"}

\* The playlists about: of k's files, of its calls, and the one scraped last,
\* which a new call will have.
Present(k) ==
    stored[k] \cup {got[c] : c \in {o \in Calls : key[o] = k /\ Active(o)}}
              \cup {e.meta : e \in Newest(k)}

\* A playlist that an entry, or a fetch that has deleted the rows, will record.
Coming(k, m) ==
    \/ \E p \in Pending : p.key = k /\ p.meta = m
    \/ \E c \in Calls : pc[c] = "insert" /\ key[c] = k /\ got[c] = m

\* A future of k has compared, and found no metadata or its own.
Agreed(k) == \E c \in Calls : \E i \in items[c] : i.entry.key = k /\ i.step = "set"

\* Every playlist about is the one recorded, or will be; and will be even so if
\* a future is about to write over it.
Accounted(k) ==
    \A m \in Present(k) : Coming(k, m) \/ (m = meta[k] /\ ~Agreed(k))

FilesInv == OrderInv /\ \A k \in Keys \ (raced \cup mixed) : Accounted(k)

LEMMA PresentMetas ==
    ASSUME QueueInv, NEW k \in Keys
    PROVE  NoMeta \notin Present(k)
<1>1. NoMeta \notin stored[k]
  BY QueueConstants DEF QueueInv, TypeOK
<1>2. \A c \in Calls : Active(c) => got[c] # NoMeta
  BY DEF QueueInv, HasPlaylist, Active
<1>3. \A e \in Newest(k) : e.meta # NoMeta
  BY Numbers, QueueConstants DEF Newest
<1>4. QED
  BY <1>1, <1>2, <1>3 DEF Present

\* A step that takes no playlist of k from those that will be recorded, and
\* adds none about that is not among them.
LEMMA AccountedKept ==
    ASSUME NEW k \in Keys, Accounted(k), meta'[k] = meta[k],
           Agreed(k)' => Agreed(k),
           \A m : Coming(k, m) => Coming(k, m)',
           \A m \in Present(k)' : m \in Present(k) \/ Coming(k, m)'
    PROVE  Accounted(k)'
<1>1. ASSUME NEW m \in Present(k)'
      PROVE  Coming(k, m)' \/ (m = meta'[k] /\ ~Agreed(k)')
  BY DEF Accounted
<1>2. QED
  BY <1>1 DEF Accounted

\* The purge of k leaves every file and call with m, and then m is recorded,
\* or the entry or the fetch that will record it is there.
LEMMA Purged ==
    ASSUME NEW k \in Keys, NEW m, Others(k, m) = {},
           UNCHANGED <<stored, got, key>>, Newest(k)' = Newest(k),
           \A c \in Calls : key[c] = k /\ Active(c)' => Active(c),
           NEW x \in Present(k)'
    PROVE  x = m \/ \E n \in Newest(k) : x = n.meta
<1>1. CASE x \in stored[k]
  BY <1>1 DEF Others
<1>2. CASE \E c \in Calls : key[c] = k /\ Active(c) /\ x = got[c]
  BY <1>2 DEF Others, Active
<1>3. CASE \E n \in Newest(k) : x = n.meta
  BY <1>3
<1>4. QED
  BY <1>1, <1>2, <1>3 DEF Present, Active

\* A call that gets the cache's playlist gets the one scraped last.
LEMMA CachedFiles ==
    ASSUME FilesInv, NEW c \in Calls, NEW k \in Keys, Cached(c, k),
           NEW x \in Keys \ (raced \cup mixed)
    PROVE  Accounted(x)'
<1>0. /\ QueueInv /\ PlayersPushed /\ Accounted(x)
      /\ pc \in [Calls -> PcSteps] /\ key \in [Calls -> Keys]
      /\ got \in [Calls -> Metas \cup {NoMeta}]
  BY DEF FilesInv, OrderInv, QueueInv, TypeOK, PcSteps
<1>1. /\ UNCHANGED <<queue, items, pushed, recorded, meta, stored>>
      /\ Answer(c, k, players[MovieOf[k]][k]) /\ players[MovieOf[k]] # NotScraped
      /\ pc[c] = "idle"
  BY DEF Cached, database, history
<1>2. /\ \A o \in Calls : o # c => /\ pc'[o] = pc[o] /\ key'[o] = key[o]
                                   /\ got'[o] = got[o]
      /\ key'[c] = k /\ got'[c] = players[MovieOf[k]][k]
      /\ pc'[c] \in {"idle", "drain"} /\ (pc'[c] = "drain" => got'[c] # NoMeta)
  BY <1>0, <1>1 DEF Answer, Goto
<1>3. Pending' = Pending /\ Newest(x)' = Newest(x) /\ (Agreed(x)' => Agreed(x))
  BY <1>1 DEF Pending, Entries, Newest, Agreed
<1>4. \A m : Coming(x, m) => Coming(x, m)'
  BY <1>1, <1>2, <1>3 DEF Coming
<1>5. ASSUME NEW m \in Present(x)' PROVE m \in Present(x)
  <2>1. CASE m \in stored'[x] \cup {e.meta : e \in Newest(x)}
    BY <1>1, <2>1 DEF Present
  <2>2. CASE \E o \in Calls : key'[o] = x /\ Active(o)' /\ m = got'[o]
    <3>1. PICK o \in Calls : key'[o] = x /\ Active(o)' /\ m = got'[o]
      BY <2>2
    <3>2. CASE o # c
      BY <1>2, <3>1, <3>2 DEF Present, Active
    <3>3. CASE o = c
      <4>1. x = k /\ m = players[MovieOf[k]][k] /\ m # NoMeta
        BY <1>2, <3>1, <3>3 DEF Active
      <4>2. \E e \in Newest(x) : e.meta = m
        BY <1>0, <1>1, <4>1 DEF PlayersPushed
      <4>3. QED
        BY <4>2 DEF Present
    <3>4. QED
      BY <3>2, <3>3
  <2>3. QED
    BY <1>3, <1>5, <2>1, <2>2 DEF Present
<1>6. QED
  BY <1>0, <1>1, <1>3, <1>4, <1>5, AccountedKept

\* A playlist that is scraped will be recorded.
LEMMA ScrapeFiles ==
    ASSUME FilesInv, QueueInv', NEW c \in Calls, NEW k \in Keys, Scrape(c, k),
           NEW x \in Keys \ (raced \cup mixed)
    PROVE  Accounted(x)'
<1>0. /\ QueueInv /\ Accounted(x)
      /\ pc \in [Calls -> PcSteps] /\ key \in [Calls -> Keys]
      /\ got \in [Calls -> Metas \cup {NoMeta}]
  BY DEF FilesInv, OrderInv, QueueInv, TypeOK, PcSteps
<1> DEFINE with(f) == {o \in DOMAIN f : f[o] # NoMeta}
           new(f) == {[key |-> o, scrape |-> scrapes + 1, meta |-> f[o]] : o \in with(f)}
<1>1. PICK f \in [KeysOf(MovieOf[k]) -> Metas \cup {NoMeta}] :
          Answer(c, k, f[k]) /\ pushed' = pushed \cup new(f)
  BY DEF Scrape
<1>2. UNCHANGED <<items, recorded, meta, stored>> /\ pc[c] = "idle"
  BY DEF Scrape, database
<1>3. \A o \in with(f) : \E e \in new(f) : e.key = o /\ e.meta = f[o]
  <2>1. \A o \in with(f) : [key |-> o, scrape |-> scrapes + 1, meta |-> f[o]] \in new(f)
    OBVIOUS
  <2> HIDE DEF with, new
  <2>2. QED
    BY <2>1
<1>4. k \in DOMAIN f
  BY DEF KeysOf
<1>5. f[k] # NoMeta => k \in with(f)
  BY <1>4
<1> HIDE DEF with, new
<1>6. Pending \subseteq Pending' /\ (\A e \in new(f) : e \in Pending')
  <2>1. Pending = pushed \ recorded /\ Pending' = pushed' \ recorded'
    BY <1>0, PendingIs, PendingNext
  <2>2. \A e \in new(f) : e \notin recorded
    <3>1. \A e \in new(f) : e.scrape = scrapes + 1
      BY DEF new
    <3>2. scrapes \in Int /\ \A e \in recorded : e.scrape \in Int /\ e.scrape <= scrapes
      <4>1. recorded \subseteq pushed /\ \A e \in pushed : e.scrape \in Int
        BY <1>0, Numbers
      <4>2. QED
        BY <1>0, <4>1 DEF QueueInv, TypeOK, ScrapesNumbered
    <3>3. \A e \in recorded : e.scrape # scrapes + 1
      BY <3>2
    <3>4. QED
      BY <3>1, <3>3
  <2>3. QED
    BY <1>1, <1>2, <2>1, <2>2
<1>7. /\ \A o \in Calls : o # c => /\ pc'[o] = pc[o] /\ key'[o] = key[o]
                                   /\ got'[o] = got[o]
      /\ key'[c] = k /\ got'[c] = f[k]
      /\ pc'[c] \in {"idle", "drain"} /\ (pc'[c] = "drain" => f[k] # NoMeta)
  BY <1>0, <1>1 DEF Answer, Goto
<1>8. Agreed(x)' => Agreed(x)
  BY <1>2 DEF Agreed
<1>9. \A m : Coming(x, m) => Coming(x, m)'
  BY <1>2, <1>6, <1>7 DEF Coming
<1>10. ASSUME NEW m \in Present(x)' PROVE m \in Present(x) \/ Coming(x, m)'
  <2>1. CASE m \in stored'[x]
    BY <1>2, <2>1 DEF Present
  <2>2. CASE \E o \in Calls : key'[o] = x /\ Active(o)' /\ m = got'[o]
    <3>1. PICK o \in Calls : key'[o] = x /\ Active(o)' /\ m = got'[o]
      BY <2>2
    <3>2. CASE o # c
      BY <1>7, <3>1, <3>2 DEF Present, Active
    <3>3. CASE o = c
      <4>1. x = k /\ m = f[k] /\ k \in with(f)
        BY <1>5, <1>7, <3>1, <3>3 DEF Active
      <4>2. QED
        BY <1>3, <1>6, <4>1 DEF Coming
    <3>4. QED
      BY <3>2, <3>3
  <2>3. CASE \E n \in Newest(x)' : m = n.meta
    <3>1. PICK n \in Newest(x)' : m = n.meta
      BY <2>3
    <3>2. n \in pushed' /\ n.key = x /\ \A o \in pushed' : o.key = x => o.scrape <= n.scrape
      BY <3>1 DEF Newest
    <3>3. CASE n \in pushed
      <4>1. n \in Newest(x)
        BY <1>1, <3>2, <3>3 DEF Newest
      <4>2. QED
        BY <3>1, <4>1 DEF Present
    <3>4. CASE n \in new(f)
      BY <1>6, <3>1, <3>2, <3>4 DEF Coming
    <3>5. QED
      BY <1>1, <3>2, <3>3, <3>4
  <2>4. QED
    BY <1>10, <2>1, <2>2, <2>3 DEF Present
<1>11. QED
  BY <1>0, <1>2, <1>8, <1>9, <1>10, AccountedKept

\* The steps of a call that records nothing.
LEMMA CallFiles ==
    ASSUME FilesInv, QueueInv', NEW x \in Keys \ (raced \cup mixed),
           \/ UNCHANGED vars
           \/ \E m \in Movies : Invalidate(m)
           \/ \E k \in Keys : Evict(k)
           \/ \E c \in Calls : \/ Pop(c) \/ Drained(c) \/ Return(c) \/ Download(c)
                              \/ (PushBack(c) /\ pc[c] = "join")
    PROVE  Accounted(x)'
<1>0. /\ QueueInv /\ Accounted(x)
      /\ pc \in [Calls -> PcSteps] /\ key \in [Calls -> Keys]
      /\ stored \in [Keys -> SUBSET Metas]
      /\ items \in [Calls -> SUBSET Items]
  BY DEF FilesInv, OrderInv, QueueInv, TypeOK, PcSteps, Items, ItemSteps
<1>1. /\ UNCHANGED <<pushed, recorded, meta, key, got>>
      /\ \A o \in Calls : /\ (pc[o] = "insert") <=> (pc'[o] = "insert")
                          /\ Active(o)' => Active(o)
  BY <1>0 DEF vars, call, history, database, Invalidate, Evict, Pop, Drained, Return,
     Download, PushBack, Goto, Active
<1>2. Pending' = Pending /\ Newest(x)' = Newest(x)
  BY <1>0, <1>1, PendingIs, PendingNext DEF Newest
<1>3. Agreed(x)' => Agreed(x)
  <2>1. \A o \in Calls : \A i \in items'[o] : i \in items[o] \/ i.step = "read"
    <3>1. CASE UNCHANGED items
      BY <3>1
    <3>2. CASE \E c \in Calls : Pop(c)
      <4>1. PICK c \in Calls : Pop(c)
        BY <3>2
      <4>2. Item(Head(queue), "read").step = "read"
        BY DEF Item
      <4>3. QED
        BY <1>0, <4>1, <4>2 DEF Pop
    <3>3. CASE \E c \in Calls : PushBack(c)
      BY <1>0, <3>3 DEF PushBack
    <3>4. QED
      BY <3>1, <3>2, <3>3 DEF vars, call, Invalidate, Evict, Drained, Return, Download
  <2>2. QED
    BY <2>1 DEF Agreed
<1>4. \A m : Coming(x, m) => Coming(x, m)'
  BY <1>1, <1>2 DEF Coming
<1>5. \A m \in stored'[x] : m \in Present(x)
  <2>1. CASE UNCHANGED stored
    BY <2>1 DEF Present
  <2>2. CASE \E c \in Calls : Download(c)
    <3>1. PICK c \in Calls : Download(c)
      BY <2>2
    <3>2. \A m \in stored'[x] : m \in stored[x] \/ (m = got[c] /\ key[c] = x)
      BY <1>0, <3>1 DEF Download
    <3>3. Active(c)
      BY <3>1 DEF Download, Active
    <3>4. QED
      BY <3>2, <3>3 DEF Present
  <2>3. QED
    BY <2>1, <2>2 DEF vars, database, Invalidate, Evict, Pop, Drained, Return, PushBack
<1>6. \A m \in Present(x)' : m \in Present(x)
  <2>1. \A o \in Calls : key'[o] = x /\ Active(o)' => got'[o] \in Present(x)
    BY <1>1 DEF Present
  <2>2. \A n \in Newest(x)' : n.meta \in Present(x)
    BY <1>2 DEF Present
  <2>3. QED
    BY <1>5, <2>1, <2>2 DEF Present
<1>7. QED
  BY <1>0, <1>1, <1>3, <1>4, <1>6, AccountedKept

\* A future's step: it agrees with what is recorded, or purges and records.
LEMMA JoinFiles ==
    ASSUME FilesInv, QueueInv', NEW c \in Calls, Join(c),
           NEW x \in Keys \ (raced \cup mixed')
    PROVE  Accounted(x)'
<1>0. /\ QueueInv /\ InOrder(x) /\ (x \notin mixed => Accounted(x))
      /\ items \in [Calls -> SUBSET Items] /\ meta \in [Keys -> Metas \cup {NoMeta}]
      /\ stored \in [Keys -> SUBSET Metas]
      /\ UNCHANGED <<players, queue, pc, key, got, pushed>>
  BY DEF FilesInv, OrderInv, QueueInv, TypeOK, Join, Items, ItemSteps
<1>1. PICK i \in items[c] :
          \/ Read(c, i) \/ SetMetadata(c, i)
          \/ DeleteFiles(c, i) \/ DeleteRows(c, i) \/ Insert(c, i)
  BY DEF Join
<1> DEFINE e == i.entry
<1>2. e \in Pending /\ e \in pushed /\ e \in Entry /\ e.key \in Keys /\ e.meta \in Metas
  BY <1>0, Numbers
<1> HIDE DEF e
<1>3. Newest(x)' = Newest(x) /\ \A o \in Calls : Active(o)' <=> Active(o)
  BY <1>0 DEF Newest, Active
<1>4. stored'[x] \subseteq stored[x] => \A m \in Present(x)' : m \in Present(x)
  BY <1>0, <1>3 DEF Present
\* Another player's future.
<1>5. ASSUME e.key # x PROVE Accounted(x)'
  <2>1. meta'[x] = meta[x] /\ stored'[x] \subseteq stored[x] /\ x \notin mixed
    BY <1>0, <1>1, <1>2, <1>5
       DEF Read, SetMetadata, DeleteFiles, DeleteRows, Insert, Record, Mark, database, e
  <2>2. Agreed(x)' => Agreed(x)
    <3>1. \A o \in Calls : \A j \in items'[o] : j \in items[o] \/ j.entry = e
      <4>1. \A step : Item(e, step).entry = e
        BY DEF Item
      <4>2. QED
        BY <1>0, <1>1, <4>1
           DEF Read, SetMetadata, DeleteFiles, DeleteRows, Insert, Record, Advance, e
    <3>2. QED
      BY <1>5, <3>1 DEF Agreed
  <2>3. \A m : Coming(x, m) => Coming(x, m)'
    <3>1. recorded' \subseteq recorded \cup {e}
      BY <1>1 DEF Read, SetMetadata, DeleteFiles, DeleteRows, Insert, Record, database, e
    <3>2. \A p \in Pending : p.key = x => p \in Pending'
      BY <1>0, <1>5, <3>1, PendingIs, PendingNext
    <3>3. QED
      BY <1>0, <3>2 DEF Coming
  <2>4. QED
    BY <1>0, <1>4, <2>1, <2>2, <2>3, AccountedKept
\* A step that keeps the future.
<1>6. ASSUME e.key = x, NEW step \in ItemSteps, Advance(c, i, step), UNCHANGED recorded
      PROVE  /\ Pending' = Pending /\ \A m : Coming(x, m)' <=> Coming(x, m)
             /\ Agreed(x)' => step = "set"
  <2>1. Pending' = Pending
    BY <1>0, <1>6, PendingIs, PendingNext
  <2>2. \A m : Coming(x, m)' <=> Coming(x, m)
    BY <1>0, <2>1 DEF Coming
  <2>3. Item(e, step).step = step
    BY DEF Item
  <2>4. \A o \in Calls : \A j \in items'[o] :
            (j \in items[o] /\ ~(o = c /\ j = i)) \/ j.step = step
    BY <1>0, <1>6, <2>3 DEF Advance, e
  <2>5. \A o \in Calls : \A j \in items[o] : j.entry.key = x => o = c /\ j = i
    BY <1>0, <1>6 DEF InOrder, e
  <2>6. Agreed(x)' => step = "set"
    BY <2>4, <2>5 DEF Agreed
  <2>7. QED
    BY <2>1, <2>2, <2>6
\* A step that records the entry.
<1>7. ASSUME e.key = x, Record(c, i)
      PROVE  /\ meta'[x] = e.meta /\ ~Agreed(x)'
             /\ \A m : Coming(x, m) => Coming(x, m)' \/ m = e.meta
  <2>1. meta'[x] = e.meta /\ recorded' = recorded \cup {e}
    BY <1>0, <1>2, <1>7 DEF Record, e
  <2>2. \A o \in Calls : \A j \in items'[o] : j \in items[o] /\ ~(o = c /\ j = i)
    BY <1>0, <1>7 DEF Record
  <2>3. ~Agreed(x)'
    BY <1>0, <1>7, <2>2 DEF Agreed, InOrder, e
  <2>4. Pending' = Pending \ {e}
    BY <1>0, <1>2, <2>1, PendingIs, PendingNext
  <2>5. \A m : Coming(x, m) => Coming(x, m)' \/ m = e.meta
    BY <1>0, <2>4 DEF Coming
  <2>6. QED
    BY <2>1, <2>3, <2>5
\* The purge of a future that leaves x unmixed.
<1>8. ASSUME e.key = x, Mark(x, Others(x, e.meta) # {}), UNCHANGED stored,
             NEW m \in Present(x)'
      PROVE  m = e.meta \/ \E n \in Pending : n.key = x /\ n.meta = m
  <2>1. Others(x, e.meta) = {}
    BY <1>8 DEF Mark
  <2>2. m = e.meta \/ \E n \in Newest(x) : m = n.meta
    BY <1>0, <1>3, <1>8, <2>1, Purged
  <2>3. \A n \in Newest(x) : n \in Pending /\ n.key = x
    BY <1>0, <1>2, <1>8, NewestPending DEF Newest
  <2>4. QED
    BY <2>2, <2>3
<1>9. CASE e.key = x /\ Read(c, i)
  <2>1. PICK step \in ItemSteps : /\ Advance(c, i, step) /\ UNCHANGED recorded
                                  /\ step = "set" => meta[x] \in {NoMeta, e.meta}
    BY <1>9 DEF Read, ItemSteps, e
  <2>2. UNCHANGED <<meta, stored>> /\ x \notin mixed
    BY <1>9 DEF Read, database
  <2>3. /\ \A m : Coming(x, m)' <=> Coming(x, m)
        /\ Agreed(x)' => step = "set"
    BY <1>6, <1>9, <2>1
  <2>4. Coming(x, e.meta)
    BY <1>2, <1>9 DEF Coming
  <2>5. ASSUME NEW m \in Present(x)' PROVE Coming(x, m)' \/ (m = meta'[x] /\ ~Agreed(x)')
    <3>1. m \in Present(x) /\ m # NoMeta
      BY <1>0, <1>4, <2>2, <2>5, PresentMetas
    <3>2. Coming(x, m) \/ m = meta[x]
      BY <1>0, <2>2, <3>1 DEF Accounted
    <3>3. QED
      BY <2>1, <2>2, <2>3, <2>4, <3>1, <3>2
  <2>6. QED
    BY <2>5 DEF Accounted
<1>10. CASE e.key = x /\ DeleteFiles(c, i)
  <2>1. Advance(c, i, "rows") /\ "rows" \in ItemSteps /\ UNCHANGED <<recorded, meta, mixed>>
    BY <1>10 DEF DeleteFiles, ItemSteps
  <2>2. stored'[x] \subseteq stored[x]
    BY <1>0, <1>10 DEF DeleteFiles, e
  <2>3. (\A m : Coming(x, m)' <=> Coming(x, m)) /\ ~Agreed(x)'
    BY <1>6, <1>10, <2>1
  <2>4. QED
    BY <1>0, <1>4, <2>1, <2>2, <2>3, AccountedKept
<1>11. CASE e.key = x /\ SetMetadata(c, i)
  <2>1. Record(c, i) /\ i.step = "set" /\ UNCHANGED <<stored, mixed>>
    BY <1>11 DEF SetMetadata
  <2>2. Agreed(x)
    BY <1>11, <2>1 DEF Agreed, e
  <2>3. \A m \in Present(x)' : Coming(x, m)
    BY <1>0, <1>4, <2>1, <2>2 DEF Accounted
  <2>4. ASSUME NEW m \in Present(x)' PROVE Coming(x, m)' \/ (m = meta'[x] /\ ~Agreed(x)')
    BY <1>7, <1>11, <2>1, <2>3
  <2>5. QED
    BY <2>4 DEF Accounted
<1>12. CASE e.key = x /\ DeleteRows(c, i)
  <2>1. /\ Advance(c, i, "insert") /\ "insert" \in ItemSteps /\ UNCHANGED <<recorded, stored>>
        /\ Mark(x, Others(x, e.meta) # {})
    BY <1>12 DEF DeleteRows, ItemSteps, e
  <2>2. (\A m : Coming(x, m)' <=> Coming(x, m)) /\ ~Agreed(x)'
    BY <1>6, <1>12, <2>1
  <2>3. ASSUME NEW m \in Present(x)' PROVE Coming(x, m)'
    BY <1>2, <1>8, <1>12, <2>1, <2>2 DEF Coming
  <2>4. QED
    BY <2>3 DEF Accounted
<1>13. CASE e.key = x /\ Insert(c, i)
  <2>1. Record(c, i) /\ UNCHANGED stored /\ Mark(x, Others(x, e.meta) # {})
    BY <1>13 DEF Insert, e
  <2>2. ASSUME NEW m \in Present(x)' PROVE Coming(x, m)' \/ (m = meta'[x] /\ ~Agreed(x)')
    <3>1. m = e.meta \/ Coming(x, m)
      BY <1>8, <1>13, <2>1 DEF Coming
    <3>2. QED
      BY <1>7, <1>13, <2>1, <3>1
  <2>3. QED
    BY <2>2 DEF Accounted
<1>14. QED
  BY <1>1, <1>5, <1>9, <1>10, <1>11, <1>12, <1>13

\* A fetch's step: it changes nothing that counts, or purges and records.
LEMMA FetchesFiles ==
    ASSUME FilesInv, QueueInv', NEW c \in Calls, Fetch(c),
           NEW x \in Keys \ (raced \cup mixed')
    PROVE  Accounted(x)'
<1>0. /\ QueueInv /\ InOrder(x) /\ (x \notin mixed => Accounted(x))
      /\ pc \in [Calls -> PcSteps] /\ meta \in [Keys -> Metas \cup {NoMeta}]
      /\ stored \in [Keys -> SUBSET Metas] /\ key[c] \in Keys
      /\ UNCHANGED <<players, queue, items, key, got, pushed, recorded, dir>>
  BY DEF FilesInv, OrderInv, QueueInv, TypeOK, PcSteps, Fetch, Compare, FetchFiles,
     FetchRows, FetchInsert, Put, FetchNoDirectory, FetchFails, FetchEnds, database,
     history
<1>1. /\ \A o \in Calls : o # c => pc'[o] = pc[o]
      /\ \A o \in Calls : Active(o)' <=> Active(o)
  BY <1>0 DEF Fetch, Compare, FetchFiles, FetchRows, FetchInsert, Put,
     FetchNoDirectory, FetchFails, FetchEnds, Goto, Leave, Active
<1>2. Pending' = Pending /\ Newest(x)' = Newest(x) /\ (Agreed(x)' <=> Agreed(x))
  BY <1>0, PendingIs, PendingNext DEF Newest, Agreed
<1>3. stored'[x] \subseteq stored[x] => \A m \in Present(x)' : m \in Present(x)
  BY <1>0, <1>1, <1>2 DEF Present
\* A step that neither takes a fetch of x from those about to record, nor
\* changes the row.
<1>4. ASSUME x \notin mixed, meta'[x] = meta[x], stored'[x] \subseteq stored[x],
             ~(pc[c] = "insert" /\ key[c] = x)
      PROVE  Accounted(x)'
  <2>1. \A m : Coming(x, m) => Coming(x, m)'
    BY <1>0, <1>1, <1>2, <1>4 DEF Coming
  <2>2. QED
    BY <1>0, <1>2, <1>3, <1>4, <2>1, AccountedKept
\* The purge of a fetch that leaves x unmixed.
<1>5. ASSUME key[c] = x, Mark(x, Outdated(c) \/ Others(x, got[c]) # {}), UNCHANGED stored,
             NEW m \in Present(x)'
      PROVE  /\ m = got[c]
             /\ \E n \in Newest(x) : n.meta = got[c]
  <2>1. Others(x, got[c]) = {} /\ ~Outdated(c)
    BY <1>5 DEF Mark
  <2>2. PICK n \in Newest(x) : n.meta = got[c]
    BY <1>5, <2>1 DEF Outdated
  <2>3. m = got[c] \/ \E o \in Newest(x) : m = o.meta
    BY <1>0, <1>1, <1>2, <1>5, <2>1, Purged
  <2>4. QED
    BY <1>0, <2>2, <2>3, NewestIs
<1>6. CASE key[c] # x
  <2>1. meta'[x] = meta[x] /\ stored'[x] \subseteq stored[x] /\ x \notin mixed
    BY <1>0, <1>6 DEF Fetch, Compare, FetchFiles, FetchRows, FetchInsert, Put,
       FetchNoDirectory, FetchFails, FetchEnds, Mark, database, history
  <2>2. QED
    BY <1>4, <1>6, <2>1
<1>7. CASE key[c] = x /\ FetchRows(c)
  <2>1. Mark(x, Outdated(c) \/ Others(x, got[c]) # {}) /\ UNCHANGED stored
    BY <1>7 DEF FetchRows
  <2>2. pc'[c] = "insert"
    BY <1>0, <1>7 DEF FetchRows, Goto
  <2>3. ASSUME NEW m \in Present(x)' PROVE Coming(x, m)'
    <3>1. m = got'[c] /\ key'[c] = x
      BY <1>0, <1>5, <1>7, <2>1
    <3>2. QED
      BY <2>2, <3>1 DEF Coming
  <2>4. QED
    BY <2>3 DEF Accounted
<1>8. CASE key[c] = x /\ FetchInsert(c)
  <2>1. /\ Mark(x, Outdated(c) \/ Others(x, got[c]) # {}) /\ UNCHANGED stored
        /\ meta'[x] = got[c]
    BY <1>0, <1>8 DEF FetchInsert
  <2>2. ASSUME NEW m \in Present(x)' PROVE Coming(x, m)' \/ (m = meta'[x] /\ ~Agreed(x)')
    <3>1. PICK n \in Newest(x) : n.meta = got[c] /\ m = got[c]
      BY <1>5, <1>8, <2>1
    <3>2. CASE Agreed(x)
      <4>1. PICK o \in Calls : \E i \in items[o] : i.entry.key = x
        BY <3>2 DEF Agreed
      <4>2. PICK i \in items[o] : i.entry.key = x
        BY <4>1
      <4>3. i.entry \in Pending
        BY <1>0, Numbers
      <4>4. n \in Pending /\ n.key = x
        BY <1>0, <4>2, <4>3, NewestPending DEF Newest
      <4>5. QED
        BY <1>2, <3>1, <4>4 DEF Coming
    <3>3. QED
      BY <1>2, <2>1, <3>1, <3>2
  <2>3. QED
    BY <2>2 DEF Accounted
<1>9. CASE key[c] = x /\ FetchFails(c)
  <2>1. UNCHANGED <<meta, stored>> /\ x \notin mixed /\ pc[c] # "insert"
    BY <1>9 DEF FetchFails, database
  <2>2. QED
    BY <1>4, <2>1
<1>10. CASE key[c] = x /\ FetchFiles(c)
  <2>1. UNCHANGED <<meta, mixed>> /\ stored'[x] \subseteq stored[x] /\ pc[c] # "insert"
    BY <1>0, <1>10 DEF FetchFiles, history
  <2>2. QED
    BY <1>4, <2>1
<1>11. CASE Compare(c) \/ Put(c) \/ FetchNoDirectory(c) \/ FetchEnds(c)
  <2>1. UNCHANGED <<meta, stored, mixed>> /\ pc[c] # "insert"
    BY <1>11 DEF Compare, Put, FetchNoDirectory, FetchEnds, database, history
  <2>2. QED
    BY <1>4, <2>1
<1>12. QED
  BY <1>6, <1>7, <1>8, <1>9, <1>10, <1>11 DEF Fetch

LEMMA FilesNext == FilesInv /\ [Next]_vars => FilesInv'
<1> SUFFICES ASSUME FilesInv, [Next]_vars PROVE FilesInv'
  OBVIOUS
<1>1. OrderInv' /\ QueueInv'
  BY OrderNext DEF FilesInv, OrderInv
<1>2. ASSUME NEW x \in Keys \ (raced' \cup mixed') PROVE Accounted(x)'
  <2>1. x \notin raced
    BY <1>2 DEF Next, vars, history, Invalidate, Evict, Cached, Scrape, Pop, Drained,
       Join, Return, Download, NoDirectory, Fault, PushBack, Fetch, Compare, FetchFiles,
       FetchRows, FetchInsert, Put, FetchNoDirectory, FetchFails, FetchEnds
  <2>2. CASE \E c \in Calls : Join(c) \/ Fetch(c)
    BY <1>1, <1>2, <2>1, <2>2, JoinFiles, FetchesFiles
  <2>3. CASE ~\E c \in Calls : Join(c) \/ Fetch(c)
    <3>1. x \notin mixed
      BY <1>2, <2>3 DEF Next, vars, history, Invalidate, Evict, Cached, Scrape, Pop,
         Drained, Return, Download, NoDirectory, Fault, PushBack
    <3>2. CASE \E c \in Calls, k \in Keys : Cached(c, k) \/ Scrape(c, k)
      BY <1>1, <1>2, <2>1, <3>1, <3>2, CachedFiles, ScrapeFiles
    <3>3. ASSUME NEW c \in Calls, NoDirectory(c) \/ Fault(c)
          PROVE  PushBack(c) /\ pc[c] = "join"
      BY <3>3 DEF NoDirectory, Fault
    <3>4. QED
      BY <1>1, <1>2, <2>1, <2>3, <3>1, <3>2, <3>3, CallFiles DEF Next
  <2>4. QED
    BY <2>2, <2>3
<1>3. QED
  BY <1>1, <1>2 DEF FilesInv

\* The files of a player with nothing pending are of the playlist recorded, or
\* of the one that a fetch is about to record, except as the property says.
THEOREM FilesMatch == Spec => []FilesMatchMetadata
<1>1. Init => FilesInv
  <2> SUFFICES ASSUME Init PROVE FilesInv
    OBVIOUS
  <2>1. ASSUME NEW k \in Keys PROVE Present(k) = {}
    BY DEF Init, Present, Active, Newest
  <2>2. QED
    BY <2>1, OrderInit DEF FilesInv, Accounted
<1>2. FilesInv => FilesMatchMetadata
  <2> SUFFICES ASSUME FilesInv, NEW k \in Keys \ (raced \cup mixed), PendingFor(k) = {},
                      NEW m \in stored[k]
               PROVE  m = meta[k] \/ \E c \in Calls : pc[c] = "insert" /\ key[c] = k
                                                     /\ got[c] = m
    BY DEF FilesMatchMetadata
  <2>1. m \in Present(k) /\ Accounted(k)
    BY DEF Present, FilesInv
  <2>2. QED
    BY <2>1 DEF Accounted, Coming, PendingFor
<1>3. QED
  BY <1>1, <1>2, FilesNext, PTL DEF Spec
=============================================================================
