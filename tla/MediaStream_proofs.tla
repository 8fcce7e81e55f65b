------------------------- MODULE MediaStream_proofs -------------------------
(***************************************************************************)
(* Proofs about MediaStream, for contents of any number of parts of any    *)
(* length, any sizes of buffer and packet, and any ranges.                 *)
(***************************************************************************)
EXTENDS MediaStream, TLAPS

-----------------------------------------------------------------------------
(* The contents.                                                           *)

\* A content's parts have positions, in order, and end by its length.
LEMMA PartsShape ==
    ASSUME parts \in Contents
    PROVE  /\ Count \in Nat /\ Total \in Nat
           /\ \A i \in 1 .. Count :
                  /\ parts[i].file \in BOOLEAN
                  /\ parts[i].lo \in Nat /\ parts[i].hi \in Nat
                  /\ parts[i].lo <= parts[i].hi /\ parts[i].hi <= Total
           /\ Count > 0 => parts[1].lo = 0
           /\ \A i \in 1 .. Count - 1 : parts[i + 1].lo = parts[i].hi
           /\ \A i, j \in 1 .. Count : i <= j => parts[i].hi <= parts[j].hi
<1>1. /\ parts \in Seq([file : BOOLEAN, lo : Nat, hi : Nat])
      /\ parts # <<>> => parts[1].lo = 0
      /\ \A i \in 1 .. Count : parts[i].lo <= parts[i].hi
      /\ \A i \in 1 .. Count - 1 : parts[i + 1].lo = parts[i].hi
      /\ \A i, j \in 1 .. Count : i <= j => parts[i].hi <= parts[j].hi
  BY StreamConstants DEF Count
<1>2. Count \in Nat
  BY <1>1 DEF Count
<1>3. \A i \in 1 .. Count : /\ parts[i].file \in BOOLEAN
                            /\ parts[i].lo \in Nat /\ parts[i].hi \in Nat
  <2>1. \A i \in 1 .. Count : parts[i] \in [file : BOOLEAN, lo : Nat, hi : Nat]
    <3> DEFINE P == [file : BOOLEAN, lo : Nat, hi : Nat]
    <3>1. parts \in Seq(P)
      BY <1>1
    <3> HIDE DEF P
    <3>2. \A i \in 1 .. Len(parts) : parts[i] \in P
      BY <3>1
    <3>3. QED
      BY <3>2 DEF P, Count
  <2>2. QED
    BY <2>1
<1>4. Total \in Nat
  BY <1>2, <1>3 DEF Total
<1>5. \A i \in 1 .. Count : parts[i].hi <= Total
  BY <1>1, <1>2, <1>3 DEF Total
<1>6. Count > 0 => parts[1].lo = 0
  BY <1>1 DEF Count
<1>7. QED
  BY <1>1, <1>2, <1>3, <1>4, <1>5, <1>6

-----------------------------------------------------------------------------
(* The invariant.                                                          *)

\* Where the body stands between two parts, and inside the files read as one;
\* a buffer is partly used only after a read that stopped at a file's end.
BodyPlace ==
    /\ ~reading /\ front <= Count =>
           parts[front].lo <= cursor /\ cursor <= parts[front].hi
    /\ ~reading /\ front > Count => cursor = Total
    /\ reading => cursor <= parts[front - 1].hi
    /\ reading => room = Capacity \/ \E i \in 1 .. Count : cursor = parts[i].hi

\* What the client has been promised, and where its body stands.
ClientPlace ==
    consumer = "client" =>
        /\ st \in {"respond", "seek"} =>
               front = 1 /\ ~reading /\ cursor = 0
        /\ st = "respond" => start = 0 /\ length = 0
        /\ st # "respond" /\ st # "refused" =>
               start < Total /\ start + length <= Total
        /\ st \in {"seek", "seeking"} => remaining = length
        /\ st \in {"seeking", "read", "done", "failed"} /\ remaining > 0 =>
               SeekMisplaced \/ cursor = start + length - remaining

\* A parser reads a body from its beginning, and is never asked to seek.
ParserPlace ==
    consumer # "client" =>
        /\ st \notin {"respond", "seek", "seeking", "refused"}
        /\ ~reading /\ front <= Count => cursor = parts[front].lo
        /\ st # "panicked" => carry = cursor % Packet

MediaInv == TypeOK /\ BodyPlace /\ ClientPlace /\ ParserPlace /\ BodyComplete

LEMMA Arithmetic ==
    ASSUME NEW a \in Int, NEW b \in Int
    PROVE  /\ Lesser(a, b) \in Int /\ Lesser(a, b) <= a /\ Lesser(a, b) <= b
           /\ Lesser(a, b) = a \/ Lesser(a, b) = b
  BY DEF Lesser

\* A multiple of p other than zero is at least p away from it.
LEMMA Multiples ==
    ASSUME NEW p \in Nat \ {0}, NEW d \in Int, - p < p * d, p * d < p
    PROVE  d = 0
<1>1. CASE d >= 1
  <2>1. p * d = p + p * (d - 1) /\ p * (d - 1) >= 0
    BY <1>1
  <2>2. QED
    BY <2>1
<1>2. CASE d <= -1
  <2>1. p * d = - p - p * (- d - 1) /\ p * (- d - 1) >= 0
    BY <1>2
  <2>2. QED
    BY <2>1
<1>3. QED
  BY <1>1, <1>2

\* Quotient and remainder are the only ones.
LEMMA DivMod ==
    ASSUME NEW p \in Nat \ {0}, NEW a \in Nat
    PROVE  /\ a \div p \in Nat /\ a % p \in 0 .. p - 1
           /\ a = p * (a \div p) + (a % p)
           /\ \A q \in Int, r \in 0 .. p - 1 :
                  a = p * q + r => q = a \div p /\ r = a % p
<1>1. a \div p \in Nat /\ a % p \in 0 .. p - 1 /\ a = p * (a \div p) + (a % p)
  <2>1. a \div p \in Nat
    OBVIOUS
  <2>2. a % p \in 0 .. p - 1
    OBVIOUS
  <2>3. a = p * (a \div p) + (a % p)
    OBVIOUS
  <2>4. QED
    BY <2>1, <2>2, <2>3
<1>2. ASSUME NEW q \in Int, NEW r \in 0 .. p - 1, a = p * q + r
      PROVE  q = a \div p /\ r = a % p
  <2> DEFINE u == a \div p
             v == a % p
  <2>1. u \in Nat /\ v \in 0 .. p - 1 /\ a = p * u + v
    BY <1>1
  <2> HIDE DEF u, v
  <2>2. p * (q - u) = v - r
    BY <1>2, <2>1
  <2>3. q - u = 0
    BY <2>1, <2>2, Multiples
  <2>4. q = u /\ r = v
    BY <2>1, <2>2, <2>3
  <2>5. QED
    BY <2>4 DEF u, v
<1>3. QED
  BY <1>1, <1>2

LEMMA ModSum ==
    ASSUME NEW p \in Nat \ {0}, NEW a \in Nat, NEW b \in Nat, a <= b
    PROVE  ((a % p) + (b - a)) % p = b % p
<1> DEFINE u == a \div p
           v == b \div p
           r == a % p
           t == b % p
<1>1. /\ u \in Nat /\ r \in 0 .. p - 1 /\ a = p * u + r
      /\ v \in Nat /\ t \in 0 .. p - 1 /\ b = p * v + t
  BY DivMod
<1> HIDE DEF u, v, r, t
<1>2. r + (b - a) \in Nat /\ r + (b - a) = p * (v - u) + t /\ v - u \in Int
  BY <1>1
<1>3. t = (r + (b - a)) % p
  BY <1>1, <1>2, DivMod
<1>4. QED
  BY <1>3 DEF r, t

\* The next multiple of p is as far as the remainder leaves.
LEMMA NextMultiple ==
    ASSUME NEW p \in Nat \ {0}, NEW a \in Nat, NEW b \in Nat, a < b, b % p = 0
    PROVE  b - a >= p - (a % p)
<1> DEFINE u == a \div p
           v == b \div p
           r == a % p
<1>1. /\ u \in Nat /\ r \in 0 .. p - 1 /\ a = p * u + r
      /\ v \in Nat /\ b = p * v
  <2>1. b = p * v + (b % p) /\ p * v \in Int
    BY DivMod
  <2>2. b = p * v
    BY <2>1
  <2>3. QED
    BY <2>2, DivMod
<1> HIDE DEF u, v, r
<1>2. CASE v >= u + 1
  <2>1. p * v = p * (u + 1) + p * (v - (u + 1)) /\ p * (v - (u + 1)) >= 0
    <3>1. \A x \in Nat : p * x >= 0
      OBVIOUS
    <3>2. v - (u + 1) \in Nat
      BY <1>1, <1>2
    <3>3. QED
      BY <1>1, <3>1, <3>2
  <2>2. p * (u + 1) = p * u + p
    BY <1>1
  <2>3. b - a >= p - r
    BY <1>1, <2>1, <2>2
  <2>4. QED
    BY <2>3 DEF r
<1>3. CASE v <= u
  <2>1. p * u = p * v + p * (u - v) /\ p * (u - v) >= 0
    <3>1. \A x \in Nat : p * x >= 0
      OBVIOUS
    <3>2. u - v \in Nat
      BY <1>1, <1>3
    <3>3. QED
      BY <1>1, <3>1, <3>2
  <2>2. QED
    BY <1>1, <2>1
<1>4. QED
  BY <1>1, <1>2, <1>3

LEMMA InitInv == Init => MediaInv
<1> SUFFICES ASSUME Init PROVE MediaInv
  OBVIOUS
<1> USE DEF Init
<1>1. TypeOK
  <2>1. /\ Count \in Nat /\ Total \in Nat /\ Packet \in Nat \ {0}
        /\ room \in 1 .. Capacity
    BY PartsShape, StreamConstants
  <2>2. /\ front \in 1 .. Count + 1 /\ cursor \in 0 .. Total
        /\ carry \in 0 .. Packet - 1
        /\ start \in Nat /\ length \in Nat /\ remaining \in 0 .. length
    BY <2>1
  <2>3. reading \in BOOLEAN /\ (reading => front > 1)
    OBVIOUS
  <2>4. QED
    BY <2>1, <2>2, <2>3 DEF TypeOK
<1>2. BodyPlace
  <2>1. /\ ~reading /\ front = 1 /\ cursor = 0
    OBVIOUS
  <2>2. QED
    BY <2>1, PartsShape DEF BodyPlace, Total
<1>3. ClientPlace
  BY DEF ClientPlace
<1>4. ParserPlace
  BY PartsShape, StreamConstants DEF ParserPlace
<1>5. BodyComplete
  BY DEF BodyComplete
<1>6. QED
  BY <1>1, <1>2, <1>3, <1>4, <1>5 DEF MediaInv

\* The content does not change.
LEMMA SameContent ==
    ASSUME UNCHANGED given
    PROVE  /\ parts' = parts /\ pts' = pts /\ consumer' = consumer
           /\ Count' = Count /\ Total' = Total
  BY DEF given, Count, Total

\* The body gives n bytes up to c, to whichever consumer it has.
LEMMA GiveStep ==
    ASSUME MediaInv, UNCHANGED given, NEW c \in Nat, cursor <= c, Give(c), st = "read"
    PROVE  /\ remaining' \in 0 .. length' /\ carry' \in 0 .. Packet - 1
           /\ start' = start /\ length' = length
           /\ st' \in {"read", "done", "panicked"}
           /\ ClientPlace'
           /\ BodyComplete'
           /\ consumer # "client" /\ st' # "panicked" => carry' = c % Packet
<1> USE DEF Give
<1>0. /\ TypeOK /\ ClientPlace /\ ParserPlace /\ BodyComplete
      /\ Packet \in Nat \ {0} /\ cursor \in Nat /\ Total \in Nat
      /\ length \in Nat /\ remaining \in 0 .. length /\ start \in Nat
      /\ carry \in 0 .. Packet - 1
  BY PartsShape, StreamConstants DEF MediaInv, TypeOK
<1>1. CASE SendToClient(c - cursor)
  <2>1. /\ consumer = "client" /\ consumer' = "client"
        /\ remaining' = remaining - Lesser(remaining, c - cursor)
        /\ st' = "read" /\ start' = start /\ length' = length /\ carry' = carry
        /\ remaining > 0 /\ cursor' = c
    BY <1>1, SameContent DEF SendToClient, parser
  <2>2. SeekMisplaced' = SeekMisplaced
    BY <2>1, SameContent DEF SeekMisplaced, Inside
  <2>3. remaining' \in 0 .. length
    BY <1>0, <2>1 DEF Lesser
  <2>4. start + length <= Total /\ start < Total
    BY <1>0, <2>1 DEF ClientPlace
  <2>5. SeekMisplaced \/ cursor = start + length - remaining
    BY <1>0, <2>1 DEF ClientPlace
  <2>6. remaining' > 0 => SeekMisplaced \/ cursor' = start + length - remaining'
    BY <1>0, <2>1, <2>5 DEF Lesser
  <2>7. ClientPlace'
    BY <2>1, <2>2, <2>4, <2>6, SameContent DEF ClientPlace
  <2>8. BodyComplete'
    BY <2>1 DEF BodyComplete
  <2>9. QED
    BY <1>0, <2>1, <2>3, <2>7, <2>8
<1>2. CASE ParsePackets(c)
  <2>1. /\ consumer # "client" /\ consumer' # "client" /\ UNCHANGED ranged
        /\ start' = start /\ length' = length /\ remaining' = remaining
    BY <1>2, SameContent DEF ParsePackets, ranged
  <2>2. ClientPlace' /\ BodyComplete'
    BY <2>1 DEF ClientPlace, BodyComplete
  <2>3. /\ st' \in {"read", "done", "panicked"}
        /\ \/ st' = "panicked" /\ carry' = carry
           \/ carry' = (carry + (c - cursor)) % Packet
    BY <1>2 DEF ParsePackets, parser
  <2>4. carry = cursor % Packet
    BY <1>0, <2>1 DEF ParserPlace
  <2>5. (carry + (c - cursor)) % Packet = c % Packet
    BY <1>0, <2>4, ModSum
  <2>6. c % Packet \in 0 .. Packet - 1
    BY <1>0
  <2>7. carry' \in 0 .. Packet - 1
    BY <1>0, <2>3, <2>5, <2>6
  <2>8. st' # "panicked" => carry' = c % Packet
    BY <2>3, <2>5
  <2>9. QED
    BY <1>0, <2>1, <2>2, <2>3, <2>7, <2>8
<1>3. QED
  BY <1>1, <1>2

\* A step that gives the body's bytes up to c.
LEMMA GivenInv ==
    ASSUME MediaInv, UNCHANGED given, NEW c \in Nat, cursor <= c, c <= Total,
           Give(c), st = "read",
           room' \in 1 .. Capacity,
           front' \in 1 .. Count + 1, reading' \in BOOLEAN, reading' => front' > 1,
           BodyPlace',
           consumer # "client" /\ ~reading' /\ front' <= Count => c = parts[front'].lo
    PROVE  MediaInv'
<1>1. /\ remaining' \in 0 .. length' /\ carry' \in 0 .. Packet - 1
      /\ start' = start /\ length' = length
      /\ st' \in {"read", "done", "panicked"}
      /\ ClientPlace' /\ BodyComplete' /\ cursor' = c
      /\ consumer # "client" /\ st' # "panicked" => carry' = c % Packet
  BY GiveStep DEF Give
<1>2. /\ parts' = parts /\ pts' = pts /\ consumer' = consumer
      /\ Count' = Count /\ Total' = Total
  BY SameContent
<1>3. TypeOK
  BY DEF MediaInv
<1>4. TypeOK'
  <2>1. cursor' \in 0 .. Total'
    BY <1>1, <1>2, PartsShape, <1>3 DEF TypeOK
  <2>2. QED
    BY <1>1, <1>2, <1>3, <2>1 DEF TypeOK
<1>5. ParserPlace'
  BY <1>1, <1>2 DEF ParserPlace
<1>6. QED
  BY <1>1, <1>4, <1>5 DEF MediaInv

LEMMA NextInv == MediaInv /\ [Next]_vars => MediaInv'
<1> SUFFICES ASSUME MediaInv, [Next]_vars PROVE MediaInv'
  OBVIOUS
<1>0. /\ TypeOK /\ BodyPlace /\ ClientPlace /\ ParserPlace /\ BodyComplete
      /\ parts \in Contents /\ cursor \in Nat /\ cursor <= Total
      /\ front \in 1 .. Count + 1 /\ reading \in BOOLEAN
  BY PartsShape DEF MediaInv, TypeOK
<1>p. /\ Count \in Nat /\ Total \in Nat
      /\ \A i \in 1 .. Count :
             /\ parts[i].file \in BOOLEAN
             /\ parts[i].lo \in Nat /\ parts[i].hi \in Nat
             /\ parts[i].lo <= parts[i].hi /\ parts[i].hi <= Total
      /\ Count > 0 => parts[1].lo = 0
      /\ \A i \in 1 .. Count - 1 : parts[i + 1].lo = parts[i].hi
      /\ \A i, j \in 1 .. Count : i <= j => parts[i].hi <= parts[j].hi
  BY <1>0, PartsShape
<1>1. ASSUME NEW range \in Ranges \cup {NoRange}, TryRespond(range) PROVE MediaInv'
  <2>1. UNCHANGED given /\ UNCHANGED body /\ UNCHANGED parser
    BY <1>1 DEF TryRespond
  <2>2. /\ parts' = parts /\ pts' = pts /\ consumer' = consumer
        /\ Count' = Count /\ Total' = Total
        /\ front' = front /\ reading' = reading /\ cursor' = cursor /\ carry' = carry
        /\ room' = room
    BY <2>1, SameContent DEF body, parser
  <2>3. /\ st = "respond" /\ start = 0 /\ length = 0
        /\ consumer = "client" /\ front = 1 /\ ~reading /\ cursor = 0
    BY <1>0, <1>1 DEF TryRespond, ClientPlace, ParserPlace
  <2>4. SeekStart(range) \in Nat /\ SeekEndExcl(range) \in Nat
        /\ SeekEndExcl(range) <= Total
    <3>1. range # NoRange => range[1] \in Nat /\ range[2] \in Nat
      BY <1>1, StreamConstants
    <3>2. QED
      BY <1>p, <3>1 DEF SeekStart, SeekEndExcl
  <2>5. \/ st' = "refused" /\ start' = 0 /\ length' = 0 /\ remaining' = remaining
        \/ /\ st' = "seek" /\ start' \in Nat /\ length' \in Nat
           /\ remaining' = length' /\ start' + length' <= Total /\ start' < Total
    <3>1. CASE st' = "refused" /\ UNCHANGED ranged
      BY <3>1, <2>3 DEF ranged
    <3>2. CASE /\ SeekStart(range) < SeekEndExcl(range) /\ st' = "seek"
               /\ start' = SeekStart(range)
               /\ length' = SeekEndExcl(range) - SeekStart(range)
               /\ remaining' = length'
      BY <3>2, <2>4, <1>p
    <3>3. QED
      BY <1>1, <3>1, <3>2 DEF TryRespond
  <2>6. TypeOK'
    <3>1. start' \in Nat /\ length' \in Nat /\ remaining' \in 0 .. length'
      BY <2>3, <2>5, <1>0 DEF TypeOK
    <3>2. QED
      BY <1>0, <2>2, <2>5, <3>1 DEF TypeOK
  <2>7. BodyPlace'
    BY <1>0, <2>2 DEF BodyPlace
  <2>8. ClientPlace'
    BY <2>2, <2>3, <2>5 DEF ClientPlace
  <2>9. ParserPlace' /\ BodyComplete'
    BY <2>2, <2>3, <2>5 DEF ParserPlace, BodyComplete
  <2>10. QED
    BY <2>6, <2>7, <2>8, <2>9 DEF MediaInv
<1>2. CASE StartSeek
  <2>1. /\ UNCHANGED given /\ reading' = reading /\ UNCHANGED ranged /\ UNCHANGED parser
        /\ room' = room /\ st = "seek" /\ st' = "seeking"
    BY <1>2 DEF StartSeek
  <2>2. /\ parts' = parts /\ pts' = pts /\ consumer' = consumer
        /\ Count' = Count /\ Total' = Total
        /\ start' = start /\ length' = length /\ remaining' = remaining /\ carry' = carry
    BY <2>1, SameContent DEF ranged, parser
  <2>3. /\ consumer = "client" /\ front = 1 /\ ~reading /\ cursor = 0
        /\ remaining = length /\ start < Total /\ start + length <= Total
        /\ start \in Nat /\ length \in Nat
    BY <1>0, <2>1 DEF ClientPlace, ParserPlace, TypeOK
  <2>4. /\ front' \in 1 .. Count + 1 /\ cursor' \in 0 .. Total
        /\ BodyPlace'
        /\ SeekMisplaced \/ cursor' = start
    <3>1. PICK i \in 1 .. Count :
              /\ Inside(i) \/ parts[i].lo = start
              /\ front' = i /\ cursor' = SeekInto(i)
      BY <1>2 DEF StartSeek
    <3>2. /\ parts[i].lo \in Nat /\ parts[i].hi \in Nat /\ parts[i].hi <= Total
          /\ parts[i].lo <= parts[i].hi
      BY <1>p
    <3>3. /\ cursor' \in Int
          /\ parts[i].lo <= cursor' /\ cursor' <= parts[i].hi
      BY <3>1, <3>2, <2>3 DEF SeekInto, Lesser, Inside
    <3>4. SeekMisplaced \/ cursor' = start
      BY <3>1, <3>2, <2>3 DEF SeekInto, Lesser, SeekMisplaced, Inside
    <3>5. ~reading' /\ front' <= Count'
      BY <2>1, <2>2, <2>3, <3>1, <1>p
    <3>6. BodyPlace'
      BY <2>2, <3>1, <3>3, <3>5, <1>p DEF BodyPlace
    <3>7. cursor' \in 0 .. Total
      BY <3>2, <3>3, <1>p
    <3>8. QED
      BY <3>1, <3>4, <3>6, <3>7, <1>p
  <2>5. TypeOK'
    BY <1>0, <2>1, <2>2, <2>3, <2>4 DEF TypeOK
  <2>6. SeekMisplaced' = SeekMisplaced
    BY <2>2 DEF SeekMisplaced, Inside
  <2>7. ClientPlace' /\ ParserPlace' /\ BodyComplete'
    BY <2>1, <2>2, <2>3, <2>4, <2>6 DEF ClientPlace, ParserPlace, BodyComplete
  <2>8. QED
    BY <2>4, <2>5, <2>7 DEF MediaInv
<1>3. CASE \/ PollComplete \/ ReadFails \/ Finish
  <2>1. UNCHANGED given /\ UNCHANGED body /\ UNCHANGED ranged /\ UNCHANGED parser
    BY <1>3 DEF PollComplete, ReadFails, Finish
  <2>2. /\ parts' = parts /\ pts' = pts /\ consumer' = consumer
        /\ Count' = Count /\ Total' = Total
        /\ front' = front /\ reading' = reading /\ cursor' = cursor /\ room' = room
        /\ start' = start /\ length' = length /\ remaining' = remaining /\ carry' = carry
    BY <2>1, SameContent DEF ranged, parser, body
  <2>3. \/ st = "seeking" /\ st' \in {"read", "failed"}
        \/ st = "read" /\ st' = "failed"
        \/ /\ st = "read" /\ st' = "done"
           /\ \/ consumer = "client" /\ remaining = 0
              \/ ~reading /\ front > Count
    BY <1>3 DEF PollComplete, ReadFails, Finish, Polled
  <2>4. TypeOK'
    BY <1>0, <2>2, <2>3 DEF TypeOK
  <2>5. BodyPlace'
    BY <1>0, <2>2 DEF BodyPlace
  <2>6. SeekMisplaced' = SeekMisplaced
    BY <2>2 DEF SeekMisplaced, Inside
  <2>7. ClientPlace'
    BY <1>0, <2>2, <2>3, <2>6 DEF ClientPlace
  <2>8. ParserPlace'
    BY <1>0, <2>2, <2>3 DEF ParserPlace
  <2>9. BodyComplete'
    <3> SUFFICES ASSUME consumer = "client", st' = "done", remaining # 0
                 PROVE  SeekMisplaced
      BY <2>2, <2>6 DEF BodyComplete
    <3>1. st = "read" /\ cursor = Total
      BY <1>0, <2>3 DEF BodyPlace
    <3>2. remaining \in Nat /\ start \in Nat /\ length \in Nat
      BY <1>0 DEF TypeOK
    <3>3. start + length <= Total
      BY <1>0, <3>1 DEF ClientPlace
    <3>4. SeekMisplaced \/ cursor = start + length - remaining
      BY <1>0, <3>1, <3>2 DEF ClientPlace
    <3>5. QED
      BY <1>p, <3>1, <3>2, <3>3, <3>4
  <2>10. QED
    BY <2>4, <2>5, <2>7, <2>8, <2>9 DEF MediaInv
<1>4. CASE NextBytes
  <2> DEFINE c == parts[front].hi
  <2>1. /\ UNCHANGED given /\ st = "read" /\ ~reading /\ reading' = reading
        /\ front <= Count /\ Give(c) /\ front' = front + 1 /\ cursor' = c
        /\ room' = room
    BY <1>4 DEF NextBytes, Polled, Give
  <2>2. /\ parts' = parts /\ consumer' = consumer /\ Count' = Count /\ Total' = Total
    BY <2>1, SameContent
  <2>3. c \in Nat /\ cursor <= c /\ c <= Total
    BY <1>0, <1>p, <2>1 DEF BodyPlace
  <2>4. front' <= Count => parts[front'].lo = c /\ c <= parts[front'].hi
    <3>1. front' <= Count => front \in 1 .. Count - 1 /\ front' = front + 1
      BY <1>0, <1>p, <2>1
    <3>2. front' <= Count => front' \in 1 .. Count
      BY <1>0, <1>p, <2>1
    <3>3. QED
      BY <1>p, <3>1, <3>2
  <2>5. front' > Count => c = Total
    BY <1>0, <1>p, <2>1 DEF Total
  <2>6. BodyPlace'
    <3>1. front' <= Count => parts[front'].lo <= cursor' /\ cursor' <= parts[front'].hi
      BY <2>1, <2>3, <2>4
    <3>2. QED
      BY <2>1, <2>2, <2>5, <3>1 DEF BodyPlace
  <2>7. front' \in 1 .. Count + 1 /\ room' \in 1 .. Capacity
    BY <1>0, <1>p, <2>1 DEF TypeOK
  <2>8. QED
    <3> HIDE DEF c
    <3>1. QED
      BY <1>0, <2>1, <2>3, <2>4, <2>6, <2>7, GivenInv
<1>5. CASE Gather
  <2>1. /\ UNCHANGED given /\ UNCHANGED ranged /\ UNCHANGED parser
        /\ st = "read" /\ st' = st /\ cursor' = cursor /\ ~reading /\ reading' = TRUE
        /\ room' = Capacity /\ front' \in front + 1 .. Count + 1
    BY <1>5 DEF Gather, Polled
  <2>2. /\ parts' = parts /\ pts' = pts /\ consumer' = consumer
        /\ Count' = Count /\ Total' = Total
        /\ start' = start /\ length' = length /\ remaining' = remaining /\ carry' = carry
    BY <2>1, SameContent DEF ranged, parser
  <2>3. TypeOK'
    <3>1. front' \in 1 .. Count + 1 /\ front' > 1
      BY <1>0, <1>p, <2>1
    <3>2. QED
      BY <1>0, <2>1, <2>2, <3>1, StreamConstants DEF TypeOK
  <2>4. BodyPlace'
    <3>0. front' \in front + 1 .. Count + 1
      BY <2>1
    <3>1. front \in 1 .. Count /\ front' - 1 \in 1 .. Count /\ front <= front' - 1
      <4>1. \A n \in Nat : \A f \in 1 .. n + 1 : \A g \in (f + 1) .. (n + 1) :
                f \in 1 .. n /\ g - 1 \in 1 .. n /\ f <= g - 1
        OBVIOUS
      <4>2. Count \in Nat /\ front \in 1 .. Count + 1
        BY <1>0, <1>p
      <4>3. QED
        BY <3>0, <4>1, <4>2
    <3>2. cursor <= parts[front].hi /\ parts[front].hi <= parts[front' - 1].hi
      BY <1>0, <1>p, <2>1, <3>1 DEF BodyPlace
    <3>3. cursor <= parts[front' - 1].hi
      BY <1>0, <1>p, <3>1, <3>2
    <3>4. QED
      BY <2>1, <2>2, <3>3 DEF BodyPlace
  <2>5. SeekMisplaced' = SeekMisplaced
    BY <2>2 DEF SeekMisplaced, Inside
  <2>6. ClientPlace' /\ ParserPlace' /\ BodyComplete'
    BY <1>0, <2>1, <2>2, <2>5 DEF ClientPlace, ParserPlace, BodyComplete
  <2>7. QED
    BY <2>3, <2>4, <2>6 DEF MediaInv
<1>6. CASE ReadFiles
  <2>1. PICK c \in cursor + 1 .. Lesser(cursor + room, RunEnd) :
            /\ c = cursor + room \/ \E i \in 1 .. front - 1 : parts[i].hi = c
            /\ room' = IF c = cursor + room THEN Capacity ELSE room - (c - cursor)
            /\ Give(c)
    BY <1>6 DEF ReadFiles
  <2>2. /\ UNCHANGED given /\ st = "read" /\ reading /\ reading' = reading
        /\ front' = front /\ cursor' = c
    BY <1>6, <2>1 DEF ReadFiles, Polled, Give
  <2>3. /\ parts' = parts /\ consumer' = consumer /\ Count' = Count /\ Total' = Total
    BY <2>2, SameContent
  <2>4. front > 1 /\ front - 1 \in 1 .. Count
    BY <1>0, <1>p, <2>2 DEF TypeOK
  <2>r. room \in 1 .. Capacity /\ Capacity \in Nat
    BY <1>0, StreamConstants DEF TypeOK
  <2>5. /\ c \in Nat /\ cursor < c /\ cursor <= c /\ c <= parts[front - 1].hi
        /\ c <= cursor + room
    BY <1>0, <1>p, <2>r, <2>4 DEF Lesser, RunEnd
  <2>s. /\ room' \in 1 .. Capacity
        /\ room' = Capacity \/ \E i \in 1 .. Count : c = parts[i].hi
    BY <1>0, <1>p, <2>1, <2>r, <2>4, <2>5
  <2>6. c <= Total
    BY <1>p, <2>4, <2>5
  <2>7. BodyPlace'
    BY <2>2, <2>3, <2>5, <2>s DEF BodyPlace
  <2>8. QED
    BY <1>0, <2>1, <2>2, <2>4, <2>5, <2>s, <2>6, <2>7, GivenInv
<1>7. CASE RunEnds
  <2>1. /\ UNCHANGED given /\ UNCHANGED ranged /\ UNCHANGED parser
        /\ st = "read" /\ st' = st /\ cursor' = cursor /\ reading /\ reading' = FALSE
        /\ front' = front /\ cursor = parts[front - 1].hi /\ room' = room
    BY <1>7 DEF RunEnds, Polled, RunEnd
  <2>2. /\ parts' = parts /\ pts' = pts /\ consumer' = consumer
        /\ Count' = Count /\ Total' = Total
        /\ start' = start /\ length' = length /\ remaining' = remaining /\ carry' = carry
    BY <2>1, SameContent DEF ranged, parser
  <2>3. TypeOK'
    BY <1>0, <2>1, <2>2 DEF TypeOK
  <2>4. front - 1 \in 1 .. Count
    BY <1>0, <1>p, <2>1 DEF TypeOK
  <2>5. front <= Count => parts[front].lo = cursor /\ cursor <= parts[front].hi
    <3>1. front <= Count => /\ front - 1 \in 1 .. Count - 1 /\ (front - 1) + 1 = front
                           /\ front \in 1 .. Count
      BY <1>0, <1>p, <2>4
    <3>2. QED
      BY <1>p, <2>1, <3>1
  <2>6. front > Count => cursor = Total
    BY <1>0, <1>p, <2>1, <2>4 DEF Total
  <2>7. BodyPlace'
    BY <1>0, <2>1, <2>2, <2>5, <2>6 DEF BodyPlace
  <2>8. SeekMisplaced' = SeekMisplaced
    BY <2>2 DEF SeekMisplaced, Inside
  <2>9. ClientPlace' /\ BodyComplete'
    BY <1>0, <2>1, <2>2, <2>8 DEF ClientPlace, BodyComplete
  <2>10. ParserPlace'
    BY <1>0, <2>1, <2>2, <2>5 DEF ParserPlace
  <2>11. QED
    BY <2>3, <2>7, <2>9, <2>10 DEF MediaInv
<1>8. CASE UNCHANGED vars
  <2>1. /\ UNCHANGED given /\ UNCHANGED body /\ UNCHANGED ranged
        /\ UNCHANGED parser /\ st' = st
    BY <1>8 DEF vars
  <2>2. /\ parts' = parts /\ pts' = pts /\ consumer' = consumer
        /\ Count' = Count /\ Total' = Total
        /\ front' = front /\ reading' = reading /\ cursor' = cursor /\ room' = room
        /\ start' = start /\ length' = length /\ remaining' = remaining /\ carry' = carry
    BY <2>1, SameContent DEF ranged, parser, body
  <2>3. SeekMisplaced' = SeekMisplaced
    BY <2>2 DEF SeekMisplaced, Inside
  <2>4. QED
    BY <1>0, <2>1, <2>2, <2>3
       DEF MediaInv, TypeOK, BodyPlace, ClientPlace, ParserPlace, BodyComplete
<1>9. QED
  BY <1>1, <1>2, <1>3, <1>4, <1>5, <1>6, <1>7, <1>8 DEF Next

-----------------------------------------------------------------------------
(* What the parser finds.                                                  *)

\* The steps of a parser: those that give it bytes, and the others.
LEMMA ParserSteps ==
    ASSUME MediaInv, [Next]_vars, consumer # "client"
    PROVE  /\ parts' = parts /\ pts' = pts /\ consumer' = consumer
           /\ \/ \E c \in Nat : /\ cursor <= c /\ st = "read" /\ ParsePackets(c)
                               /\ cursor' = c
                               /\ \/ NextBytes /\ c = parts[front].hi
                                  \/ /\ ReadFiles /\ cursor < c
                                     /\ \/ c = cursor + room
                                        \/ \E i \in 1 .. Count : c = parts[i].hi
              \/ /\ cursor' = cursor /\ UNCHANGED parser
                 /\ st' = "panicked" => st = "panicked"
<1> DEFINE Gives ==
               \E c \in Nat : /\ cursor <= c /\ st = "read" /\ ParsePackets(c)
                            /\ cursor' = c
                            /\ \/ NextBytes /\ c = parts[front].hi
                               \/ /\ ReadFiles /\ cursor < c
                                  /\ \/ c = cursor + room
                                     \/ \E i \in 1 .. Count : c = parts[i].hi
           Moves == /\ cursor' = cursor /\ UNCHANGED parser
                    /\ st' = "panicked" => st = "panicked"
<1>0. /\ TypeOK /\ BodyPlace /\ ParserPlace /\ Count \in Nat /\ cursor \in Nat
      /\ front \in 1 .. Count + 1
      /\ \A i \in 1 .. Count : parts[i].hi \in Nat
  BY PartsShape DEF MediaInv, TypeOK
<1>1. parts' = parts /\ pts' = pts /\ consumer' = consumer
  BY DEF Next, vars, given, TryRespond, StartSeek, PollComplete, NextBytes,
         Gather, ReadFiles, RunEnds, ReadFails, Finish
<1>2. st \notin {"respond", "seek", "seeking"}
  BY <1>0 DEF ParserPlace
<1>3. CASE NextBytes
  <2>1. /\ ~reading /\ front \in 1 .. Count /\ Give(parts[front].hi)
        /\ st = "read"
    BY <1>0, <1>3 DEF NextBytes, Polled
  <2>2. parts[front].hi \in Nat /\ cursor <= parts[front].hi
    BY <1>0, <2>1 DEF BodyPlace
  <2>3. ParsePackets(parts[front].hi) /\ cursor' = parts[front].hi
    BY <2>1 DEF Give, SendToClient
  <2>4. Gives
    BY <1>3, <2>1, <2>2, <2>3
  <2>5. QED
    BY <1>1, <2>4
<1>4. CASE ReadFiles
  <2>1. PICK c \in cursor + 1 .. Lesser(cursor + room, RunEnd) :
            /\ \/ c = cursor + room
               \/ \E i \in 1 .. front - 1 : parts[i].hi = c
            /\ Give(c)
    BY <1>4 DEF ReadFiles
  <2>2. st = "read" /\ reading /\ front > 1 /\ front - 1 \in 1 .. Count
    BY <1>0, <1>4 DEF ReadFiles, Polled, TypeOK
  <2>3. c \in Nat /\ cursor < c
    BY <1>0, <2>1, <2>2, StreamConstants DEF Lesser, RunEnd, TypeOK
  <2>4. ParsePackets(c) /\ cursor' = c
    BY <2>1 DEF Give, SendToClient
  <2>5. c = cursor + room \/ \E i \in 1 .. Count : c = parts[i].hi
    BY <1>0, <2>1, <2>2
  <2>6. cursor <= c
    BY <1>0, <2>3
  <2>7. Gives
    BY <1>4, <2>2, <2>3, <2>4, <2>5, <2>6
  <2>8. QED
    BY <1>1, <2>7
<1>5. CASE \/ Gather \/ RunEnds \/ ReadFails \/ Finish \/ UNCHANGED vars
  <2>1. Moves
    BY <1>5 DEF Gather, RunEnds, ReadFails, Finish, vars, body
  <2>2. QED
    BY <1>1, <2>1
<1>6. QED
  BY <1>2, <1>3, <1>4, <1>5 DEF Next, TryRespond, StartSeek, PollComplete

\* Whole segments never cut the parser short.
LEMMA WholeNext ==
    ASSUME MediaInv, [Next]_vars, WholeSegmentsParse
    PROVE  WholeSegmentsParse'
<1> SUFFICES ASSUME Capacity >= Packet,
                    (\A i \in 1 .. Count : parts[i].hi % Packet = 0)',
                    st' = "panicked"
             PROVE  FALSE
  BY DEF WholeSegmentsParse
<1>0. /\ TypeOK /\ ParserPlace /\ Count \in Nat /\ cursor \in Nat
      /\ Packet \in Nat \ {0} /\ Capacity \in Nat \ {0}
      /\ front \in 1 .. Count + 1 /\ carry \in 0 .. Packet - 1
      /\ \A i \in 1 .. Count : parts[i].hi \in Nat /\ parts[i].lo \in Nat
  BY PartsShape, StreamConstants DEF MediaInv, TypeOK
<1>1. CASE consumer = "client"
  <2>1. st' = st \/ st' \in {"refused", "seek", "seeking", "read", "failed", "done"}
    BY <1>1 DEF Next, vars, TryRespond, StartSeek, PollComplete, NextBytes,
           Gather, ReadFiles, RunEnds, ReadFails, Finish, Give, SendToClient,
           ParsePackets
  <2>2. UNCHANGED given
    BY DEF Next, vars, TryRespond, StartSeek, PollComplete, NextBytes,
           Gather, ReadFiles, RunEnds, ReadFails, Finish
  <2>3. st = "panicked"
    BY <2>1
  <2>4. \A i \in 1 .. Count : parts[i].hi % Packet = 0
    BY <2>2, SameContent
  <2>5. QED
    BY <2>3, <2>4 DEF WholeSegmentsParse
<1>2. CASE consumer # "client"
  <2>1. /\ parts' = parts
        /\ \/ \E c \in Nat : /\ cursor <= c /\ st = "read" /\ ParsePackets(c)
                            /\ \/ NextBytes /\ c = parts[front].hi
                               \/ /\ ReadFiles /\ cursor < c
                                  /\ \/ c = cursor + room
                                     \/ \E i \in 1 .. Count : c = parts[i].hi
           \/ st = "panicked"
    BY <1>2, ParserSteps
  <2>2. \A i \in 1 .. Count : parts[i].hi % Packet = 0
    BY <2>1 DEF Count
  <2>3. st # "panicked"
    BY <2>2 DEF WholeSegmentsParse
  <2>4. PICK c \in Nat : /\ cursor <= c /\ st = "read" /\ ParsePackets(c)
                        /\ \/ NextBytes /\ c = parts[front].hi
                           \/ /\ ReadFiles /\ cursor < c
                              /\ \/ c = cursor + room
                                 \/ \E i \in 1 .. Count : c = parts[i].hi
    BY <2>1, <2>3
  <2>5. Short(c - cursor)
    BY <2>4 DEF ParsePackets
  <2>6. carry = cursor % Packet
    BY <1>0, <1>2, <2>3 DEF ParserPlace
  <2>7. c - cursor < Packet - carry /\ carry > 0
    BY <1>0, <2>4, <2>5 DEF Short, Needed
  <2>8. CASE NextBytes
    <3>1. ~reading /\ front \in 1 .. Count /\ cursor = parts[front].lo
      BY <1>0, <1>2, <2>8 DEF NextBytes, ParserPlace
    <3>2. parts[front].lo = 0 \/ \E i \in 1 .. Count : parts[front].lo = parts[i].hi
      <4>1. CASE front = 1
        BY <4>1, <3>1, <1>0, PartsShape DEF TypeOK
      <4>2. CASE front # 1
        <5>1. front - 1 \in 1 .. Count - 1 /\ front - 1 \in 1 .. Count
              /\ (front - 1) + 1 = front
          BY <4>2, <3>1, <1>0
        <5>2. parts[front].lo = parts[front - 1].hi
          BY <5>1, <1>0, PartsShape DEF TypeOK
        <5>3. QED
          BY <5>1, <5>2
      <4>3. QED
        BY <4>1, <4>2
    <3>3. 0 % Packet = 0
      BY <1>0
    <3>4. cursor % Packet = 0
      BY <2>2, <3>1, <3>2, <3>3
    <3>5. QED
      BY <2>6, <2>7, <3>4
  <2>9. CASE ReadFiles /\ c = cursor + room
    <3>1. reading /\ BodyPlace /\ room \in 1 .. Capacity
      BY <2>9 DEF ReadFiles, MediaInv, TypeOK
    <3>2. CASE room = Capacity
      BY <1>0, <2>7, <2>9, <3>2
    <3>3. CASE \E i \in 1 .. Count : cursor = parts[i].hi
      <4>1. cursor % Packet = 0
        BY <2>2, <3>3
      <4>2. QED
        BY <2>6, <2>7, <4>1
    <3>4. QED
      BY <3>1, <3>2, <3>3 DEF BodyPlace
  <2>10. CASE cursor < c /\ \E i \in 1 .. Count : c = parts[i].hi
    <3>1. c % Packet = 0
      BY <2>2, <2>10
    <3>2. c - cursor >= Packet - (cursor % Packet)
      BY <1>0, <2>10, <3>1, NextMultiple
    <3>3. QED
      BY <1>0, <2>6, <2>7, <3>2
  <2>11. QED
    BY <2>4, <2>8, <2>9, <2>10
<1>3. QED
  BY <1>1, <1>2

\* Packets that end by n are those up to the quotient.
LEMMA PacketsUpTo ==
    ASSUME NEW p \in Nat \ {0}, NEW n \in Nat
    PROVE  \A j \in Nat : j * p <= n <=> j <= n \div p
<1> DEFINE q == n \div p
           r == n % p
<1>1. q \in Nat /\ r \in 0 .. p - 1 /\ n = p * q + r
  BY DivMod
<1> HIDE DEF q, r
<1>2. ASSUME NEW j \in Nat PROVE j * p <= n <=> j <= q
  <2>0. \A x \in Nat : p * x >= 0
    OBVIOUS
  <2>1. CASE j <= q
    <3>1. q - j \in Nat /\ p * q = j * p + p * (q - j)
      BY <1>1, <2>1
    <3>2. p * (q - j) >= 0
      BY <2>0, <3>1
    <3>3. p * q \in Int /\ j * p \in Int /\ p * (q - j) \in Int
      BY <1>1
    <3>4. QED
      BY <1>1, <2>1, <3>1, <3>2, <3>3
  <2>2. CASE j >= q + 1
    <3>1. j - (q + 1) \in Nat /\ j * p = p * q + p + p * (j - (q + 1))
      BY <1>1, <2>2
    <3>2. p * (j - (q + 1)) >= 0
      BY <2>0, <3>1
    <3>3. p * q \in Int /\ j * p \in Int /\ p * (j - (q + 1)) \in Int
      BY <1>1
    <3>4. QED
      BY <1>1, <2>2, <3>1, <3>2, <3>3
  <2>3. QED
    BY <1>1, <2>1, <2>2
<1>3. QED
  BY <1>2 DEF q

\* The packets a chunk completes are those between the two quotients.
LEMMA CompletedPackets ==
    ASSUME NEW c \in Nat, cursor \in Nat, cursor <= c, Packet \in Nat \ {0},
           carry = cursor % Packet
    PROVE  /\ Completed(c) = (cursor \div Packet) + 1 .. (c \div Packet)
           /\ {j \in 1 .. cursor : j * Packet <= cursor} = 1 .. (cursor \div Packet)
           /\ {j \in 1 .. c : j * Packet <= c} = 1 .. (c \div Packet)
           /\ cursor \div Packet \in Nat /\ c \div Packet \in Nat
           /\ cursor \div Packet <= c \div Packet
<1> DEFINE q == cursor \div Packet
           m == c \div Packet
<1>1. q \in Nat /\ m \in Nat /\ carry \in 0 .. Packet - 1
      /\ cursor = Packet * q + carry
  BY DivMod
<1>2. /\ \A j \in Nat : j * Packet <= cursor <=> j <= q
      /\ \A j \in Nat : j * Packet <= c <=> j <= m
  BY PacketsUpTo
<1>3. \A j \in Nat : j <= j * Packet
  <2>1. \A x, y \in Nat : x <= x * (y + 1)
    <3>1. \A x, y \in Nat : x * (y + 1) = x + x * y /\ x * y >= 0
      OBVIOUS
    <3>2. QED
      BY <3>1
  <2>2. Packet - 1 \in Nat /\ Packet = (Packet - 1) + 1
    OBVIOUS
  <2>3. QED
    BY <2>1, <2>2
<1>4. cursor - carry = Packet * q /\ Packet * q \in Nat
  BY <1>1
<1>5. \A j \in Nat \ {0} : (j - 1) * Packet >= cursor - carry <=> j >= q + 1
  <2> SUFFICES ASSUME NEW j \in Nat \ {0}
               PROVE  (j - 1) * Packet >= cursor - carry <=> j >= q + 1
    OBVIOUS
  <2>0. \A x \in Nat : Packet * x >= 0
    OBVIOUS
  <2> HIDE DEF q
  <2>1. CASE j >= q + 1
    <3>1. (j - 1) - q \in Nat
          /\ (j - 1) * Packet = Packet * q + Packet * ((j - 1) - q)
      BY <1>1, <2>1
    <3>2. Packet * ((j - 1) - q) >= 0
      BY <2>0, <3>1
    <3>3. (j - 1) * Packet \in Int /\ Packet * ((j - 1) - q) \in Int
      BY <1>1
    <3>4. QED
      BY <1>1, <1>4, <2>1, <3>1, <3>2, <3>3
  <2>2. CASE j <= q
    <3>1. q - j \in Nat /\ Packet * q = (j - 1) * Packet + Packet + Packet * (q - j)
      BY <1>1, <2>2
    <3>2. Packet * (q - j) >= 0
      BY <2>0, <3>1
    <3>3. (j - 1) * Packet \in Int /\ Packet * (q - j) \in Int
      BY <1>1
    <3>4. QED
      BY <1>1, <1>4, <2>2, <3>1, <3>2, <3>3
  <2>3. QED
    BY <1>1, <2>1, <2>2
<1>6. (cursor - carry) % Packet = 0
  <2>1. q \in Int /\ 0 \in 0 .. Packet - 1 /\ cursor - carry = Packet * q + 0
        /\ cursor - carry \in Nat
    BY <1>1, <1>4
  <2> HIDE DEF q
  <2>2. QED
    BY <2>1, DivMod
<1> HIDE DEF q, m
<1>7. Completed(c) = q + 1 .. m
  <2>1. \A j \in 1 .. c : j \in Completed(c) <=> j >= q + 1 /\ j <= m
    BY <1>2, <1>5, <1>6 DEF Completed
  <2>2. \A j \in Nat : j <= m => j <= c
    <3>1. \A j \in Nat : j * Packet \in Int
      OBVIOUS
    <3>2. QED
      BY <1>2, <1>3, <3>1
  <2>3. \A j \in q + 1 .. m : j \in 1 .. c
    BY <1>1, <2>2
  <2>4. \A j \in Completed(c) : j \in 1 .. c
    BY DEF Completed
  <2>5. \A j : j \in q + 1 .. m => j \in Completed(c)
    <3> SUFFICES ASSUME NEW j \in q + 1 .. m PROVE j \in Completed(c)
      OBVIOUS
    <3>1. j \in 1 .. c
      BY <2>3
    <3>2. j >= q + 1 /\ j <= m
      BY <1>1
    <3>3. QED
      BY <2>1, <3>1, <3>2
  <2>6. \A j : j \in Completed(c) => j \in q + 1 .. m
    <3> SUFFICES ASSUME NEW j \in Completed(c) PROVE j \in q + 1 .. m
      OBVIOUS
    <3>1. j \in 1 .. c
      BY <2>4
    <3>2. j >= q + 1 /\ j <= m
      BY <2>1, <3>1
    <3>3. j \in Int
      BY <3>1
    <3>4. QED
      BY <1>1, <3>2, <3>3
  <2>7. QED
    BY <2>5, <2>6
<1>8. \A n, k \in Nat : (\A j \in Nat : j * Packet <= n <=> j <= k)
          => {j \in 1 .. n : j * Packet <= n} = 1 .. k
  <2> SUFFICES ASSUME NEW n \in Nat, NEW k \in Nat,
                      \A j \in Nat : j * Packet <= n <=> j <= k
               PROVE  {j \in 1 .. n : j * Packet <= n} = 1 .. k
    OBVIOUS
  <2>1. \A j \in Nat : j <= k => j <= n
    <3>1. \A j \in Nat : j * Packet \in Int
      OBVIOUS
    <3>2. QED
      BY <1>3, <3>1
  <2>2. QED
    BY <2>1
<1>9. q <= m
  <2>1. q * Packet <= c
    <3>1. q * Packet <= cursor /\ q * Packet \in Int
      BY <1>1, <1>2
    <3>2. QED
      BY <3>1
  <2>2. QED
    BY <1>1, <1>2, <2>1
<1>10. QED
  BY <1>1, <1>2, <1>7, <1>8, <1>9 DEF q, m

\* The times of the packets given whole, at a position of the body.
TimesUpTo(n) == Timed({j \in 1 .. n : j * Packet <= n})

FoundTimes ==
    IF TimesUpTo(cursor) = {} THEN first = NoPts /\ last = NoPts
    ELSE \E i, j \in TimesUpTo(cursor) :
             /\ \A k \in TimesUpTo(cursor) : i <= k /\ k <= j
             /\ first = pts[i]
             /\ last = IF consumer = "parser" THEN pts[j] ELSE first

LEMMA TimesNext ==
    ASSUME MediaInv, [Next]_vars, TimesOfWholePackets
    PROVE  TimesOfWholePackets'
<1> SUFFICES ASSUME consumer # "client", consumer' = consumer, st' # "panicked"
             PROVE  FoundTimes'
  <2>1. UNCHANGED given
    BY DEF Next, vars, TryRespond, StartSeek, PollComplete, NextBytes,
           Gather, ReadFiles, RunEnds, ReadFails, Finish
  <2>2. consumer' = consumer
    BY <2>1, SameContent
  <2>3. QED
    BY <2>2 DEF TimesOfWholePackets, FoundTimes, TimesUpTo
<1>0. /\ TypeOK /\ ParserPlace /\ cursor \in Nat /\ Packet \in Nat \ {0}
      /\ carry \in 0 .. Packet - 1 /\ pts \in Timings /\ Len(pts) \in Nat
  BY PartsShape, StreamConstants DEF MediaInv, TypeOK
<1>1. /\ pts' = pts
      /\ \/ \E c \in Nat : /\ cursor <= c /\ st = "read" /\ ParsePackets(c)
                          /\ cursor' = c
         \/ /\ cursor' = cursor /\ UNCHANGED parser
            /\ st # "panicked"
  <2>1. st = "panicked" => st' = "panicked"
    BY DEF Next, vars, TryRespond, StartSeek, PollComplete, NextBytes,
           Gather, ReadFiles, RunEnds, ReadFails, Finish, Polled
  <2>2. QED
    BY <2>1, ParserSteps
<1>2. CASE cursor' = cursor /\ UNCHANGED parser /\ st # "panicked"
  <2>1. FoundTimes
    BY <1>2 DEF TimesOfWholePackets, FoundTimes, TimesUpTo
  <2>2. first' = first /\ last' = last
    BY <1>2 DEF parser
  <2>3. TimesUpTo(cursor)' = TimesUpTo(cursor)
    BY <1>1, <1>2 DEF TimesUpTo, Timed
  <2>4. QED
    BY <1>1, <2>1, <2>2, <2>3 DEF FoundTimes
<1>3. ASSUME NEW c \in Nat, cursor <= c, st = "read", ParsePackets(c), cursor' = c
      PROVE  FoundTimes'
  <2> DEFINE S == TimesUpTo(cursor)
             T == Timed(Completed(c))
             U == TimesUpTo(c)
  <2>1. FoundTimes
    BY <1>3 DEF TimesOfWholePackets, FoundTimes, TimesUpTo
  <2>2. carry = cursor % Packet
    BY <1>0, <1>3 DEF ParserPlace
  <2>3. /\ Completed(c) = (cursor \div Packet) + 1 .. (c \div Packet)
        /\ {j \in 1 .. cursor : j * Packet <= cursor} = 1 .. (cursor \div Packet)
        /\ {j \in 1 .. c : j * Packet <= c} = 1 .. (c \div Packet)
        /\ cursor \div Packet \in Nat /\ c \div Packet \in Nat
        /\ cursor \div Packet <= c \div Packet
    BY <1>0, <1>3, <2>2, CompletedPackets
  <2>4. U = S \cup T
    <3>1. \A a, b \in Nat : a <= b => 1 .. b = (1 .. a) \cup ((a + 1) .. b)
      OBVIOUS
    <3>2. \A A, B : Timed(A \cup B) = Timed(A) \cup Timed(B)
      BY DEF Timed
    <3>3. 1 .. (c \div Packet) = (1 .. (cursor \div Packet)) \cup Completed(c)
      <4> DEFINE q == cursor \div Packet
                 m == c \div Packet
      <4>1. q \in Nat /\ m \in Nat /\ q <= m /\ Completed(c) = q + 1 .. m
        BY <2>3
      <4> HIDE DEF q, m
      <4>2. 1 .. m = (1 .. q) \cup Completed(c)
        BY <3>1, <4>1
      <4>3. QED
        BY <4>2 DEF q, m
    <3>4. U = Timed(1 .. (c \div Packet))
      BY <2>3 DEF TimesUpTo
    <3>5. S = Timed(1 .. (cursor \div Packet))
      BY <2>3 DEF TimesUpTo
    <3>6. Timed(1 .. (c \div Packet)) = Timed(1 .. (cursor \div Packet)) \cup T
      BY <3>2, <3>3
    <3>7. QED
      BY <3>4, <3>5, <3>6
  <2>5. \A a \in S, b \in T : a \in Int /\ b \in Int /\ a <= b
    <3>1. \A a \in S : a \in 1 .. (cursor \div Packet)
      BY <2>3 DEF TimesUpTo, Timed
    <3>2. \A b \in T : b \in (cursor \div Packet) + 1 .. (c \div Packet)
      BY <2>3 DEF Timed
    <3>3. QED
      BY <2>3, <3>1, <3>2
  <2>6. \A a \in S \cup T : a \in Int /\ pts[a] # NoPts
    <3>1. \A a \in S : a \in Int
      BY <2>3 DEF TimesUpTo, Timed
    <3>2. \A a \in T : a \in Int
      BY <2>3 DEF Timed
    <3>3. QED
      BY <3>1, <3>2 DEF TimesUpTo, Timed
  <2>7. TimesUpTo(cursor)' = U
    BY <1>1, <1>3 DEF TimesUpTo, Timed
  <2>8. /\ T = {} => first' = first /\ last' = last
        /\ T # {} => \E i, j \in T :
               /\ \A k \in T : i <= k /\ k <= j
               /\ first' = IF first = NoPts THEN pts[i] ELSE first
               /\ last' = IF consumer = "parser" THEN pts[j] ELSE first'
    BY <1>3 DEF ParsePackets, parser
  <2>9. /\ S = {} => first = NoPts /\ last = NoPts
        /\ S # {} => \E i, j \in S :
               /\ \A k \in S : i <= k /\ k <= j
               /\ first = pts[i]
               /\ last = IF consumer = "parser" THEN pts[j] ELSE first
    BY <2>1 DEF FoundTimes
  <2> HIDE DEF S, T, U
  <2>10. /\ U = {} => first' = NoPts /\ last' = NoPts
         /\ U # {} => \E i, j \in U :
                /\ \A k \in U : i <= k /\ k <= j
                /\ first' = pts[i]
                /\ last' = IF consumer = "parser" THEN pts[j] ELSE first'
    <3>1. CASE T = {}
      BY <2>4, <2>8, <2>9, <3>1
    <3>2. CASE T # {} /\ S = {}
      BY <2>4, <2>8, <2>9, <3>2
    <3>3. CASE T # {} /\ S # {}
      <4>1. PICK a \in S, b \in S :
                /\ \A k \in S : a <= k /\ k <= b
                /\ first = pts[a]
        BY <2>9, <3>3
      <4>2. PICK i \in T, j \in T :
                /\ \A k \in T : i <= k /\ k <= j
                /\ first' = IF first = NoPts THEN pts[i] ELSE first
                /\ last' = IF consumer = "parser" THEN pts[j] ELSE first'
        BY <2>8, <3>3
      <4>3. first' = pts[a]
        BY <2>6, <4>1, <4>2
      <4>4. \A k \in U : a <= k /\ k <= j
        BY <2>4, <2>5, <4>1, <4>2
      <4>5. a \in U /\ j \in U
        BY <2>4
      <4>6. QED
        BY <4>2, <4>3, <4>4, <4>5
    <3>4. QED
      BY <3>1, <3>2, <3>3
  <2>11. QED
    BY <1>1, <2>7, <2>10 DEF FoundTimes
<1>4. QED
  BY <1>1, <1>2, <1>3

LEMMA InitFound == Init => TimesOfWholePackets /\ WholeSegmentsParse
<1> SUFFICES ASSUME Init PROVE TimesOfWholePackets /\ WholeSegmentsParse
  OBVIOUS
<1>1. cursor = 0 /\ first = NoPts /\ last = NoPts /\ st # "panicked"
  BY DEF Init
<1>2. Timed({j \in 1 .. cursor : j * Packet <= cursor}) = {}
  BY <1>1 DEF Timed
<1>3. QED
  BY <1>1, <1>2 DEF TimesOfWholePackets, WholeSegmentsParse

-----------------------------------------------------------------------------
(* The theorems.                                                           *)

\* The inductive invariant: where the body stands between parts and inside
\* files read as one, what the client is still owed, what a parser carries.
THEOREM Invariant == Spec => []MediaInv
<1>1. Init => MediaInv
  BY InitInv
<1>2. MediaInv /\ [Next]_vars => MediaInv'
  BY NextInv
<1>3. QED
  BY <1>1, <1>2, PTL DEF Spec

\* The body never stands outside the content, the client is never owed less
\* than nothing, and less than a packet is carried over.
THEOREM TypeCorrect == Spec => []TypeOK
<1>1. MediaInv => TypeOK
  BY DEF MediaInv
<1>2. QED
  BY <1>1, Invariant, PTL

\* A response that ends without an error has had its Content-Length.
THEOREM CompleteBodies == Spec => []BodyComplete
<1>1. MediaInv => BodyComplete
  BY DEF MediaInv
<1>2. QED
  BY <1>1, Invariant, PTL

\* The client is given the bytes of its range in order, unless its range
\* begins in a file behind another part.
THEOREM RequestedBytes == Spec => ServesRequestedBytes
<1> DEFINE A == remaining' < remaining /\ st = "read" =>
                    \/ SeekMisplaced
                    \/ cursor = start + length - remaining
<1>1. MediaInv /\ [Next]_vars => [A]_vars
  <2> SUFFICES ASSUME MediaInv, [Next]_vars, remaining' < remaining, st = "read",
                      ~SeekMisplaced
               PROVE  cursor = start + length - remaining
    OBVIOUS
  <2>1. consumer = "client"
    <3> SUFFICES ASSUME consumer # "client" PROVE FALSE
      OBVIOUS
    <3>1. remaining' = remaining
      BY DEF Next, vars, TryRespond, StartSeek, PollComplete, NextBytes, Gather,
             ReadFiles, RunEnds, ReadFails, Finish, Give, SendToClient,
             ParsePackets, ranged
    <3>2. remaining \in Nat
      BY DEF MediaInv, TypeOK
    <3>3. QED
      BY <3>1, <3>2
  <2>2. remaining > 0
    <3>1. remaining' \in Nat /\ remaining \in Nat
      BY NextInv DEF MediaInv, TypeOK
    <3>2. QED
      BY <3>1
  <2>3. QED
    BY <2>1, <2>2 DEF MediaInv, ClientPlace
<1>2. QED
  BY <1>1, Invariant, PTL DEF Spec, ServesRequestedBytes

\* The times found are those of the packets given whole, however the packets
\* are cut into chunks.
THEOREM TimesFound == Spec => []TimesOfWholePackets
<1>1. Init => TimesOfWholePackets
  BY InitFound
<1>2. MediaInv /\ [Next]_vars /\ TimesOfWholePackets => TimesOfWholePackets'
  BY TimesNext
<1>3. QED
  BY <1>1, <1>2, Invariant, PTL DEF Spec

\* Segments of whole packets are parsed without a panic.
THEOREM WholeSegments == Spec => []WholeSegmentsParse
<1>1. Init => WholeSegmentsParse
  BY InitFound
<1>2. MediaInv /\ [Next]_vars /\ WholeSegmentsParse => WholeSegmentsParse'
  BY WholeNext
<1>3. QED
  BY <1>1, <1>2, Invariant, PTL DEF Spec
=============================================================================
