---------------------------- MODULE MediaStream ----------------------------
(***************************************************************************)
(* One body of segments and its reader: StreamFileOrBytes, the stream over *)
(* the files and downloads that get_segments answers with, read either by  *)
(* a client, through RangedStream (axum_range), or by a TsTimeParser.      *)
(*                                                                         *)
(* A byte is its position in the whole content, so a chunk is an interval  *)
(* and the body's place is one number, cursor: the next byte it gives.  A  *)
(* download read over HTTP is a body whose parts are its chunks.           *)
(***************************************************************************)
EXTENDS Integers, Sequences

CONSTANTS
    Contents,   \* sequences of parts [file, lo, hi], each beginning where
                \* the one before it ends
    Ranges,     \* pairs <<start, end>>: satisfiable_ranges(total).nth(0),
                \* an unbounded end being larger than every content
    NoRange,
    Capacity,   \* of the buffer a ReaderStream fills (4096)
    Packet,     \* Packet::SIZE (188)
    Timings,    \* sequences: the presentation time of each packet, or NoPts
    NoPts,
    ReadFaults  \* whether reading a file may fail

ASSUME StreamConstants ==
    /\ \A c \in Contents :
           /\ c \in Seq([file : BOOLEAN, lo : Nat, hi : Nat])
           /\ c # <<>> => c[1].lo = 0
           /\ \A i \in 1 .. Len(c) : c[i].lo <= c[i].hi
           /\ \A i \in 1 .. Len(c) - 1 : c[i + 1].lo = c[i].hi
           /\ \A i, j \in 1 .. Len(c) : i <= j => c[i].hi <= c[j].hi
    /\ Ranges \subseteq Nat \X Nat
    /\ NoRange \notin Ranges
    /\ \A t \in Timings : Len(t) \in Nat
    /\ Capacity \in Nat \ {0}
    /\ Packet \in Nat \ {0}
    /\ ReadFaults \in BOOLEAN

VARIABLES
    parts, pts,         \* the content, and the times its packets carry
    consumer,           \* "client", "parser" or "startParser"
    front,              \* the first part still in the VecDeque
    reading,            \* whether current_stream is Some
    cursor,             \* the next byte of the body
    room,               \* what is left of the ReaderStream's buffer
    st,                 \* what the consumer does next
    start, length, remaining,       \* RangedStream
    carry, first, last              \* TsTimeParser: last_packet's length,
                                    \* seconds_first and seconds_last

given == <<parts, pts, consumer>>
body == <<front, reading, cursor, room>>
ranged == <<start, length, remaining>>
parser == <<carry, first, last>>
vars == <<given, body, st, ranged, parser>>

Count == Len(parts)
Total == IF Count = 0 THEN 0 ELSE parts[Count].hi       \* byte_size()

Lesser(a, b) == IF a <= b THEN a ELSE b

\* StreamFileOrBytes::new with Ranged::new or TsTimeParser::new.
Init ==
    /\ parts \in Contents
    /\ pts \in Timings
    /\ consumer \in {"client", "parser", "startParser"}
    /\ front = 1 /\ reading = FALSE /\ cursor = 0 /\ room = Capacity
    /\ st = IF consumer = "client" THEN "respond" ELSE "read"
    /\ start = 0 /\ length = 0 /\ remaining = 0
    /\ carry = 0 /\ first = NoPts /\ last = NoPts

-----------------------------------------------------------------------------
(* The client's side: Ranged::try_respond and RangedStream.                *)

SeekStart(range) == IF range = NoRange THEN 0 ELSE range[1]

\* An end that is not clamped to the content.
SeekEndUnclamped(range) == IF range = NoRange THEN Total ELSE range[2] + 1

SeekEndExcl(range) ==
    IF range = NoRange \/ range[2] >= Total THEN Total ELSE range[2] + 1

\* Ranged::try_respond: 416 when nothing is left of the range.
TryRespond(range) ==
    /\ st = "respond"
    /\ \/ /\ SeekStart(range) >= SeekEndExcl(range)
          /\ st' = "refused"
          /\ UNCHANGED ranged
       \/ /\ SeekStart(range) < SeekEndExcl(range)
          /\ st' = "seek"
          /\ start' = SeekStart(range)
          /\ length' = SeekEndExcl(range) - SeekStart(range)
          /\ remaining' = length'
    /\ UNCHANGED <<given, body, parser>>

\* Whether the position lies behind the first byte of part i.
Inside(i) == parts[i].lo < start /\ start < parts[i].hi

\* A download that is not sliced.
SeekUnsliced(i) ==
    IF parts[i].file /\ Inside(i) THEN Lesser(parts[i].lo + start, parts[i].hi)
    ELSE parts[i].lo

\* Where start_seek leaves part i: a part that begins at the position stays
\* as it is; a file is told to seek to the position in the whole content
\* (past its end it has nothing left); a download is sliced at what remains.
SeekInto(i) ==
    IF parts[i].file /\ Inside(i)
    THEN Lesser(parts[i].lo + start, parts[i].hi)
    ELSE start

\* StreamFileOrBytes::start_seek pops parts until nothing remains of the
\* position, or less than a part; it cannot run out of them, the response
\* being for a satisfiable range.
StartSeek ==
    /\ st = "seek"
    /\ \E i \in 1 .. Count :
           /\ Inside(i) \/ parts[i].lo = start
           /\ \A j \in 1 .. i - 1 : parts[j].lo < start /\ parts[j].hi <= start
           /\ front' = i
           /\ cursor' = SeekInto(i)
    /\ st' = "seeking"
    /\ UNCHANGED <<given, reading, room, ranged, parser>>

\* StreamFileOrBytes::poll_complete.
PollComplete ==
    /\ st = "seeking"
    /\ st' \in {"read"} \cup (IF ReadFaults THEN {"failed"} ELSE {})
    /\ UNCHANGED <<given, body, ranged, parser>>

\* A chunk of n bytes reaches the client, trimmed to what it still expects.
SendToClient(n) ==
    /\ consumer = "client"
    /\ remaining > 0
    /\ remaining' = remaining - Lesser(remaining, n)
    /\ UNCHANGED <<st, start, length, parser>>

-----------------------------------------------------------------------------
(* TsTimeParser.  The demultiplexer (external) finds a time in a packet    *)
(* only when it is given the packet's own bytes.                           *)

Timed(ps) == {j \in ps : j <= Len(pts) /\ pts[j] # NoPts}

\* Packets cut from the chunk's beginning, whatever was carried over.
CutFromChunk(c) ==
    {j \in 1 .. c : /\ cursor % Packet = 0
                    /\ (j - 1) * Packet >= cursor
                    /\ j * Packet <= c}

\* Packets completed by a chunk that ends at c: last_packet and the chunk,
\* cut in whole packets.
Completed(c) ==
    {j \in 1 .. c : /\ (cursor - carry) % Packet = 0
                    /\ (j - 1) * Packet >= cursor - carry
                    /\ j * Packet <= c}

\* Bytes that last_packet lacks.
Needed == IF carry = 0 THEN 0 ELSE Packet - carry

\* Whether a chunk that just completes the packet makes the slice panic too.
ShortOrExact(n) == carry > 0 /\ n <= Needed

\* Whether a chunk of n bytes makes the slice &packet[..remaining] panic.
Short(n) == n < Needed

\* parse_packets, which panics on a chunk shorter than what completes
\* last_packet.
ParsePackets(c) ==
    LET n == c - cursor
        times == Timed(Completed(c))
    IN  /\ consumer # "client"
        /\ \/ /\ Short(n)
              /\ st' = "panicked"
              /\ UNCHANGED parser
           \/ /\ ~Short(n)
              /\ carry' = (carry + n) % Packet
              /\ \/ times = {} /\ UNCHANGED <<first, last>>
                 \/ \E i, j \in times :
                        /\ \A k \in times : i <= k /\ k <= j
                        /\ first' = IF first = NoPts THEN pts[i] ELSE first
                        /\ last' = IF consumer = "parser" THEN pts[j]
                                   ELSE first'
              /\ st' = IF consumer = "startParser" /\ first' # NoPts
                       THEN "done" ELSE st
        /\ UNCHANGED ranged

-----------------------------------------------------------------------------
(* StreamFileOrBytes::poll_next, one action for each way through its loop. *)

\* The body gives its reader the bytes from cursor to c.
Give(c) ==
    /\ cursor' = c
    /\ SendToClient(c - cursor) \/ ParsePackets(c)

Polled == st = "read" /\ (consumer = "client" => remaining > 0)

\* A download is one chunk.
NextBytes ==
    /\ Polled /\ ~reading
    /\ front <= Count /\ ~parts[front].file
    /\ Give(parts[front].hi)
    /\ front' = front + 1
    /\ UNCHANGED <<given, reading, room>>

\* The files up to the next download become one AsyncReadMultipleFiles.
Gather ==
    /\ Polled /\ ~reading
    /\ \E j \in front + 1 .. Count + 1 :
           /\ \A i \in front .. j - 1 : parts[i].file
           /\ j <= Count => ~parts[j].file
           /\ front' = j
    /\ reading' = TRUE
    /\ room' = Capacity
    /\ UNCHANGED <<given, cursor, st, ranged, parser>>

RunEnd == parts[front - 1].hi

\* poll_read fills what is left of the buffer, which is made anew when it is
\* used up; it stops early at the end of a file, when the next one is not
\* ready or there is none.
ReadFiles ==
    /\ Polled /\ reading
    /\ \E c \in cursor + 1 .. Lesser(cursor + room, RunEnd) :
           /\ \/ c = cursor + room
              \/ \E i \in 1 .. front - 1 : parts[i].hi = c
           /\ room' = IF c = cursor + room THEN Capacity
                      ELSE room - (c - cursor)
           /\ Give(c)
    /\ UNCHANGED <<given, front, reading>>

RunEnds ==
    /\ Polled /\ reading /\ cursor = RunEnd
    /\ reading' = FALSE
    /\ UNCHANGED <<given, front, cursor, room, st, ranged, parser>>

ReadFails ==
    /\ ReadFaults /\ Polled /\ reading
    /\ st' = "failed"
    /\ UNCHANGED <<given, body, ranged, parser>>

\* The stream is over: it gives None, or the client has what it expects.
Finish ==
    /\ st = "read"
    /\ \/ consumer = "client" /\ remaining = 0
       \/ ~reading /\ front > Count
    /\ st' = "done"
    /\ UNCHANGED <<given, body, ranged, parser>>

Ended == st \in {"done", "refused", "failed", "panicked"}

Next ==
    \/ \E range \in Ranges \cup {NoRange} : TryRespond(range)
    \/ StartSeek \/ PollComplete
    \/ NextBytes \/ Gather \/ ReadFiles \/ RunEnds \/ ReadFails \/ Finish
    \/ Ended /\ UNCHANGED vars

Spec == Init /\ [][Next]_vars

-----------------------------------------------------------------------------
TypeOK ==
    /\ parts \in Contents /\ pts \in Timings
    /\ consumer \in {"client", "parser", "startParser"}
    /\ front \in 1 .. Count + 1
    /\ reading \in BOOLEAN /\ (reading => front > 1)
    /\ cursor \in 0 .. Total
    /\ room \in 1 .. Capacity
    /\ st \in {"respond", "seek", "seeking", "read", "done", "refused",
               "failed", "panicked"}
    /\ start \in Nat /\ length \in Nat /\ remaining \in 0 .. length
    /\ carry \in 0 .. Packet - 1

\* The range begins behind the first byte of a file that is not the first
\* part with any bytes.
SeekMisplaced ==
    \E i \in 1 .. Count : parts[i].file /\ parts[i].lo > 0 /\ Inside(i)

\* The client is given the bytes of its range, in order, the n-th byte sent
\* being the n-th of the range, whatever the parts and however files are
\* read; except after a seek into the middle of a file behind another part,
\* to which start_seek gives the position of the whole content.
ServesRequestedBytes ==
    [][remaining' < remaining /\ st = "read" =>
           \/ SeekMisplaced
           \/ cursor = start + length - remaining]_vars

\* A response that ends without an error has had the Content-Length it
\* announced, with the same exception.
BodyComplete ==
    consumer = "client" /\ st = "done" => remaining = 0 \/ SeekMisplaced

\* The times a parser has found are the first and the last presentation time
\* among the packets it was given whole, however the packets were cut into
\* chunks; a parser for start times has the first only.
TimesOfWholePackets ==
    consumer # "client" /\ st # "panicked" =>
        LET times == Timed({j \in 1 .. cursor : j * Packet <= cursor})
        IN  IF times = {} THEN first = NoPts /\ last = NoPts
            ELSE \E i, j \in times :
                     /\ \A k \in times : i <= k /\ k <= j
                     /\ first = pts[i]
                     /\ last = IF consumer = "parser" THEN pts[j] ELSE first

\* parse_packets never panics on segments of whole packets, downloads or
\* files, read through a buffer of at least a packet.  (It does on chunks
\* that are shorter than the rest of a packet, as those of an HTTP response
\* can be.)
WholeSegmentsParse ==
    Capacity >= Packet /\ (\A i \in 1 .. Count : parts[i].hi % Packet = 0)
        => st # "panicked"
=============================================================================
