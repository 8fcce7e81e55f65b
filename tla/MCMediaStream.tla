---------------------------- MODULE MCMediaStream ---------------------------
(***************************************************************************)
(* Every content of up to three parts of 1 to 4 bytes; packets of 2 bytes  *)
(* and a buffer of 3, so that a full buffer ends inside a packet, as 4096  *)
(* bytes do with packets of 188.                                           *)
(***************************************************************************)
EXTENDS MediaStream

Lengths == {1, 2, 4}
MaxParts == 3

Part(f, lo, n) == [file |-> f, lo |-> lo, hi |-> lo + n]

MCContents ==
    {<<>>} \cup
    {<<Part(f, 0, a)>> : f \in BOOLEAN, a \in Lengths} \cup
    {<<Part(f, 0, a), Part(g, a, b)>> :
        f, g \in BOOLEAN, a, b \in Lengths} \cup
    {<<Part(f, 0, a), Part(g, a, b), Part(h, a + b, c)>> :
        f, g, h \in BOOLEAN, a, b, c \in Lengths}

MCRanges == (0 .. 7) \X {0, 3, 5, 99}

\* Six packets at most, two of them with a time.
MCTimings ==
    {[j \in 1 .. 6 |-> IF j = a THEN 1 ELSE IF j = b THEN 2 ELSE NoPts] :
        a, b \in 1 .. 6}
=============================================================================
