----------------------------- MODULE MCPrefetch -----------------------------
(***************************************************************************)
(* A movie of three or four segments of durations 0, 1 and 2, and one      *)
(* whose second segment's times run backwards.                             *)
(***************************************************************************)
EXTENDS Prefetch

From(durations) ==
    [j \in 0 .. 4 |-> FoldSeq(+, 0, SubSeq(durations, 1, j))]

MCStarts == {From(<<1, 2, 0, 1>>), From(<<0, 0, 1, 2>>), From(<<1, -1, 1, 1>>)}
=============================================================================
