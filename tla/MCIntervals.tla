----------------------------- MODULE MCIntervals -----------------------------
(***************************************************************************)
(* Instances of Intervals.                                                 *)
(***************************************************************************)
EXTENDS Intervals

MCTimes == 0 .. MovieDuration
=============================================================================
