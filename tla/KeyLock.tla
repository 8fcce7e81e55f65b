------------------------------ MODULE KeyLock ------------------------------
(***************************************************************************)
(* What a lock per key promises, whatever implements it: a key has at most *)
(* one holder, and a holder may hand its hold to somebody else.            *)
(*                                                                         *)
(* MultipleValueMutex (utils.rs) implements it with weakly registered      *)
(* mutexes; SegmentStore uses it, one key per segment file of a movie, and *)
(* moves the guard of a downloading request into the task that stores the  *)
(* download.                                                               *)
(***************************************************************************)
CONSTANTS Holders, Keys

VARIABLE holding    \* the set of pairs <<h, k>> such that h holds the lock of k

Init == holding = {}

\* lock_mutex(k) returned a guard to h.
Lock(h, k) ==
    /\ \A g \in Holders : <<g, k>> \notin holding
    /\ holding' = holding \cup {<<h, k>>}

\* The guard moves into another task.
Transfer(h, g, k) ==
    /\ <<h, k>> \in holding
    /\ holding' = (holding \ {<<h, k>>}) \cup {<<g, k>>}

\* Guards are dropped; a cancelled future or a crash drops several at once.
Unlock(S) ==
    /\ S # {}
    /\ S \subseteq holding
    /\ holding' = holding \ S

Next ==
    \/ \E h \in Holders, k \in Keys : Lock(h, k)
    \/ \E h, g \in Holders, k \in Keys : Transfer(h, g, k)
    \/ \E S \in SUBSET holding : Unlock(S)

Spec == Init /\ [][Next]_holding

(***************************************************************************)
(* At most one holder per key: two guards for one key never coexist.       *)
(***************************************************************************)
OneHolderPerKey ==
    \A k \in Keys, h, g \in Holders :
        <<h, k>> \in holding /\ <<g, k>> \in holding => h = g
=============================================================================
