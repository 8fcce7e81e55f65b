--------------------------- MODULE KeyLock_proofs ---------------------------
(***************************************************************************)
(* What every implementation of KeyLock inherits.                          *)
(***************************************************************************)
EXTENDS KeyLock, TLAPS

(***************************************************************************)
(* Two guards for one key never coexist, however often guards are moved    *)
(* and dropped: the promise the segment store relies on.                   *)
(***************************************************************************)
THEOREM OneHolder == Spec => []OneHolderPerKey
<1> DEFINE Inv == holding \subseteq Holders \X Keys /\ OneHolderPerKey
<1>1. Init => Inv
  BY DEF Init, OneHolderPerKey
<1>2. Inv /\ [Next]_holding => Inv'
  <2> SUFFICES ASSUME Inv, [Next]_holding PROVE Inv'
    OBVIOUS
  <2> USE DEF OneHolderPerKey
  <2>1. ASSUME NEW h \in Holders, NEW k \in Keys, Lock(h, k) PROVE Inv'
    <3>1. /\ holding' = holding \cup {<<h, k>>}
          /\ \A x \in Holders : <<x, k>> \notin holding
      BY <2>1 DEF Lock
    <3>2. holding' \subseteq Holders \X Keys
      BY <3>1, SMT
    <3>3. ASSUME NEW q \in Keys, NEW x \in Holders, <<x, q>> \in holding'
          PROVE  (<<x, q>> \in holding /\ q # k) \/ (x = h /\ q = k)
      BY <3>1, <3>3, SMT
    <3>4. OneHolderPerKey'
      BY <3>1, <3>3 DEF OneHolderPerKey
    <3> QED BY <3>2, <3>4
  <2>2. ASSUME NEW h \in Holders, NEW g \in Holders, NEW k \in Keys,
               Transfer(h, g, k)
        PROVE  Inv'
    <3>1. /\ holding' \subseteq Holders \X Keys /\ <<h, k>> \in holding
          /\ \A x \in Holders, q \in Keys :
                <<x, q>> \in holding' =>
                    \/ <<x, q>> \in holding /\ ~(x = h /\ q = k)
                    \/ x = g /\ q = k
      BY <2>2, SMT DEF Transfer
    <3> QED BY <3>1
  <2>3. ASSUME NEW S \in SUBSET holding, Unlock(S) PROVE Inv'
    BY <2>3, SMT DEF Unlock
  <2>4. CASE UNCHANGED holding
    BY <2>4
  <2> QED BY <2>1, <2>2, <2>3, <2>4 DEF Next
<1>3. Inv => OneHolderPerKey
  OBVIOUS
<1> QED BY <1>1, <1>2, <1>3, PTL DEF Spec
=============================================================================
