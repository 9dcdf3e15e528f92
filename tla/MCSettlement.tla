---------------------------- MODULE MCSettlement ----------------------------
(***************************************************************************)
(* Finite instances of Settlement for TLC: one sale of one seller.         *)
(***************************************************************************)
EXTENDS Settlement

CONSTANTS o1, s1

OneSeller == [o \in Orders |-> s1]
=============================================================================
