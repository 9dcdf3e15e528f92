----------------------------- MODULE MCPayouts -----------------------------
(***************************************************************************)
(* Finite instances of Payouts for TLC: every order is a sale of the one   *)
(* seller, so that one event has several runs to wake.                     *)
(***************************************************************************)
EXTENDS Payouts

CONSTANTS o1, o2, s1

OneSeller == [o \in Orders |-> s1]
=============================================================================
