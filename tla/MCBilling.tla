----------------------------- MODULE MCBilling -----------------------------
(***************************************************************************)
(* Finite instances of Billing for TLC.                                    *)
(***************************************************************************)
EXTENDS Billing

CONSTANT o1
=============================================================================
