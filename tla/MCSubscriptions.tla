-------------------------- MODULE MCSubscriptions --------------------------
(***************************************************************************)
(* Finite instances of Subscriptions for TLC.                              *)
(***************************************************************************)
EXTENDS Subscriptions
=============================================================================
