----------------------------- MODULE MCListings -----------------------------
(***************************************************************************)
(* Finite instances of Listings for TLC.                                   *)
(***************************************************************************)
EXTENDS Listings

CONSTANTS r1, r2, r3
=============================================================================
