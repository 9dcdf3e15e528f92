------------------------------- MODULE MCShelf ------------------------------
(***************************************************************************)
(* Finite instances of Shelf for TLC.                                      *)
(***************************************************************************)
EXTENDS Shelf, TLC

CONSTANTS b1, b2, u1, u2, d1, s1, s2, p1, n1, n2, n3, none

TwoSeeds == <<s1, s2>>
TwoKeys  == [n \in {n1, n2, n3} |-> IF n = n3 THEN n2 ELSE n]

\* The bucket and the disk that lasts behave alike, so one of each.
FourSettings ==
    {[seed |-> "1", s3 |-> "none", host |-> "serverless"],
     [seed |-> "1", s3 |-> "half", host |-> "serverless"],
     [seed |-> "1", s3 |-> "full", host |-> "serverless"],
     [seed |-> "false", s3 |-> "none", host |-> "server"]}

ShelfSymmetry == Permutations(Boots) \cup Permutations(Uploads)
=============================================================================
