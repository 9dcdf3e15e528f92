----------------------------- MODULE MCStorefront -----------------------------
(***************************************************************************)
(* A finite instance of Storefront for TLC.                                *)
(***************************************************************************)
EXTENDS Storefront, TLC

CONSTANTS o1, o2, t1, t2, m1, m2, v1, none

ThreeListings == 1..3

\* Written in English, in Vietnamese too or not, with no document or one chunk.
OneListing ==
    [published : {TRUE}, locale : {"en"},
     words : [en : {0, 1}, vi : {none, 0, 1}],
     chunks : {<<[rank |-> r, near |-> n]>> : r \in {0, 1}, n \in {0, 1}} \cup {<<>>}]
\* The second may be unpublished, is nearer, and has other words than its translation.
OtherListing ==
    [published : BOOLEAN, locale : {"vi"}, words : [en : {none, 1}, vi : {0, 2}],
     chunks : {<<>>, <<[rank |-> 0, near |-> 2]>>, <<[rank |-> 0, near |-> 2], [rank |-> 2, near |-> 0]>>}]
SmallCorpora == {[p \in ThreeListings |-> CASE p = 1 -> a [] p = 2 -> b [] OTHER -> d] :
                   a, d \in OneListing, b \in OtherListing}

\* No chunk, or four: their scores, and how alike each two are.
Pairs == {<<1, 2>>, <<1, 3>>, <<1, 4>>, <<2, 3>>, <<2, 4>>, <<3, 4>>}
SmallDocs ==
    {[score |-> s, alike |-> [i \in 1..4 |-> [j \in 1..4 |-> IF i = j THEN 9 ELSE
                                  a[IF i < j THEN <<i, j>> ELSE <<j, i>>]]]] :
        s \in [1..4 -> {4, 5, 8}], a \in [Pairs -> {0, 4}]}
    \cup {[score |-> <<>>, alike |-> <<>>]}
SmallQuestions == {[passages |-> p, reject |-> {0}] : p \in {{}, {2}, {3}, {1, 4}}}

SmallDocuments == UNION {[1..n -> {"heading", "blank", "ends", "runs on"}] : n \in 0..6}

StarScale == {1, 5}
StorefrontSymmetry ==
    Permutations(Orders) \cup Permutations(Submits) \cup Permutations(Moderations)
=============================================================================
