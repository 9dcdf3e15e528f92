--------------------------- MODULE StorefrontProofs ---------------------------
(***************************************************************************)
(* Theorems about what a reader and a seller do in a browser: Ratings, for *)
(* any orders, requests and scale; AskBox, for any number of questions and *)
(* pieces; ProductForm, for any ideas and number of listings; and that the *)
(* storefront is these and Search side by side.                            *)
(***************************************************************************)
EXTENDS Storefront, FiniteSetTheorems, SequenceTheorems, WellFoundedInduction, TLAPS

-----------------------------------------------------------------------------
(* Ratings.                                                                *)

\* Type correctness of orders, ratings and the requests that write them.
THEOREM ReviewsTypeCorrect == RatingsSpec => []TypeOKReviews
<1>1. RatingsInit => TypeOKReviews
  BY DEF RatingsInit, TypeOKReviews, Statuses
<1>2. ASSUME TypeOKReviews, [RatingsNext]_ratingsVars
      PROVE  TypeOKReviews'
  <2> USE <1>2 DEF TypeOKReviews, Statuses, reviewVars, submitVars, modVars, viewVars
  <2>1. ASSUME NEW o \in Orders, OrderMoves(o)
        PROVE  TypeOKReviews'
    BY <2>1 DEF OrderMoves
  <2>2. ASSUME NEW s \in Submits, NEW o \in Orders, CheckEligibility(s, o)
        PROVE  TypeOKReviews'
    BY <2>2 DEF CheckEligibility, ReviewEligibility
  <2>3. ASSUME NEW s \in Submits, SubmitReview(s)
        PROVE  TypeOKReviews'
    <3>1. CASE Reviewed(submitOf[s])
      BY <2>3, <3>1 DEF SubmitReview
    <3>2. CASE ~Reviewed(submitOf[s])
      <4>1. stars' \in [Orders -> Scale \cup {NoRating}]
        BY <2>3, <3>2 DEF SubmitReview
      <4>2. created' \in [Orders -> Nat]
        BY <2>3, <3>2, RatingsAssumption DEF SubmitReview
      <4>3. submitAt' \in [Submits -> {"none", "eligible", "not_purchased", "already_reviewed",
                                       "submitted", "unheard", "dead"}]
        BY <2>3, <3>2 DEF SubmitReview
      <4>4. review' \in [Orders -> Statuses]
        BY <2>3, <3>2 DEF SubmitReview
      <4> QED
        BY <2>3, <4>1, <4>2, <4>3, <4>4 DEF SubmitReview
    <3> QED
      BY <3>1, <3>2
  <2>4. ASSUME NEW m \in Moderations, NEW o \in Orders, NEW to \in {"PUBLISHED", "REJECTED"},
               ModeratorAsks(m, o, to)
        PROVE  TypeOKReviews'
    BY <2>4 DEF ModeratorAsks
  <2>5. ASSUME NEW m \in Moderations, Transition(m)
        PROVE  TypeOKReviews'
    <3>1. CASE review[modOf[m][1]] \in ReviewPredecessorsOf(modOf[m][2])
      <4>1. modOf[m][2] \in {"PUBLISHED", "REJECTED"}
        BY <3>1 DEF ReviewPredecessorsOf, CanTransitionReview
      <4>2. review' = [review EXCEPT ![modOf[m][1]] = modOf[m][2]]
        BY <2>5, <3>1 DEF Transition
      <4>3. PICK told \in {"decided", "unheard"} : modAt' = [modAt EXCEPT ![m] = told]
        BY <2>5, <3>1 DEF Transition
      <4> QED
        BY <2>5, <4>1, <4>2, <4>3 DEF Transition
    <3>2. CASE review[modOf[m][1]] \notin ReviewPredecessorsOf(modOf[m][2])
      BY <2>5, <3>2 DEF Transition
    <3> QED
      BY <3>1, <3>2
  <2>6. ASSUME NEW v \in Views, RecordProductView(v) \/ ProductRating(v) \/ ListReviews(v)
        PROVE  TypeOKReviews'
    BY <2>6 DEF RecordProductView, ProductRating, ListReviews
  <2>7. CASE Dies
    BY <2>7 DEF Dies
  <2>8. CASE UNCHANGED ratingsVars
    BY <2>8 DEF ratingsVars
  <2> QED
    BY <2>1, <2>2, <2>3, <2>4, <2>5, <2>6, <2>7, <2>8 DEF RatingsNext
<1> QED
  BY <1>1, <1>2, PTL DEF RatingsSpec

-----------------------------------------------------------------------------
(* Buyers.                                                                 *)

Taken(s) == submitAt[s] \in {"submitted", "unheard"}

\* The strengthening: a rating has the one submission that was taken, and whoever
\* was found eligible was so for an order that has been paid since.
RatingInv ==
    /\ \A s \in Submits : submitAt[s] = "eligible" \/ Taken(s) =>
         submitOf[s] \in Orders /\ order[submitOf[s]] # "PENDING"
    /\ \A s \in Submits : Taken(s) => Reviewed(submitOf[s])
    /\ \A o \in Orders : Reviewed(o) => \E s \in Submits : Taken(s) /\ submitOf[s] = o
    /\ \A s, t \in Submits : Taken(s) /\ Taken(t) /\ submitOf[s] = submitOf[t] => s = t

\* Every step preserves it.
LEMMA RatingInvHolds == RatingsSpec => []RatingInv
<1>1. RatingsInit => RatingInv
  BY DEF RatingsInit, RatingInv, Taken, Reviewed
<1>2. ASSUME TypeOKReviews, RatingInv, [RatingsNext]_ratingsVars
      PROVE  RatingInv'
  <2>1. ASSUME UNCHANGED <<order, stars, submitAt, submitOf>>
        PROVE  RatingInv'
    BY <1>2, <2>1 DEF RatingInv, Taken, Reviewed
  <2>2. ASSUME NEW o \in Orders, OrderMoves(o)
        PROVE  RatingInv'
    <3>1. order \in [Orders -> {"PENDING", "PAID", "REFUNDED"}]
      BY <1>2 DEF TypeOKReviews
    <3>2. \A p \in Orders : order[p] # "PENDING" => order'[p] # "PENDING"
      BY <2>2, <3>1 DEF OrderMoves
    <3>3. UNCHANGED <<stars, submitAt, submitOf>>
      BY <2>2 DEF OrderMoves, reviewVars, submitVars
    <3> QED
      BY <1>2, <3>2, <3>3 DEF RatingInv, Taken, Reviewed
  <2>3. ASSUME NEW s \in Submits, NEW o \in Orders, CheckEligibility(s, o)
        PROVE  RatingInv'
    <3>1. UNCHANGED <<order, stars>> /\ submitAt[s] = "none"
      BY <2>3 DEF CheckEligibility, reviewVars
    <3>2. submitAt' = [submitAt EXCEPT ![s] = ReviewEligibility(o)]
      BY <2>3 DEF CheckEligibility
    <3>3. submitOf' = [submitOf EXCEPT ![s] = o]
      BY <2>3 DEF CheckEligibility
    <3>4. ReviewEligibility(o) \notin {"submitted", "unheard"} /\ (ReviewEligibility(o) = "eligible" => order[o] = "PAID")
      BY DEF ReviewEligibility
    <3>5. \A t \in Submits : t # s => submitAt'[t] = submitAt[t] /\ submitOf'[t] = submitOf[t]
      BY <1>2, <3>2, <3>3 DEF TypeOKReviews
    <3>6. submitAt'[s] = ReviewEligibility(o) /\ submitOf'[s] = o
      BY <1>2, <3>2, <3>3 DEF TypeOKReviews
    <3> QED
      BY <1>2, <3>1, <3>4, <3>5, <3>6 DEF RatingInv, Taken, Reviewed
  <2>4. ASSUME NEW s \in Submits, SubmitReview(s)
        PROVE  RatingInv'
    <3> DEFINE o == submitOf[s]
    <3>1. o \in Orders /\ order[o] # "PENDING" /\ submitAt[s] = "eligible"
      BY <1>2, <2>4 DEF SubmitReview, RatingInv
    <3>2. UNCHANGED <<order, submitOf>>
      BY <2>4 DEF SubmitReview
    <3>3. CASE Reviewed(o)
      <4>1. submitAt' = [submitAt EXCEPT ![s] = "already_reviewed"] /\ stars' = stars
        BY <2>4, <3>3 DEF SubmitReview, reviewVars
      <4>2. submitAt'[s] = "already_reviewed" /\ \A t \in Submits : t # s => submitAt'[t] = submitAt[t]
        BY <1>2, <4>1 DEF TypeOKReviews
      <4> QED
        BY <1>2, <3>1, <3>2, <4>1, <4>2 DEF RatingInv, Taken, Reviewed
    <3>4. CASE ~Reviewed(o)
      <4>1. PICK r \in Scale : stars' = [stars EXCEPT ![o] = r]
        BY <2>4, <3>4 DEF SubmitReview
      <4>2. PICK told \in {"submitted", "unheard"} : submitAt' = [submitAt EXCEPT ![s] = told]
        BY <2>4, <3>4 DEF SubmitReview
      <4>3. \A t \in Submits : Taken(t) => submitOf[t] # o
        BY <1>2, <3>4 DEF RatingInv
      <4>4. \A p \in Orders : p # o => stars'[p] = stars[p]
        BY <1>2, <4>1 DEF TypeOKReviews
      <4>5. stars'[o] # NoRating
        BY <1>2, <3>1, <4>1, RatingsAssumption DEF TypeOKReviews
      <4>6. \A t \in Submits : t # s => submitAt'[t] = submitAt[t]
        BY <1>2, <4>2 DEF TypeOKReviews
      <4>7. Taken(s)'
        BY <1>2, <4>2 DEF TypeOKReviews, Taken
      <4> QED
        BY <1>2, <3>1, <3>2, <4>3, <4>4, <4>5, <4>6, <4>7 DEF RatingInv, Taken, Reviewed
    <3> QED
      BY <3>3, <3>4
  <2>5. ASSUME NEW m \in Moderations, NEW o \in Orders, NEW to \in {"PUBLISHED", "REJECTED"},
               ModeratorAsks(m, o, to)
        PROVE  RatingInv'
    BY <2>1, <2>5 DEF ModeratorAsks, reviewVars, submitVars
  <2>6. ASSUME NEW m \in Moderations, Transition(m)
        PROVE  RatingInv'
    BY <2>1, <2>6 DEF Transition, submitVars
  <2>7. ASSUME NEW v \in Views, RecordProductView(v) \/ ProductRating(v) \/ ListReviews(v)
        PROVE  RatingInv'
    BY <2>1, <2>7 DEF RecordProductView, ProductRating, ListReviews, reviewVars, submitVars
  <2>8. CASE Dies
    <3>1. UNCHANGED <<order, stars, submitOf>>
      BY <2>8 DEF Dies, reviewVars
    <3>2. \A t \in Submits : submitAt'[t] = submitAt[t] \/ (submitAt[t] = "eligible" /\ submitAt'[t] = "dead")
      BY <1>2, <2>8 DEF Dies, TypeOKReviews
    <3> QED
      BY <1>2, <3>1, <3>2 DEF RatingInv, Taken, Reviewed
  <2>9. CASE UNCHANGED ratingsVars
    BY <2>1, <2>9 DEF ratingsVars, reviewVars, submitVars
  <2> QED
    BY <1>2, <2>2, <2>3, <2>4, <2>5, <2>6, <2>7, <2>8, <2>9 DEF RatingsNext
<1> QED
  BY <1>1, <1>2, ReviewsTypeCorrect, PTL DEF RatingsSpec

\* One purchase has one rating, and one submission that was taken, told so or not.
THEOREM OneRatingPerPurchaseHolds == RatingsSpec => []OneRatingPerPurchase
<1>1. ASSUME TypeOKReviews, RatingInv
      PROVE  OneRatingPerPurchase
  <2> SUFFICES ASSUME NEW o \in Orders
               PROVE  /\ Cardinality(Submitted(o)) = (IF Reviewed(o) THEN 1 ELSE 0)
                      /\ Reviewed(o) => order[o] # "PENDING"
    BY DEF OneRatingPerPurchase
  <2>1. CASE Reviewed(o)
    <3>1. PICK s \in Submits : Taken(s) /\ submitOf[s] = o
      BY <1>1, <2>1 DEF RatingInv
    <3>2. Submitted(o) = {s}
      BY <1>1, <3>1 DEF RatingInv, Taken, Submitted
    <3>3. order[o] # "PENDING"
      BY <1>1, <3>1 DEF RatingInv
    <3> QED
      BY <2>1, <3>2, <3>3, FS_Singleton
  <2>2. CASE ~Reviewed(o)
    <3>1. Submitted(o) = {}
      BY <1>1, <2>2 DEF RatingInv, Taken, Submitted
    <3> QED
      BY <2>2, <3>1, FS_EmptySet
  <2> QED
    BY <2>1, <2>2
<1> QED
  BY <1>1, ReviewsTypeCorrect, RatingInvHolds, PTL

-----------------------------------------------------------------------------
(* Moderators.                                                             *)

Decided(m) == modAt[m] \in {"decided", "unheard"}

\* The strengthening: whoever is about to decide saw a rating, and was let in;
\* what is not rated waits.
DecisionInv ==
    /\ \A m \in Moderations : modAt[m] = "updating" \/ Decided(m) =>
         /\ modOf[m] \in Orders \X {"PUBLISHED", "REJECTED"}
         /\ Reviewed(modOf[m][1]) /\ licensed
    /\ \A m \in Moderations : Decided(m) => modOf[m][2] = review[modOf[m][1]]
    /\ \A o \in Orders : review[o] # "PENDING" =>
         Reviewed(o) /\ \E m \in Moderations : Decided(m) /\ modOf[m][1] = o
    /\ \A m, n \in Moderations : Decided(m) /\ Decided(n) /\ modOf[m][1] = modOf[n][1] => m = n

\* Every step preserves it.
LEMMA DecisionInvHolds == RatingsSpec => []DecisionInv
<1>1. RatingsInit => DecisionInv
  BY DEF RatingsInit, DecisionInv, Decided, Reviewed
<1>2. ASSUME TypeOKReviews, RatingInv, DecisionInv, [RatingsNext]_ratingsVars
      PROVE  DecisionInv'
  <2>1. ASSUME UNCHANGED <<licensed, review, modAt, modOf>>,
               \A o \in Orders : stars[o] # NoRating => stars'[o] # NoRating
        PROVE  DecisionInv'
    BY <1>2, <2>1 DEF DecisionInv, Decided, Reviewed
  <2>2. ASSUME NEW o \in Orders, OrderMoves(o)
        PROVE  DecisionInv'
    BY <2>1, <2>2 DEF OrderMoves, reviewVars, modVars
  <2>3. ASSUME NEW s \in Submits, NEW o \in Orders, CheckEligibility(s, o)
        PROVE  DecisionInv'
    BY <2>1, <2>3 DEF CheckEligibility, reviewVars, modVars
  <2>4. ASSUME NEW s \in Submits, SubmitReview(s)
        PROVE  DecisionInv'
    <3> DEFINE o == submitOf[s]
    <3>1. o \in Orders
      BY <1>2, <2>4 DEF SubmitReview, RatingInv
    <3>2. CASE Reviewed(o)
      BY <2>1, <2>4, <3>2 DEF SubmitReview, reviewVars, modVars
    <3>3. CASE ~Reviewed(o)
      <4>1. PICK r \in Scale : stars' = [stars EXCEPT ![o] = r]
        BY <2>4, <3>3 DEF SubmitReview
      <4>2. review' = [review EXCEPT ![o] = "PENDING"] /\ UNCHANGED <<licensed, modAt, modOf>>
        BY <2>4, <3>3 DEF SubmitReview, modVars
      <4>3. review[o] = "PENDING"
        BY <1>2, <3>1, <3>3 DEF DecisionInv
      <4>4. review' = review
        <5>1. review \in [Orders -> Statuses]
          BY <1>2 DEF TypeOKReviews
        <5> QED
          BY <3>1, <4>2, <4>3, <5>1
      <4>5. \A p \in Orders : stars[p] # NoRating => stars'[p] # NoRating
        BY <1>2, <4>1, RatingsAssumption DEF TypeOKReviews
      <4>6. UNCHANGED <<licensed, review, modAt, modOf>>
        BY <4>2, <4>4
      <4> QED
        BY <2>1, <4>5, <4>6
    <3> QED
      BY <3>2, <3>3
  <2>5. ASSUME NEW m \in Moderations, NEW o \in Orders, NEW to \in {"PUBLISHED", "REJECTED"},
               ModeratorAsks(m, o, to)
        PROVE  DecisionInv'
    <3>1. Reviewed(o) /\ modAt[m] = "none"
      BY <2>5 DEF ModeratorAsks, PendingReviews
    <3>2. UNCHANGED <<licensed, stars, review>>
      BY <2>5 DEF ModeratorAsks, reviewVars
    <3>3. \A n \in Moderations : n # m => modAt'[n] = modAt[n] /\ modOf'[n] = modOf[n]
      BY <1>2, <2>5 DEF ModeratorAsks, TypeOKReviews
    <3>4. modOf'[m] = <<o, to>> /\ modAt'[m] = IF licensed THEN "updating" ELSE "forbidden"
      BY <1>2, <2>5 DEF ModeratorAsks, TypeOKReviews, AdminAllowed
    <3>5. \A n \in Moderations : Decided(n)' => n # m /\ Decided(n)
      BY <3>3, <3>4 DEF Decided
    <3>6. \A n \in Moderations : Decided(n) => n # m /\ Decided(n)'
      BY <3>1, <3>3 DEF Decided
    <3>7. ASSUME NEW n \in Moderations, modAt'[n] = "updating" \/ Decided(n)'
          PROVE  /\ modOf'[n] \in Orders \X {"PUBLISHED", "REJECTED"}
                 /\ stars[modOf'[n][1]] # NoRating /\ licensed
      <4>1. CASE n = m
        <5>1. modOf'[n] = <<o, to>> /\ modOf'[n][1] = o
          BY <3>4, <4>1
        <5>2. licensed
          BY <3>4, <3>7, <4>1 DEF Decided
        <5> QED
          BY <3>1, <5>1, <5>2 DEF Reviewed
      <4>2. CASE n # m
        <5>1. modOf'[n] = modOf[n] /\ (modAt[n] = "updating" \/ Decided(n))
          BY <3>3, <3>7, <4>2 DEF Decided
        <5> QED
          BY <1>2, <5>1 DEF DecisionInv, Reviewed
      <4> QED
        BY <4>1, <4>2
    <3>8. \A n \in Moderations : Decided(n)' =>
            n \in Moderations \ {m} /\ Decided(n) /\ modOf'[n] = modOf[n]
      BY <3>3, <3>5
    <3>9. \A n \in Moderations : Decided(n)' => modOf'[n][2] = review'[modOf'[n][1]]
      BY <1>2, <3>2, <3>8 DEF DecisionInv
    <3>10. \A p \in Orders : review'[p] # "PENDING" =>
             Reviewed(p)' /\ \E n \in Moderations : Decided(n)' /\ modOf'[n][1] = p
      BY <1>2, <3>2, <3>3, <3>6 DEF DecisionInv, Reviewed
    <3>11. \A n, k \in Moderations :
             Decided(n)' /\ Decided(k)' /\ modOf'[n][1] = modOf'[k][1] => n = k
      BY <1>2, <3>8 DEF DecisionInv
    <3> QED
      BY <3>2, <3>7, <3>9, <3>10, <3>11 DEF DecisionInv, Reviewed
  <2>6. ASSUME NEW m \in Moderations, Transition(m)
        PROVE  DecisionInv'
    <3> DEFINE o == modOf[m][1]
               to == modOf[m][2]
    <3>1. modAt[m] = "updating" /\ UNCHANGED <<licensed, stars, modOf>>
      BY <2>6 DEF Transition
    <3>2. o \in Orders /\ to \in {"PUBLISHED", "REJECTED"} /\ Reviewed(o) /\ licensed
      BY <1>2, <3>1 DEF DecisionInv
    <3>3. CASE review[o] = "PENDING"
      <4>1. review' = [review EXCEPT ![o] = to]
              /\ \E told \in {"decided", "unheard"} : modAt' = [modAt EXCEPT ![m] = told]
        BY <2>6, <3>2, <3>3 DEF Transition, ReviewPredecessorsOf, CanTransitionReview, Statuses
      <4>2. \A n \in Moderations : Decided(n) => modOf[n][1] # o
        BY <1>2, <3>2, <3>3 DEF DecisionInv
      <4>3. review'[o] = to /\ \A p \in Orders : p # o => review'[p] = review[p]
        BY <1>2, <3>2, <4>1 DEF TypeOKReviews
      <4>4. Decided(m)' /\ \A n \in Moderations : n # m => modAt'[n] = modAt[n]
        BY <1>2, <4>1 DEF TypeOKReviews, Decided
      <4> QED
        BY <1>2, <3>1, <3>2, <4>2, <4>3, <4>4 DEF DecisionInv, Decided, Reviewed
    <3>4. CASE review[o] # "PENDING"
      <4>1. review' = review /\ modAt' = [modAt EXCEPT ![m] = "too late"]
        BY <2>6, <3>4 DEF Transition, ReviewPredecessorsOf, CanTransitionReview
      <4>2. modAt'[m] = "too late" /\ \A n \in Moderations : n # m => modAt'[n] = modAt[n]
        BY <1>2, <4>1 DEF TypeOKReviews
      <4>3. \A n \in Moderations : Decided(n)' <=> Decided(n)
        BY <3>1, <4>2 DEF Decided
      <4>4. \A n \in Moderations : modAt'[n] = "updating" => modAt[n] = "updating"
        BY <4>2
      <4> QED
        BY <1>2, <3>1, <4>1, <4>3, <4>4, ZenonT(40) DEF DecisionInv, Reviewed
    <3> QED
      BY <3>3, <3>4
  <2>7. ASSUME NEW v \in Views, RecordProductView(v) \/ ProductRating(v) \/ ListReviews(v)
        PROVE  DecisionInv'
    BY <2>1, <2>7 DEF RecordProductView, ProductRating, ListReviews, reviewVars, modVars
  <2>8. CASE Dies
    <3>1. UNCHANGED <<licensed, stars, review, modOf>>
      BY <2>8 DEF Dies, reviewVars
    <3>2. \A n \in Moderations :
            modAt'[n] = modAt[n] \/ (modAt[n] = "updating" /\ modAt'[n] = "dead")
      BY <1>2, <2>8 DEF Dies, TypeOKReviews
    <3> QED
      BY <1>2, <3>1, <3>2 DEF DecisionInv, Decided, Reviewed
  <2>9. CASE UNCHANGED ratingsVars
    BY <2>1, <2>9 DEF ratingsVars, reviewVars, modVars
  <2> QED
    BY <1>2, <2>2, <2>3, <2>4, <2>5, <2>6, <2>7, <2>8, <2>9 DEF RatingsNext
<1> QED
  BY <1>1, <1>2, ReviewsTypeCorrect, RatingInvHolds, PTL DEF RatingsSpec

\* A rating is decided by one moderator, and is what that one decided.
THEOREM DecidedOnceHolds == RatingsSpec => []DecidedOnce
<1>1. ASSUME DecisionInv
      PROVE  DecidedOnce
  <2> SUFFICES ASSUME NEW o \in Orders
               PROVE  /\ review[o] = "PENDING" <=> Deciders(o) = {}
                      /\ Cardinality(Deciders(o)) <= 1
                      /\ \A m \in Deciders(o) :
                           licensed /\ Reviewed(o) /\ modOf[m][2] = review[o]
    BY DEF DecidedOnce
  <2>1. \A m \in Deciders(o) : licensed /\ Reviewed(o) /\ modOf[m][2] = review[o]
    BY <1>1 DEF DecisionInv, Decided, Deciders
  <2>2. review[o] = "PENDING" <=> Deciders(o) = {}
    BY <1>1 DEF DecisionInv, Decided, Deciders
  <2>3. Cardinality(Deciders(o)) <= 1
    <3>1. CASE Deciders(o) = {}
      BY <3>1, FS_EmptySet
    <3>2. CASE Deciders(o) # {}
      <4>1. PICK m \in Deciders(o) : TRUE
        BY <3>2
      <4>2. Deciders(o) = {m}
        BY <1>1, <4>1 DEF DecisionInv, Decided, Deciders
      <4> QED
        BY <4>2, FS_Singleton
    <3> QED
      BY <3>1, <3>2
  <2> QED
    BY <2>1, <2>2, <2>3
<1> QED
  BY <1>1, DecisionInvHolds, PTL

-----------------------------------------------------------------------------
(* Pages.                                                                  *)

SumOf(f, S) == MapThenSumSet(LAMBDA o : f[o], S)

\* What is added up of two functions that agree is one sum.
LEMMA SumsAgree ==
    ASSUME NEW f, NEW g, NEW S, \A o \in S : f[o] = g[o]
    PROVE  SumOf(f, S) = SumOf(g, S)
<1> DEFINE Adds(e, h) == h = [s \in SUBSET S |->
               IF s = {} THEN 0
               ELSE e[CHOOSE x \in s : TRUE] + h[s \ {CHOOSE x \in s : TRUE}]]
<1>1. ASSUME NEW h
      PROVE  Adds(f, h) <=> Adds(g, h)
  <2>1. ASSUME NEW s \in SUBSET S, s # {}
        PROVE  f[CHOOSE x \in s : TRUE] = g[CHOOSE x \in s : TRUE]
    <3>1. (CHOOSE x \in s : TRUE) \in s
      BY <2>1
    <3> QED
      BY <2>1, <3>1
  <2> QED
    BY <2>1
<1>2. (CHOOSE h : Adds(f, h)) = (CHOOSE h : Adds(g, h))
  <2> HIDE DEF Adds
  <2> QED
    BY <1>1
<1>3. SumOf(f, S) = (CHOOSE h : Adds(f, h))[S]
  BY DEF SumOf, MapThenSumSet, MapThenFoldSet
<1>4. SumOf(g, S) = (CHOOSE h : Adds(g, h))[S]
  BY DEF SumOf, MapThenSumSet, MapThenFoldSet
<1> QED
  BY <1>2, <1>3, <1>4

\* What a moderator published stays so, with the stars and the time it had.
PublishedStay ==
    /\ PublishedReviews \subseteq PublishedReviews'
    /\ \A o \in PublishedReviews : stars'[o] = stars[o] /\ created'[o] = created[o]

\* No step takes a published review back.
LEMMA PublishedReviewsStay ==
    ASSUME TypeOKReviews, [RatingsNext]_ratingsVars
    PROVE  PublishedStay
<1>1. ASSUME UNCHANGED reviewVars
      PROVE  PublishedStay
  BY <1>1 DEF PublishedStay, PublishedReviews, Reviewed, reviewVars
<1>2. ASSUME NEW s \in Submits, SubmitReview(s)
      PROVE  PublishedStay
  <2> DEFINE o == submitOf[s]
  <2>1. CASE Reviewed(o)
    BY <1>1, <1>2, <2>1 DEF SubmitReview
  <2>2. CASE ~Reviewed(o)
    <3>1. PICK r \in Scale : stars' = [stars EXCEPT ![o] = r]
      BY <1>2, <2>2 DEF SubmitReview
    <3>2. review' = [review EXCEPT ![o] = "PENDING"]
      BY <1>2, <2>2 DEF SubmitReview
    <3>3. \A p \in Orders : p # o =>
            stars'[p] = stars[p] /\ review'[p] = review[p] /\ created'[p] = created[p]
      BY <1>2, <2>2, <3>1, <3>2 DEF SubmitReview, TypeOKReviews
    <3>4. o \notin PublishedReviews
      BY <2>2 DEF PublishedReviews
    <3> QED
      BY <3>3, <3>4 DEF PublishedStay, PublishedReviews, Reviewed
  <2> QED
    BY <2>1, <2>2
<1>3. ASSUME NEW m \in Moderations, Transition(m)
      PROVE  PublishedStay
  <2> DEFINE o == modOf[m][1]
  <2>1. UNCHANGED <<stars, created>>
    BY <1>3 DEF Transition
  <2>2. CASE review[o] = "PENDING"
    <3>1. \A p \in Orders : p # o => review'[p] = review[p]
      BY <1>3 DEF Transition, TypeOKReviews
    <3>2. o \notin PublishedReviews
      BY <2>2 DEF PublishedReviews
    <3> QED
      BY <2>1, <3>1, <3>2 DEF PublishedStay, PublishedReviews, Reviewed
  <2>3. CASE review[o] # "PENDING"
    BY <1>1, <1>3, <2>1, <2>3 DEF Transition, ReviewPredecessorsOf, CanTransitionReview, reviewVars
  <2> QED
    BY <2>2, <2>3
<1>4. CASE UNCHANGED ratingsVars
  BY <1>1, <1>4 DEF ratingsVars
<1>5. CASE Dies
  BY <1>1, <1>5 DEF Dies
<1> QED
  BY <1>1, <1>2, <1>3, <1>4, <1>5 DEF RatingsNext, OrderMoves, CheckEligibility, ModeratorAsks,
     RecordProductView, ProductRating, ListReviews

\* An average is of some reviews, rated as they are.
AverageOf(shows, rated, of) == shows = [sum |-> SumOf(rated, of), count |-> Cardinality(of)]

\* What is newest of published reviews stays so.
LEMMA NewestStay ==
    ASSUME PublishedStay, NEW all \in SUBSET PublishedReviews, NEW l \in Newest(all)
    PROVE  all \in SUBSET PublishedReviews' /\ l \in Newest(all)'
BY DEF PublishedStay, Newest

\* The strengthening: an average is of published reviews, a list is the newest of
\* published ones, and when both are read one of the two holds the other.
PageInv ==
    /\ DOMAIN page = Views /\ DOMAIN listed = Views
    /\ viewAt \in [Views -> {"none", "counted", "averaged", "listed", "shown"}]
    /\ \A v \in Views :
         /\ viewAt[v] = "averaged" => \E of \in SUBSET PublishedReviews : AverageOf(page[v], stars, of)
         /\ viewAt[v] = "listed" => \E all \in SUBSET PublishedReviews : listed[v] \in Newest(all)
         /\ viewAt[v] = "shown" =>
              \E of \in SUBSET PublishedReviews, all \in SUBSET PublishedReviews :
                /\ of \subseteq all \/ all \subseteq of
                /\ AverageOf(page[v], stars, of) /\ listed[v] \in Newest(all)

\* Every step preserves it.
LEMMA PageInvHolds == RatingsSpec => []PageInv
<1>1. RatingsInit => PageInv
  BY DEF RatingsInit, PageInv
<1>2. ASSUME TypeOKReviews, PageInv, [RatingsNext]_ratingsVars
      PROVE  PageInv'
  <2>1. PublishedStay
    BY <1>2, PublishedReviewsStay
  <2>2. ASSUME NEW shows, NEW of \in SUBSET PublishedReviews, AverageOf(shows, stars, of)
        PROVE  of \in SUBSET PublishedReviews' /\ AverageOf(shows, stars', of)
    <3>1. \A o \in of : stars[o] = stars'[o]
      BY <2>1 DEF PublishedStay
    <3>2. SumOf(stars, of) = SumOf(stars', of)
      BY <3>1, SumsAgree
    <3> QED
      BY <2>1, <2>2, <3>2 DEF PublishedStay, AverageOf
  \* A view that rests keeps what it shows.
  <2>3. ASSUME NEW v \in Views, viewAt'[v] = viewAt[v], page'[v] = page[v], listed'[v] = listed[v]
        PROVE  /\ viewAt'[v] = "averaged" =>
                    \E of \in SUBSET PublishedReviews' : AverageOf(page'[v], stars', of)
               /\ viewAt'[v] = "listed" =>
                    \E all \in SUBSET PublishedReviews' : listed'[v] \in Newest(all)'
               /\ viewAt'[v] = "shown" =>
                    \E of \in SUBSET PublishedReviews', all \in SUBSET PublishedReviews' :
                      /\ of \subseteq all \/ all \subseteq of
                      /\ AverageOf(page'[v], stars', of) /\ listed'[v] \in Newest(all)'
    <3>1. CASE viewAt[v] = "averaged"
      BY <1>2, <2>2, <2>3, <3>1 DEF PageInv
    <3>2. CASE viewAt[v] = "listed"
      BY <1>2, <2>1, <2>3, <3>2, NewestStay DEF PageInv
    <3>3. CASE viewAt[v] = "shown"
      <4>1. PICK of \in SUBSET PublishedReviews, all \in SUBSET PublishedReviews :
              /\ of \subseteq all \/ all \subseteq of
              /\ AverageOf(page[v], stars, of) /\ listed[v] \in Newest(all)
        BY <1>2, <3>3 DEF PageInv
      <4>2. of \in SUBSET PublishedReviews' /\ AverageOf(page'[v], stars', of)
        BY <2>2, <2>3, <4>1
      <4>3. all \in SUBSET PublishedReviews' /\ listed'[v] \in Newest(all)'
        BY <2>1, <2>3, <4>1, NewestStay
      <4> QED
        BY <2>3, <3>3, <4>1, <4>2, <4>3
    <3>4. CASE viewAt[v] \notin {"averaged", "listed", "shown"}
      BY <2>3, <3>4
    <3> QED
      BY <3>1, <3>2, <3>3, <3>4
  <2>4. ASSUME UNCHANGED <<viewAt, page, listed>>
        PROVE  PageInv'
    BY <1>2, <2>3, <2>4 DEF PageInv
  <2>5. ASSUME NEW v \in Views, RecordProductView(v)
        PROVE  PageInv'
    <3>1. UNCHANGED <<page, listed>> /\ viewAt' = [viewAt EXCEPT ![v] = "counted"]
      BY <2>5 DEF RecordProductView
    <3>2. viewAt'[v] = "counted" /\ \A w \in Views : w # v => viewAt'[w] = viewAt[w]
      BY <1>2, <3>1 DEF PageInv
    <3>3. viewAt' \in [Views -> {"none", "counted", "averaged", "listed", "shown"}]
      BY <1>2, <3>1 DEF PageInv
    <3> QED
      BY <1>2, <2>3, <3>1, <3>2, <3>3 DEF PageInv
  <2>6. ASSUME NEW v \in Views, ProductRating(v)
        PROVE  PageInv'
    <3>1. UNCHANGED <<reviewVars, listed>> /\ viewAt[v] \in {"counted", "listed"}
      BY <2>6 DEF ProductRating
    <3>2. viewAt' = [viewAt EXCEPT ![v] = IF @ = "listed" THEN "shown" ELSE "averaged"]
      BY <2>6 DEF ProductRating
    <3>3. page' = [page EXCEPT ![v] = [sum |-> SumOf(stars, PublishedReviews),
                                       count |-> Cardinality(PublishedReviews)]]
      BY <2>6 DEF ProductRating, RatingSummary, SumOf
    <3>4. PublishedReviews' = PublishedReviews /\ stars' = stars
      BY <3>1 DEF reviewVars, PublishedReviews, Reviewed
    <3>5. AverageOf(page'[v], stars', PublishedReviews')
      BY <1>2, <3>3, <3>4 DEF PageInv, AverageOf
    <3>6. \A w \in Views : w # v => viewAt'[w] = viewAt[w] /\ page'[w] = page[w]
      BY <1>2, <3>2, <3>3 DEF PageInv
    <3>7. viewAt'[v] = IF viewAt[v] = "listed" THEN "shown" ELSE "averaged"
      BY <1>2, <3>2 DEF PageInv
    <3>8. viewAt[v] = "listed" =>
            \E all \in SUBSET PublishedReviews' : listed'[v] \in Newest(all)'
      BY <1>2, <2>1, <3>1, NewestStay DEF PageInv
    <3>9. DOMAIN page' = Views /\ viewAt' \in [Views -> {"none", "counted", "averaged", "listed", "shown"}]
      BY <1>2, <3>2, <3>3 DEF PageInv
    <3> QED
      BY <1>2, <2>3, <3>1, <3>5, <3>6, <3>7, <3>8, <3>9 DEF PageInv
  <2>7. ASSUME NEW v \in Views, ListReviews(v)
        PROVE  PageInv'
    <3>1. UNCHANGED <<reviewVars, page>> /\ viewAt[v] \in {"counted", "averaged"}
      BY <2>7 DEF ListReviews
    <3>2. viewAt' = [viewAt EXCEPT ![v] = IF @ = "averaged" THEN "shown" ELSE "listed"]
      BY <2>7 DEF ListReviews
    <3>3. PICK l \in Newest(PublishedReviews) : listed' = [listed EXCEPT ![v] = l]
      BY <2>7 DEF ListReviews
    <3>4. PublishedReviews' = PublishedReviews /\ listed'[v] \in Newest(PublishedReviews)'
      <4>1. PublishedReviews' = PublishedReviews /\ listed'[v] = l
        BY <1>2, <3>1, <3>3 DEF PageInv, reviewVars, PublishedReviews, Reviewed
      <4>2. created' = created
        BY <3>1 DEF reviewVars
      <4> QED
        BY <4>1, <4>2 DEF Newest
    <3>5. \A w \in Views : w # v => viewAt'[w] = viewAt[w] /\ listed'[w] = listed[w]
      BY <1>2, <3>2, <3>3 DEF PageInv
    <3>6. viewAt'[v] = IF viewAt[v] = "averaged" THEN "shown" ELSE "listed"
      BY <1>2, <3>2 DEF PageInv
    <3>7. viewAt[v] = "averaged" =>
            \E of \in SUBSET PublishedReviews' : AverageOf(page'[v], stars', of)
      BY <1>2, <2>2, <3>1 DEF PageInv
    <3>8. DOMAIN listed' = Views /\ viewAt' \in [Views -> {"none", "counted", "averaged", "listed", "shown"}]
      BY <1>2, <3>2, <3>3 DEF PageInv
    <3> QED
      BY <1>2, <2>3, <3>1, <3>4, <3>5, <3>6, <3>7, <3>8 DEF PageInv
  <2>8. CASE Dies
    BY <2>4, <2>8 DEF Dies, viewVars
  <2>9. CASE UNCHANGED ratingsVars
    BY <2>4, <2>9 DEF ratingsVars, viewVars
  <2> QED
    BY <1>2, <2>4, <2>5, <2>6, <2>7, <2>8, <2>9 DEF RatingsNext, OrderMoves, CheckEligibility,
       SubmitReview, ModeratorAsks, Transition, viewVars
<1> QED
  BY <1>1, <1>2, ReviewsTypeCorrect, PTL DEF RatingsSpec

\* Whatever is submitted and moderated between its two reads, and however many
\* reviews there are, a page lists the newest of some published reviews, and its
\* average is of these, or of these and some decided since, or of these but some
\* decided since (domain/review.ts:69, reviews.ts:86).
THEOREM AverageIsOfThePublishedHolds == RatingsSpec => []AverageIsOfThePublished
<1>1. PageInv => AverageIsOfThePublished
  BY DEF PageInv, AverageOf, SumOf, AverageIsOfThePublished
<1> QED
  BY <1>1, PageInvHolds, PTL

-----------------------------------------------------------------------------
(* AskBox.                                                                 *)

\* Whatever is drawn, sent, said or kept of a question is of it.
Event(a)  == [type : {"text_delta", "error"}] \cup [type : {"done"}, text : Seq({a})]
Turn      == {t \in [q : Questions, text : Seq(Questions)] : t.text # <<>> /\ t.text \in Seq({t.q})}
RunStates == {"none", "refused", "running", "recording", "closed", "dead"}

ChatTypes ==
    /\ turns \in Seq(Turn) /\ asked \in 0..MaxAsks /\ answer \in Seq({asked}) /\ busy \in BOOLEAN
    /\ reading \subseteq Questions /\ broken \subseteq Questions
    /\ asked = 0 => answer = <<>>

RunTypes ==
    /\ runAt \in [Questions -> RunStates]
    /\ said \in [Questions -> Seq(Questions)] /\ DOMAIN wire = Questions /\ DOMAIN heard = Questions
    /\ \A a \in Questions : said[a] \in Seq({a}) /\ wire[a] \in Seq(Event(a))
    /\ rows \in Seq(Turn)

\* Of the questions asked only the last is read, and one that is neither read nor
\* broken has come to its end.
AskedInv ==
    /\ reading \subseteq {asked} /\ (~busy => reading = {}) /\ reading \intersect broken = {}
    /\ \A a \in broken : a <= asked
    /\ \A a \in Questions : asked < a => runAt[a] = "none"
    /\ \A a \in Questions : a <= asked /\ a \notin reading \cup broken => runAt[a] \in {"refused", "closed"}

TurnsInv ==
    /\ \A i \in DOMAIN turns : turns[i].q < asked
    /\ \A i, j \in DOMAIN turns : i < j => turns[i].q < turns[j].q

\* Once a run has its answer, the box has it too, or the stream's last event
\* brings it; and what was kept is drawn when the stream has ended.
Kept(a)     == \E i \in DOMAIN rows : rows[i].q = a
Answered(a) == runAt[a] = "recording" \/ Kept(a)

AnswerComes(a) ==
    \/ wire[a] = <<>> /\ answer = said[a]
    \/ wire[a] # <<>> /\ wire[a][Len(wire[a])] = [type |-> "done", text |-> said[a]]

RowsInv == \A i \in DOMAIN rows : runAt[rows[i].q] = "closed" /\ rows[i].text = said[rows[i].q]

ComesInv == \A a \in reading : Answered(a) => AnswerComes(a)

IsDrawn(row) == IF row.q = asked THEN answer = row.text ELSE \E j \in DOMAIN turns : turns[j] = row

DrawnInv == \A i \in DOMAIN rows : rows[i].q \notin reading \cup broken => IsDrawn(rows[i])

AskBoxInv == ChatTypes /\ RunTypes /\ AskedInv /\ TurnsInv /\ RowsInv /\ ComesInv /\ DrawnInv

\* What is said is of its question.
LEMMA OfItsQuestion ==
    ASSUME NEW a \in Questions
    PROVE  /\ Seq({a}) \subseteq Seq(Questions)
           /\ \A s \in Seq({a}) : Append(s, a) \in Seq({a})
           /\ \A s \in Seq({a}) : \A n \in 0..Len(s) : SubSeq(s, n + 1, Len(s)) \in Seq({a})
<1>1. Seq({a}) \subseteq Seq(Questions)
  OBVIOUS
<1>2. \A s \in Seq({a}) : Append(s, a) \in Seq({a})
  OBVIOUS
<1>3. ASSUME NEW s \in Seq({a}), NEW n \in 0..Len(s)
      PROVE  SubSeq(s, n + 1, Len(s)) \in Seq({a})
  BY <1>3
<1> QED
  BY <1>1, <1>2, <1>3

\* Every step of the box and of the server preserves it.
LEMMA AskBoxInvHolds == AskBoxSpec => []AskBoxInv
<1>1. AskBoxInit => AskBoxInv
  <2> SUFFICES ASSUME AskBoxInit PROVE AskBoxInv
    OBVIOUS
  <2> USE AskBoxAssumption DEF AskBoxInit, Questions
  <2>1. ChatTypes
    <3>1. turns \in Seq(Turn) /\ answer \in Seq({asked})
      OBVIOUS
    <3>2. asked \in 0..MaxAsks
      OBVIOUS
    <3>4. busy \in BOOLEAN
      OBVIOUS
    <3>3. reading \subseteq Questions /\ broken \subseteq Questions
      OBVIOUS
    <3> QED
      BY <3>1, <3>2, <3>3, <3>4 DEF ChatTypes
  <2>2. RunTypes
    BY DEF RunTypes, RunStates
  <2>3. AskedInv /\ TurnsInv /\ RowsInv /\ ComesInv /\ DrawnInv
    BY DEF AskedInv, TurnsInv, RowsInv, ComesInv, DrawnInv
  <2> QED
    BY <2>1, <2>2, <2>3 DEF AskBoxInv
<1>2. ASSUME AskBoxInv, [AskBoxNext]_askBoxVars
      PROVE  AskBoxInv'
  <2>0. /\ ChatTypes /\ RunTypes /\ AskedInv /\ TurnsInv /\ RowsInv /\ ComesInv /\ DrawnInv
        /\ asked \in Nat /\ Questions \subseteq Nat /\ MaxAsks \in Nat
    BY <1>2, AskBoxAssumption DEF AskBoxInv, ChatTypes, Questions
  <2>1. \A i \in DOMAIN rows : rows[i] \in Turn /\ rows[i].q \in Questions
    <3>1. rows \in Seq(Turn)
      BY <2>0 DEF RunTypes
    <3>2. \A i \in DOMAIN rows : rows[i] \in Turn
      BY <3>1
    <3> QED
      BY <3>2 DEF Turn
  \* The last exchange is displaced, and nothing is drawn of the next.
  <2>2. CASE Ask
    <3> DEFINE next == asked + 1
    <3>1. /\ ~busy /\ next \in Questions /\ asked' = next /\ answer' = <<>> /\ busy' = TRUE
          /\ reading = {} /\ reading' = {next}
          /\ UNCHANGED <<broken, runAt, said, wire, heard, rows>>
          /\ turns' = IF answer = <<>> THEN turns ELSE Append(turns, Exchange)
      <4>1. ~busy /\ asked < MaxAsks /\ reading = {}
        BY <2>0, <2>2 DEF Ask, AskedInv
      <4>2. next \in Questions
        BY <2>0, <4>1 DEF Questions
      <4> QED
        BY <2>2, <4>1, <4>2 DEF Ask, runVars
    <3>2. answer # <<>> => Exchange \in Turn /\ Exchange.q = asked /\ Exchange.text = answer
      <4> SUFFICES ASSUME answer # <<>> PROVE Exchange \in Turn /\ Exchange.q = asked /\ Exchange.text = answer
        OBVIOUS
      <4>1. asked \in Questions
        BY <2>0 DEF ChatTypes, Questions
      <4>2. answer \in Seq({asked}) /\ answer \in Seq(Questions)
        BY <2>0, <4>1, OfItsQuestion DEF ChatTypes
      <4> QED
        BY <4>1, <4>2 DEF Exchange, Turn
    <3> HIDE DEF next
    <3>3. /\ turns' \in Seq(Turn) /\ DOMAIN turns \subseteq DOMAIN turns'
          /\ \A i \in DOMAIN turns : turns'[i] = turns[i]
          /\ \A i \in DOMAIN turns' \ DOMAIN turns :
               answer # <<>> /\ turns'[i] = Exchange /\ \A j \in DOMAIN turns : j < i
          /\ \A i, j \in DOMAIN turns' \ DOMAIN turns : i = j
          /\ answer # <<>> => \E i \in DOMAIN turns' : turns'[i] = Exchange
      <4>1. CASE answer = <<>>
        BY <2>0, <3>1, <4>1 DEF ChatTypes
      <4>2. CASE answer # <<>>
        <5>1. turns' = Append(turns, Exchange) /\ turns \in Seq(Turn) /\ Exchange \in Turn
          BY <2>0, <3>1, <3>2, <4>2 DEF ChatTypes
        <5>2. /\ turns' \in Seq(Turn) /\ DOMAIN turns' = DOMAIN turns \cup {Len(turns) + 1}
              /\ DOMAIN turns = 1..Len(turns) /\ Len(turns) \in Nat
              /\ turns'[Len(turns) + 1] = Exchange
              /\ \A i \in DOMAIN turns : turns'[i] = turns[i]
          BY <5>1
        <5> QED
          BY <4>2, <5>2
      <4> QED
        BY <4>1, <4>2
    <3>4. ChatTypes'
      BY <2>0, <3>1, <3>3 DEF ChatTypes, Questions, next
    <3>5. RunTypes'
      BY <2>0, <3>1 DEF RunTypes
    <3>6. AskedInv'
      <4>1. next \notin broken /\ \A a \in broken : a <= next
        BY <2>0 DEF AskedInv, ChatTypes, next
      <4>2. \A a \in Questions : next < a => asked < a
        BY <2>0 DEF next
      <4>3. \A a \in Questions : a <= next => a = next \/ a <= asked
        BY <2>0 DEF next
      <4> QED
        BY <2>0, <3>1, <4>1, <4>2, <4>3 DEF AskedInv
    <3>7. TurnsInv'
      <4>1. ASSUME NEW i \in DOMAIN turns' PROVE turns'[i].q < asked'
        <5>1. CASE i \in DOMAIN turns
          <6>1. turns[i] \in Turn /\ turns[i].q < asked
            BY <2>0, <5>1 DEF TurnsInv, ChatTypes
          <6>2. turns[i].q \in Nat
            BY <2>0, <6>1 DEF Turn
          <6> QED
            BY <2>0, <3>1, <3>3, <5>1, <6>1, <6>2 DEF next
        <5>2. CASE i \notin DOMAIN turns
          BY <2>0, <3>1, <3>2, <3>3, <5>2 DEF next
        <5> QED
          BY <5>1, <5>2
      <4>2. ASSUME NEW i \in DOMAIN turns', NEW j \in DOMAIN turns', i < j
            PROVE  turns'[i].q < turns'[j].q
        BY <2>0, <3>2, <3>3, <4>2 DEF TurnsInv, ChatTypes
      <4> QED
        BY <4>1, <4>2 DEF TurnsInv
    <3>8. RowsInv'
      BY <2>0, <3>1 DEF RowsInv
    <3>9. \A i \in DOMAIN rows : rows[i].q # next
      BY <2>0, <2>1, <3>1 DEF RowsInv, AskedInv, next
    <3>10. ComesInv'
      BY <2>0, <3>1, <3>9 DEF ComesInv, Answered, Kept, AskedInv, next
    <3>11. DrawnInv'
      <4> SUFFICES ASSUME NEW i \in DOMAIN rows, rows[i].q \notin broken, rows[i].q # next
                   PROVE  \E j \in DOMAIN turns' : turns'[j] = rows[i]
        BY <3>1, <3>9 DEF DrawnInv, IsDrawn
      <4>1. IsDrawn(rows[i])
        BY <2>0, <3>1 DEF DrawnInv
      <4>2. CASE rows[i].q = asked
        <5>1. answer = rows[i].text /\ answer # <<>>
          BY <2>1, <4>1, <4>2 DEF IsDrawn, Turn
        <5>2. rows[i] = Exchange
          BY <2>1, <4>2, <5>1 DEF Exchange, Turn
        <5> QED
          BY <3>3, <5>1, <5>2
      <4> QED
        BY <3>3, <4>1, <4>2 DEF IsDrawn
    <3> QED
      BY <3>4, <3>5, <3>6, <3>7, <3>8, <3>10, <3>11 DEF AskBoxInv
  \* Of the question being read.
  <2>3. ASSUME NEW a \in Questions, Read(a)
        PROVE  AskBoxInv'
    <3>1. a = asked /\ reading = {a} /\ a \notin broken
            /\ UNCHANGED <<turns, asked, broken, runAt, said, heard, rows>>
      BY <2>0, <2>3 DEF Read, AskedInv
    <3>2. CASE wire[a] # <<>>
      <4> DEFINE e == Head(wire[a])
                 rest == Tail(wire[a])
      <4>1. /\ wire' = [wire EXCEPT ![a] = rest] /\ UNCHANGED <<reading, busy>>
            /\ answer' = CASE e.type = "text_delta" -> Append(answer, a)
                           [] e.type = "done" -> e.text
                           [] OTHER -> answer
        BY <2>3, <3>2 DEF Read
      <4>2. wire[a] \in Seq(Event(a))
        BY <2>0 DEF RunTypes
      <4>3. /\ e \in Event(a) /\ e = wire[a][1] /\ rest \in Seq(Event(a))
            /\ rest = <<>> => Len(wire[a]) = 1
            /\ rest # <<>> => rest[Len(rest)] = wire[a][Len(wire[a])]
        <5>1. /\ e = wire[a][1] /\ rest \in Seq(Event(a)) /\ Len(rest) = Len(wire[a]) - 1
              /\ Len(wire[a]) \in Nat \ {0} /\ \A i \in 1..Len(rest) : rest[i] = wire[a][i + 1]
          BY <3>2, <4>2, HeadTailProperties
        <5>2. e \in Event(a)
          BY <4>2, <5>1
        <5> HIDE DEF e, rest
        <5>3. rest = <<>> => Len(wire[a]) = 1
          BY <5>1
        <5>4. rest # <<>> => Len(rest) \in 1..Len(rest)
          BY <5>1
        <5> QED
          BY <5>1, <5>2, <5>3, <5>4
      <4> HIDE DEF e, rest
      <4>4. answer' \in Seq({a})
        BY <2>0, <3>1, <4>1, <4>3 DEF ChatTypes, Event
      <4>5. ChatTypes'
        BY <2>0, <3>1, <4>1, <4>4 DEF ChatTypes, Questions
      <4>6. RunTypes'
        BY <2>0, <3>1, <4>1, <4>3 DEF RunTypes
      <4>7. AskedInv' /\ TurnsInv' /\ RowsInv'
        BY <2>0, <3>1, <4>1 DEF AskedInv, TurnsInv, RowsInv
      <4>8. ComesInv'
        <5> SUFFICES ASSUME Answered(a) PROVE AnswerComes(a)'
          BY <3>1, <4>1 DEF ComesInv, Answered, Kept
        <5>1. wire[a][Len(wire[a])] = [type |-> "done", text |-> said[a]] /\ wire'[a] = rest
          BY <2>0, <3>1, <3>2, <4>1 DEF ComesInv, AnswerComes, RunTypes
        <5>2. CASE rest = <<>>
          <6>1. e = [type |-> "done", text |-> said[a]]
            BY <4>3, <5>1, <5>2
          <6>2. answer' = said[a]
            BY <4>1, <6>1
          <6> QED
            BY <3>1, <5>1, <5>2, <6>2 DEF AnswerComes
        <5>3. CASE rest # <<>>
          BY <3>1, <4>3, <5>1, <5>3 DEF AnswerComes
        <5> QED
          BY <5>2, <5>3
      <4>9. DrawnInv'
        BY <2>0, <3>1, <4>1 DEF DrawnInv, IsDrawn
      <4> QED
        BY <4>5, <4>6, <4>7, <4>8, <4>9 DEF AskBoxInv
    <3>3. CASE wire[a] = <<>>
      <4>1. runAt[a] \in {"refused", "closed"} /\ reading' = {} /\ busy' = FALSE
              /\ UNCHANGED <<answer, wire>>
        BY <2>3, <3>1, <3>3 DEF Read
      <4>2. ChatTypes' /\ RunTypes' /\ TurnsInv' /\ RowsInv' /\ ComesInv'
        BY <2>0, <3>1, <4>1 DEF ChatTypes, RunTypes, TurnsInv, RowsInv, ComesInv
      <4>3. AskedInv'
        BY <2>0, <3>1, <4>1 DEF AskedInv
      <4>4. DrawnInv'
        <5> SUFFICES ASSUME NEW i \in DOMAIN rows, rows[i].q \notin broken
                     PROVE  IsDrawn(rows[i])
          BY <3>1, <4>1 DEF DrawnInv, IsDrawn
        <5>1. CASE rows[i].q = a
          <6>1. AnswerComes(a)
            BY <2>0, <3>1, <5>1 DEF ComesInv, Answered, Kept
          <6> QED
            BY <2>0, <3>1, <3>3, <5>1, <6>1 DEF AnswerComes, RowsInv, IsDrawn
        <5>2. CASE rows[i].q # a
          BY <2>0, <3>1, <5>2 DEF DrawnInv
        <5> QED
          BY <5>1, <5>2
      <4> QED
        BY <4>2, <4>3, <4>4 DEF AskBoxInv
    <3> QED
      BY <3>2, <3>3
  <2>4. ASSUME NEW a \in Questions, Breaks(a)
        PROVE  AskBoxInv'
    <3>1. /\ a = asked /\ reading' = {} /\ broken' = broken \cup {a} /\ busy' = FALSE
          /\ wire' = [wire EXCEPT ![a] = <<>>]
          /\ UNCHANGED <<turns, asked, answer, runAt, said, heard, rows>>
      BY <2>0, <2>4 DEF Breaks, AskedInv
    <3>2. ChatTypes' /\ TurnsInv' /\ RowsInv' /\ ComesInv'
      BY <2>0, <3>1 DEF ChatTypes, TurnsInv, RowsInv, ComesInv
    <3>3. RunTypes'
      <4>1. \A b \in Questions : wire'[b] = wire[b] \/ wire'[b] = <<>>
        BY <2>0, <3>1 DEF RunTypes
      <4>2. \A b \in Questions : <<>> \in Seq(Event(b))
        OBVIOUS
      <4>3. \A b \in Questions : wire'[b] \in Seq(Event(b))
        BY <2>0, <4>1, <4>2 DEF RunTypes
      <4> QED
        BY <2>0, <3>1, <4>3 DEF RunTypes
    <3>4. AskedInv'
      BY <2>0, <3>1 DEF AskedInv
    <3>5. DrawnInv'
      BY <2>0, <3>1 DEF DrawnInv, AskedInv, IsDrawn
    <3> QED
      BY <3>2, <3>3, <3>4, <3>5 DEF AskBoxInv
  <2>5. ASSUME NEW a \in Questions, Serve(a) \/ RunDies(a)
        PROVE  AskBoxInv'
    <3>1. UNCHANGED <<chatVars, said, wire, rows>> /\ DOMAIN heard' = Questions
      BY <2>0, <2>5 DEF Serve, RunDies, RunTypes
    <3>2. /\ runAt[a] \in {"none", "running", "recording"}
          /\ \E to \in {"refused", "running", "dead"} : runAt' = [runAt EXCEPT ![a] = to]
          /\ runAt[a] = "none" => a <= asked
          /\ runAt[a] # "none" => runAt'[a] = "dead"
      BY <2>0, <2>5 DEF Serve, RunDies, RunGoes, RunTypes
    <3>3. ChatTypes' /\ TurnsInv'
      BY <2>0, <3>1 DEF ChatTypes, TurnsInv, chatVars
    <3>4. RunTypes'
      BY <2>0, <3>1, <3>2 DEF RunTypes, RunStates
    <3>5. AskedInv'
      BY <2>0, <3>1, <3>2 DEF AskedInv, chatVars, RunTypes
    <3>6. RowsInv'
      BY <2>0, <2>1, <3>1, <3>2 DEF RowsInv, RunTypes
    <3>7. ComesInv'
      <4> SUFFICES ASSUME NEW b \in reading, Answered(b)'
                   PROVE  AnswerComes(b)
        BY <3>1 DEF ComesInv, AnswerComes, chatVars
      <4>1. b \in Questions
        BY <2>0 DEF ChatTypes
      <4>2. Answered(b)
        BY <2>0, <3>1, <3>2, <4>1 DEF Answered, Kept, RunTypes
      <4> QED
        BY <2>0, <4>2 DEF ComesInv
    <3>8. DrawnInv'
      BY <2>0, <3>1 DEF DrawnInv, IsDrawn, chatVars
    <3> QED
      BY <3>3, <3>4, <3>5, <3>6, <3>7, <3>8 DEF AskBoxInv
  \* Of a run that has not answered yet, no row is there.
  <2>6. ASSUME NEW a \in Questions, runAt[a] = "running"
        PROVE  ~Kept(a)
    BY <2>0, <2>6 DEF RowsInv, Kept
  <2>7. ASSUME NEW a \in Questions, Speak(a)
        PROVE  AskBoxInv'
    <3> DEFINE e == [type |-> "text_delta"]
    <3>1. /\ runAt[a] = "running" /\ said' = [said EXCEPT ![a] = Append(said[a], a)]
          /\ wire' = [wire EXCEPT ![a] = IF a \in broken THEN wire[a] ELSE Append(wire[a], e)]
          /\ UNCHANGED <<runAt, heard, rows, chatVars>>
      BY <2>7 DEF Speak, Send
    <3>2. e \in Event(a)
      BY DEF Event
    <3> HIDE DEF e
    <3>3. RunTypes'
      <4>1. Append(said[a], a) \in Seq({a}) /\ Append(said[a], a) \in Seq(Questions)
        BY <2>0, OfItsQuestion DEF RunTypes
      <4>2. \A b \in Questions : said'[b] \in Seq({b})
        BY <2>0, <3>1, <4>1 DEF RunTypes
      <4>5. wire[a] \in Seq(Event(a))
        BY <2>0 DEF RunTypes
      <4>3. Append(wire[a], e) \in Seq(Event(a)) /\ wire[a] \in Seq(Event(a))
        BY <4>5, <3>2
      <4>4. \A b \in Questions : wire'[b] \in Seq(Event(b))
        BY <2>0, <3>1, <4>3 DEF RunTypes
      <4> QED
        BY <2>0, <3>1, <4>1, <4>2, <4>4 DEF RunTypes
    <3>4. ChatTypes' /\ TurnsInv' /\ AskedInv'
      BY <2>0, <3>1 DEF ChatTypes, TurnsInv, AskedInv, chatVars
    <3>5. RowsInv'
      BY <2>0, <2>1, <3>1 DEF RowsInv, RunTypes
    <3>6. ComesInv'
      <4> SUFFICES ASSUME NEW b \in reading, Answered(b)
                   PROVE  AnswerComes(b)'
        BY <3>1 DEF ComesInv, Answered, Kept, chatVars
      <4>1. b \in Questions /\ b # a
        BY <2>0, <2>6, <3>1 DEF ChatTypes, Answered
      <4>2. wire'[b] = wire[b] /\ said'[b] = said[b] /\ answer' = answer
        BY <2>0, <3>1, <4>1 DEF RunTypes, chatVars
      <4> QED
        BY <2>0, <4>2 DEF ComesInv, AnswerComes
    <3>7. DrawnInv'
      BY <2>0, <3>1 DEF DrawnInv, IsDrawn, chatVars
    <3> QED
      BY <3>3, <3>4, <3>5, <3>6, <3>7 DEF AskBoxInv
  \* The last event brings what the run will keep; after an error nothing is kept.
  <2>8. ASSUME NEW a \in Questions, Finish(a)
        PROVE  AskBoxInv'
    <3>1. PICK e \in Event(a), text \in Seq({a}), to \in {"recording", "closed"} :
            /\ runAt[a] = "running" /\ runAt' = [runAt EXCEPT ![a] = to]
            /\ wire' = [wire EXCEPT ![a] = IF a \in broken THEN wire[a] ELSE Append(wire[a], e)]
            /\ said' = [said EXCEPT ![a] = text]
            /\ to = "recording" => e = [type |-> "done", text |-> text]
      <4>1. said[a] \in Seq({a}) /\ said = [said EXCEPT ![a] = said[a]]
        BY <2>0 DEF RunTypes
      <4>2. CASE \E n \in 0..Len(said[a]) :
                   LET text == SubSeq(said[a], n + 1, Len(said[a])) IN
                   /\ RunGoes(a, "running", "recording")
                   /\ Send(a, [type |-> "done", text |-> text]) /\ said' = [said EXCEPT ![a] = text]
        <5>1. PICK n \in 0..Len(said[a]) :
                LET text == SubSeq(said[a], n + 1, Len(said[a])) IN
                /\ RunGoes(a, "running", "recording")
                /\ Send(a, [type |-> "done", text |-> text]) /\ said' = [said EXCEPT ![a] = text]
          BY <4>2
        <5> DEFINE text == SubSeq(said[a], n + 1, Len(said[a]))
        <5>2. text \in Seq({a})
          BY <4>1, OfItsQuestion
        <5>3. /\ RunGoes(a, "running", "recording") /\ Send(a, [type |-> "done", text |-> text])
              /\ said' = [said EXCEPT ![a] = text]
          BY <5>1
        <5> HIDE DEF text
        <5>4. [type |-> "done", text |-> text] \in Event(a)
          BY <5>2 DEF Event
        <5> QED
          BY <5>2, <5>3, <5>4 DEF RunGoes, Send
      <4>3. CASE RunGoes(a, "running", "closed") /\ Send(a, [type |-> "error"]) /\ UNCHANGED said
        <5>1. [type |-> "error"] \in Event(a)
          BY DEF Event
        <5> QED
          BY <4>1, <4>3, <5>1 DEF RunGoes, Send
      <4> QED
        BY <2>8, <4>2, <4>3 DEF Finish
    <3>2. UNCHANGED <<heard, rows, chatVars>>
      BY <2>8 DEF Finish
    <3>3. RunTypes'
      <4>1. \A b \in Questions : said'[b] \in Seq({b})
        BY <2>0, <3>1 DEF RunTypes
      <4>5. wire[a] \in Seq(Event(a))
        BY <2>0 DEF RunTypes
      <4>2. Append(wire[a], e) \in Seq(Event(a)) /\ wire[a] \in Seq(Event(a))
        BY <4>5, <3>1
      <4>3. \A b \in Questions : wire'[b] \in Seq(Event(b))
        BY <2>0, <3>1, <4>2 DEF RunTypes
      <4>4. text \in Seq(Questions)
        BY OfItsQuestion
      <4> QED
        BY <2>0, <3>1, <3>2, <4>1, <4>3, <4>4 DEF RunTypes, RunStates
    <3>4. ChatTypes' /\ TurnsInv'
      BY <2>0, <3>2 DEF ChatTypes, TurnsInv, chatVars
    <3>5. AskedInv'
      BY <2>0, <3>1, <3>2 DEF AskedInv, chatVars, RunTypes
    <3>6. RowsInv'
      BY <2>0, <2>1, <3>1, <3>2 DEF RowsInv, RunTypes
    <3>7. ComesInv'
      <4> SUFFICES ASSUME NEW b \in reading, Answered(b)'
                   PROVE  AnswerComes(b)'
        BY <3>2 DEF ComesInv, chatVars
      <4>1. b \in Questions /\ b \notin broken
        BY <2>0 DEF ChatTypes, AskedInv
      <4>2. CASE b = a
        <5>1. to = "recording"
          BY <2>0, <2>6, <3>1, <3>2, <4>2 DEF Answered, Kept, RunTypes
        <5>2. wire'[a] = Append(wire[a], e) /\ said'[a] = text /\ wire[a] \in Seq(Event(a))
          BY <2>0, <3>1, <4>1, <4>2 DEF RunTypes
        <5>3. wire'[a] # <<>> /\ wire'[a][Len(wire'[a])] = e
          BY <5>2
        <5> QED
          BY <3>1, <4>2, <5>1, <5>2, <5>3 DEF AnswerComes
      <4>3. CASE b # a
        <5>1. Answered(b) /\ wire'[b] = wire[b] /\ said'[b] = said[b]
          BY <2>0, <3>1, <3>2, <4>1, <4>3 DEF Answered, Kept, RunTypes
        <5> QED
          BY <2>0, <3>2, <5>1 DEF ComesInv, AnswerComes, chatVars
      <4> QED
        BY <4>2, <4>3
    <3>8. DrawnInv'
      BY <2>0, <3>2 DEF DrawnInv, IsDrawn, chatVars
    <3> QED
      BY <3>3, <3>4, <3>5, <3>6, <3>7, <3>8 DEF AskBoxInv
  <2>9. ASSUME NEW a \in Questions, Record(a)
        PROVE  AskBoxInv'
    <3>1. /\ runAt[a] = "recording" /\ runAt' = [runAt EXCEPT ![a] = "closed"]
          /\ UNCHANGED <<said, wire, heard, chatVars>>
      BY <2>9 DEF Record, RunGoes
    <3>2. a \in reading \cup broken
      BY <2>0, <3>1 DEF AskedInv
    <3> DEFINE row == [q |-> a, text |-> said[a]]
    <3>3. CASE rows' = rows
      <4>1. ChatTypes' /\ TurnsInv'
        BY <2>0, <3>1 DEF ChatTypes, TurnsInv, chatVars
      <4>2. RunTypes'
        BY <2>0, <3>1, <3>3 DEF RunTypes, RunStates
      <4>3. AskedInv'
        BY <2>0, <3>1, <3>3 DEF AskedInv, chatVars, RunTypes
      <4>4. RowsInv'
        BY <2>0, <2>1, <3>1, <3>3 DEF RowsInv, RunTypes
      <4>5. ComesInv'
        <5> SUFFICES ASSUME NEW b \in reading, Answered(b)'
                     PROVE  AnswerComes(b)
          BY <3>1 DEF ComesInv, AnswerComes, chatVars
        <5>1. b \in Questions
          BY <2>0 DEF ChatTypes
        <5>2. Answered(b)
          BY <2>0, <3>1, <3>3, <5>1 DEF Answered, Kept, RunTypes
        <5> QED
          BY <2>0, <5>2 DEF ComesInv
      <4>6. DrawnInv'
        BY <2>0, <3>1, <3>3 DEF DrawnInv, IsDrawn, chatVars
      <4> QED
        BY <4>1, <4>2, <4>3, <4>4, <4>5, <4>6 DEF AskBoxInv
    <3>4. CASE said[a] # <<>> /\ rows' = Append(rows, row)
      <4>1. ChatTypes' /\ TurnsInv'
        BY <2>0, <3>1 DEF ChatTypes, TurnsInv, chatVars
      <4>2. row \in Turn /\ row.q = a /\ row.text = said[a]
        BY <2>0, <3>4 DEF Turn, RunTypes
      <4> HIDE DEF row
      <4>3. /\ rows' \in Seq(Turn) /\ DOMAIN rows' = DOMAIN rows \cup {Len(rows) + 1}
            /\ rows'[Len(rows) + 1] = row /\ \A i \in DOMAIN rows : rows'[i] = rows[i]
        BY <2>0, <3>4, <4>2 DEF RunTypes
      <4>4. RunTypes'
        BY <2>0, <3>1, <4>3 DEF RunTypes, RunStates
      <4>5. AskedInv'
        BY <2>0, <3>1 DEF AskedInv, chatVars, RunTypes
      <4>6. RowsInv'
        BY <2>0, <2>1, <3>1, <4>2, <4>3 DEF RowsInv, RunTypes
      <4>7. ComesInv'
        <5> SUFFICES ASSUME NEW b \in reading, Answered(b)'
                     PROVE  AnswerComes(b)
          BY <3>1 DEF ComesInv, AnswerComes, chatVars
        <5>1. b \in Questions
          BY <2>0 DEF ChatTypes
        <5>2. Answered(b)
          BY <2>0, <3>1, <4>2, <4>3, <5>1 DEF Answered, Kept, RunTypes
        <5> QED
          BY <2>0, <5>2 DEF ComesInv
      <4>8. DrawnInv'
        BY <2>0, <3>1, <3>2, <4>2, <4>3 DEF DrawnInv, IsDrawn, chatVars
      <4> QED
        BY <4>1, <4>4, <4>5, <4>6, <4>7, <4>8 DEF AskBoxInv
    <3> QED
      BY <2>9, <3>3, <3>4 DEF Record
  <2>10. CASE UNCHANGED askBoxVars
    BY <2>0, <2>10, ZenonT(40)
       DEF AskBoxInv, ChatTypes, RunTypes, AskedInv, TurnsInv, RowsInv, ComesInv, Answered, Kept,
           AnswerComes, DrawnInv, IsDrawn, askBoxVars, chatVars, runVars
  <2> QED
    BY <1>2, <2>2, <2>3, <2>4, <2>5, <2>7, <2>8, <2>9, <2>10 DEF AskBoxNext
<1> QED
  BY <1>1, <1>2, PTL DEF AskBoxSpec

\* Every answer is drawn once, under its own question and in order, and what was
\* kept is drawn as it is kept (AskBox.tsx:11, 28).
THEOREM ThreadIsDrawnOnceHolds == AskBoxSpec => []ThreadIsDrawnOnce
<1>1. ASSUME AskBoxInv
      PROVE  ThreadIsDrawnOnce
  <2>0. /\ ChatTypes /\ RunTypes /\ TurnsInv /\ DrawnInv /\ asked \in Nat /\ Questions \subseteq Nat
        /\ turns \in Seq(Turn) /\ rows \in Seq(Turn)
    <3>1. ChatTypes /\ RunTypes /\ TurnsInv /\ DrawnInv
      BY <1>1 DEF AskBoxInv
    <3>2. asked \in Nat /\ Questions \subseteq Nat
      BY <3>1, AskBoxAssumption DEF ChatTypes, Questions
    <3>3. turns \in Seq(Turn) /\ rows \in Seq(Turn)
      BY <3>1 DEF ChatTypes, RunTypes
    <3> QED
      BY <3>1, <3>2, <3>3
  <2>1. answer # <<>> => Exchange \in Turn /\ Exchange.q = asked /\ Exchange.text = answer
    <3> SUFFICES ASSUME answer # <<>> PROVE Exchange \in Turn /\ Exchange.q = asked /\ Exchange.text = answer
      OBVIOUS
    <3>1. asked \in Questions
      BY <2>0, AskBoxAssumption DEF ChatTypes, Questions
    <3>2. answer \in Seq({asked}) /\ answer \in Seq(Questions)
      BY <2>0, <3>1, OfItsQuestion DEF ChatTypes
    <3> QED
      BY <3>1, <3>2 DEF Exchange, Turn
  <2>2. /\ Drawn \in Seq(Turn) /\ DOMAIN turns \subseteq DOMAIN Drawn
        /\ \A i \in DOMAIN turns : Drawn[i] = turns[i]
        /\ \A i \in DOMAIN Drawn \ DOMAIN turns :
             answer # <<>> /\ Drawn[i] = Exchange /\ i = Len(turns) + 1
        /\ answer # <<>> => \E i \in DOMAIN Drawn : Drawn[i] = Exchange
    <3>1. CASE answer = <<>>
      BY <2>0, <3>1 DEF Drawn
    <3>2. CASE answer # <<>>
      <4>1. Drawn = Append(turns, Exchange) /\ Exchange \in Turn
        BY <2>1, <3>2 DEF Drawn
      <4>2. /\ Drawn \in Seq(Turn) /\ DOMAIN Drawn = DOMAIN turns \cup {Len(turns) + 1}
            /\ Drawn[Len(turns) + 1] = Exchange /\ \A i \in DOMAIN turns : Drawn[i] = turns[i]
        BY <2>0, <4>1
      <4> QED
        BY <3>2, <4>2
    <3> QED
      BY <3>1, <3>2
  <2>3. ASSUME NEW i \in DOMAIN Drawn
        PROVE  ToSet(Drawn[i].text) = {Drawn[i].q}
    <3>1. Drawn[i] \in Turn
      BY <2>2
    <3>2. Drawn[i].text \in Seq({Drawn[i].q}) /\ Drawn[i].text # <<>>
      BY <3>1 DEF Turn
    <3> DEFINE text == Drawn[i].text
    <3>3. 1 \in DOMAIN text /\ \A j \in DOMAIN text : text[j] = Drawn[i].q
      BY <3>2
    <3> QED
      BY <3>3 DEF ToSet
  <2>4. ASSUME NEW i \in DOMAIN Drawn, i > 1
        PROVE  Drawn[i - 1].q < Drawn[i].q
    <3>1. i - 1 \in DOMAIN Drawn /\ i \in Nat /\ i - 1 < i /\ DOMAIN turns = 1..Len(turns) /\ Len(turns) \in Nat
      BY <2>0, <2>2, <2>4
    <3>2. CASE i \in DOMAIN turns
      BY <2>0, <2>2, <2>4, <3>1, <3>2 DEF TurnsInv
    <3>3. CASE i \notin DOMAIN turns
      <4>1. i - 1 \in DOMAIN turns /\ Drawn[i].q = asked
        BY <2>1, <2>2, <2>4, <3>1, <3>3
      <4> QED
        BY <2>0, <2>2, <4>1 DEF TurnsInv
    <3> QED
      BY <3>2, <3>3
  <2>5. ASSUME NEW row \in ToSet(rows), row.q \notin reading \cup broken
        PROVE  row \in ToSet(Drawn)
    <3>1. PICK i \in DOMAIN rows : row = rows[i]
      BY DEF ToSet
    <3>2. row \in Turn /\ IsDrawn(row)
      BY <2>0, <2>5, <3>1 DEF DrawnInv
    <3>3. CASE row.q = asked
      <4>1. answer = row.text /\ answer # <<>>
        BY <3>2, <3>3 DEF IsDrawn, Turn
      <4>2. row = Exchange
        BY <3>2, <3>3, <4>1 DEF Exchange, Turn
      <4> QED
        BY <2>2, <4>1, <4>2 DEF ToSet
    <3>4. CASE row.q # asked
      BY <2>2, <3>2, <3>4 DEF IsDrawn, ToSet
    <3> QED
      BY <3>3, <3>4
  <2> QED
    BY <2>3, <2>4, <2>5 DEF ThreadIsDrawnOnce
<1> QED
  BY <1>1, AskBoxInvHolds, PTL

\* A run is asked inside the rows of every question before it whose connection did
\* not break: the box is free only when the row is written (AskBox.tsx:59,
\* route.ts:34).
THEOREM NextQuestionHearsTheLastHolds == AskBoxSpec => []NextQuestionHearsTheLast
<1>1. AskBoxInit => NextQuestionHearsTheLast
  BY DEF AskBoxInit, NextQuestionHearsTheLast, ToSet
<1>2. ASSUME AskBoxInv, NextQuestionHearsTheLast, [AskBoxNext]_askBoxVars
      PROVE  NextQuestionHearsTheLast'
  <2>0. /\ RunTypes /\ AskedInv /\ asked \in Nat /\ Questions \subseteq Nat /\ rows \in Seq(Turn)
        /\ runAt \in [Questions -> RunStates] /\ DOMAIN heard = Questions
    <3>1. RunTypes /\ AskedInv /\ ChatTypes
      BY <1>2 DEF AskBoxInv
    <3>2. asked \in Nat /\ Questions \subseteq Nat
      BY <3>1, AskBoxAssumption DEF ChatTypes, Questions
    <3>3. rows \in Seq(Turn) /\ runAt \in [Questions -> RunStates] /\ DOMAIN heard = Questions
      BY <3>1 DEF RunTypes
    <3> QED
      BY <3>1, <3>2, <3>3
  <2>1. ASSUME UNCHANGED <<heard, rows>>, broken \subseteq broken',
               \A a \in Questions : runAt'[a] \notin {"none", "refused"} => runAt[a] \notin {"none", "refused"}
        PROVE  NextQuestionHearsTheLast'
    BY <1>2, <2>1 DEF NextQuestionHearsTheLast
  <2>2. CASE Ask \/ (\E a \in Questions : Read(a) \/ Breaks(a) \/ Speak(a)) \/ UNCHANGED askBoxVars
    BY <2>1, <2>2 DEF Ask, Read, Breaks, Speak, askBoxVars, chatVars, runVars
  <2>3. ASSUME NEW a \in Questions, Finish(a) \/ RunDies(a)
        PROVE  NextQuestionHearsTheLast'
    BY <2>0, <2>1, <2>3 DEF Finish, RunDies, RunGoes, chatVars
  \* The thread it is asked inside has every row there is.
  <2>4. ASSUME NEW a \in Questions, Serve(a)
        PROVE  NextQuestionHearsTheLast'
    <3>1. UNCHANGED <<rows, chatVars>>
      BY <2>4 DEF Serve
    <3>2. CASE RunGoes(a, "none", "refused") /\ UNCHANGED heard
      BY <2>0, <2>1, <3>1, <3>2 DEF RunGoes, chatVars
    <3>3. CASE RunGoes(a, "none", "running") /\ heard' = [heard EXCEPT ![a] = rows]
      <4>1. heard'[a] = rows /\ \A b \in Questions : b # a => heard'[b] = heard[b] /\ runAt'[b] = runAt[b]
        BY <2>0, <3>3 DEF RunGoes
      <4> QED
        BY <1>2, <3>1, <4>1 DEF NextQuestionHearsTheLast, chatVars
    <3> QED
      BY <2>4, <3>2, <3>3 DEF Serve
  \* And none of a question before it is written after.
  <2>5. ASSUME NEW a \in Questions, Record(a)
        PROVE  NextQuestionHearsTheLast'
    <3>1. /\ runAt[a] = "recording" /\ runAt' = [runAt EXCEPT ![a] = "closed"]
          /\ UNCHANGED <<heard, chatVars>>
      BY <2>5 DEF Record, RunGoes
    <3>2. a \in broken \/ a = asked
      BY <2>0, <3>1 DEF AskedInv
    <3>3. \A b \in Questions : runAt'[b] \notin {"none", "refused"} =>
            runAt[b] \notin {"none", "refused"} /\ b <= asked
      BY <2>0, <3>1 DEF AskedInv
    <3>4. \A row \in ToSet(rows') : row \in ToSet(rows) \/ row.q = a
      <4>1. CASE rows' = rows
        BY <4>1
      <4>2. ASSUME NEW row, rows' = Append(rows, row), row.q = a
            PROVE  \A r \in ToSet(rows') : r \in ToSet(rows) \/ r.q = a
        <5>1. DOMAIN rows' = DOMAIN rows \cup {Len(rows) + 1} /\ rows'[Len(rows) + 1] = row
                /\ \A i \in DOMAIN rows : rows'[i] = rows[i]
          BY <2>0, <4>2
        <5> QED
          BY <4>2, <5>1 DEF ToSet
      <4> QED
        BY <2>5, <4>1, <4>2 DEF Record
    <3> SUFFICES ASSUME NEW b \in Questions, NEW row \in ToSet(rows'),
                        runAt'[b] \notin {"none", "refused"}, row.q < b, row.q \notin broken
                 PROVE  row \in ToSet(heard[b])
      BY <3>1 DEF NextQuestionHearsTheLast, chatVars
    <3>5. row.q # a
      BY <2>0, <3>2, <3>3
    <3> QED
      BY <1>2, <3>3, <3>4, <3>5 DEF NextQuestionHearsTheLast
  <2> QED
    BY <1>2, <2>2, <2>3, <2>4, <2>5 DEF AskBoxNext
<1> QED
  BY <1>1, <1>2, AskBoxInvHolds, PTL DEF AskBoxSpec

-----------------------------------------------------------------------------
(* ProductForm.                                                            *)

Writers  == Ideas \cup {"seller"}
WholeTexts    == [title : Writers, description : Writers]
FormTexts    == [title : Writers \cup {Nobody}, description : Writers \cup {Nobody}]
FormStatuses == {"no file", "DRAFT", "PENDING_REVIEW"}
FormListing  == [words : Ideas, translations : SUBSET WholeTexts, status : FormStatuses]

FormInv ==
    /\ words \in Ideas \cup {Nobody} /\ other \in FormTexts /\ drafting \in Ideas \cup {Nobody}
    /\ saving \in {"idle", "creating", "uploading", "submitting"}
    /\ data \in [words : Ideas \cup {Nobody}, other : FormTexts]
    /\ saving = "creating" => data.words \in Ideas
    /\ listings \in Seq(FormListing)

\* What the form makes of accepted words is a whole listing, and its translation
\* is just what was in the fields.
LEMMA ListingOfTheForm ==
    ASSUME data \in [words : Ideas, other : FormTexts], Accepted(data.other)
    PROVE  /\ NewListing \in FormListing
           /\ UNION {{t.title, t.description} : t \in NewListing.translations}
                = {data.other.title, data.other.description} \ {Nobody}
<1> DEFINE o == data.other
<1>1. o \in FormTexts /\ data.words \in Ideas /\ Accepted(o) /\ Nobody \notin Writers
  BY ProductFormAssumption DEF Writers
<1>2. NewListing = [words |-> data.words, translations |-> WritableTranslations(o), status |-> "no file"]
  BY DEF NewListing
<1> HIDE DEF o
<1>3. CASE WrittenWhole(o)
  <2>1. WritableTranslations(o) = {o}
    BY <1>3 DEF WritableTranslations
  <2>2. o \in WholeTexts /\ o.title # Nobody /\ o.description # Nobody
    BY <1>1, <1>3 DEF WrittenWhole, FormTexts, WholeTexts
  <2>3. UNION {{t.title, t.description} : t \in {o}} = {o.title, o.description} \ {Nobody}
    BY <2>2
  <2>4. NewListing \in FormListing
    BY <1>1, <1>2, <2>1, <2>2 DEF FormListing, FormStatuses
  <2> QED
    BY <1>2, <2>1, <2>3, <2>4 DEF o
<1>4. CASE ~WrittenWhole(o)
  <2>1. o.title = Nobody /\ o.description = Nobody
    BY <1>1, <1>4 DEF Accepted, Blank
  <2>2. WritableTranslations(o) = {}
    BY <1>4 DEF WritableTranslations
  <2>3. UNION {{t.title, t.description} : t \in {}} = {o.title, o.description} \ {Nobody}
    BY <2>1
  <2>4. NewListing \in FormListing
    BY <1>1, <1>2, <2>2 DEF FormListing, FormStatuses
  <2> QED
    BY <1>2, <2>2, <2>3, <2>4 DEF o
<1> QED
  BY <1>3, <1>4

\* Every step of the form preserves it.
LEMMA FormInvHolds == FormSpec => []FormInv
<1>1. FormInit => FormInv
  <2> SUFFICES ASSUME FormInit PROVE FormInv
    OBVIOUS
  <2>1. Blank \in FormTexts /\ listings \in Seq(FormListing)
    BY DEF Blank, FormTexts, FormInit
  <2> QED
    BY <2>1 DEF FormInit, FormInv
<1>2. FormInv /\ [FormNext]_formVars => FormInv'
  <2> SUFFICES ASSUME FormInv, [FormNext]_formVars PROVE FormInv'
    OBVIOUS
  <2>1. CASE Type
    <3>1. other' \in FormTexts /\ words' \in Ideas \cup {Nobody}
      BY <2>1 DEF Type, FormInv, FormTexts, Writers
    <3> QED
      BY <2>1, <3>1 DEF Type, FormInv
  <2>2. CASE Draft
    BY <2>2 DEF Draft, FormInv
  <2>3. CASE DraftAnswers
    <3>1. other' \in FormTexts
      BY <2>3 DEF DraftAnswers, FormInv, FormTexts, Writers
    <3> QED
      BY <2>3, <3>1 DEF DraftAnswers, FormInv
  <2>4. CASE Create
    <3>1. words \in Ideas
      BY <2>4 DEF Create, FormInv
    <3>2. data' \in [words : Ideas \cup {Nobody}, other : FormTexts] /\ data'.words \in Ideas
      BY <2>4, <3>1 DEF Create, FormInv
    <3> QED
      BY <2>4, <3>2 DEF Create, FormInv
  <2>5. CASE CreateAnswers
    <3>1. listings' \in Seq(FormListing)
      <4>1. CASE UNCHANGED listings
        BY <4>1 DEF FormInv
      <4>2. CASE Accepted(data.other) /\ listings' = Append(listings, NewListing)
        <5>1. data \in [words : Ideas, other : FormTexts]
          BY <2>5 DEF CreateAnswers, FormInv
        <5>2. NewListing \in FormListing
          BY <4>2, <5>1, ListingOfTheForm
        <5> QED
          BY <4>2, <5>2 DEF FormInv
      <4> QED
        BY <2>5, <4>1, <4>2 DEF CreateAnswers
    <3> QED
      BY <2>5, <3>1 DEF CreateAnswers, FormInv
  <2>6. CASE SaveAnswers
    <3>1. listings' \in Seq(FormListing)
      <4>1. ASSUME NEW s \in FormStatuses, StatusBecomes(s)
            PROVE  listings' \in Seq(FormListing)
        <5>1. ASSUME NEW n \in DOMAIN listings
              PROVE  listings'[n] \in FormListing
          <6>1. listings[n] \in FormListing
            BY DEF FormInv
          <6>2. listings'[n] = listings[n] \/ listings'[n] = [listings[n] EXCEPT !.status = s]
            BY <4>1 DEF StatusBecomes
          <6>3. [listings[n] EXCEPT !.status = s] \in FormListing
            BY <6>1 DEF FormListing
          <6> QED
            BY <6>1, <6>2, <6>3
        <5>2. listings \in [1..Len(listings) -> FormListing] /\ Len(listings) \in Nat
          BY DEF FormInv
        <5>3. listings' = [n \in DOMAIN listings |-> listings'[n]]
          BY <4>1 DEF StatusBecomes
        <5>4. listings' \in [1..Len(listings) -> FormListing]
          BY <5>1, <5>2, <5>3
        <5> QED
          BY <5>2, <5>4
      <4> QED
        BY <2>6, <4>1 DEF SaveAnswers, FormInv, FormStatuses
    <3>2. other' \in FormTexts /\ words' \in Ideas \cup {Nobody}
      BY <2>6 DEF SaveAnswers, FormInv, Blank, FormTexts
    <3> QED
      BY <2>6, <3>1, <3>2 DEF SaveAnswers, FormInv
  <2>7. CASE UNCHANGED formVars
    BY <2>7 DEF formVars, FormInv
  <2> QED
    BY <2>1, <2>2, <2>3, <2>4, <2>5, <2>6, <2>7 DEF FormNext
<1> QED
  BY <1>1, <1>2, PTL DEF FormSpec

\* No word a seller wrote of a translation is dropped without their being told
\* (products/route.ts:12).
THEOREM NothingTypedIsDroppedHolds == FormSpec => NothingTypedIsDropped
<1> DEFINE KeptWhole(n) == UNION {{t.title, t.description} : t \in listings'[n].translations}
                        = {data.other.title, data.other.description} \ {Nobody}
<1>1. ASSUME FormInv, [FormNext]_formVars
      PROVE  \A n \in DOMAIN listings' \ DOMAIN listings : KeptWhole(n)
  <2>1. ASSUME DOMAIN listings' = DOMAIN listings
        PROVE  \A n \in DOMAIN listings' \ DOMAIN listings : KeptWhole(n)
    BY <2>1
  <2>2. CASE Type \/ Draft \/ DraftAnswers \/ Create \/ UNCHANGED formVars
    BY <2>1, <2>2 DEF Type, Draft, DraftAnswers, Create, formVars
  <2>3. CASE SaveAnswers
    BY <2>1, <2>3 DEF SaveAnswers, StatusBecomes
  <2>4. CASE CreateAnswers
    <3>1. CASE UNCHANGED listings
      BY <2>1, <3>1
    <3>2. CASE Accepted(data.other) /\ listings' = Append(listings, NewListing)
      <4>1. data \in [words : Ideas, other : FormTexts]
        BY <1>1, <2>4 DEF CreateAnswers, FormInv
      <4>2. UNION {{t.title, t.description} : t \in NewListing.translations}
              = {data.other.title, data.other.description} \ {Nobody}
        BY <3>2, <4>1, ListingOfTheForm
      <4>3. /\ listings \in Seq(FormListing) /\ NewListing \in FormListing
        BY <1>1, <3>2, <4>1, ListingOfTheForm DEF FormInv
      <4>4. /\ DOMAIN listings' \ DOMAIN listings = {Len(listings) + 1}
            /\ listings'[Len(listings) + 1] = NewListing
        BY <3>2, <4>3
      <4> QED
        BY <4>2, <4>4
    <3> QED
      BY <2>4, <3>1, <3>2 DEF CreateAnswers
  <2> QED
    BY <1>1, <2>2, <2>3, <2>4 DEF FormNext
<1> QED
  BY <1>1, FormInvHolds, PTL DEF FormSpec, NothingTypedIsDropped

-----------------------------------------------------------------------------
(* The parts together.                                                     *)

\* Each part of the storefront behaves as it does alone, whichever of them moves:
\* what is proved of a part holds of a browser that has them all.
THEOREM StorefrontIsItsParts ==
    StorefrontSpec => SearchSpec /\ RatingsSpec /\ AskBoxSpec /\ FormSpec
<1>1. StorefrontInit => SearchInit /\ RatingsInit /\ AskBoxInit /\ FormInit
  BY DEF StorefrontInit
<1>2. ASSUME [StorefrontNext]_<<searchVars, ratingsVars, askBoxVars, formVars>>
      PROVE  /\ [SearchNext]_searchVars /\ [RatingsNext]_ratingsVars
             /\ [AskBoxNext]_askBoxVars /\ [FormNext]_formVars
  BY <1>2, Zenon DEF StorefrontNext
<1> QED
  BY <1>1, <1>2, PTL DEF StorefrontSpec, SearchSpec, RatingsSpec, AskBoxSpec, FormSpec
===============================================================================
