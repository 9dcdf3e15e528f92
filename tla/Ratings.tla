-------------------------------- MODULE Ratings --------------------------------
(***************************************************************************)
(* What a product page says of a listing, and who writes it: buyers who    *)
(* rate a purchase, moderators who publish or reject the rating, and the   *)
(* count of views the seller's report adds up.  Requests interleave at     *)
(* their reads and writes, and a process serving one may die in it, before *)
(* its write or between its write and its answer.                          *)
(***************************************************************************)
EXTENDS Integers, FiniteSets, FiniteSetsExt

CONSTANTS
    Orders,      \* orders of one listing
    Submits,     \* requests to rate one
    Moderations, \* requests to decide a rating
    Views,       \* requests for the page
    Scale,       \* RATING_MIN..RATING_MAX
    Take,        \* how many reviews a page lists
    Instants,    \* what the clocks say when a review is made
    NoRating

ASSUME RatingsAssumption ==
    /\ IsFiniteSet(Orders) /\ IsFiniteSet(Submits)
    /\ IsFiniteSet(Moderations) /\ IsFiniteSet(Views)
    /\ Scale \subseteq Nat \ {0} /\ IsFiniteSet(Scale) /\ NoRating \notin Scale
    /\ Take \in Nat \ {0} /\ Instants \subseteq Nat

VARIABLES
    licensed, \* whether the admin area may be used
    order,    \* Order.status
    stars,    \* Review.rating by the order it is keyed by, or NoRating
    review,   \* its status
    created,  \* and its createdAt, which ties and need not follow the inserts
    submitAt, \* where each submission is
    submitOf, \* its order
    modAt,    \* what each moderation was told
    modOf,    \* its order's review, and its decision
    viewAt,   \* where each page view is
    page,     \* the average it shows: the sum and the count it is of
    listed,   \* the reviews it lists
    views     \* ProductView.count

reviewVars  == <<stars, review, created>>
submitVars  == <<submitAt, submitOf>>
modVars     == <<modAt, modOf>>
viewVars    == <<viewAt, page, listed, views>>
ratingsVars == <<licensed, order, reviewVars, submitVars, modVars, viewVars>>

Statuses == {"PENDING", "PUBLISHED", "REJECTED"}

TypeOKReviews ==
    /\ licensed \in BOOLEAN
    /\ order    \in [Orders -> {"PENDING", "PAID", "REFUNDED"}]
    /\ stars    \in [Orders -> Scale \cup {NoRating}]
    /\ review   \in [Orders -> Statuses]
    /\ created  \in [Orders -> Nat]
    /\ submitAt \in [Submits -> {"none", "eligible", "not_purchased", "already_reviewed",
                                 "submitted", "unheard", "dead"}]
    /\ submitOf \in [Submits -> Orders \cup {NoRating}]
    /\ modAt    \in [Moderations -> {"none", "updating", "decided", "unheard", "too late",
                                     "forbidden", "dead"}]
    /\ modOf    \in [Moderations -> Orders \X {"PUBLISHED", "REJECTED"} \cup {NoRating}]

TypeOKPages ==
    /\ viewAt \in [Views -> {"none", "counted", "averaged", "listed", "shown"}]
    /\ page   \in [Views -> [sum : Nat, count : Nat]]
    /\ listed \in [Views -> SUBSET Orders]
    /\ views  \in 0..Cardinality(Views)

RatingsInit ==
    /\ licensed \in BOOLEAN
    /\ order = [o \in Orders |-> "PENDING"]
    /\ stars = [o \in Orders |-> NoRating]
    /\ review = [o \in Orders |-> "PENDING"]
    /\ created = [o \in Orders |-> 0]
    /\ submitAt = [s \in Submits |-> "none"]
    /\ submitOf = [s \in Submits |-> NoRating]
    /\ modAt = [m \in Moderations |-> "none"]
    /\ modOf = [m \in Moderations |-> NoRating]
    /\ viewAt = [v \in Views |-> "none"]
    /\ page = [v \in Views |-> [sum |-> 0, count |-> 0]]
    /\ listed = [v \in Views |-> {}]
    /\ views = 0

\* PENDING to PAID to REFUNDED, by the webhook (see Billing).
OrderMoves(o) ==
    /\ order[o] # "REFUNDED"
    /\ order' = [order EXCEPT ![o] = IF @ = "PENDING" THEN "PAID" ELSE "REFUNDED"]
    /\ UNCHANGED <<licensed, reviewVars, submitVars, modVars, viewVars>>

-----------------------------------------------------------------------------
(* Buyers.                                                                 *)

Reviewed(o) == stars[o] # NoRating

ReviewEligibility(o) ==
    IF order[o] # "PAID" THEN "not_purchased"
    ELSE IF Reviewed(o) THEN "already_reviewed" ELSE "eligible"

CheckEligibility(s, o) ==
    /\ submitAt[s] = "none"
    /\ submitAt' = [submitAt EXCEPT ![s] = ReviewEligibility(o)]
    /\ submitOf' = [submitOf EXCEPT ![s] = o]
    /\ UNCHANGED <<licensed, order, reviewVars, modVars, viewVars>>

\* Slip: the row of an order is written over.
SubmitReviewUpserts(s) ==
    LET o == submitOf[s] IN
    /\ submitAt[s] = "eligible"
    /\ \E r \in Scale : stars' = [stars EXCEPT ![o] = r]
    /\ review' = [review EXCEPT ![o] = "PENDING"]
    /\ \E now \in Instants : created' = [created EXCEPT ![o] = now]
    /\ \E told \in {"submitted", "unheard"} : submitAt' = [submitAt EXCEPT ![s] = told]
    /\ UNCHANGED <<licensed, order, submitOf, modVars, viewVars>>

\* The unique orderId catches the double submit that the check cannot.  Who got
\* the row is told so, unless the process dies on the way back.
SubmitReview(s) ==
    LET o == submitOf[s] IN
    /\ submitAt[s] = "eligible"
    /\ IF Reviewed(o)
       THEN /\ submitAt' = [submitAt EXCEPT ![s] = "already_reviewed"]
            /\ UNCHANGED reviewVars
       ELSE /\ \E r \in Scale : stars' = [stars EXCEPT ![o] = r]
            /\ review' = [review EXCEPT ![o] = "PENDING"]
            /\ \E now \in Instants : created' = [created EXCEPT ![o] = now]
            /\ \E told \in {"submitted", "unheard"} : submitAt' = [submitAt EXCEPT ![s] = told]
    /\ UNCHANGED <<licensed, order, submitOf, modVars, viewVars>>

-----------------------------------------------------------------------------
(* Moderators.                                                             *)

\* Forward only: a decision is the end of it.
CanTransitionReview(from, to) == from = "PENDING" /\ to \in {"PUBLISHED", "REJECTED"}
ReviewPredecessorsOf(to) == {from \in Statuses : CanTransitionReview(from, to)}

\* Hosted by us, or by a customer whose license has the feature.
AdminAllowed == licensed

\* The queue an admin decides from.
PendingReviews == {o \in Orders : Reviewed(o) /\ review[o] = "PENDING"}

ModeratorAsks(m, o, to) ==
    /\ modAt[m] = "none" /\ o \in PendingReviews
    /\ modAt' = [modAt EXCEPT ![m] = IF AdminAllowed THEN "updating" ELSE "forbidden"]
    /\ modOf' = [modOf EXCEPT ![m] = <<o, to>>]
    /\ UNCHANGED <<licensed, order, reviewVars, submitVars, viewVars>>

\* Slip: what the moderator read is not looked at again.
TransitionUnconditional(m) ==
    LET o == modOf[m][1] IN
    /\ modAt[m] = "updating"
    /\ review' = [review EXCEPT ![o] = modOf[m][2]]
    /\ \E told \in {"decided", "unheard"} : modAt' = [modAt EXCEPT ![m] = told]
    /\ UNCHANGED <<licensed, order, stars, created, submitVars, modOf, viewVars>>

\* The conditional update is the lock; none updated is a decision too late.
Transition(m) ==
    LET o == modOf[m][1]
        to == modOf[m][2]
    IN
    /\ modAt[m] = "updating"
    /\ IF review[o] \in ReviewPredecessorsOf(to)
       THEN /\ review' = [review EXCEPT ![o] = to]
            /\ \E told \in {"decided", "unheard"} : modAt' = [modAt EXCEPT ![m] = told]
       ELSE UNCHANGED review /\ modAt' = [modAt EXCEPT ![m] = "too late"]
    /\ UNCHANGED <<licensed, order, stars, created, submitVars, modOf, viewVars>>

-----------------------------------------------------------------------------
(* The product page.                                                       *)

CountsAsView(viewer) == viewer # "seller"

\* One increment in the database; one that fails takes no page down.
RecordProductView(v) ==
    /\ viewAt[v] = "none"
    /\ \E viewer \in {"seller", "buyer", "anonymous"}, fails \in BOOLEAN :
         views' = IF CountsAsView(viewer) /\ ~fails THEN views + 1 ELSE views
    /\ viewAt' = [viewAt EXCEPT ![v] = "counted"]
    /\ UNCHANGED <<licensed, order, reviewVars, submitVars, modVars, page, listed>>

\* What a human let through.
PublishedReviews == {o \in Orders : Reviewed(o) /\ review[o] = "PUBLISHED"}

\* Slip: the count is of every row.
RatingSummaryOfAll ==
    [sum |-> MapThenSumSet(LAMBDA o : stars[o], PublishedReviews),
     count |-> Cardinality({o \in Orders : Reviewed(o)})]

RatingSummary ==
    [sum |-> MapThenSumSet(LAMBDA o : stars[o], PublishedReviews),
     count |-> Cardinality(PublishedReviews)]

\* The page asks for both at once: either may see a decision the other missed.
ProductRating(v) ==
    /\ viewAt[v] \in {"counted", "listed"}
    /\ page' = [page EXCEPT ![v] = RatingSummary]
    /\ viewAt' = [viewAt EXCEPT ![v] = IF @ = "listed" THEN "shown" ELSE "averaged"]
    /\ UNCHANGED <<licensed, order, reviewVars, submitVars, modVars, listed, views>>

\* The newest of some reviews; of those made at one instant, any.
Newest(all) ==
    {l \in SUBSET all :
        /\ Cardinality(l) <= Take /\ (l = all \/ Cardinality(l) = Take)
        /\ \A o \in l, p \in all \ l : created[p] <= created[o]}

ListReviews(v) ==
    /\ viewAt[v] \in {"counted", "averaged"}
    /\ \E l \in Newest(PublishedReviews) : listed' = [listed EXCEPT ![v] = l]
    /\ viewAt' = [viewAt EXCEPT ![v] = IF @ = "averaged" THEN "shown" ELSE "listed"]
    /\ UNCHANGED <<licensed, order, reviewVars, submitVars, modVars, page, views>>

Dies ==
    /\ \/ \E s \in Submits : submitAt[s] = "eligible" /\ submitAt' = [submitAt EXCEPT ![s] = "dead"]
                             /\ UNCHANGED modAt
       \/ \E m \in Moderations : modAt[m] = "updating" /\ modAt' = [modAt EXCEPT ![m] = "dead"]
                                 /\ UNCHANGED submitAt
    /\ UNCHANGED <<licensed, order, reviewVars, submitOf, modOf, viewVars>>

RatingsNext ==
    \/ \E o \in Orders : OrderMoves(o)
    \/ \E s \in Submits, o \in Orders : CheckEligibility(s, o)
    \/ \E s \in Submits : SubmitReview(s)
    \/ \E m \in Moderations, o \in Orders, to \in {"PUBLISHED", "REJECTED"} : ModeratorAsks(m, o, to)
    \/ \E m \in Moderations : Transition(m)
    \/ \E v \in Views : RecordProductView(v) \/ ProductRating(v) \/ ListReviews(v)
    \/ Dies

RatingsSpec == RatingsInit /\ [][RatingsNext]_ratingsVars

-----------------------------------------------------------------------------
Submitted(o) == {s \in Submits : submitAt[s] \in {"submitted", "unheard"} /\ submitOf[s] = o}
Deciders(o)  == {m \in Moderations : modAt[m] \in {"decided", "unheard"} /\ modOf[m][1] = o}

\* A rating is one buyer's one submission for one purchase: of requests at once,
\* one is taken, told so or not heard of again, and the others are told that
\* theirs is not (reviews.ts:38).
OneRatingPerPurchase ==
    \A o \in Orders :
        /\ Cardinality(Submitted(o)) = (IF Reviewed(o) THEN 1 ELSE 0)
        /\ Reviewed(o) => order[o] # "PENDING"

\* A rating is decided exactly when one moderator's decision was, and is what that
\* one decided, however many decide at once or die in it (reviews.ts:3).
DecidedOnce ==
    \A o \in Orders :
        /\ review[o] = "PENDING" <=> Deciders(o) = {}
        /\ Cardinality(Deciders(o)) <= 1
        /\ \A m \in Deciders(o) : licensed /\ Reviewed(o) /\ modOf[m][2] = review[o]

\* A page lists the newest of all that was published at one time and shows the
\* average of all that was published at another, so that one holds the other: no
\* rating that waits or was rejected is in either (domain/review.ts:69).
AverageIsOfThePublished ==
    \A v \in Views :
        viewAt[v] = "shown" =>
            \E of \in SUBSET PublishedReviews, all \in SUBSET PublishedReviews :
                /\ of \subseteq all \/ all \subseteq of
                /\ listed[v] \in Newest(all)
                /\ page[v] = [sum |-> MapThenSumSet(LAMBDA o : stars[o], of), count |-> Cardinality(of)]
=============================================================================
