------------------------------ MODULE Billing ------------------------------
(***************************************************************************)
(* One-time purchases: the checkout that opens an order and a session at   *)
(* the provider, the provider's sessions, charges and refunds, and the     *)
(* webhook handler that is the only place an order's status changes, at    *)
(* the granularity of its awaits: claim the event id, find the order,      *)
(* update it on condition, start the run the change calls for.             *)
(*                                                                         *)
(* The provider delivers an event any number of times, in any order, and   *)
(* may send two events for one fact; a delivery whose event id is claimed  *)
(* already answers "duplicate" and changes nothing.                        *)
(***************************************************************************)
EXTENDS Sales

CONSTANTS
    Purchasable,      \* orders of a published product with a price
    Copies,           \* bound: events the provider sends for one fact
    DashboardRefunds  \* whether a charge may be refunded outside the app

ASSUME BillingAssumption ==
    /\ Purchasable \subseteq Orders
    /\ Copies \in Nat \ {0}
    /\ DashboardRefunds \in BOOLEAN

VARIABLES
    buyAt,        \* where the startOrderCheckout call of the order is
    order,        \* Order row: "absent" or its status
    checkoutRef,  \* whether the row knows the session
    providerRef,  \* whether the row knows the charge
    session,      \* provider: the checkout session of the order
    refunded,     \* provider: whether the charge was given back
    billAt,       \* where the handler of each event is
    billOutcome   \* what applyEvent answered: an ApplyOutcome, or "none"

saleVars    == <<buyAt, order, checkoutRef, providerRef>>
chargeVars  == <<session, refunded>>
billVars    == <<saleVars, chargeVars, billAt, billOutcome>>
billingVars == <<billVars, crashes>>

BuyLocations == {"none", "session", "save", "returned", "dead"}
Sessions == {"none", "open", "processing", "paid", "async_paid", "async_failed", "expired"}
BillLocations == {"none", "lookup", "update", "start", "done", "dead"}
Outcomes == {"none", "ignored", "not_found", "no_transition", "transitioned"}

EventKinds == {"completed", "async_succeeded", "expired", "refunded"}

\* An event is about one order's session or charge; the triple is its id.
BillEvents == Orders \X EventKinds \X (1..Copies)
EventOrder(e) == e[1]
Kind(e) == e[2]

TypeOKBilling ==
    /\ buyAt       \in [Orders -> BuyLocations]
    /\ order       \in [Orders -> {"absent"} \cup OrderStatuses]
    /\ checkoutRef \in [Orders -> BOOLEAN]
    /\ providerRef \in [Orders -> BOOLEAN]
    /\ session     \in [Orders -> Sessions]
    /\ refunded    \in [Orders -> BOOLEAN]
    /\ billAt      \in [BillEvents -> BillLocations]
    /\ billOutcome \in [BillEvents -> Outcomes]
    /\ crashes     \in 0..MaxCrashes

BillingInit ==
    /\ buyAt       = [o \in Orders |-> "none"]
    /\ order       = [o \in Orders |-> "absent"]
    /\ checkoutRef = [o \in Orders |-> FALSE]
    /\ providerRef = [o \in Orders |-> FALSE]
    /\ session     = [o \in Orders |-> "none"]
    /\ refunded    = [o \in Orders |-> FALSE]
    /\ billAt      = [e \in BillEvents |-> "none"]
    /\ billOutcome = [e \in BillEvents |-> "none"]
    /\ crashes     = 0

-----------------------------------------------------------------------------
(* The checkout.                                                           *)

\* A published product with a price: the order is persisted PENDING.
StartOrderCheckout(o) ==
    /\ buyAt[o] = "none"
    /\ o \in Purchasable
    /\ order' = [order EXCEPT ![o] = "PENDING"]
    /\ buyAt' = [buyAt EXCEPT ![o] = "session"]
    /\ UNCHANGED <<checkoutRef, providerRef, chargeVars, billAt, billOutcome, crashes>>

CreateSession(o) ==
    /\ buyAt[o] = "session"
    /\ session' = [session EXCEPT ![o] = "open"]
    /\ buyAt' = [buyAt EXCEPT ![o] = "save"]
    /\ UNCHANGED <<order, checkoutRef, providerRef, refunded, billAt, billOutcome, crashes>>

\* Slip: the buyer is sent to the session before the row knows it.
SaveCheckoutRefLater(o) ==
    /\ \/ buyAt[o] = "save" /\ buyAt' = [buyAt EXCEPT ![o] = "returned"]
                            /\ UNCHANGED checkoutRef
       \/ buyAt[o] = "returned" /\ checkoutRef' = [checkoutRef EXCEPT ![o] = TRUE]
                                /\ UNCHANGED buyAt
    /\ UNCHANGED <<order, providerRef, chargeVars, billAt, billOutcome, crashes>>

\* Only now does the call return, and the buyer get the session's url.
SaveCheckoutRef(o) ==
    /\ buyAt[o] = "save"
    /\ checkoutRef' = [checkoutRef EXCEPT ![o] = TRUE]
    /\ buyAt' = [buyAt EXCEPT ![o] = "returned"]
    /\ UNCHANGED <<order, providerRef, chargeVars, billAt, billOutcome, crashes>>

\* The provider refuses the session, and the call throws.
CheckoutRefused(o) ==
    /\ buyAt[o] = "session"
    /\ buyAt' = [buyAt EXCEPT ![o] = "dead"]
    /\ UNCHANGED <<order, checkoutRef, providerRef, chargeVars, billAt, billOutcome, crashes>>

CheckoutCrash(o) ==
    /\ HookMayCrash
    /\ AProcessDies
    /\ buyAt[o] \in {"session", "save"}
    /\ buyAt' = [buyAt EXCEPT ![o] = "dead"]
    /\ UNCHANGED <<order, checkoutRef, providerRef, chargeVars, billAt, billOutcome>>

-----------------------------------------------------------------------------
(* The provider.                                                           *)

Charged(o) == session[o] \in {"paid", "async_paid"}

\* What may happen to a session: the buyer pays or starts an asynchronous
\* payment, which succeeds or fails later; an open one may expire.
SessionMoves ==
    [open       |-> {"paid", "processing", "expired"},
     processing |-> {"async_paid", "async_failed"}]

SessionMovesTo(o, to) ==
    /\ session[o] \in DOMAIN SessionMoves
    /\ to \in SessionMoves[session[o]]
    /\ to \in {"paid", "processing"} => buyAt[o] = "returned"
    /\ session' = [session EXCEPT ![o] = to]
    /\ UNCHANGED <<saleVars, refunded, billAt, billOutcome, crashes>>

\* The charge is given back: the app asks for it only of a PAID order whose
\* charge it knows; the dashboard asks whenever it likes.
ChargeRefunded(o) ==
    /\ Charged(o)
    /\ ~refunded[o]
    /\ DashboardRefunds \/ (order[o] = "PAID" /\ providerRef[o])
    /\ refunded' = [refunded EXCEPT ![o] = TRUE]
    /\ UNCHANGED <<saleVars, session, billAt, billOutcome, crashes>>

\* Whether what the event reports has happened.
Happened(e) ==
    LET o == EventOrder(e)
    IN  \/ Kind(e) = "completed" /\ session[o] \in {"processing", "paid", "async_paid", "async_failed"}
        \/ Kind(e) = "async_succeeded" /\ session[o] = "async_paid"
        \/ Kind(e) = "expired" /\ session[o] = "expired"
        \/ Kind(e) = "refunded" /\ refunded[o]

-----------------------------------------------------------------------------
(* The webhook handler.                                                    *)

\* Slip: a completed session counts as a paid one.
NormalizeCompletedAsPaid(e) ==
    IF      Kind(e) \in {"completed", "async_succeeded"} THEN "order_paid"
    ELSE IF Kind(e) = "expired" THEN "order_expired"
    ELSE "order_refunded"

\* Slip: the session's asynchronous payment is not an event we know.
NormalizeKnowsNoAsync(e) ==
    IF Kind(e) = "completed"
      THEN IF session[EventOrder(e)] = "paid" THEN "order_paid" ELSE "unknown"
    ELSE IF Kind(e) = "async_succeeded" THEN "unknown"
    ELSE IF Kind(e) = "expired" THEN "order_expired"
    ELSE "order_refunded"

\* The payload is the session as it was when the event was made: a session
\* that completed unpaid says so even after its payment succeeded.
Normalize(e) ==
    IF Kind(e) = "completed"
      THEN IF session[EventOrder(e)] = "paid" THEN "order_paid" ELSE "unknown"
    ELSE IF Kind(e) = "async_succeeded" THEN "order_paid"
    ELSE IF Kind(e) = "expired" THEN "order_expired"
    ELSE "order_refunded"

CarriesCheckoutRef(e) == Kind(e) # "refunded"
CarriesProviderRef(e) == Kind(e) # "expired"

\* Slip: events are looked up by the session alone.
FindsOrderByCheckout(e) == CarriesCheckoutRef(e) /\ checkoutRef[EventOrder(e)]

\* The row whose charge or session the event names.
FindsOrder(e) ==
    \/ CarriesProviderRef(e) /\ providerRef[EventOrder(e)]
    \/ CarriesCheckoutRef(e) /\ checkoutRef[EventOrder(e)]

ClaimEvent(e) ==
    /\ billAt[e] = "none"
    /\ Happened(e)
    /\ billAt' = [billAt EXCEPT ![e] = "lookup"]
    /\ UNCHANGED <<saleVars, chargeVars, billOutcome, crashes>>

Answer(e, outcome) ==
    /\ billAt' = [billAt EXCEPT ![e] = "done"]
    /\ billOutcome' = [billOutcome EXCEPT ![e] = outcome]

LookupOrder(e) ==
    /\ billAt[e] = "lookup"
    /\ IF OrderStatusForEvent(Normalize(e)) = "none" THEN Answer(e, "ignored")
       ELSE IF FindsOrder(e) THEN /\ billAt' = [billAt EXCEPT ![e] = "update"]
                                  /\ UNCHANGED billOutcome
       ELSE Answer(e, "not_found")
    /\ UNCHANGED <<saleVars, chargeVars, crashes>>

\* Slip: whether the order may move is not asked again by the UPDATE.
UpdateOrderAnyway(e) ==
    LET o == EventOrder(e)
        target == OrderStatusForEvent(Normalize(e))
    IN  /\ billAt[e] = "update"
        /\ order' = [order EXCEPT ![o] = target]
        /\ providerRef' = [providerRef EXCEPT ![o] = @ \/ CarriesProviderRef(e)]
        /\ billOutcome' = [billOutcome EXCEPT ![e] = "transitioned"]
        /\ billAt' = [billAt EXCEPT ![e] = IF target = "EXPIRED" THEN "done" ELSE "start"]
        /\ UNCHANGED <<buyAt, checkoutRef, chargeVars, crashes>>

\* UPDATE ... WHERE id = o AND status IN (predecessors): the status and the
\* charge's reference in one statement, and one winner.
UpdateOrder(e) ==
    LET o == EventOrder(e)
        target == OrderStatusForEvent(Normalize(e))
    IN  /\ billAt[e] = "update"
        /\ IF order[o] \in OrderPredecessorsOf(target)
             THEN /\ order' = [order EXCEPT ![o] = target]
                  /\ providerRef' = [providerRef EXCEPT ![o] = @ \/ CarriesProviderRef(e)]
                  /\ billOutcome' = [billOutcome EXCEPT ![e] = "transitioned"]
                  /\ billAt' = [billAt EXCEPT ![e] = IF target = "EXPIRED" THEN "done" ELSE "start"]
             ELSE Answer(e, "no_transition") /\ UNCHANGED <<order, providerRef>>
        /\ UNCHANGED <<buyAt, checkoutRef, chargeVars, crashes>>

\* startSellerPayout after PAID, startPayoutReversal after REFUNDED.
StartRun(e) ==
    /\ billAt[e] = "start"
    /\ billAt' = [billAt EXCEPT ![e] = "done"]
    /\ UNCHANGED <<saleVars, chargeVars, billOutcome, crashes>>

\* The process dies with the id claimed: every redelivery is a duplicate.
BillCrash(e) ==
    /\ HookMayCrash
    /\ AProcessDies
    /\ billAt[e] \in {"lookup", "update", "start"}
    /\ billAt' = [billAt EXCEPT ![e] = "dead"]
    /\ UNCHANGED <<saleVars, chargeVars, billOutcome>>

-----------------------------------------------------------------------------
CheckoutStep(o) ==
    \/ StartOrderCheckout(o) \/ CreateSession(o) \/ SaveCheckoutRef(o)
    \/ CheckoutRefused(o) \/ CheckoutCrash(o)

BuyerStep(o) == \E to \in Sessions : SessionMovesTo(o, to)

\* What changes in a delivery before it starts a run.
HandleEvent(e) == ClaimEvent(e) \/ LookupOrder(e) \/ UpdateOrder(e)

\* Everything in Next that concerns this component alone.
BillingStep ==
    \/ \E o \in Orders : CheckoutStep(o) \/ BuyerStep(o)
    \/ \E e \in BillEvents : HandleEvent(e) \/ BillCrash(e)

\* A process that serves neither a checkout nor a billing event dies.
OtherProcessDies == AProcessDies /\ UNCHANGED billVars

BillingNext ==
    \/ BillingStep
    \/ \E o \in Orders : ChargeRefunded(o)
    \/ \E e \in BillEvents : StartRun(e)
    \/ OtherProcessDies

BillingSpec == BillingInit /\ [][BillingNext]_billingVars

-----------------------------------------------------------------------------
(* Properties.                                                             *)

Target(e) == OrderStatusForEvent(Normalize(e))

\* Racing deliveries of one fact, under one event id or two, produce one
\* winner: at most one of them changes the order, so at most one starts a run.
OneWinner ==
    \A e, f \in BillEvents :
        /\ EventOrder(e) = EventOrder(f)
        /\ billOutcome[e] = "transitioned" /\ billOutcome[f] = "transitioned"
        /\ Target(e) = Target(f)
        => e = f

\* An order's status is never ahead of the provider: PAID was charged,
\* REFUNDED was charged and given back, EXPIRED never was nor will be charged.
OrderMatchesProvider ==
    \A o \in Orders :
        /\ order[o] \in {"PAID", "REFUNDED"} => Charged(o)
        /\ order[o] = "REFUNDED" => refunded[o]
        /\ order[o] = "EXPIRED" => session[o] = "expired"

\* No event about money is answered not_found: a buyer can only pay for an
\* order whose row knows the session, and the app only refunds a charge the
\* row knows.  (An expired session may be unknown: its checkout died.)
MoneyEventsFindTheirOrder ==
    \A e \in BillEvents : billOutcome[e] = "not_found" => Kind(e) = "expired"

\* An order's status only moves along the machine, in whatever order and
\* however often the events arrive.
OrderForwardOnly ==
    [][\A o \in Orders :
         \/ order'[o] = order[o]
         \/ order[o] = "absent" /\ order'[o] = "PENDING"
         \/ CanTransitionOrder(order[o], order'[o])]_order

\* No charge.refunded of the order has looked for its row yet.
RefundUnheard(o) ==
    \A e \in BillEvents :
        EventOrder(e) = o /\ Kind(e) = "refunded" => billAt[e] \in {"none", "lookup"}

\* The order's status changes when charge.refunded arrives, the same way every
\* other status change does: money given back, from the dashboard too, reaches an
\* order that knows its charge by the time the event looks for it.
RefundIsRecorded ==
    \A o \in Orders :
        refunded[o] /\ providerRef[o] /\ RefundUnheard(o) ~> order[o] = "REFUNDED"
=============================================================================
