---------------------------- MODULE BillingProofs ----------------------------
(***************************************************************************)
(* Theorems about Billing, for every set of orders, every number of copies *)
(* of an event and every number of crashes.  One inductive invariant       *)
(* carries them: SaleInv ties an order's row to its checkout and to the    *)
(* provider's session; EventInv ties an event's handler to the fact the    *)
(* event reports and, once it has won, to the order it changed.            *)
(***************************************************************************)
EXTENDS Billing, TLAPS

\* The row knows the session before the buyer can pay it, and it knows the
\* charge once it has been marked PAID.
RefInv(o) ==
    /\ buyAt[o] = "none" => order[o] = "absent"
    /\ buyAt[o] \in {"none", "session"} => session[o] = "none"
    /\ buyAt[o] = "returned" => checkoutRef[o]
    /\ session[o] \in {"processing", "paid", "async_paid", "async_failed"} => checkoutRef[o]
    /\ order[o] \in {"PAID", "REFUNDED"} => providerRef[o]

\* The row is never ahead of the provider.
StatusInv(o) ==
    /\ refunded[o] => Charged(o)
    /\ order[o] \in {"PAID", "REFUNDED"} => Charged(o)
    /\ order[o] = "REFUNDED" => refunded[o]
    /\ order[o] = "EXPIRED" => session[o] = "expired"
    /\ refunded[o] => DashboardRefunds \/ providerRef[o]

SaleInv == \A o \in Orders : RefInv(o) /\ StatusInv(o)

\* A claimed event's fact has happened and stays so; an event that changed
\* the order left it where its target is, or beyond.
EventInv(e) ==
    /\ billAt[e] # "none" => Happened(e)
    /\ billAt[e] \in {"none", "lookup", "update"} => billOutcome[e] = "none"
    /\ billAt[e] = "update" => Target(e) # "none"
    /\ billAt[e] = "start" => billOutcome[e] = "transitioned" /\ Target(e) # "EXPIRED"
    /\ billOutcome[e] = "not_found" => DashboardRefunds \/ Kind(e) = "expired"
    /\ billOutcome[e] = "transitioned" =>
         \/ Target(e) = "PAID" /\ order[EventOrder(e)] \in {"PAID", "REFUNDED"}
         \/ Target(e) = "REFUNDED" /\ order[EventOrder(e)] = "REFUNDED"
         \/ Target(e) = "EXPIRED" /\ order[EventOrder(e)] = "EXPIRED"

BillInv == TypeOKBilling /\ SaleInv /\ \A e \in BillEvents : EventInv(e)

-----------------------------------------------------------------------------
LEMMA EventsAreAboutOrders ==
  \A e \in BillEvents : EventOrder(e) \in Orders /\ Kind(e) \in EventKinds
  BY DEF BillEvents, EventOrder, Kind

\* The statuses an update may replace, spelled out.
LEMMA Predecessors ==
  /\ OrderPredecessorsOf("PAID") = {"PENDING"}
  /\ OrderPredecessorsOf("EXPIRED") = {"PENDING"}
  /\ OrderPredecessorsOf("REFUNDED") = {"PAID"}
  BY DEF OrderPredecessorsOf, CanTransitionOrder, OrderStatuses

\* The status an event asks for is one of three, or none at all.
LEMMA TargetIsAStatus ==
  \A e : Target(e) \in {"none", "PAID", "EXPIRED", "REFUNDED"}
  BY DEF Target, OrderStatusForEvent

LEMMA BillInvInit == BillingInit => BillInv
  BY CrashAssumption, EventsAreAboutOrders
  DEF BillingInit, BillInv, TypeOKBilling, SaleInv, RefInv, StatusInv, EventInv, Charged,
      BuyLocations, Sessions, BillLocations, Outcomes, OrderStatuses, BillEvents

-----------------------------------------------------------------------------
LEMMA BillTypeStep == BillInv /\ [BillingNext]_billingVars => TypeOKBilling'
  <1> SUFFICES ASSUME BillInv, [BillingNext]_billingVars PROVE TypeOKBilling'
    OBVIOUS
  <1> USE CrashAssumption, EventsAreAboutOrders
      DEF BillInv, TypeOKBilling, saleVars, chargeVars, BuyLocations, Sessions,
          BillLocations, Outcomes, OrderStatuses
  <1>1. ASSUME NEW o \in Orders, StartOrderCheckout(o) PROVE TypeOKBilling'
    BY <1>1 DEF StartOrderCheckout
  <1>2. ASSUME NEW o \in Orders, CreateSession(o) PROVE TypeOKBilling'
    BY <1>2 DEF CreateSession
  <1>3. ASSUME NEW o \in Orders, SaveCheckoutRef(o) PROVE TypeOKBilling'
    BY <1>3 DEF SaveCheckoutRef
  <1>4. ASSUME NEW o \in Orders, CheckoutRefused(o) PROVE TypeOKBilling'
    BY <1>4 DEF CheckoutRefused
  <1>5. ASSUME NEW o \in Orders, CheckoutCrash(o) PROVE TypeOKBilling'
    BY <1>5 DEF CheckoutCrash, AProcessDies
  <1>6. ASSUME NEW o \in Orders, NEW to \in Sessions, SessionMovesTo(o, to) PROVE TypeOKBilling'
    BY <1>6 DEF SessionMovesTo
  <1>7. ASSUME NEW o \in Orders, ChargeRefunded(o) PROVE TypeOKBilling'
    BY <1>7 DEF ChargeRefunded
  <1>8. ASSUME NEW e \in BillEvents, ClaimEvent(e) PROVE TypeOKBilling'
    BY <1>8 DEF ClaimEvent
  <1>9. ASSUME NEW e \in BillEvents, LookupOrder(e) PROVE TypeOKBilling'
    BY <1>9 DEF LookupOrder, Answer
  <1>10. ASSUME NEW e \in BillEvents, UpdateOrder(e) PROVE TypeOKBilling'
    <2>1. Target(e) # "none" /\ Target(e) \in {"none", "PAID", "EXPIRED", "REFUNDED"}
      BY <1>10, TargetIsAStatus DEF UpdateOrder, EventInv
    <2>2. CASE order[EventOrder(e)] \in OrderPredecessorsOf(Target(e))
      <3>1. order' = [order EXCEPT ![EventOrder(e)] = Target(e)]
        BY <1>10, <2>2 DEF UpdateOrder, Target
      <3>2. \A o \in Orders : order'[o] \in {"absent"} \cup OrderStatuses
        BY <2>1, <3>1
      <3>3. order' \in [Orders -> {"absent"} \cup OrderStatuses]
        BY <3>1, <3>2
      <3>4. providerRef' \in [Orders -> BOOLEAN]
        BY <1>10, <2>2 DEF UpdateOrder, Target, CarriesProviderRef
      <3> QED
        BY <1>10, <2>2, <3>3, <3>4 DEF UpdateOrder, Target
    <2>3. CASE order[EventOrder(e)] \notin OrderPredecessorsOf(Target(e))
      BY <1>10, <2>3 DEF UpdateOrder, Answer, Target
    <2> QED
      BY <2>2, <2>3
  <1>11. ASSUME NEW e \in BillEvents, StartRun(e) PROVE TypeOKBilling'
    BY <1>11 DEF StartRun
  <1>12. ASSUME NEW e \in BillEvents, BillCrash(e) PROVE TypeOKBilling'
    BY <1>12 DEF BillCrash, AProcessDies
  <1>13. CASE OtherProcessDies
    BY <1>13 DEF OtherProcessDies, AProcessDies, billVars
  <1>14. CASE UNCHANGED billingVars
    BY <1>14 DEF billingVars, billVars
  <1> QED
    BY <1>1, <1>2, <1>3, <1>4, <1>5, <1>6, <1>7, <1>8, <1>9, <1>10, <1>11, <1>12, <1>13, <1>14
    DEF BillingNext, BillingStep, CheckoutStep, BuyerStep, HandleEvent

\* The row and the provider, one order at a time.
LEMMA SaleInvStep ==
  ASSUME BillInv, [BillingNext]_billingVars, NEW p \in Orders
  PROVE  (RefInv(p) /\ StatusInv(p))'
  <1> USE EventsAreAboutOrders
      DEF BillInv, TypeOKBilling, SaleInv, RefInv, StatusInv, Charged, saleVars, chargeVars
  <1>1. ASSUME NEW o \in Orders, StartOrderCheckout(o) PROVE (RefInv(p) /\ StatusInv(p))'
    BY <1>1 DEF StartOrderCheckout
  <1>2. ASSUME NEW o \in Orders, CreateSession(o) PROVE (RefInv(p) /\ StatusInv(p))'
    BY <1>2 DEF CreateSession
  <1>3. ASSUME NEW o \in Orders, SaveCheckoutRef(o) PROVE (RefInv(p) /\ StatusInv(p))'
    BY <1>3 DEF SaveCheckoutRef
  <1>4. ASSUME NEW o \in Orders, CheckoutRefused(o) PROVE (RefInv(p) /\ StatusInv(p))'
    BY <1>4 DEF CheckoutRefused
  <1>5. ASSUME NEW o \in Orders, CheckoutCrash(o) PROVE (RefInv(p) /\ StatusInv(p))'
    BY <1>5 DEF CheckoutCrash
  <1>6. ASSUME NEW o \in Orders, NEW to \in Sessions, SessionMovesTo(o, to)
        PROVE  (RefInv(p) /\ StatusInv(p))'
    BY <1>6 DEF SessionMovesTo, SessionMoves
  <1>7. ASSUME NEW o \in Orders, ChargeRefunded(o) PROVE (RefInv(p) /\ StatusInv(p))'
    BY <1>7 DEF ChargeRefunded
  <1>8. ASSUME NEW e \in BillEvents, ClaimEvent(e) PROVE (RefInv(p) /\ StatusInv(p))'
    BY <1>8 DEF ClaimEvent
  <1>9. ASSUME NEW e \in BillEvents, LookupOrder(e) PROVE (RefInv(p) /\ StatusInv(p))'
    BY <1>9 DEF LookupOrder
  <1>10. ASSUME NEW e \in BillEvents, UpdateOrder(e) PROVE (RefInv(p) /\ StatusInv(p))'
    <2>1. Target(e) # "none" /\ Happened(e)
      BY <1>10 DEF UpdateOrder, EventInv
    <2>2. CASE Kind(e) = "completed"
      BY <1>10, <2>1, <2>2, Predecessors
      DEF UpdateOrder, Happened, Target, Normalize, OrderStatusForEvent, CarriesProviderRef
    <2>3. CASE Kind(e) = "async_succeeded"
      BY <1>10, <2>1, <2>3, Predecessors
      DEF UpdateOrder, Happened, Target, Normalize, OrderStatusForEvent, CarriesProviderRef
    <2>4. CASE Kind(e) = "expired"
      BY <1>10, <2>1, <2>4, Predecessors
      DEF UpdateOrder, Happened, Target, Normalize, OrderStatusForEvent, CarriesProviderRef
    <2>5. CASE Kind(e) = "refunded"
      BY <1>10, <2>1, <2>5, Predecessors
      DEF UpdateOrder, Happened, Target, Normalize, OrderStatusForEvent, CarriesProviderRef
    <2> QED
      BY <2>2, <2>3, <2>4, <2>5 DEF EventKinds
  <1>11. ASSUME NEW e \in BillEvents, StartRun(e) \/ BillCrash(e)
         PROVE  (RefInv(p) /\ StatusInv(p))'
    BY <1>11 DEF StartRun, BillCrash
  <1>12. CASE OtherProcessDies \/ UNCHANGED billingVars
    BY <1>12 DEF OtherProcessDies, billingVars, billVars
  <1> HIDE DEF BillInv, RefInv, StatusInv
  <1> QED
    BY <1>1, <1>2, <1>3, <1>4, <1>5, <1>6, <1>7, <1>8, <1>9, <1>10, <1>11, <1>12
    DEF BillingNext, BillingStep, CheckoutStep, BuyerStep, HandleEvent

-----------------------------------------------------------------------------
(* The events.                                                              *)

\* What has happened stays happened, and keeps asking for the same status:
\* in particular a session that completed unpaid never reads as paid later.
LEMMA FactsStay ==
  ASSUME BillInv, NEW o \in Orders, NEW e \in BillEvents, Happened(e),
         \/ UNCHANGED <<session, refunded>>
         \/ CreateSession(o) \/ ChargeRefunded(o) \/ \E to \in Sessions : SessionMovesTo(o, to)
  PROVE  Happened(e)' /\ Target(e)' = Target(e)
  <1> USE EventsAreAboutOrders
      DEF BillInv, TypeOKBilling, SaleInv, RefInv, StatusInv, Charged, Happened,
          Target, Normalize, EventKinds
  <1>1. CASE UNCHANGED <<session, refunded>>
    BY <1>1
  <1>2. CASE CreateSession(o)
    BY <1>2 DEF CreateSession
  <1>3. CASE ChargeRefunded(o)
    BY <1>3 DEF ChargeRefunded
  <1>4. ASSUME NEW to \in Sessions, SessionMovesTo(o, to)
        PROVE  Happened(e)' /\ Target(e)' = Target(e)
    BY <1>4 DEF SessionMovesTo, SessionMoves
  <1> QED
    BY <1>1, <1>2, <1>3, <1>4

\* A step that changes no order and no handler keeps every event's invariant.
LEMMA EventInvKept ==
  ASSUME BillInv, NEW f \in BillEvents, UNCHANGED <<billAt, billOutcome>>,
         order' = order \/ (\E o \in Orders : order[o] = "absent" /\ order' = [order EXCEPT ![o] = "PENDING"]),
         Happened(f) => Happened(f)' /\ Target(f)' = Target(f)
  PROVE  EventInv(f)'
  BY EventsAreAboutOrders DEF BillInv, TypeOKBilling, EventInv, Outcomes

LEMMA EventInvStep ==
  ASSUME BillInv, [BillingNext]_billingVars, NEW f \in BillEvents
  PROVE  EventInv(f)'
  <1>1. ASSUME NEW o \in Orders, CheckoutStep(o) \/ BuyerStep(o) \/ ChargeRefunded(o) PROVE EventInv(f)'
    <2>1. UNCHANGED <<billAt, billOutcome>>
      BY <1>1 DEF CheckoutStep, BuyerStep, StartOrderCheckout, CreateSession, SaveCheckoutRef,
         CheckoutRefused, CheckoutCrash, SessionMovesTo, ChargeRefunded
    <2>2. order' = order \/ (order[o] = "absent" /\ order' = [order EXCEPT ![o] = "PENDING"])
      BY <1>1 DEF CheckoutStep, BuyerStep, StartOrderCheckout, CreateSession, SaveCheckoutRef,
         CheckoutRefused, CheckoutCrash, SessionMovesTo, ChargeRefunded, saleVars,
         BillInv, SaleInv, RefInv
    <2>3. \/ UNCHANGED <<session, refunded>>
          \/ CreateSession(o) \/ ChargeRefunded(o) \/ \E to \in Sessions : SessionMovesTo(o, to)
      BY <1>1 DEF CheckoutStep, BuyerStep, StartOrderCheckout, SaveCheckoutRef,
         CheckoutRefused, CheckoutCrash, chargeVars
    <2> QED
      BY <2>1, <2>2, <2>3, FactsStay, EventInvKept
  <1>2. ASSUME NEW e \in BillEvents, HandleEvent(e) \/ StartRun(e) \/ BillCrash(e)
        PROVE  EventInv(f)'
    <2>1. UNCHANGED <<session, refunded>>
      BY <1>2 DEF HandleEvent, ClaimEvent, LookupOrder, UpdateOrder, StartRun, BillCrash, chargeVars
    <2>2. Happened(f)' = Happened(f) /\ Target(f)' = Target(f) /\ Target(e)' = Target(e)
      BY <2>1 DEF Happened, Target, Normalize
    <2> USE EventsAreAboutOrders DEF BillInv, TypeOKBilling, EventInv
    <2>3. CASE ClaimEvent(e)
      BY <2>2, <2>3 DEF ClaimEvent, saleVars
    <2>4. CASE LookupOrder(e)
      <3>1. EventInv(f) /\ EventInv(e) /\ order' = order
        BY <2>4 DEF LookupOrder, saleVars
      <3>2. CASE Target(e) = "none"
        BY <2>2, <2>4, <3>1, <3>2 DEF LookupOrder, Answer, Target
      <3>3. CASE Target(e) # "none" /\ FindsOrder(e)
        BY <2>2, <2>4, <3>1, <3>3 DEF LookupOrder, Target
      <3>4. CASE Target(e) # "none" /\ ~FindsOrder(e)
        <4>1. DashboardRefunds \/ Kind(e) = "expired"
          BY <2>4, <3>1, <3>4 DEF LookupOrder, Happened, FindsOrder, CarriesCheckoutRef,
             CarriesProviderRef, SaleInv, RefInv, StatusInv, EventKinds
        <4> QED
          BY <2>2, <2>4, <3>1, <3>4, <4>1 DEF LookupOrder, Answer, Target
      <3> QED
        BY <3>2, <3>3, <3>4
    <2>5. CASE UpdateOrder(e)
      <3>1. EventInv(f) /\ EventInv(e) /\ Target(e) \in {"PAID", "EXPIRED", "REFUNDED"}
        BY <2>5, TargetIsAStatus DEF UpdateOrder
      <3>2. CASE order[EventOrder(e)] \in OrderPredecessorsOf(Target(e))
        <4>1. /\ order' = [order EXCEPT ![EventOrder(e)] = Target(e)]
              /\ billOutcome' = [billOutcome EXCEPT ![e] = "transitioned"]
              /\ billAt' = [billAt EXCEPT ![e] = IF Target(e) = "EXPIRED" THEN "done" ELSE "start"]
              /\ billAt[e] = "update"
          BY <2>5, <3>2 DEF UpdateOrder, Target
        <4>2. CASE f = e
          BY <2>2, <3>1, <4>1, <4>2
        <4>3. CASE f # e
          BY <2>2, <3>1, <3>2, <4>1, <4>3, Predecessors
        <4> QED
          BY <4>2, <4>3
      <3>3. CASE order[EventOrder(e)] \notin OrderPredecessorsOf(Target(e))
        <4>1. order' = order /\ Answer(e, "no_transition") /\ billAt[e] = "update"
          BY <2>5, <3>3 DEF UpdateOrder, Target
        <4> QED
          BY <2>2, <3>1, <4>1 DEF Answer
      <3> QED
        BY <3>2, <3>3
    <2>6. CASE StartRun(e)
      BY <2>2, <2>6 DEF StartRun, saleVars
    <2>7. CASE BillCrash(e)
      BY <2>2, <2>7 DEF BillCrash, saleVars
    <2> QED
      BY <1>2, <2>3, <2>4, <2>5, <2>6, <2>7 DEF HandleEvent
  <1>3. CASE OtherProcessDies \/ UNCHANGED billingVars
    <2>1. UNCHANGED billVars
      BY <1>3 DEF OtherProcessDies, billingVars
    <2> QED
      BY <2>1 DEF BillInv, EventInv, Happened, Target, Normalize, billVars, saleVars, chargeVars
  <1> QED
    BY <1>1, <1>2, <1>3 DEF BillingNext, BillingStep

THEOREM BillInvariant == BillingSpec => []BillInv
  <1>1. BillingInit => BillInv
    BY BillInvInit
  <1>2. BillInv /\ [BillingNext]_billingVars => BillInv'
    <2> SUFFICES ASSUME BillInv, [BillingNext]_billingVars PROVE BillInv'
      OBVIOUS
    <2>1. TypeOKBilling'
      BY BillTypeStep
    <2>2. SaleInv'
      BY SaleInvStep DEF SaleInv
    <2>3. \A e \in BillEvents : EventInv(e)'
      BY EventInvStep
    <2> QED
      BY <2>1, <2>2, <2>3 DEF BillInv, BillEvents
  <1> QED
    BY <1>1, <1>2, PTL DEF BillingSpec

\* Every variable keeps its type; in particular an update only ever writes a
\* status of the machine.
THEOREM BillingTypeCorrect == BillingSpec => []TypeOKBilling
  <1>1. BillInv => TypeOKBilling
    BY DEF BillInv
  <1> QED
    BY <1>1, BillInvariant, PTL

\* The order's row is never ahead of the provider, under every interleaving,
\* repetition and loss of deliveries.
THEOREM OrderMatchesProviderHolds == BillingSpec => []OrderMatchesProvider
  <1>1. BillInv => OrderMatchesProvider
    BY DEF BillInv, SaleInv, StatusInv, OrderMatchesProvider
  <1> QED
    BY <1>1, BillInvariant, PTL

\* While charges are only given back through the app, no event about money
\* misses its order.
THEOREM MoneyEventsFindTheirOrderHolds ==
  ASSUME DashboardRefunds = FALSE
  PROVE  BillingSpec => []MoneyEventsFindTheirOrder
  <1>1. BillInv => MoneyEventsFindTheirOrder
    BY DEF BillInv, EventInv, MoneyEventsFindTheirOrder
  <1> QED
    BY <1>1, BillInvariant, PTL

-----------------------------------------------------------------------------
(* One winner.                                                              *)

\* Two events about one order that ask for one status and both changed it.
BothWon(e, f) ==
    /\ EventOrder(e) = EventOrder(f)
    /\ billOutcome[e] = "transitioned" /\ billOutcome[f] = "transitioned"
    /\ Target(e) = Target(f)

\* Only an update makes a winner, and it finds the order before its target:
\* no other event has won it.
LEMMA OneWinnerStep ==
  ASSUME BillInv, OneWinner, [BillingNext]_billingVars,
         NEW e \in BillEvents, NEW f \in BillEvents, BothWon(e, f)'
  PROVE  e = f
  <1>1. ASSUME NEW g \in BillEvents, UpdateOrder(g), order[EventOrder(g)] \in OrderPredecessorsOf(Target(g))
        PROVE  e = f
    <2>1. billOutcome' = [billOutcome EXCEPT ![g] = "transitioned"] /\ UNCHANGED session
      BY <1>1 DEF UpdateOrder, Target, chargeVars
    <2>2. Target(e)' = Target(e) /\ Target(f)' = Target(f)
      BY <2>1 DEF Target, Normalize
    <2>3. \A h \in BillEvents :
            h # g => ~(EventOrder(h) = EventOrder(g) /\ Target(h) = Target(g)
                        /\ billOutcome[h] = "transitioned")
      BY <1>1, Predecessors DEF BillInv, EventInv
    <2> QED
      BY <2>1, <2>2, <2>3 DEF BothWon, BillInv, TypeOKBilling, OneWinner
  <1>2. ASSUME \A h \in BillEvents : billOutcome'[h] = "transitioned" =>
                 billOutcome[h] = "transitioned" /\ Target(h)' = Target(h)
        PROVE  e = f
    BY <1>2 DEF BothWon, OneWinner
  <1>3. ASSUME NEW o \in Orders, CheckoutStep(o) \/ BuyerStep(o) \/ ChargeRefunded(o) PROVE e = f
    <2>1. \/ UNCHANGED <<session, refunded>>
          \/ CreateSession(o) \/ ChargeRefunded(o) \/ \E to \in Sessions : SessionMovesTo(o, to)
      BY <1>3 DEF CheckoutStep, BuyerStep, StartOrderCheckout, SaveCheckoutRef,
         CheckoutRefused, CheckoutCrash, chargeVars
    <2>2. UNCHANGED billOutcome
      BY <1>3 DEF CheckoutStep, BuyerStep, StartOrderCheckout, CreateSession, SaveCheckoutRef,
         CheckoutRefused, CheckoutCrash, SessionMovesTo, ChargeRefunded
    <2>3. \A h \in BillEvents : billOutcome[h] = "transitioned" => Happened(h)
      BY DEF BillInv, EventInv
    <2> QED
      BY <1>2, <2>1, <2>2, <2>3, FactsStay
  <1>4. ASSUME NEW g \in BillEvents,
               \/ ClaimEvent(g) \/ LookupOrder(g) \/ StartRun(g) \/ BillCrash(g)
               \/ UpdateOrder(g) /\ order[EventOrder(g)] \notin OrderPredecessorsOf(Target(g))
        PROVE  e = f
    <2>1. UNCHANGED session
      BY <1>4 DEF ClaimEvent, LookupOrder, StartRun, BillCrash, UpdateOrder, chargeVars
    <2>2. \/ UNCHANGED billOutcome
          \/ \E outcome \in Outcomes \ {"transitioned"} :
               billOutcome' = [billOutcome EXCEPT ![g] = outcome]
      BY <1>4 DEF ClaimEvent, LookupOrder, StartRun, BillCrash, UpdateOrder, Answer, Target, Outcomes
    <2> QED
      BY <1>2, <2>1, <2>2 DEF BillInv, TypeOKBilling, Target, Normalize
  <1>5. CASE OtherProcessDies \/ UNCHANGED billingVars
    BY <1>2, <1>5 DEF OtherProcessDies, billingVars, billVars, chargeVars, Target, Normalize
  <1> QED
    BY <1>1, <1>3, <1>4, <1>5 DEF BillingNext, BillingStep, HandleEvent

\* However many deliveries and copies of an event race, one of them changes
\* the order, so each of the two runs is started once per order.
THEOREM OneWinnerHolds == BillingSpec => []OneWinner
  <1>1. BillingInit => OneWinner
    BY DEF BillingInit, OneWinner
  <1>2. BillInv /\ OneWinner /\ [BillingNext]_billingVars => OneWinner'
    BY OneWinnerStep DEF OneWinner, BothWon
  <1> QED
    BY <1>1, <1>2, BillInvariant, PTL DEF BillingSpec

-----------------------------------------------------------------------------
(* The status machine.                                                      *)

OrderForwardStep(o) ==
    \/ order'[o] = order[o]
    \/ order[o] = "absent" /\ order'[o] = "PENDING"
    \/ CanTransitionOrder(order[o], order'[o])

\* An order's status moves only along its machine in every step of the system.
THEOREM OrderForwardOnlyHolds == BillingSpec => OrderForwardOnly
  <1>1. ASSUME BillInv, [BillingNext]_billingVars, NEW p \in Orders
        PROVE  OrderForwardStep(p)
    <2> USE <1>1 DEF BillInv, TypeOKBilling, OrderForwardStep
    <2>1. ASSUME NEW o \in Orders, StartOrderCheckout(o) PROVE OrderForwardStep(p)
      BY <2>1 DEF StartOrderCheckout, SaleInv, RefInv
    <2>2. ASSUME NEW e \in BillEvents, UpdateOrder(e) PROVE OrderForwardStep(p)
      <3>1. CASE order[EventOrder(e)] \in OrderPredecessorsOf(Target(e))
        BY <2>2, <3>1 DEF UpdateOrder, Target, OrderPredecessorsOf
      <3>2. CASE order[EventOrder(e)] \notin OrderPredecessorsOf(Target(e))
        BY <2>2, <3>2 DEF UpdateOrder, Target
      <3> QED
        BY <3>1, <3>2
    <2>3. CASE UNCHANGED order
      BY <2>3
    <2> QED
      BY <2>1, <2>2, <2>3
      DEF BillingNext, BillingStep, CheckoutStep, BuyerStep, HandleEvent, CreateSession,
          SaveCheckoutRef, CheckoutRefused, CheckoutCrash, SessionMovesTo, ChargeRefunded,
          ClaimEvent, LookupOrder, StartRun, BillCrash, OtherProcessDies,
          billingVars, billVars, saleVars
  <1>2. BillInv /\ [BillingNext]_billingVars
          => [\A o \in Orders : OrderForwardStep(o)]_order
    BY <1>1
  <1>3. BillingSpec => [][\A o \in Orders : OrderForwardStep(o)]_order
    BY <1>2, BillInvariant, PTL DEF BillingSpec
  <1> QED
    BY <1>3 DEF OrderForwardStep, OrderForwardOnly
=============================================================================
