--------------------------- MODULE Subscriptions ---------------------------
(***************************************************************************)
(* One member's subscriptions: the checkout that opens a row and a session *)
(* at the provider, the provider's billing of it period by period, the     *)
(* webhook handler that follows it, and the entitlements read from the     *)
(* newest row.  Two members share nothing.                                 *)
(*                                                                         *)
(* As for orders, an event is delivered any number of times and in any     *)
(* order; a delivery whose id is claimed already changes nothing.          *)
(***************************************************************************)
EXTENDS MoneyDomain

CONSTANTS
    MaxSubs,    \* bound: checkouts the member starts
    MaxPeriods  \* bound: periods the provider bills a subscription for

ASSUME SubscriptionsAssumption == MaxSubs \in Nat \ {0} /\ MaxPeriods \in Nat \ {0}

VARIABLES
    subBuyAt,     \* where each startSubscriptionCheckout call is
    sub,          \* Subscription row: "absent" or its status
    subKnows,     \* which references the row has: "checkout", "provider"
    periodEnd,    \* currentPeriodEnd of the row, as a period; 0 is null
    membership,   \* provider: the session, then the subscription
    period,       \* provider: the period paid for last
    failedIn,     \* provider: the periods whose payment failed at first
    subEventAt,   \* where the handler of each event is
    subSeen       \* the row's status, as the handler's lookup read it

checkoutVars == <<subBuyAt, sub, subKnows, periodEnd>>
memberVars   == <<membership, period, failedIn>>
subHookVars  == <<subEventAt, subSeen>>
subVars      == <<checkoutVars, memberVars, subHookVars>>

Subs    == 1..MaxSubs     \* in the order of their createdAt
Periods == 1..MaxPeriods

SubEventKinds == {"completed", "invoice_paid", "invoice_failed", "deleted"}

\* An event is about a subscription, and an invoice event about a period.
SubEvents == Subs \X SubEventKinds \X Periods
EventSub(e) == e[1]
SubKind(e)  == e[2]
InPeriod(e) == e[3]

Rows == {"absent"} \cup SubscriptionStatuses

TypeOKSubscriptions ==
    /\ subBuyAt   \in [Subs -> {"none", "session", "save", "returned"}]
    /\ sub        \in [Subs -> Rows]
    /\ subKnows   \in [Subs -> SUBSET {"checkout", "provider"}]
    /\ periodEnd  \in [Subs -> 0..MaxPeriods]
    /\ membership \in [Subs -> {"none", "open", "active", "past_due", "canceled"}]
    /\ period     \in [Subs -> 0..MaxPeriods]
    /\ failedIn   \in [Subs -> SUBSET Periods]
    /\ subEventAt \in [SubEvents -> {"none", "lookup", "update", "renew", "done"}]
    /\ subSeen    \in [SubEvents -> Rows]

SubscriptionsInit ==
    /\ subBuyAt   = [s \in Subs |-> "none"]
    /\ sub        = [s \in Subs |-> "absent"]
    /\ subKnows   = [s \in Subs |-> {}]
    /\ periodEnd  = [s \in Subs |-> 0]
    /\ membership = [s \in Subs |-> "none"]
    /\ period     = [s \in Subs |-> 0]
    /\ failedIn   = [s \in Subs |-> {}]
    /\ subEventAt = [e \in SubEvents |-> "none"]
    /\ subSeen    = [e \in SubEvents |-> "absent"]

-----------------------------------------------------------------------------
(* The checkout.  Nothing in it asks whether the member has a plan already, *)
(* and nothing takes up one that died.                                     *)

StartSubscriptionCheckout(s) ==
    /\ subBuyAt[s] = "none"
    /\ \A t \in Subs : t < s => subBuyAt[t] # "none"
    /\ sub' = [sub EXCEPT ![s] = "PENDING"]
    /\ subBuyAt' = [subBuyAt EXCEPT ![s] = "session"]
    /\ UNCHANGED <<subKnows, periodEnd, memberVars, subHookVars>>

CreateSubscriptionSession(s) ==
    /\ subBuyAt[s] = "session"
    /\ membership' = [membership EXCEPT ![s] = "open"]
    /\ subBuyAt' = [subBuyAt EXCEPT ![s] = "save"]
    /\ UNCHANGED <<sub, subKnows, periodEnd, period, failedIn, subHookVars>>

SaveSubscriptionRef(s) ==
    /\ subBuyAt[s] = "save"
    /\ subKnows' = [subKnows EXCEPT ![s] = @ \cup {"checkout"}]
    /\ subBuyAt' = [subBuyAt EXCEPT ![s] = "returned"]
    /\ UNCHANGED <<sub, periodEnd, memberVars, subHookVars>>

-----------------------------------------------------------------------------
(* The provider.                                                           *)

\* The member completes the session: the subscription begins, and its first
\* period is paid at once, later, or never.
SessionCompletes(s) ==
    /\ membership[s] = "open"
    /\ subBuyAt[s] = "returned"
    /\ membership' = [membership EXCEPT ![s] = "active"]
    /\ UNCHANGED <<checkoutVars, period, failedIn, subHookVars>>

\* The first period or a renewal is paid, at once or on a retry.
PeriodIsPaid(s) ==
    /\ membership[s] \in {"active", "past_due"}
    /\ period[s] < MaxPeriods
    /\ period' = [period EXCEPT ![s] = @ + 1]
    /\ membership' = [membership EXCEPT ![s] = "active"]
    /\ UNCHANGED <<checkoutVars, failedIn, subHookVars>>

PaymentFails(s) ==
    /\ membership[s] = "active"
    /\ period[s] < MaxPeriods
    /\ failedIn' = [failedIn EXCEPT ![s] = @ \cup {period[s] + 1}]
    /\ membership' = [membership EXCEPT ![s] = "past_due"]
    /\ UNCHANGED <<checkoutVars, period, subHookVars>>

\* The member cancels, or the provider gives up on the payment.
SubscriptionEnds(s) ==
    /\ membership[s] \in {"active", "past_due"}
    /\ membership' = [membership EXCEPT ![s] = "canceled"]
    /\ UNCHANGED <<checkoutVars, period, failedIn, subHookVars>>

ProviderMoves(s) ==
    SessionCompletes(s) \/ PeriodIsPaid(s) \/ PaymentFails(s) \/ SubscriptionEnds(s)

\* Whether what the event reports has happened.  That a session is completed
\* does not say that anything was paid.
SubHappened(e) ==
    LET s == EventSub(e)
    IN  \/ SubKind(e) = "completed" /\ InPeriod(e) = 1 /\ membership[s] \notin {"none", "open"}
        \/ SubKind(e) = "invoice_paid" /\ InPeriod(e) <= period[s]
        \/ SubKind(e) = "invoice_failed" /\ InPeriod(e) \in failedIn[s]
        \/ SubKind(e) = "deleted" /\ InPeriod(e) = 1 /\ membership[s] = "canceled"

-----------------------------------------------------------------------------
(* The webhook handler.                                                    *)

\* Slip: a failed invoice is the end of the membership.
SubNormalizeFailureAsEnd(e) ==
    IF SubKind(e) \in {"completed", "invoice_paid"} THEN "subscription_activated"
    ELSE "subscription_canceled"

SubNormalize(e) ==
    IF SubKind(e) \in {"completed", "invoice_paid"} THEN "subscription_activated"
    ELSE IF SubKind(e) = "invoice_failed" THEN "subscription_payment_failed"
    ELSE "subscription_canceled"

SubTarget(e) == SubscriptionStatusForEvent(SubNormalize(e))

\* Every event names the subscription; only the session names itself.
EventNames(e) == {"provider"} \cup IF SubKind(e) = "completed" THEN {"checkout"} ELSE {}

FindsSub(e) == EventNames(e) \cap subKnows[EventSub(e)] # {}

\* Slip: an invoice that was not paid carries a period's end too.
CarriesPeriodOfAnyInvoice(e) == SubKind(e) \in {"invoice_paid", "invoice_failed"}

CarriesPeriod(e) == SubKind(e) = "invoice_paid"

HandlerGoesTo(e, at) == subEventAt' = [subEventAt EXCEPT ![e] = at]

ClaimSubEvent(e) ==
    /\ subEventAt[e] = "none"
    /\ SubHappened(e)
    /\ HandlerGoesTo(e, "lookup")
    /\ UNCHANGED <<checkoutVars, memberVars, subSeen>>

LookupSub(e) ==
    /\ subEventAt[e] = "lookup"
    /\ IF FindsSub(e) THEN /\ HandlerGoesTo(e, "update")
                           /\ subSeen' = [subSeen EXCEPT ![e] = sub[EventSub(e)]]
                      ELSE HandlerGoesTo(e, "done") /\ UNCHANGED subSeen
    /\ UNCHANGED <<checkoutVars, memberVars>>

\* The conditional UPDATE; when it changed nothing, an invoice paid of a row
\* that the lookup read as ACTIVE is a renewal.
UpdateSub(e) ==
    LET s == EventSub(e)
    IN  /\ subEventAt[e] = "update"
        /\ IF sub[s] \in SubscriptionPredecessorsOf(SubTarget(e))
             THEN /\ sub' = [sub EXCEPT ![s] = SubTarget(e)]
                  /\ subKnows' = [subKnows EXCEPT ![s] = @ \cup {"provider"}]
                  /\ periodEnd' = [periodEnd EXCEPT ![s] = IF CarriesPeriod(e) THEN InPeriod(e) ELSE @]
                  /\ HandlerGoesTo(e, "done")
             ELSE /\ HandlerGoesTo(e, IF SubTarget(e) = "ACTIVE" /\ subSeen[e] = "ACTIVE"
                                           /\ CarriesPeriod(e)
                                        THEN "renew" ELSE "done")
                  /\ UNCHANGED <<sub, subKnows, periodEnd>>
        /\ UNCHANGED <<subBuyAt, memberVars, subSeen>>

\* Slip: the renewal writes the whole row, its status with it.
RenewRevives(e) ==
    /\ subEventAt[e] = "renew"
    /\ sub' = [sub EXCEPT ![EventSub(e)] = "ACTIVE"]
    /\ periodEnd' = [periodEnd EXCEPT ![EventSub(e)] = InPeriod(e)]
    /\ HandlerGoesTo(e, "done")
    /\ UNCHANGED <<subBuyAt, subKnows, memberVars, subSeen>>

\* An UPDATE by id, whatever has become of the row since.
Renew(e) ==
    /\ subEventAt[e] = "renew"
    /\ periodEnd' = [periodEnd EXCEPT ![EventSub(e)] = InPeriod(e)]
    /\ HandlerGoesTo(e, "done")
    /\ UNCHANGED <<subBuyAt, sub, subKnows, memberVars, subSeen>>

HandleSubEvent(e) == ClaimSubEvent(e) \/ LookupSub(e) \/ UpdateSub(e) \/ Renew(e)

-----------------------------------------------------------------------------
SubscriptionsNext ==
    \/ \E s \in Subs :
         \/ StartSubscriptionCheckout(s) \/ CreateSubscriptionSession(s) \/ SaveSubscriptionRef(s)
         \/ ProviderMoves(s)
    \/ \E e \in SubEvents : HandleSubEvent(e)

SubscriptionsSpec == SubscriptionsInit /\ [][SubscriptionsNext]_subVars

\* An event is redelivered until it is answered, and a handler runs to its end.
SubscriptionsFairness == \A e \in SubEvents : WF_subVars(HandleSubEvent(e))

FairSubscriptionsSpec == SubscriptionsSpec /\ SubscriptionsFairness

-----------------------------------------------------------------------------
(* Entitlements.                                                           *)

PaidAccess == {"ACTIVE", "PAST_DUE"}

\* entitlementsForUser reads the newest row and entitlementsFor its status.
HasPro ==
    \E s \in Subs :
        /\ sub[s] \in PaidAccess
        /\ \A t \in Subs : sub[t] # "absent" => t <= s

-----------------------------------------------------------------------------
(* Properties.                                                             *)

CompletedEvent(s) == <<s, "completed", 1>>
DeletedEvent(s)   == <<s, "deleted", 1>>

\* A row is never ahead of what the provider reported: access is opened by the
\* handler of the completed session and by nothing before it, since until then
\* the row does not know the subscription that invoices name; dunning saw a
\* failed payment; and only an ended subscription reads CANCELED.
SubMatchesProvider ==
    \A s \in Subs :
        /\ sub[s] \in PaidAccess => subEventAt[CompletedEvent(s)] = "done"
        /\ sub[s] = "PAST_DUE" => failedIn[s] # {}
        /\ sub[s] = "CANCELED" => membership[s] = "canceled"

\* The row never promises a period that was not paid for, stale renewals and
\* invoices applied out of order included.
PeriodEndIsPaid == \A s \in Subs : periodEnd[s] <= period[s]

\* A status only moves along the machine: no late invoice revives a
\* membership that was canceled.
SubForwardOnly ==
    [][\A s \in Subs :
         \/ sub'[s] = sub[s]
         \/ sub[s] = "absent" /\ sub'[s] = "PENDING"
         \/ CanTransitionSubscription(sub[s], sub'[s])]_sub

\* A membership that ends loses access for good, provided the row had learnt
\* which subscription it is by the time the event was handled: no invoice that
\* comes late, and no renewal that read the row before it ended and updates it by
\* id (billing.ts:117), brings it back.
KnownMemberIsCanceled ==
    \A s \in Subs :
        (membership[s] = "canceled" /\ "provider" \in subKnows[s]
           /\ subEventAt[DeletedEvent(s)] = "none") ~> [](sub[s] = "CANCELED")

\* Access is for what was paid: the session's "completed" is not "paid".
AccessIsPaidFor == \A s \in Subs : sub[s] \in PaidAccess => period[s] > 0

\* A renewal moves the row's period end on.  Not so: an invoice handled late
\* writes its earlier period over a later one.
PeriodEndMovesOn == [][\A s \in Subs : periodEnd'[s] >= periodEnd[s]]_periodEnd

\* A cancelled member loses Pro on the next request.
CanceledMemberLosesPro ==
    \A s \in Subs : membership[s] = "canceled" ~> sub[s] \notin PaidAccess

\* A member whose row is ACTIVE or PAST_DUE has Pro.
PaidMemberHasPro == (\E s \in Subs : sub[s] \in PaidAccess) => HasPro
=============================================================================
