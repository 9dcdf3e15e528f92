---------------------------- MODULE MoneyDomain ----------------------------
(***************************************************************************)
(* The pure rules the billing code reads its decisions from: the forward-  *)
(* only status machines of an order, a payout and a subscription, the      *)
(* status an event asks for, whether a seller's account can be paid, and   *)
(* the split of a sale into the platform's fee and the seller's share.     *)
(* No state; every module about money extends this one.                    *)
(***************************************************************************)
EXTENDS Integers

OrderStatuses == {"PENDING", "PAID", "EXPIRED", "REFUNDED"}

CanTransitionOrder(from, to) ==
    \/ from = "PENDING" /\ to \in {"PAID", "EXPIRED"}
    \/ from = "PAID"    /\ to = "REFUNDED"

\* The statuses the conditional UPDATE of an order accepts before `to'.
OrderPredecessorsOf(to) == {from \in OrderStatuses : CanTransitionOrder(from, to)}

PayoutStatuses == {"PENDING", "PAID", "REVERSED", "CANCELED"}

CanTransitionPayout(from, to) ==
    \/ from = "PENDING" /\ to \in {"PAID", "CANCELED"}
    \/ from = "PAID"    /\ to = "REVERSED"

PayoutPredecessorsOf(to) == {from \in PayoutStatuses : CanTransitionPayout(from, to)}

\* What the row of a seller's connected account says: no row, a row whose
\* payoutsEnabled is false, a row whose payoutsEnabled is true.
AccountStates == {"no_account", "onboarding_incomplete", "ready"}

PayoutReady(account) == account = "ready"

SubscriptionStatuses == {"PENDING", "ACTIVE", "PAST_DUE", "CANCELED", "EXPIRED"}

CanTransitionSubscription(from, to) ==
    \/ from = "PENDING"  /\ to \in {"ACTIVE", "EXPIRED"}
    \/ from = "ACTIVE"   /\ to \in {"PAST_DUE", "CANCELED"}
    \/ from = "PAST_DUE" /\ to \in {"ACTIVE", "CANCELED", "EXPIRED"}

SubscriptionPredecessorsOf(to) ==
    {from \in SubscriptionStatuses : CanTransitionSubscription(from, to)}

\* The status a normalised provider event asks of an order; "none" when the
\* event is not about an order.
OrderStatusForEvent(type) ==
    IF      type = "order_paid"     THEN "PAID"
    ELSE IF type = "order_expired"  THEN "EXPIRED"
    ELSE IF type = "order_refunded" THEN "REFUNDED"
    ELSE "none"

SubscriptionStatusForEvent(type) ==
    IF      type = "subscription_activated"      THEN "ACTIVE"
    ELSE IF type = "subscription_payment_failed" THEN "PAST_DUE"
    ELSE IF type = "subscription_canceled"       THEN "CANCELED"
    ELSE "none"

\* The platform's cut is bps basis points; the fee rounds down, so the odd minor unit goes to the seller.
SplitPayment(gross, bps) ==
    LET fee == (gross * bps) \div 10000
    IN  [gross |-> gross, fee |-> fee, net |-> gross - fee]
=============================================================================
