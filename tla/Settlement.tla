----------------------------- MODULE Settlement -----------------------------
(***************************************************************************)
(* A sale from its checkout to its last transfer: Billing and Payouts run  *)
(* side by side, joined where the webhook starts a durable run, and with   *)
(* the refund-request run between a buyer who asks, an admin who decides   *)
(* and the provider that gives the charge back.                            *)
(***************************************************************************)
EXTENDS Billing, Payouts

\* The bound Refundable is for Payouts on its own; here Billing decides.
ASSUME RefundableAssumption == Refundable = Orders

VARIABLES
    refundAt,    \* where the refund-request run of the order is
    refundTries, \* failed attempts of its issue-refund step
    refundCalls  \* provider: requests to give the order's charge back

refundVars == <<refundAt, refundTries, refundCalls>>
settlementVars == <<billVars, payoutVars, refundVars, crashes>>

RefundLocations ==
    {"none", "asked", "waiting", "denied", "issue", "issue:call", "issue:memo",
     "refunded", "failed"}

TypeOKSettlement ==
    /\ TypeOKBilling
    /\ TypeOK
    /\ refundAt    \in [Orders -> RefundLocations]
    /\ refundTries \in [Orders -> 0..MaxAttempts]
    /\ refundCalls \in [Orders -> Nat]

SettlementInit ==
    /\ BillingInit
    /\ PayoutsInit
    /\ refundAt    = [o \in Orders |-> "none"]
    /\ refundTries = [o \in Orders |-> 0]
    /\ refundCalls = [o \in Orders |-> 0]

-----------------------------------------------------------------------------
(* The refund-request run.                                                 *)

RefundGoesTo(o, at) == refundAt' = [refundAt EXCEPT ![o] = at]

\* The route reads the order; only a PAID one may be asked back.
AskRefund(o) ==
    /\ refundAt[o] = "none"
    /\ order[o] = "PAID"
    /\ RefundGoesTo(o, "asked")
    /\ UNCHANGED <<billVars, payoutVars, refundTries, refundCalls, crashes>>

\* The run id is derived from the order: one request per order, ever.
StartRefundRequest(o) ==
    /\ refundAt[o] = "asked"
    /\ RefundGoesTo(o, "waiting")
    /\ UNCHANGED <<billVars, payoutVars, refundTries, refundCalls, crashes>>

\* The admin approves, or denies, or three days pass.
DecideRefund(o) ==
    /\ refundAt[o] = "waiting"
    /\ RefundGoesTo(o, "issue") \/ RefundGoesTo(o, "denied")
    /\ UNCHANGED <<billVars, payoutVars, refundTries, refundCalls, crashes>>

RefundFails(o) ==
    /\ refundTries' = [refundTries EXCEPT ![o] = @ + 1]
    /\ RefundGoesTo(o, IF refundTries[o] + 1 < MaxAttempts THEN "issue" ELSE "failed")

\* issue-refund reads the order's charge; a row that knows none fails the
\* attempt.
ReadCharge(o) ==
    /\ refundAt[o] = "issue"
    /\ IF providerRef[o] THEN RefundGoesTo(o, "issue:call") /\ UNCHANGED refundTries
                         ELSE RefundFails(o)
    /\ UNCHANGED <<billVars, payoutVars, refundCalls, crashes>>

\* The request reaches the provider, which has no key to know a repetition
\* by; its answer arrives or is lost.
AskProvider(o) ==
    /\ refundAt[o] = "issue:call"
    /\ refundCalls' = [refundCalls EXCEPT ![o] = @ + 1]
    /\ \/ RefundGoesTo(o, "issue:memo") /\ UNCHANGED refundTries
       \/ RefundFails(o)
    /\ UNCHANGED payoutVars

\* The first request gives the charge back ...
IssueRefund(o) ==
    /\ AskProvider(o)
    /\ ChargeRefunded(o)

\* ... and a charge already given back is not given back again.
IssueRefundAgain(o) ==
    /\ AskProvider(o)
    /\ refunded[o]
    /\ UNCHANGED <<billVars, crashes>>

ProviderUnreachable(o) ==
    /\ refundAt[o] = "issue:call"
    /\ RefundFails(o)
    /\ UNCHANGED <<billVars, payoutVars, refundCalls, crashes>>

RefundDone(o) ==
    /\ refundAt[o] = "issue:memo"
    /\ RefundGoesTo(o, "refunded")
    /\ UNCHANGED <<billVars, payoutVars, refundTries, refundCalls, crashes>>

\* The worker dies inside the step, which starts again; or the request dies
\* before it starts the run, and the buyer may ask again.
RefundCrash(o) ==
    /\ AProcessDies
    /\ \/ refundAt[o] \in {"issue:call", "issue:memo"} /\ RefundGoesTo(o, "issue")
       \/ refundAt[o] = "asked" /\ HookMayCrash /\ RefundGoesTo(o, "none")
    /\ UNCHANGED <<billVars, payoutVars, refundTries, refundCalls>>

RefundStep(o) ==
    \/ StartRefundRequest(o) \/ DecideRefund(o) \/ ReadCharge(o)
    \/ IssueRefund(o) \/ IssueRefundAgain(o) \/ ProviderUnreachable(o) \/ RefundDone(o)

-----------------------------------------------------------------------------
(* The joints.                                                             *)

\* Slip: only the payout is started; money given back is forgotten.
StartRunForPaidOnly(e) ==
    /\ StartRun(e)
    /\ IF Target(e) = "PAID" THEN StartSellerPayout(EventOrder(e))
                             ELSE UNCHANGED payoutVars
    /\ UNCHANGED refundVars

\* The order was marked PAID, or REFUNDED, by this delivery.
StartRunForOrder(e) ==
    /\ StartRun(e)
    /\ \/ Target(e) = "PAID"     /\ StartSellerPayout(EventOrder(e))
       \/ Target(e) = "REFUNDED" /\ StartPayoutReversal(EventOrder(e))
    /\ UNCHANGED refundVars

\* A charge refunded from the provider's dashboard.
RefundFromDashboard(o) ==
    /\ DashboardRefunds
    /\ ChargeRefunded(o)
    /\ UNCHANGED <<payoutVars, refundVars>>

BillingAlone == UNCHANGED <<payoutVars, refundVars>>
PayoutsAlone == UNCHANGED <<billVars, refundVars>>

SettlementNext ==
    \/ BillingStep /\ BillingAlone
    \/ PayoutsStep /\ PayoutsAlone
    \/ \E e \in BillEvents : StartRunForOrder(e)
    \/ \E o \in Orders : RefundFromDashboard(o) \/ AskRefund(o) \/ RefundStep(o) \/ RefundCrash(o)

SettlementSpec == SettlementInit /\ [][SettlementNext]_settlementVars

\* An event is redelivered until it is answered, and a handler runs to its
\* end; the ticks take every due run; a request that is waiting ends at the
\* latest when its three days have passed.
SettlementFairness ==
    /\ \A e \in BillEvents :
         WF_settlementVars((HandleEvent(e) /\ BillingAlone) \/ StartRunForOrder(e))
    /\ \A e \in AcctEvents : WF_settlementVars(HookStep(e) /\ PayoutsAlone)
    /\ \A o \in Orders :
         /\ WF_settlementVars(PayStep(o) /\ PayoutsAlone)
         /\ WF_settlementVars(RevStep(o) /\ PayoutsAlone)
         /\ WF_settlementVars(RefundStep(o))

FairSettlementSpec == SettlementSpec /\ SettlementFairness

-----------------------------------------------------------------------------
(* The abstract specification.                                             *)

BuyerMoney ==
    [o \in Orders |-> IF ~Charged(o) THEN "owes"
                      ELSE IF refunded[o] THEN "refunded" ELSE "paid"]

SellerMoney ==
    [o \in Orders |-> IF transfers[o] = 0 THEN "nothing"
                      ELSE IF reversals[o] = 0 THEN "sent" ELSE "returned"]

L == INSTANCE Ledger WITH buyer <- BuyerMoney, seller <- SellerMoney

\* The money moves as the ledger says: no transfer before the charge, no
\* reversal before the refund, neither twice, and no two moves in one step.
MoneyFollowsLedger == L!LedgerSpec

-----------------------------------------------------------------------------
(* Properties.                                                             *)

RunOnItsWay(o, status) ==
    \E e \in BillEvents : EventOrder(e) = o /\ billAt[e] = "start" /\ Target(e) = status

\* Money that arrived is money the seller is owed; money given back is money
\* owed back: an order that was marked PAID, or REFUNDED, has its run, or the
\* delivery that marked it is about to start it; and no run is there without.
OrdersHaveTheirRuns ==
    \A o \in Orders :
        /\ payAt[o] # "none" \/ RunOnItsWay(o, "PAID") <=> order[o] \in {"PAID", "REFUNDED"}
        /\ revAt[o] # "none" \/ RunOnItsWay(o, "REFUNDED") <=> order[o] = "REFUNDED"

\* A run is started only on the transition, so a replayed delivery cannot
\* start it twice: whoever is about to start one does not find it there.
RunsStartOnce ==
    \A e \in BillEvents :
        billAt[e] = "start" =>
            \/ Target(e) = "PAID"     /\ payAt[EventOrder(e)] = "none"
            \/ Target(e) = "REFUNDED" /\ revAt[EventOrder(e)] = "none"

\* The provider call is the side effect that must happen exactly once: one
\* approved request asks the provider to give the charge back once.
RefundIsAskedOnce == \A o \in Orders : refundCalls[o] <= 1

\* Money that arrived is money the seller is owed: every charge ends up as a
\* payout row.
ChargeIsOwed == \A o \in Orders : Charged(o) ~> payout[o] # "absent"

\* A refund request is denied, or spends its attempts, or the reversal of the
\* seller's share runs to its end, whether or not the dashboard refunds it too.
RefundRequestSettles ==
    \A o \in Orders :
        refundAt[o] = "asked" /\ RefundUnheard(o) ~>
            \/ refundAt[o] \in {"denied", "failed"}
            \/ revAt[o] \in RevEnded
=============================================================================
