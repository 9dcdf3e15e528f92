-------------------------- MODULE SettlementProofs --------------------------
(***************************************************************************)
(* Theorems about the composed system.  First, that it behaves as each of  *)
(* its components: what is proved of Billing and of Payouts then holds of  *)
(* it.  Second, that a run exists only because a delivery won the order's  *)
(* transition (RunInv), from which the joint invariants follow.  Third,    *)
(* that the money of a sale moves as the abstract Ledger says.             *)
(***************************************************************************)
EXTENDS Settlement, BillingProofs, PayoutsProofs

-----------------------------------------------------------------------------
(* The components.                                                          *)

\* What the composed system does to the billing side is what Billing does.
THEOREM ImplementsBilling == SettlementSpec => BillingSpec
  <1>1. SettlementInit => BillingInit
    BY DEF SettlementInit
  <1>2. [SettlementNext]_settlementVars => [BillingNext]_billingVars
    <2> SUFFICES ASSUME [SettlementNext]_settlementVars
                 PROVE  BillingNext \/ UNCHANGED billingVars
      OBVIOUS
    <2>1. CASE PayoutsStep /\ PayoutsAlone
      <3>1. UNCHANGED billVars
        BY <2>1 DEF PayoutsAlone
      <3>2. crashes' = crashes \/ AProcessDies
        BY <2>1 DEF PayoutsStep, PayStep, RevStep, HookStep, PayCrash, RevCrash, HookCrash,
           RecordOwed, RecordOwedUpsert, RecordOwedReadAccount, RecordOwedDone, Wake, TransferBegin,
           PayoutToSend, TransferReadAccount, TransferSent, TransferRefused, TransferDone, MarkSent,
           MarkSentDone, FindPayout, CancelRun, CancelPayout, ReverseTransfer, ReverseRefused,
           MarkReversed, ClaimAcctEvent, SyncPayoutAccount, ListParkedRuns, SignalRun,
           FinishAcctEvent, StartPayoutOnboarding, StandingChanges
      <3> QED
        BY <3>1, <3>2 DEF BillingNext, OtherProcessDies, billingVars
    <2>2. ASSUME NEW o \in Orders,
                 RefundFromDashboard(o) \/ AskRefund(o) \/ RefundStep(o) \/ RefundCrash(o)
          PROVE  BillingNext \/ UNCHANGED billingVars
      BY <2>2 DEF BillingNext, OtherProcessDies, billingVars, RefundFromDashboard, AskRefund,
         RefundStep, RefundCrash, StartRefundRequest, DecideRefund, ReadCharge, IssueRefund,
         IssueRefundAgain, ProviderUnreachable, RefundDone
    <2>3. CASE UNCHANGED settlementVars
      BY <2>3 DEF settlementVars, billingVars
    <2> QED
      BY <2>1, <2>2, <2>3 DEF SettlementNext, BillingNext, StartRunForOrder
  <1> QED
    BY <1>1, <1>2, PTL DEF SettlementSpec, BillingSpec

\* What the composed system does to the payout side is what Payouts does.
THEOREM ImplementsPayouts == SettlementSpec => PayoutsSpec
  <1>1. SettlementInit => PayoutsInit
    BY DEF SettlementInit
  <1>2. [SettlementNext]_settlementVars => [PayoutsNext]_payoutsVars
    <2> SUFFICES ASSUME [SettlementNext]_settlementVars
                 PROVE  PayoutsNext \/ UNCHANGED payoutsVars
      OBVIOUS
    <2>1. CASE BillingStep /\ BillingAlone
      <3>1. UNCHANGED payoutVars
        BY <2>1 DEF BillingAlone
      <3>2. crashes' = crashes \/ AProcessDies
        BY <2>1 DEF BillingStep, CheckoutStep, BuyerStep, HandleEvent, StartOrderCheckout,
           CreateSession, SaveCheckoutRef, CheckoutRefused, CheckoutCrash, SessionMovesTo,
           ClaimEvent, LookupOrder, UpdateOrder, BillCrash
      <3> QED
        BY <3>1, <3>2 DEF PayoutsNext, OtherCrash, payoutsVars
    <2>2. ASSUME NEW e \in BillEvents, StartRunForOrder(e) PROVE PayoutsNext
      BY <2>2, EventsAreAboutOrders, RefundableAssumption DEF StartRunForOrder, PayoutsNext, SaleStep
    <2>3. ASSUME NEW o \in Orders,
                 RefundFromDashboard(o) \/ AskRefund(o) \/ RefundStep(o) \/ RefundCrash(o)
          PROVE  PayoutsNext \/ UNCHANGED payoutsVars
      <3>1. UNCHANGED payoutVars /\ (crashes' = crashes \/ AProcessDies)
        BY <2>3 DEF RefundFromDashboard, AskRefund, ChargeRefunded, AskProvider,
           RefundStep, RefundCrash, StartRefundRequest, DecideRefund, ReadCharge, IssueRefund,
           IssueRefundAgain, ProviderUnreachable, RefundDone
      <3> QED
        BY <3>1 DEF PayoutsNext, OtherCrash, payoutsVars
    <2>4. CASE UNCHANGED settlementVars
      BY <2>4 DEF settlementVars, payoutsVars
    <2> QED
      BY <2>1, <2>2, <2>3, <2>4 DEF SettlementNext, PayoutsNext
  <1> QED
    BY <1>1, <1>2, PTL DEF SettlementSpec, PayoutsSpec

\* The components' invariants, as the composed system keeps them.
ComponentInv == BillInv /\ OneWinner /\ OrderInv

LEMMA ComponentInvariant == SettlementSpec => []ComponentInv
  <1>1. SettlementSpec => []BillInv
    BY ImplementsBilling, BillInvariant, PTL
  <1>2. SettlementSpec => []OneWinner
    BY ImplementsBilling, OneWinnerHolds, PTL
  <1>3. SettlementSpec => []OrderInv
    BY ImplementsPayouts, OrderInvariant, PTL
  <1> QED
    BY <1>1, <1>2, <1>3, PTL DEF ComponentInv

-----------------------------------------------------------------------------
(* Runs and the deliveries that won them.                                   *)

\* A delivery moved the order to status, and is past starting its run.
Won(f, o, status) ==
    /\ EventOrder(f) = o
    /\ Target(f) = status
    /\ billOutcome[f] = "transitioned"
    /\ billAt[f] # "start"

RunInv(o) ==
    /\ payAt[o] # "none" => \E f \in BillEvents : Won(f, o, "PAID")
    /\ revAt[o] # "none" => \E f \in BillEvents : Won(f, o, "REFUNDED")

\* A delivery that has won stays a winner, whatever billing does next.
LEMMA WinnersStay ==
  ASSUME BillInv, [BillingNext]_billingVars, NEW f \in BillEvents,
         billOutcome[f] = "transitioned"
  PROVE  /\ billOutcome'[f] = "transitioned"
         /\ Target(f)' = Target(f)
         /\ billAt[f] # "start" => billAt'[f] # "start"
  <1>0. /\ Happened(f)
        /\ billAt[f] \notin {"none", "lookup", "update"}
    BY DEF BillInv, EventInv
  <1>1. ASSUME NEW o \in Orders, CheckoutStep(o) \/ BuyerStep(o) \/ ChargeRefunded(o)
        PROVE  Target(f)' = Target(f) /\ UNCHANGED <<billAt, billOutcome>>
    <2>1. \/ UNCHANGED <<session, refunded>>
          \/ CreateSession(o) \/ ChargeRefunded(o) \/ \E to \in Sessions : SessionMovesTo(o, to)
      BY <1>1 DEF CheckoutStep, BuyerStep, StartOrderCheckout, SaveCheckoutRef,
         CheckoutRefused, CheckoutCrash, chargeVars
    <2>2. UNCHANGED <<billAt, billOutcome>>
      BY <1>1 DEF CheckoutStep, BuyerStep, StartOrderCheckout, CreateSession, SaveCheckoutRef,
         CheckoutRefused, CheckoutCrash, SessionMovesTo, ChargeRefunded
    <2> QED
      BY <1>0, <2>1, <2>2, FactsStay
  <1>2. ASSUME NEW e \in BillEvents, ClaimEvent(e) \/ LookupOrder(e) \/ UpdateOrder(e) \/ StartRun(e) \/ BillCrash(e)
        PROVE  /\ billOutcome'[f] = "transitioned"
               /\ Target(f)' = Target(f)
               /\ billAt[f] # "start" => billAt'[f] # "start"
    <2>1. UNCHANGED session
      BY <1>2 DEF ClaimEvent, LookupOrder, UpdateOrder, StartRun, BillCrash, chargeVars
    <2>2. CASE e = f
      BY <1>0, <1>2, <2>1, <2>2
      DEF ClaimEvent, LookupOrder, UpdateOrder, StartRun, BillCrash, Target, Normalize,
          BillInv, TypeOKBilling
    <2>3. CASE e # f
      BY <1>0, <1>2, <2>1, <2>3
      DEF ClaimEvent, LookupOrder, UpdateOrder, StartRun, BillCrash, Answer, Target, Normalize,
          BillInv, TypeOKBilling
    <2> QED
      BY <2>2, <2>3
  <1>3. CASE OtherProcessDies \/ UNCHANGED billingVars
    BY <1>3 DEF OtherProcessDies, billingVars, billVars, chargeVars, Target, Normalize
  <1> QED
    BY <1>1, <1>2, <1>3 DEF BillingNext, BillingStep, HandleEvent

\* The payout side on its own starts no run.
LEMMA PayoutsStartNothing ==
  ASSUME OrderInv, PayoutsStep, NEW p \in Orders
  PROVE  /\ payAt[p] = "none" => payAt'[p] = "none"
         /\ revAt[p] = "none" => revAt'[p] = "none"
  <1> USE DEF OrderInv, TypeOK, payVars, revVars, PayGoesTo, RevGoesTo, TransferFails, ReverseFails
  <1>1. ASSUME NEW o \in Orders, PayStep(o) \/ PayCrash(o)
        PROVE  (payAt[p] = "none" => payAt'[p] = "none") /\ UNCHANGED revAt
    BY <1>1 DEF PayStep, PayCrash, PayInsideStep, RecordOwed, RecordOwedUpsert,
       RecordOwedReadAccount, RecordOwedDone, Wake, TransferBegin, PayoutToSend,
       TransferReadAccount, TransferSent, TransferRefused, TransferDone, MarkSent, MarkSentDone
  <1>2. ASSUME NEW o \in Orders, RevStep(o) \/ RevCrash(o)
        PROVE  (revAt[p] = "none" => revAt'[p] = "none") /\ UNCHANGED payAt
    BY <1>2 DEF RevStep, RevCrash, FindPayout, CancelRun, CancelPayout, ReverseTransfer,
       ReverseRefused, MarkReversed
  <1>3. ASSUME NEW e \in AcctEvents, HookStep(e) \/ HookCrash(e) PROVE UNCHANGED <<payAt, revAt>>
    BY <1>3 DEF HookStep, HookCrash, ClaimAcctEvent, SyncPayoutAccount, ListParkedRuns,
       SignalRun, FinishAcctEvent
  <1>4. ASSUME NEW s \in Sellers, StartPayoutOnboarding(s) PROVE UNCHANGED <<payAt, revAt>>
    BY <1>4 DEF StartPayoutOnboarding
  <1>5. ASSUME NEW s \in Sellers, NEW e \in AcctEvents, StandingChanges(s, e)
        PROVE  UNCHANGED <<payAt, revAt>>
    BY <1>5 DEF StandingChanges
  <1> QED
    BY <1>1, <1>2, <1>3, <1>4, <1>5 DEF PayoutsStep

\* The payout side leaves the runs alone unless it moves by itself or a
\* delivery starts one.
LEMMA OthersLeaveRuns ==
  ASSUME [SettlementNext]_settlementVars, ~(PayoutsStep /\ PayoutsAlone),
         \A e \in BillEvents : ~StartRunForOrder(e)
  PROVE  UNCHANGED payoutVars
  <1>1. ASSUME NEW o \in Orders,
               RefundFromDashboard(o) \/ AskRefund(o) \/ RefundStep(o) \/ RefundCrash(o)
        PROVE  UNCHANGED payoutVars
    BY <1>1 DEF RefundFromDashboard, AskRefund, RefundStep, RefundCrash, StartRefundRequest,
       DecideRefund, ReadCharge, IssueRefund, IssueRefundAgain, ProviderUnreachable, RefundDone, AskProvider
  <1> QED
    BY <1>1 DEF SettlementNext, BillingAlone, settlementVars

LEMMA RunInvStep ==
  ASSUME ComponentInv, [SettlementNext]_settlementVars, [BillingNext]_billingVars,
         NEW p \in Orders, RunInv(p)
  PROVE  RunInv(p)'
  <1>1. ASSUME NEW status, \E f \in BillEvents : Won(f, p, status)
        PROVE  (\E f \in BillEvents : Won(f, p, status))'
    BY <1>1, WinnersStay DEF ComponentInv, Won, BillEvents, EventOrder
  <1>2. CASE PayoutsStep /\ PayoutsAlone
    BY <1>1, <1>2, PayoutsStartNothing DEF ComponentInv, RunInv
  <1>3. ASSUME NEW e \in BillEvents, StartRunForOrder(e) PROVE RunInv(p)'
    <2>1. EventInv(e) /\ StartRun(e) /\ TypeOKBilling /\ TypeOK
      BY <1>3 DEF StartRunForOrder, ComponentInv, BillInv, OrderInv
    <2>2. Won(e, EventOrder(e), Target(e))'
      BY <2>1 DEF StartRun, EventInv, Won, TypeOKBilling, Target, Normalize, EventOrder, Kind, chargeVars
    <2>3. Target(e)' = Target(e)
      BY <2>1 DEF StartRun, Target, Normalize, chargeVars
    <2>4. CASE Target(e) = "PAID" /\ StartSellerPayout(EventOrder(e))
      <3>1. revAt' = revAt /\ \A o \in Orders : o # EventOrder(e) => payAt'[o] = payAt[o]
        BY <2>1, <2>4 DEF StartSellerPayout, PayGoesTo, TypeOK, revVars
      <3> QED
        BY <1>1, <2>2, <2>3, <2>4, <3>1 DEF RunInv, EventOrder
    <2>5. CASE Target(e) = "REFUNDED" /\ StartPayoutReversal(EventOrder(e))
      <3>1. payAt' = payAt /\ \A o \in Orders : o # EventOrder(e) => revAt'[o] = revAt[o]
        BY <2>1, <2>5 DEF StartPayoutReversal, RevGoesTo, TypeOK, payVars
      <3> QED
        BY <1>1, <2>2, <2>3, <2>5, <3>1 DEF RunInv, EventOrder
    <2> QED
      BY <1>3, <2>4, <2>5 DEF StartRunForOrder
  <1>4. CASE UNCHANGED payoutVars
    BY <1>1, <1>4 DEF RunInv, payoutVars, payVars, revVars
  <1> QED
    BY <1>2, <1>3, <1>4, OthersLeaveRuns

LEMMA RunInvariant == SettlementSpec => []\A o \in Orders : RunInv(o)
  <1>1. SettlementInit => \A o \in Orders : RunInv(o)
    BY DEF SettlementInit, PayoutsInit, RunInv
  <1>2. ComponentInv /\ (\A o \in Orders : RunInv(o))
          /\ [SettlementNext]_settlementVars /\ [BillingNext]_billingVars
          => (\A o \in Orders : RunInv(o))'
    BY RunInvStep
  <1>3. BillingSpec => [][BillingNext]_billingVars
    BY PTL DEF BillingSpec
  <1> QED
    BY <1>1, <1>2, <1>3, ComponentInvariant, ImplementsBilling, PTL DEF SettlementSpec

\* A replayed delivery cannot start a run twice: one event wins the order's
\* transition, and the run of another winner is not there.
THEOREM RunsStartOnceHolds == SettlementSpec => []RunsStartOnce
  <1>1. ComponentInv /\ (\A o \in Orders : RunInv(o)) => RunsStartOnce
    <2> SUFFICES ASSUME ComponentInv, \A o \in Orders : RunInv(o),
                        NEW e \in BillEvents, billAt[e] = "start"
                 PROVE  \/ Target(e) = "PAID"     /\ payAt[EventOrder(e)] = "none"
                        \/ Target(e) = "REFUNDED" /\ revAt[EventOrder(e)] = "none"
      BY DEF RunsStartOnce
    <2>1. billOutcome[e] = "transitioned" /\ Target(e) \in {"PAID", "REFUNDED"}
      BY DEF ComponentInv, BillInv, EventInv
    <2>2. \A f \in BillEvents : ~Won(f, EventOrder(e), Target(e))
      BY <2>1 DEF ComponentInv, OneWinner, Won
    <2> QED
      BY <2>1, <2>2, EventsAreAboutOrders DEF RunInv
  <1> QED
    BY <1>1, ComponentInvariant, RunInvariant, PTL

-----------------------------------------------------------------------------
(* Money moves as the ledger says.                                          *)

\* A run is there only for a charge that arrived, or that was given back.
LEMMA RunsHaveCause ==
  ASSUME ComponentInv, NEW o \in Orders, RunInv(o)
  PROVE  /\ payAt[o] # "none" => Charged(o)
         /\ revAt[o] # "none" => Charged(o) /\ refunded[o]
  BY DEF ComponentInv, BillInv, SaleInv, StatusInv, EventInv, RunInv, Won

LEMMA PayoutsFollowLedger ==
  ASSUME ComponentInv, \A o \in Orders : RunInv(o), PayoutsStep, PayoutsAlone
  PROVE  L!LedgerNext \/ UNCHANGED <<BuyerMoney, SellerMoney>>
  <1>1. BuyerMoney' = BuyerMoney
    BY DEF PayoutsAlone, billVars, chargeVars, BuyerMoney, Charged
  <1>2. ASSUME NEW o \in Orders, TransferSent(o)
        PROVE  L!LedgerNext \/ UNCHANGED <<BuyerMoney, SellerMoney>>
    <2>1. /\ Charged(o)
          /\ reversals' = reversals /\ transfers' = [transfers EXCEPT ![o] = IF @ = 0 THEN 1 ELSE @]
          /\ transfers \in [Orders -> Nat] /\ reversals \in [Orders -> Nat]
          /\ MoneyInv(o)
      BY <1>2, RunsHaveCause DEF TransferSent, MakeTransfer, ComponentInv, OrderInv, TypeOK
    <2>2. CASE transfers[o] = 0
      <3>0. /\ transfers'[o] = 1 /\ reversals[o] = 0
            /\ \A q \in Orders : q # o => transfers'[q] = transfers[q]
        BY <2>1, <2>2 DEF MoneyInv
      <3>1. SellerMoney[o] = "nothing" /\ SellerMoney' = [SellerMoney EXCEPT ![o] = "sent"]
        <4>1. SellerMoney[o] = "nothing" /\ SellerMoney'[o] = "sent"
          BY <2>1, <2>2, <3>0 DEF SellerMoney
        <4>2. \A q \in Orders : q # o => SellerMoney'[q] = SellerMoney[q]
          BY <2>1, <3>0 DEF SellerMoney
        <4>3. /\ SellerMoney = [q \in Orders |-> SellerMoney[q]]
              /\ SellerMoney' = [q \in Orders |-> SellerMoney'[q]]
          BY DEF SellerMoney
        <4> QED
          BY <4>1, <4>2, <4>3
      <3>2. BuyerMoney[o] # "owes"
        BY <2>1 DEF BuyerMoney
      <3> QED
        BY <1>1, <3>1, <3>2 DEF L!LedgerNext, L!SellerIsSent
    <2>3. CASE transfers[o] # 0
      BY <1>1, <2>1, <2>3 DEF SellerMoney
    <2> QED
      BY <2>2, <2>3
  <1>3. ASSUME NEW o \in Orders, ReverseTransfer(o)
        PROVE  L!LedgerNext \/ UNCHANGED <<BuyerMoney, SellerMoney>>
    <2>1. /\ Charged(o) /\ refunded[o]
          /\ transfers' = transfers /\ reversals' = [reversals EXCEPT ![o] = IF @ = 0 THEN 1 ELSE @]
          /\ transfers \in [Orders -> Nat] /\ reversals \in [Orders -> Nat]
          /\ transfers[o] = 1
      BY <1>3, RunsHaveCause
      DEF ReverseTransfer, MakeReversal, ComponentInv, OrderInv, TypeOK, FoundInv, MoneyInv
    <2>2. CASE reversals[o] = 0
      <3>0. /\ reversals'[o] = 1
            /\ \A q \in Orders : q # o => reversals'[q] = reversals[q]
        BY <2>1, <2>2
      <3>1. SellerMoney[o] = "sent" /\ SellerMoney' = [SellerMoney EXCEPT ![o] = "returned"]
        <4>1. SellerMoney[o] = "sent" /\ SellerMoney'[o] = "returned"
          BY <2>1, <2>2, <3>0 DEF SellerMoney
        <4>2. \A q \in Orders : q # o => SellerMoney'[q] = SellerMoney[q]
          BY <2>1, <3>0 DEF SellerMoney
        <4>3. /\ SellerMoney = [q \in Orders |-> SellerMoney[q]]
              /\ SellerMoney' = [q \in Orders |-> SellerMoney'[q]]
          BY DEF SellerMoney
        <4> QED
          BY <4>1, <4>2, <4>3
      <3>2. BuyerMoney[o] = "refunded"
        BY <2>1 DEF BuyerMoney
      <3> QED
        BY <1>1, <3>1, <3>2 DEF L!LedgerNext, L!SellerReturns
    <2>3. CASE reversals[o] # 0
      BY <1>1, <2>1, <2>3 DEF SellerMoney
    <2> QED
      BY <2>2, <2>3
  <1>4. CASE UNCHANGED <<transfers, reversals>>
    BY <1>1, <1>4 DEF SellerMoney
  <1>5. \/ UNCHANGED <<transfers, reversals>>
        \/ \E o \in Orders : TransferSent(o) \/ ReverseTransfer(o)
    BY DEF PayoutsStep, PayStep, RevStep, HookStep, PayCrash, RevCrash, HookCrash,
       RecordOwed, RecordOwedUpsert, RecordOwedReadAccount, RecordOwedDone, Wake, TransferBegin,
       PayoutToSend, TransferReadAccount, TransferRefused, TransferDone, MarkSent,
       MarkSentDone, FindPayout, CancelRun, CancelPayout, ReverseRefused,
       MarkReversed, ClaimAcctEvent, SyncPayoutAccount, ListParkedRuns, SignalRun,
       FinishAcctEvent, StartPayoutOnboarding, StandingChanges, providerVars
  <1> QED
    BY <1>2, <1>3, <1>4, <1>5

LEMMA BuyersFollowLedger ==
  ASSUME ComponentInv, NEW o \in Orders, UNCHANGED SellerMoney,
         ChargeRefunded(o) \/ \E to \in Sessions : SessionMovesTo(o, to)
  PROVE  L!LedgerNext \/ UNCHANGED <<BuyerMoney, SellerMoney>>
  <1> USE DEF ComponentInv, BillInv, TypeOKBilling
  <1>1. CASE ChargeRefunded(o)
    <2>1. BuyerMoney[o] = "paid" /\ BuyerMoney' = [BuyerMoney EXCEPT ![o] = "refunded"]
      BY <1>1 DEF ChargeRefunded, BuyerMoney, Charged
    <2> QED
      BY <2>1 DEF L!LedgerNext, L!BuyerIsRefunded
  <1>2. ASSUME NEW to \in Sessions, SessionMovesTo(o, to)
        PROVE  L!LedgerNext \/ UNCHANGED <<BuyerMoney, SellerMoney>>
    <2>1. ~Charged(o) /\ ~refunded[o] /\ refunded' = refunded
      BY <1>2 DEF SessionMovesTo, SessionMoves, Charged, SaleInv, StatusInv
    <2>2. session' = [session EXCEPT ![o] = to]
      BY <1>2 DEF SessionMovesTo
    <2>3. CASE to \in {"paid", "async_paid"}
      <3>1. BuyerMoney[o] = "owes" /\ BuyerMoney' = [BuyerMoney EXCEPT ![o] = "paid"]
        BY <2>1, <2>2, <2>3 DEF BuyerMoney, Charged
      <3> QED
        BY <3>1 DEF L!LedgerNext, L!BuyerPays
    <2>4. CASE to \notin {"paid", "async_paid"}
      BY <2>1, <2>2, <2>4 DEF BuyerMoney, Charged
    <2> QED
      BY <2>3, <2>4
  <1> QED
    BY <1>1, <1>2

\* The composed system implements the abstract ledger, for every number of
\* orders, copies, events, attempts and crashes.
THEOREM MoneyFollowsLedgerHolds == SettlementSpec => MoneyFollowsLedger
  <1>1. SettlementInit => L!LedgerInit
    BY DEF SettlementInit, BillingInit, PayoutsInit, L!LedgerInit, BuyerMoney, SellerMoney, Charged
  <1>2. ASSUME ComponentInv, \A o \in Orders : RunInv(o), [SettlementNext]_settlementVars
        PROVE  L!LedgerNext \/ UNCHANGED <<BuyerMoney, SellerMoney>>
    <2>1. CASE PayoutsStep /\ PayoutsAlone
      BY <1>2, <2>1, PayoutsFollowLedger
    <2>2. CASE ~(PayoutsStep /\ PayoutsAlone)
      <3>1. UNCHANGED SellerMoney
        <4>1. ASSUME NEW e \in BillEvents, StartRunForOrder(e) PROVE UNCHANGED <<transfers, reversals>>
          BY <4>1 DEF StartRunForOrder, StartSellerPayout, StartPayoutReversal, providerVars
        <4>2. CASE UNCHANGED payoutVars
          BY <4>2 DEF payoutVars, providerVars, SellerMoney
        <4> QED
          BY <1>2, <2>2, <4>1, <4>2, OthersLeaveRuns DEF SellerMoney
      <3>2. ASSUME NEW o \in Orders, ChargeRefunded(o) \/ BuyerStep(o)
            PROVE  L!LedgerNext \/ UNCHANGED <<BuyerMoney, SellerMoney>>
        BY <1>2, <3>1, <3>2, BuyersFollowLedger DEF BuyerStep
      <3>3. CASE UNCHANGED <<session, refunded>>
        BY <3>1, <3>3 DEF BuyerMoney, Charged
      <3>4. ASSUME NEW o \in Orders, CreateSession(o)
            PROVE  UNCHANGED <<BuyerMoney, SellerMoney>>
        <4>1. ~Charged(o)
          BY <1>2, <3>4 DEF CreateSession, ComponentInv, BillInv, SaleInv, RefInv, Charged
        <4> QED
          BY <1>2, <3>1, <3>4, <4>1
          DEF CreateSession, BuyerMoney, Charged, ComponentInv, BillInv, TypeOKBilling
      <3>5. \/ UNCHANGED <<session, refunded>>
            \/ \E o \in Orders : ChargeRefunded(o) \/ BuyerStep(o) \/ CreateSession(o)
        <4>1. CASE BillingStep
          BY <4>1 DEF BillingStep, CheckoutStep, HandleEvent, StartOrderCheckout, SaveCheckoutRef,
             CheckoutRefused, CheckoutCrash, ClaimEvent, LookupOrder, UpdateOrder, BillCrash, chargeVars
        <4>2. ASSUME NEW e \in BillEvents, StartRunForOrder(e) PROVE UNCHANGED <<session, refunded>>
          BY <4>2 DEF StartRunForOrder, StartRun, chargeVars
        <4>3. ASSUME NEW o \in Orders,
                     RefundFromDashboard(o) \/ AskRefund(o) \/ RefundStep(o) \/ RefundCrash(o)
              PROVE  ChargeRefunded(o) \/ UNCHANGED <<session, refunded>>
          BY <4>3 DEF RefundFromDashboard, AskRefund, RefundStep, RefundCrash, StartRefundRequest,
             DecideRefund, ReadCharge, IssueRefund, IssueRefundAgain, ProviderUnreachable, RefundDone,
             billVars, chargeVars
        <4>4. CASE UNCHANGED settlementVars
          BY <4>4 DEF settlementVars, billVars, chargeVars
        <4> QED
          BY <1>2, <2>2, <4>1, <4>2, <4>3, <4>4 DEF SettlementNext
      <3> QED
        BY <3>2, <3>3, <3>4, <3>5
    <2> QED
      BY <2>1, <2>2
  <1>3. ComponentInv /\ (\A o \in Orders : RunInv(o)) /\ [SettlementNext]_settlementVars
          => [L!LedgerNext]_(L!ledgerVars)
    BY <1>2 DEF L!ledgerVars
  <1>4. SettlementSpec => L!LedgerSpec
    BY <1>1, <1>3, ComponentInvariant, RunInvariant, PTL DEF SettlementSpec, L!LedgerSpec
  <1> QED
    BY <1>4 DEF MoneyFollowsLedger

-----------------------------------------------------------------------------
(* Orders have their runs.                                                  *)

\* One order's side of one status, for the run that belongs to the status.
HasRun(o, status) ==
    IF status = "PAID" THEN payAt[o] # "none" \/ RunOnItsWay(o, "PAID")
                       ELSE revAt[o] # "none" \/ RunOnItsWay(o, "REFUNDED")

RunsInv(o) ==
    /\ order[o] \in {"PAID", "REFUNDED"} => HasRun(o, "PAID")
    /\ order[o] = "REFUNDED" => HasRun(o, "REFUNDED")

\* A run that was started is there for good.
LEMMA RunsStayStarted ==
  ASSUME OrderInv, [PayoutsNext]_payoutsVars, NEW p \in Orders
  PROVE  /\ payAt[p] # "none" => payAt'[p] # "none"
         /\ revAt[p] # "none" => revAt'[p] # "none"
  <1> USE DEF OrderInv, TypeOK, payVars, revVars, PayGoesTo, RevGoesTo, TransferFails, ReverseFails
  <1>1. ASSUME NEW o \in Orders, PayStep(o) \/ PayCrash(o) \/ StartSellerPayout(o)
        PROVE  (payAt[p] # "none" => payAt'[p] # "none") /\ UNCHANGED revAt
    BY <1>1 DEF PayStep, PayCrash, StepStart, StartSellerPayout, RecordOwed, RecordOwedUpsert,
       RecordOwedReadAccount, RecordOwedDone, Wake, TransferBegin, PayoutToSend,
       TransferReadAccount, TransferSent, TransferRefused, TransferDone, MarkSent, MarkSentDone
  <1>2. ASSUME NEW o \in Orders, RevStep(o) \/ RevCrash(o) \/ StartPayoutReversal(o)
        PROVE  (revAt[p] # "none" => revAt'[p] # "none") /\ UNCHANGED payAt
    BY <1>2 DEF RevStep, RevCrash, StartPayoutReversal, FindPayout, CancelRun, CancelPayout,
       ReverseTransfer, ReverseRefused, MarkReversed
  <1>3. ASSUME NEW e \in AcctEvents, HookStep(e) \/ HookCrash(e) PROVE UNCHANGED <<payAt, revAt>>
    BY <1>3 DEF HookStep, HookCrash, ClaimAcctEvent, SyncPayoutAccount, ListParkedRuns,
       SignalRun, FinishAcctEvent
  <1>4. ASSUME NEW s \in Sellers, StartPayoutOnboarding(s) PROVE UNCHANGED <<payAt, revAt>>
    BY <1>4 DEF StartPayoutOnboarding
  <1>5. ASSUME NEW s \in Sellers, NEW e \in AcctEvents, StandingChanges(s, e)
        PROVE  UNCHANGED <<payAt, revAt>>
    BY <1>5 DEF StandingChanges
  <1>6. CASE OtherCrash \/ UNCHANGED payoutsVars
    BY <1>6 DEF OtherCrash, payoutsVars, payoutVars
  <1> QED
    BY <1>1, <1>2, <1>3, <1>4, <1>5, <1>6, BoundsAssumption
    DEF PayoutsNext, PayoutsStep, SaleStep

\* A delivery about to start a run is only moved by starting it.
LEMMA DeliveriesGoOn ==
  ASSUME HookMayCrash = FALSE, BillInv, [SettlementNext]_settlementVars,
         NEW e \in BillEvents, billAt[e] = "start", ~StartRunForOrder(e)
  PROVE  billAt'[e] = "start"
  <1>1. CASE BillingStep
    <2>1. ASSUME NEW o \in Orders, CheckoutStep(o) \/ BuyerStep(o) PROVE UNCHANGED billAt
      BY <2>1 DEF CheckoutStep, BuyerStep, StartOrderCheckout, CreateSession, SaveCheckoutRef,
         CheckoutRefused, CheckoutCrash, SessionMovesTo
    <2>2. ASSUME NEW f \in BillEvents, ClaimEvent(f) \/ LookupOrder(f) \/ UpdateOrder(f)
          PROVE  billAt'[e] = "start"
      <3>1. f # e
        BY <2>2 DEF ClaimEvent, LookupOrder, UpdateOrder
      <3> QED
        BY <2>2, <3>1 DEF ClaimEvent, LookupOrder, UpdateOrder, Answer, BillInv, TypeOKBilling
    <2>3. ASSUME NEW f \in BillEvents PROVE ~BillCrash(f)
      BY DEF BillCrash
    <2> QED
      BY <1>1, <2>1, <2>2, <2>3 DEF BillingStep, HandleEvent
  <1>2. ASSUME NEW f \in BillEvents, StartRunForOrder(f) PROVE billAt'[e] = "start"
    BY <1>2 DEF StartRunForOrder, StartRun, BillInv, TypeOKBilling
  <1>3. CASE PayoutsStep /\ PayoutsAlone
    BY <1>3 DEF PayoutsAlone, billVars
  <1>4. ASSUME NEW o \in Orders,
               RefundFromDashboard(o) \/ AskRefund(o) \/ RefundStep(o) \/ RefundCrash(o)
        PROVE  UNCHANGED billAt
    BY <1>4 DEF RefundFromDashboard, ChargeRefunded, AskRefund, RefundStep, RefundCrash,
       StartRefundRequest, DecideRefund, ReadCharge, IssueRefund, IssueRefundAgain,
       ProviderUnreachable, RefundDone, billVars
  <1>5. CASE UNCHANGED settlementVars
    BY <1>5 DEF settlementVars, billVars
  <1> QED
    BY <1>1, <1>2, <1>3, <1>4, <1>5 DEF SettlementNext

\* A run that is there, or on its way, stays one of the two, unless the
\* process that was to start it dies.
LEMMA HasRunStays ==
  ASSUME HookMayCrash = FALSE, ComponentInv, [SettlementNext]_settlementVars,
         [BillingNext]_billingVars, [PayoutsNext]_payoutsVars,
         NEW o \in Orders, NEW status \in {"PAID", "REFUNDED"}, HasRun(o, status)
  PROVE  HasRun(o, status)'
  <1>1. ASSUME NEW e \in BillEvents, StartRunForOrder(e) PROVE HasRun(o, status)'
    <2>0. StartRun(e) /\ TypeOKBilling /\ TypeOK
      BY <1>1 DEF StartRunForOrder, ComponentInv, BillInv, OrderInv
    <2>1. \A f \in BillEvents : Target(f)' = Target(f) /\ (f # e => billAt'[f] = billAt[f])
      BY <2>0 DEF StartRun, Target, Normalize, chargeVars, TypeOKBilling
    <2>2. CASE Target(e) = "PAID" /\ StartSellerPayout(EventOrder(e))
      <3>1. revAt' = revAt /\ payAt' = [payAt EXCEPT ![EventOrder(e)] = "record-owed"]
        BY <2>2 DEF StartSellerPayout, PayGoesTo, revVars
      <3> QED
        BY <2>0, <2>1, <2>2, <3>1 DEF HasRun, RunOnItsWay, TypeOK, EventOrder, BillEvents
    <2>3. CASE Target(e) = "REFUNDED" /\ StartPayoutReversal(EventOrder(e))
      <3>1. payAt' = payAt /\ revAt' = [revAt EXCEPT ![EventOrder(e)] = "find-payout"]
        BY <2>3 DEF StartPayoutReversal, RevGoesTo, payVars
      <3> QED
        BY <2>0, <2>1, <2>3, <3>1 DEF HasRun, RunOnItsWay, TypeOK, EventOrder, BillEvents
    <2> QED
      BY <1>1, <2>2, <2>3 DEF StartRunForOrder
  <1>2. ASSUME \A e \in BillEvents : ~StartRunForOrder(e) PROVE HasRun(o, status)'
    <2>1. /\ payAt[o] # "none" => payAt'[o] # "none"
          /\ revAt[o] # "none" => revAt'[o] # "none"
      BY RunsStayStarted DEF ComponentInv
    <2>2. ASSUME NEW e \in BillEvents, billAt[e] = "start"
          PROVE  billAt'[e] = "start"
      BY <1>2, <2>2, DeliveriesGoOn DEF ComponentInv
    <2>3. ASSUME NEW e \in BillEvents, billAt[e] = "start"
          PROVE  Target(e)' = Target(e)
      BY <2>3, WinnersStay DEF ComponentInv, BillInv, EventInv
    <2> QED
      BY <2>1, <2>2, <2>3 DEF HasRun, RunOnItsWay, EventOrder, BillEvents
  <1> QED
    BY <1>1, <1>2

LEMMA RunsInvStep ==
  ASSUME HookMayCrash = FALSE, ComponentInv, [SettlementNext]_settlementVars,
         [BillingNext]_billingVars, [PayoutsNext]_payoutsVars,
         NEW p \in Orders, RunsInv(p)
  PROVE  RunsInv(p)'
  <1>1. HasRun(p, "PAID") => HasRun(p, "PAID")'
    BY HasRunStays
  <1>2. HasRun(p, "REFUNDED") => HasRun(p, "REFUNDED")'
    BY HasRunStays
  <1>3. CASE order'[p] = order[p]
    BY <1>1, <1>2, <1>3 DEF RunsInv
  <1>4. CASE order'[p] = "PENDING" \/ order'[p] = "EXPIRED"
    BY <1>4 DEF RunsInv
  <1>5. ASSUME NEW e \in BillEvents, UpdateOrder(e), order'[p] # order[p],
               order'[p] \in {"PAID", "REFUNDED"}
        PROVE  RunsInv(p)'
    <2>1. CASE order[EventOrder(e)] \in OrderPredecessorsOf(Target(e))
      <3>1. /\ order' = [order EXCEPT ![EventOrder(e)] = Target(e)]
            /\ billAt' = [billAt EXCEPT ![e] = IF Target(e) = "EXPIRED" THEN "done" ELSE "start"]
            /\ Target(e)' = Target(e)
        BY <1>5, <2>1 DEF UpdateOrder, Target, Normalize, chargeVars
      <3>2. EventOrder(e) = p /\ Target(e) = order'[p] /\ billAt'[e] = "start"
        BY <1>5, <3>1 DEF ComponentInv, BillInv, TypeOKBilling
      <3>3. ASSUME NEW status \in {"PAID", "REFUNDED"}, order'[p] = status
            PROVE  HasRun(p, status)'
        BY <1>5, <3>1, <3>2, <3>3 DEF HasRun, RunOnItsWay, EventOrder
      <3>4. order'[p] = "REFUNDED" => order[p] = "PAID"
        BY <2>1, <3>2, Predecessors
      <3> QED
        BY <1>1, <1>5, <3>3, <3>4 DEF RunsInv
    <2>2. CASE order[EventOrder(e)] \notin OrderPredecessorsOf(Target(e))
      BY <1>5, <2>2 DEF UpdateOrder, Target
    <2> QED
      BY <2>1, <2>2
  <1>6. \/ order'[p] = order[p]
        \/ order'[p] = "PENDING"
        \/ order'[p] = "EXPIRED"
        \/ \E e \in BillEvents : UpdateOrder(e) /\ order'[p] \in {"PAID", "REFUNDED"}
    <2>1. ASSUME NEW e \in BillEvents, UpdateOrder(e), order'[p] # order[p]
          PROVE  order'[p] \in {"PAID", "EXPIRED", "REFUNDED"}
      <3>1. order' = [order EXCEPT ![EventOrder(e)] = Target(e)] /\ Target(e) # "none"
        BY <2>1 DEF UpdateOrder, Target, ComponentInv, BillInv, EventInv
      <3> QED
        BY <2>1, <3>1, TargetIsAStatus DEF ComponentInv, BillInv, TypeOKBilling
    <2>2. ASSUME NEW o \in Orders, StartOrderCheckout(o)
          PROVE  order'[p] \in {order[p], "PENDING"}
      BY <2>2 DEF StartOrderCheckout, ComponentInv, BillInv, TypeOKBilling
    <2> QED
      BY <2>1, <2>2
      DEF BillingNext, BillingStep, CheckoutStep, BuyerStep, HandleEvent, CreateSession,
          SaveCheckoutRef, CheckoutRefused, CheckoutCrash, SessionMovesTo, ChargeRefunded,
          ClaimEvent, LookupOrder, StartRun, BillCrash, OtherProcessDies,
          billingVars, billVars, saleVars
  <1> QED
    BY <1>3, <1>4, <1>5, <1>6

\* While webhook handlers run to their end, an order marked PAID or REFUNDED
\* has its run or is about to, and no run is there for any other order.
THEOREM OrdersHaveTheirRunsHolds ==
  ASSUME HookMayCrash = FALSE
  PROVE  SettlementSpec => []OrdersHaveTheirRuns
  <1>1. SettlementInit => \A o \in Orders : RunsInv(o)
    BY DEF SettlementInit, BillingInit, RunsInv
  <1>2. ComponentInv /\ (\A o \in Orders : RunsInv(o)) /\ [SettlementNext]_settlementVars
          /\ [BillingNext]_billingVars /\ [PayoutsNext]_payoutsVars
          => (\A o \in Orders : RunsInv(o))'
    BY RunsInvStep
  <1>3. BillingSpec => [][BillingNext]_billingVars
    BY PTL DEF BillingSpec
  <1>4. PayoutsSpec => [][PayoutsNext]_payoutsVars
    BY PTL DEF PayoutsSpec
  <1>5. SettlementSpec => []\A o \in Orders : RunsInv(o)
    BY <1>1, <1>2, <1>3, <1>4, ComponentInvariant, ImplementsBilling, ImplementsPayouts, PTL
    DEF SettlementSpec
  <1>6. ComponentInv /\ (\A o \in Orders : RunInv(o)) /\ (\A o \in Orders : RunsInv(o))
          => OrdersHaveTheirRuns
    <2> SUFFICES ASSUME ComponentInv, NEW o \in Orders, RunInv(o), RunsInv(o)
                 PROVE  /\ payAt[o] # "none" \/ RunOnItsWay(o, "PAID") <=> order[o] \in {"PAID", "REFUNDED"}
                        /\ revAt[o] # "none" \/ RunOnItsWay(o, "REFUNDED") <=> order[o] = "REFUNDED"
      BY DEF OrdersHaveTheirRuns
    <2>1. \A f \in BillEvents : EventInv(f)
      BY DEF ComponentInv, BillInv
    <2> QED
      BY <2>1 DEF RunInv, Won, RunsInv, HasRun, RunOnItsWay, EventInv
  <1> QED
    BY <1>5, <1>6, ComponentInvariant, RunInvariant, PTL

-----------------------------------------------------------------------------
(* Types.                                                                   *)

\* The refund run counts its attempts below the bound, and the last fails it.
RefundInv ==
    /\ refundAt    \in [Orders -> RefundLocations]
    /\ refundTries \in [Orders -> 0..MaxAttempts]
    /\ refundCalls \in [Orders -> Nat]
    /\ \A o \in Orders : refundAt[o] # "failed" => refundTries[o] < MaxAttempts

LEMMA RefundInvStep == RefundInv /\ [SettlementNext]_settlementVars => RefundInv'
  <1> SUFFICES ASSUME RefundInv, [SettlementNext]_settlementVars PROVE RefundInv'
    OBVIOUS
  <1> USE BoundsAssumption DEF RefundInv, RefundLocations, RefundGoesTo
  <1>1. ASSUME NEW o \in Orders, RefundFails(o), UNCHANGED refundCalls, refundAt[o] # "failed"
        PROVE  RefundInv'
    BY <1>1 DEF RefundFails
  <1>2. ASSUME NEW o \in Orders, AskProvider(o) PROVE RefundInv'
    <2>1. CASE RefundFails(o)
      BY <1>2, <2>1 DEF AskProvider, RefundFails
    <2>2. CASE RefundGoesTo(o, "issue:memo") /\ UNCHANGED refundTries
      BY <1>2, <2>2 DEF AskProvider
    <2> QED
      BY <1>2, <2>1, <2>2 DEF AskProvider
  <1>3. ASSUME NEW o \in Orders, ReadCharge(o) PROVE RefundInv'
    BY <1>1, <1>3 DEF ReadCharge
  <1>4. ASSUME NEW o \in Orders, ProviderUnreachable(o) PROVE RefundInv'
    BY <1>1, <1>4 DEF ProviderUnreachable
  <1>5. ASSUME NEW o \in Orders,
               AskRefund(o) \/ StartRefundRequest(o) \/ DecideRefund(o) \/ RefundDone(o) \/ RefundCrash(o)
        PROVE  RefundInv'
    BY <1>5 DEF AskRefund, StartRefundRequest, DecideRefund, RefundDone, RefundCrash
  <1>6. CASE UNCHANGED refundVars
    BY <1>6 DEF refundVars
  <1> HIDE DEF RefundInv
  <1> QED
    BY <1>2, <1>3, <1>4, <1>5, <1>6
    DEF SettlementNext, RefundStep, IssueRefund, IssueRefundAgain, BillingAlone, PayoutsAlone,
        StartRunForOrder, RefundFromDashboard, settlementVars, refundVars

\* Every variable of the composed system keeps its type.
THEOREM SettlementTypeCorrect == SettlementSpec => []TypeOKSettlement
  <1>1. SettlementInit => RefundInv
    BY BoundsAssumption DEF SettlementInit, RefundInv, RefundLocations
  <1>2. SettlementSpec => []RefundInv
    BY <1>1, RefundInvStep, PTL DEF SettlementSpec
  <1>3. SettlementSpec => []TypeOKBilling
    BY ImplementsBilling, BillingTypeCorrect, PTL
  <1>4. SettlementSpec => []TypeOK
    BY ImplementsPayouts, TypeCorrect, PTL
  <1>5. RefundInv /\ TypeOKBilling /\ TypeOK => TypeOKSettlement
    BY DEF RefundInv, TypeOKSettlement
  <1> QED
    BY <1>2, <1>3, <1>4, <1>5, PTL
=============================================================================
