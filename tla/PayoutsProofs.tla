--------------------------- MODULE PayoutsProofs ---------------------------
(***************************************************************************)
(* Theorems about Payouts, for every set of orders, sellers and events and *)
(* every bound.                                                            *)
(*                                                                         *)
(* Two inductive invariants carry everything.  OrderInv ties, order by     *)
(* order, the payout row and the provider's transfers to the places of the *)
(* two runs; it holds under every crash.  NoLostWakeup joins the runs to   *)
(* the webhook handlers: only a handler that dies loses a wake-up.         *)
(***************************************************************************)
EXTENDS Payouts, TLAPS

\* A failed attempt is counted below the bound, and the last one fails the run.
TriesInv(o) ==
    /\ payAt[o] # "failed" => payTries[o] < MaxAttempts
    /\ revAt[o] # "failed" => revTries[o] < MaxAttempts

\* The row exists once the run has begun, stays PENDING until the transfer is
\* written down, and is only cancelled after the run was stopped.
RowInv(o) ==
    /\ payAt[o] = "none" => payout[o] = "absent" /\ ~payCanceled[o]
    /\ payAt[o] = "record-owed" /\ ~payCanceled[o] => payout[o] \in {"absent", "PENDING"}
    /\ payAt[o] \in {"record-owed:account", "record-owed:memo", "wait"} /\ ~payCanceled[o]
         => payout[o] = "PENDING"
    /\ payAt[o] \in {"transfer:null", "mark-sent:memo", "paid", "canceled"}
         => payout[o] # "PENDING"
    /\ payCanceled[o] => payout[o] # "PENDING" \/ revAt[o] \in {"cancel", "cancel:row"}

\* The reversal cancels only a run that was started, and writes CANCELED only
\* after stopping it.
CancelInv(o) ==
    /\ revAt[o] \in {"cancel", "cancel:row"} => payAt[o] # "none"
    /\ revAt[o] = "cancel:row" => ~PayLive(o)

\* What the provider has done when a run is past its call.
MoneyInv(o) ==
    /\ transfers[o] \in {0, 1} /\ reversals[o] \in {0, 1}
    /\ payAt[o] \in {"transfer:memo", "mark-sent", "mark-sent:memo", "paid"}
         => transfers[o] = 1
    /\ payout[o] \in {"PAID", "REVERSED"} => transfers[o] = 1
    /\ reversals[o] = 1 => transfers[o] = 1
    /\ payout[o] = "REVERSED" => reversals[o] = 1

\* A reversal is at its reverse branch exactly when it found a sent payout.
FoundInv(o) ==
    /\ revAt[o] \in {"none", "find-payout"} => revFound[o] = "absent"
    /\ revAt[o] \in {"reverse", "mark-reversed"} => payout[o] \in {"PAID", "REVERSED"}
    /\ revAt[o] = "mark-reversed" => reversals[o] = 1
    /\ revFound[o] = "PAID" =>
         \/ revAt[o] \in {"reverse", "mark-reversed", "failed"}
         \/ revAt[o] = "reversed" /\ payout[o] = "REVERSED" /\ reversals[o] = 1

OrderInv ==
    /\ TypeOK
    /\ \A o \in Orders :
         TriesInv(o) /\ RowInv(o) /\ CancelInv(o) /\ MoneyInv(o) /\ FoundInv(o)

-----------------------------------------------------------------------------
(* Type correctness: the attempt counters stay in range because a run whose *)
(* attempts are spent has failed.                                           *)

TypeInv == TypeOK /\ \A o \in Orders : TriesInv(o)

LEMMA TypeInvInit == PayoutsInit => TypeInv
  BY BoundsAssumption, CrashAssumption DEF PayoutsInit, TypeInv, TypeOK, TriesInv, AccountStates,
     PayLocations, PayBetweenSteps, RevLocations, HookLocations, AcctEvents

LEMMA TypeInvStep == TypeInv /\ [PayoutsNext]_payoutsVars => TypeInv'
  <1> SUFFICES ASSUME TypeInv, [PayoutsNext]_payoutsVars PROVE TypeInv'
    OBVIOUS
  <1> USE SellerOfAssumption, BoundsAssumption, CrashAssumption
      DEF TypeInv, TypeOK, TriesInv, providerVars, rowVars, payVars, revVars, hookVars,
          AccountStates, PayoutStatuses, PayLocations, PayBetweenSteps,
          PayInsideStep, PayEnded, RevLocations, HookLocations, PayLive, AcctEvents, EventSeller
  <1>1. ASSUME NEW o \in Orders, StartSellerPayout(o) PROVE TypeInv'
      BY <1>1 DEF StartSellerPayout, PayGoesTo
  <1>2. ASSUME NEW o \in Orders, RecordOwedUpsert(o) PROVE TypeInv'
      BY <1>2 DEF RecordOwedUpsert, PayGoesTo
  <1>3. ASSUME NEW o \in Orders, RecordOwedReadAccount(o) PROVE TypeInv'
      BY <1>3 DEF RecordOwedReadAccount, PayGoesTo, PayoutReady
  <1>4. ASSUME NEW o \in Orders, RecordOwedDone(o) PROVE TypeInv'
      BY <1>4 DEF RecordOwedDone, PayGoesTo
  <1>5. ASSUME NEW o \in Orders, Wake(o) PROVE TypeInv'
      BY <1>5 DEF Wake, PayGoesTo
  <1>6. ASSUME NEW o \in Orders, TransferBegin(o) PROVE TypeInv'
      BY <1>6 DEF TransferBegin, PayGoesTo
  <1>7. ASSUME NEW o \in Orders, PayoutToSend(o) PROVE TypeInv'
      BY <1>7 DEF PayoutToSend, PayGoesTo
  <1>8. ASSUME NEW o \in Orders, TransferReadAccount(o) PROVE TypeInv'
    <2>1. CASE TransferFails(o)
      BY <1>8, <2>1 DEF TransferReadAccount, PayGoesTo, TransferFails
    <2>2. CASE PayGoesTo(o, "transfer:send") /\ UNCHANGED payTries
      BY <1>8, <2>2 DEF TransferReadAccount, PayGoesTo
    <2> QED
      BY <1>8, <2>1, <2>2 DEF TransferReadAccount
  <1>9. ASSUME NEW o \in Orders, TransferSent(o) PROVE TypeInv'
    <2>1. CASE TransferFails(o)
      BY <1>9, <2>1 DEF TransferSent, PayGoesTo, TransferFails, MakeTransfer
    <2>2. CASE PayGoesTo(o, "transfer:memo") /\ UNCHANGED payTries
      BY <1>9, <2>2 DEF TransferSent, PayGoesTo, MakeTransfer
    <2> QED
      BY <1>9, <2>1, <2>2 DEF TransferSent
  <1>10. ASSUME NEW o \in Orders, TransferRefused(o) PROVE TypeInv'
      BY <1>10 DEF TransferRefused, PayGoesTo, TransferFails
  <1>11. ASSUME NEW o \in Orders, TransferDone(o) PROVE TypeInv'
      BY <1>11 DEF TransferDone, PayGoesTo
  <1>12. ASSUME NEW o \in Orders, MarkSent(o) PROVE TypeInv'
      BY <1>12 DEF MarkSent, PayGoesTo, Transition, PayoutPredecessorsOf, CanTransitionPayout
  <1>13. ASSUME NEW o \in Orders, MarkSentDone(o) PROVE TypeInv'
      BY <1>13 DEF MarkSentDone, PayGoesTo
  <1>14. ASSUME NEW o \in Orders, PayCrash(o) PROVE TypeInv'
      BY <1>14 DEF PayCrash, AProcessDies, PayGoesTo, StepStart
  <1>15. ASSUME NEW o \in Orders, StartPayoutReversal(o) PROVE TypeInv'
      BY <1>15 DEF StartPayoutReversal, RevGoesTo
  <1>16. ASSUME NEW o \in Orders, FindPayout(o) PROVE TypeInv'
      BY <1>16 DEF FindPayout, RevGoesTo
  <1>17. ASSUME NEW o \in Orders, CancelRun(o) PROVE TypeInv'
      BY <1>17 DEF CancelRun, RevGoesTo
  <1>18. ASSUME NEW o \in Orders, CancelPayout(o) PROVE TypeInv'
      BY <1>18 DEF CancelPayout, RevGoesTo, Transition, PayoutPredecessorsOf, CanTransitionPayout
  <1>19. ASSUME NEW o \in Orders, ReverseTransfer(o) PROVE TypeInv'
    <2>1. CASE ReverseFails(o)
      BY <1>19, <2>1 DEF ReverseTransfer, RevGoesTo, ReverseFails, MakeReversal
    <2>2. CASE RevGoesTo(o, "mark-reversed") /\ UNCHANGED revTries
      BY <1>19, <2>2 DEF ReverseTransfer, RevGoesTo, MakeReversal
    <2> QED
      BY <1>19, <2>1, <2>2 DEF ReverseTransfer
  <1>20. ASSUME NEW o \in Orders, ReverseRefused(o) PROVE TypeInv'
      BY <1>20 DEF ReverseRefused, RevGoesTo, ReverseFails
  <1>21. ASSUME NEW o \in Orders, MarkReversed(o) PROVE TypeInv'
      BY <1>21 DEF MarkReversed, RevGoesTo, Transition, PayoutPredecessorsOf, CanTransitionPayout
  <1>22. ASSUME NEW o \in Orders, RevCrash(o) PROVE TypeInv'
      BY <1>22 DEF RevCrash, AProcessDies, RevGoesTo
  <1>23. ASSUME NEW e \in AcctEvents, ClaimAcctEvent(e) PROVE TypeInv'
      BY <1>23 DEF ClaimAcctEvent
  <1>24. ASSUME NEW e \in AcctEvents, SyncPayoutAccount(e) PROVE TypeInv'
      BY <1>24, ZenonT(40) DEF SyncPayoutAccount
  <1>25. ASSUME NEW e \in AcctEvents, ListParkedRuns(e) PROVE TypeInv'
      BY <1>25 DEF ListParkedRuns, ParkedPayouts
  <1>26. ASSUME NEW e \in AcctEvents, FinishAcctEvent(e) PROVE TypeInv'
      BY <1>26 DEF FinishAcctEvent
  <1>27. ASSUME NEW e \in AcctEvents, HookCrash(e) PROVE TypeInv'
      BY <1>27 DEF HookCrash, AProcessDies
  <1>28. ASSUME NEW e \in AcctEvents, NEW o \in Orders, SignalRun(e, o) PROVE TypeInv'
      BY <1>28 DEF SignalRun
  <1>29. ASSUME NEW s \in Sellers, StartPayoutOnboarding(s) PROVE TypeInv'
      BY <1>29 DEF StartPayoutOnboarding
  <1>30. ASSUME NEW s \in Sellers, NEW e \in AcctEvents, StandingChanges(s, e) PROVE TypeInv'
      BY <1>30 DEF StandingChanges
  <1>31. CASE UNCHANGED payoutsVars
      BY <1>31 DEF payoutsVars, payoutVars
  <1>32. CASE OtherCrash
      BY <1>32 DEF OtherCrash, AProcessDies, payoutVars
  <1> QED
      BY <1>1, <1>2, <1>3, <1>4, <1>5, <1>6, <1>7, <1>8, <1>9, <1>10, <1>11,
         <1>12, <1>13, <1>14, <1>15, <1>16, <1>17, <1>18, <1>19,
         <1>20, <1>21, <1>22, <1>23, <1>24, <1>25, <1>26, <1>27,
         <1>28, <1>29, <1>30, <1>31, <1>32
      DEF PayoutsNext, SaleStep, PayoutsStep, PayStep, RevStep, HookStep, RecordOwed

\* Every variable keeps its type: in particular the attempt counters stay
\* within MaxAttempts and a row never leaves its machine's statuses.
THEOREM TypeCorrect == PayoutsSpec => []TypeOK
  <1>1. PayoutsInit => TypeInv
    BY TypeInvInit
  <1>2. TypeInv /\ [PayoutsNext]_payoutsVars => TypeInv'
    BY TypeInvStep
  <1>3. TypeInv => TypeOK
    BY DEF TypeInv
  <1> QED
    BY <1>1, <1>2, <1>3, PTL DEF PayoutsSpec

-----------------------------------------------------------------------------
(* The order invariant.                                                     *)

LEMMA OrderInvInit == PayoutsInit => OrderInv
  <1> SUFFICES ASSUME PayoutsInit PROVE OrderInv
    OBVIOUS
  <1>1. TypeInv
    BY TypeInvInit
  <1> QED
    BY <1>1 DEF PayoutsInit, OrderInv, TypeInv, RowInv, CancelInv, MoneyInv, FoundInv, PayLive

\* One order's part, over a step of any order o: the step of an order touches
\* the rows and runs of that order alone.
LocalInv(p) == RowInv(p) /\ CancelInv(p) /\ MoneyInv(p) /\ FoundInv(p)

LEMMA LocalInvStep ==
  ASSUME OrderInv, [PayoutsNext]_payoutsVars, NEW p \in Orders
  PROVE  LocalInv(p)'
  <1> USE DEF OrderInv, TypeOK, LocalInv, RowInv, CancelInv, MoneyInv, FoundInv, PayLive,
          providerVars, rowVars, payVars, revVars, hookVars,
          PayoutStatuses, PayLocations, PayBetweenSteps, PayInsideStep, PayEnded,
          RevLocations
  <1>1. ASSUME NEW o \in Orders, StartSellerPayout(o) PROVE LocalInv(p)'
      BY <1>1 DEF StartSellerPayout, PayGoesTo
  <1>2. ASSUME NEW o \in Orders, RecordOwedUpsert(o) PROVE LocalInv(p)'
      BY <1>2 DEF RecordOwedUpsert, PayGoesTo
  <1>3. ASSUME NEW o \in Orders, RecordOwedReadAccount(o) PROVE LocalInv(p)'
      BY <1>3 DEF RecordOwedReadAccount, PayGoesTo
  <1>4. ASSUME NEW o \in Orders, RecordOwedDone(o) PROVE LocalInv(p)'
      BY <1>4 DEF RecordOwedDone, PayGoesTo
  <1>5. ASSUME NEW o \in Orders, Wake(o) PROVE LocalInv(p)'
      BY <1>5 DEF Wake, PayGoesTo
  <1>6. ASSUME NEW o \in Orders, TransferBegin(o) PROVE LocalInv(p)'
      BY <1>6 DEF TransferBegin, PayGoesTo
  <1>7. ASSUME NEW o \in Orders, PayoutToSend(o) PROVE LocalInv(p)'
      BY <1>7 DEF PayoutToSend, PayGoesTo
  <1>8. ASSUME NEW o \in Orders, TransferReadAccount(o) PROVE LocalInv(p)'
      BY <1>8 DEF TransferReadAccount, PayGoesTo, TransferFails
  <1>9. ASSUME NEW o \in Orders, TransferSent(o) PROVE LocalInv(p)'
      BY <1>9 DEF TransferSent, PayGoesTo, TransferFails, MakeTransfer
  <1>10. ASSUME NEW o \in Orders, TransferRefused(o) PROVE LocalInv(p)'
      BY <1>10 DEF TransferRefused, PayGoesTo, TransferFails
  <1>11. ASSUME NEW o \in Orders, TransferDone(o) PROVE LocalInv(p)'
      BY <1>11 DEF TransferDone, PayGoesTo
  <1>12. ASSUME NEW o \in Orders, MarkSent(o) PROVE LocalInv(p)'
      BY <1>12 DEF MarkSent, PayGoesTo, Transition, PayoutPredecessorsOf, CanTransitionPayout
  <1>13. ASSUME NEW o \in Orders, MarkSentDone(o) PROVE LocalInv(p)'
      BY <1>13 DEF MarkSentDone, PayGoesTo
  <1>14. ASSUME NEW o \in Orders, PayCrash(o) PROVE LocalInv(p)'
      BY <1>14 DEF PayCrash, AProcessDies, PayGoesTo, StepStart
  <1>15. ASSUME NEW o \in Orders, StartPayoutReversal(o) PROVE LocalInv(p)'
      BY <1>15 DEF StartPayoutReversal, RevGoesTo
  <1>16. ASSUME NEW o \in Orders, FindPayout(o) PROVE LocalInv(p)'
      BY <1>16 DEF FindPayout, RevGoesTo
  <1>17. ASSUME NEW o \in Orders, CancelRun(o) PROVE LocalInv(p)'
      BY <1>17 DEF CancelRun, RevGoesTo
  <1>18. ASSUME NEW o \in Orders, CancelPayout(o) PROVE LocalInv(p)'
      BY <1>18 DEF CancelPayout, RevGoesTo, Transition, PayoutPredecessorsOf, CanTransitionPayout
  <1>19. ASSUME NEW o \in Orders, ReverseTransfer(o) PROVE LocalInv(p)'
      BY <1>19 DEF ReverseTransfer, RevGoesTo, ReverseFails, MakeReversal
  <1>20. ASSUME NEW o \in Orders, ReverseRefused(o) PROVE LocalInv(p)'
      BY <1>20 DEF ReverseRefused, RevGoesTo, ReverseFails
  <1>21. ASSUME NEW o \in Orders, MarkReversed(o) PROVE LocalInv(p)'
      BY <1>21 DEF MarkReversed, RevGoesTo, Transition, PayoutPredecessorsOf, CanTransitionPayout
  <1>22. ASSUME NEW o \in Orders, RevCrash(o) PROVE LocalInv(p)'
      BY <1>22 DEF RevCrash, AProcessDies, RevGoesTo
  <1>23. ASSUME NEW e \in AcctEvents, HookStep(e) \/ HookCrash(e) PROVE LocalInv(p)'
      BY <1>23 DEF HookStep, HookCrash, ClaimAcctEvent, SyncPayoutAccount, ListParkedRuns,
         SignalRun, FinishAcctEvent
  <1>24. ASSUME NEW s \in Sellers, StartPayoutOnboarding(s) PROVE LocalInv(p)'
      BY <1>24 DEF StartPayoutOnboarding
  <1>25. ASSUME NEW s \in Sellers, NEW e \in AcctEvents, StandingChanges(s, e)
        PROVE LocalInv(p)'
      BY <1>25 DEF StandingChanges
  <1>26. CASE UNCHANGED payoutsVars \/ OtherCrash
      BY <1>26 DEF OtherCrash, payoutsVars, payoutVars
  <1> HIDE DEF OrderInv, LocalInv
  <1> QED
      BY <1>1, <1>2, <1>3, <1>4, <1>5, <1>6, <1>7, <1>8, <1>9, <1>10,
         <1>11, <1>12, <1>13, <1>14, <1>15, <1>16, <1>17, <1>18, <1>19,
         <1>20, <1>21, <1>22, <1>23, <1>24, <1>25, <1>26, BoundsAssumption
      DEF PayoutsNext, SaleStep, PayoutsStep, PayStep, RevStep, RecordOwed

LEMMA OrderInvStep == OrderInv /\ [PayoutsNext]_payoutsVars => OrderInv'
  <1> SUFFICES ASSUME OrderInv, [PayoutsNext]_payoutsVars PROVE OrderInv'
    OBVIOUS
  <1>1. TypeInv'
    BY TypeInvStep DEF TypeInv, OrderInv
  <1>2. \A o \in Orders : LocalInv(o)'
    BY LocalInvStep
  <1> QED
    BY <1>1, <1>2 DEF OrderInv, TypeInv, LocalInv

THEOREM OrderInvariant == PayoutsSpec => []OrderInv
  <1>1. PayoutsInit => OrderInv
    BY OrderInvInit
  <1>2. OrderInv /\ [PayoutsNext]_payoutsVars => OrderInv'
    BY OrderInvStep
  <1> QED
    BY <1>1, <1>2, PTL DEF PayoutsSpec

\* A step that runs twice pays once, and the payout row tells the truth about
\* the provider, whatever crashes and whichever answers are lost.
THEOREM RowsMatchProviderHolds == PayoutsSpec => []RowsMatchProvider
  <1>1. OrderInv => RowsMatchProvider
    BY DEF OrderInv, MoneyInv, RowsMatchProvider
  <1> QED
    BY <1>1, OrderInvariant, PTL

\* A PENDING payout is never left without a run, short of spent attempts.
THEOREM PendingHasOwnerHolds == PayoutsSpec => []PendingHasOwner
  <1>1. OrderInv => PendingHasOwner
    BY DEF OrderInv, RowInv, PendingHasOwner, PayLive, PayEnded
  <1> QED
    BY <1>1, OrderInvariant, PTL

\* A reversal that found the payout sent takes the money back before it ends.
THEOREM FoundPaidIsReversedHolds == PayoutsSpec => []FoundPaidIsReversed
  <1>1. OrderInv => FoundPaidIsReversed
    BY DEF OrderInv, FoundInv, FoundPaidIsReversed
  <1> QED
    BY <1>1, OrderInvariant, PTL

-----------------------------------------------------------------------------
(* No lost wake-up.  A payout parks only after reading an account that is   *)
(* not ready, and its row was written before that read; so a handler that   *)
(* makes the account ready later lists the row.                             *)

LEMMA NoLostWakeupInit == PayoutsInit => NoLostWakeup
  BY DEF PayoutsInit, NoLostWakeup, Parked

LEMMA NoLostWakeupStep ==
  ASSUME OrderInv, NoLostWakeup, [PayoutsNext]_payoutsVars
  PROVE  NoLostWakeup'
  <1> SUFFICES ASSUME NEW p \in Orders, Parked(p)', account'[SellerOf[p]] = "ready"
               PROVE  WakeUpInHand(p)'
    BY DEF NoLostWakeup
  <1>0. /\ Parked(p) /\ account[SellerOf[p]] = "ready" => WakeUpInHand(p)
        /\ SellerOf[p] \in Sellers
    BY SellerOfAssumption DEF NoLostWakeup
  <1> USE DEF Parked, WakeUpInHand, OrderInv, TypeOK,
          providerVars, rowVars, payVars, revVars, hookVars
  <1>1. ASSUME NEW o \in Orders, StartSellerPayout(o) PROVE WakeUpInHand(p)'
      BY <1>0, <1>1 DEF StartSellerPayout, PayGoesTo
  <1>2. ASSUME NEW o \in Orders, RecordOwedUpsert(o) PROVE WakeUpInHand(p)'
      BY <1>0, <1>2 DEF RecordOwedUpsert, PayGoesTo
  <1>3. ASSUME NEW o \in Orders, RecordOwedReadAccount(o) PROVE WakeUpInHand(p)'
      BY <1>0, <1>3 DEF RecordOwedReadAccount, PayGoesTo, PayoutReady
  <1>4. ASSUME NEW o \in Orders, RecordOwedDone(o) PROVE WakeUpInHand(p)'
      BY <1>0, <1>4 DEF RecordOwedDone, PayGoesTo
  <1>5. ASSUME NEW o \in Orders, Wake(o) PROVE WakeUpInHand(p)'
      BY <1>0, <1>5 DEF Wake, PayGoesTo
  <1>6. ASSUME NEW o \in Orders, TransferBegin(o) PROVE WakeUpInHand(p)'
      BY <1>0, <1>6 DEF TransferBegin, PayGoesTo
  <1>7. ASSUME NEW o \in Orders, PayoutToSend(o) PROVE WakeUpInHand(p)'
      BY <1>0, <1>7 DEF PayoutToSend, PayGoesTo
  <1>8. ASSUME NEW o \in Orders, TransferReadAccount(o) PROVE WakeUpInHand(p)'
      BY <1>0, <1>8 DEF TransferReadAccount, PayGoesTo, TransferFails
  <1>9. ASSUME NEW o \in Orders, TransferSent(o) PROVE WakeUpInHand(p)'
      BY <1>0, <1>9 DEF TransferSent, PayGoesTo, TransferFails
  <1>10. ASSUME NEW o \in Orders, TransferRefused(o) PROVE WakeUpInHand(p)'
      BY <1>0, <1>10 DEF TransferRefused, PayGoesTo, TransferFails
  <1>11. ASSUME NEW o \in Orders, TransferDone(o) PROVE WakeUpInHand(p)'
      BY <1>0, <1>11 DEF TransferDone, PayGoesTo
  <1>12. ASSUME NEW o \in Orders, MarkSent(o) PROVE WakeUpInHand(p)'
      BY <1>0, <1>12 DEF MarkSent, PayGoesTo
  <1>13. ASSUME NEW o \in Orders, MarkSentDone(o) PROVE WakeUpInHand(p)'
      BY <1>0, <1>13 DEF MarkSentDone, PayGoesTo
  <1>14. ASSUME NEW o \in Orders, PayCrash(o) PROVE WakeUpInHand(p)'
      BY <1>0, <1>14 DEF PayCrash, AProcessDies, PayGoesTo, StepStart
  <1>15. ASSUME NEW o \in Orders, StartPayoutReversal(o) PROVE WakeUpInHand(p)'
      BY <1>0, <1>15 DEF StartPayoutReversal
  <1>16. ASSUME NEW o \in Orders, FindPayout(o) PROVE WakeUpInHand(p)'
      BY <1>0, <1>16 DEF FindPayout
  <1>17. ASSUME NEW o \in Orders, CancelRun(o) PROVE WakeUpInHand(p)'
      BY <1>0, <1>17 DEF CancelRun
  <1>18. ASSUME NEW o \in Orders, CancelPayout(o) PROVE WakeUpInHand(p)'
      BY <1>0, <1>18 DEF CancelPayout
  <1>19. ASSUME NEW o \in Orders, ReverseTransfer(o) PROVE WakeUpInHand(p)'
      BY <1>0, <1>19 DEF ReverseTransfer
  <1>20. ASSUME NEW o \in Orders, ReverseRefused(o) PROVE WakeUpInHand(p)'
      BY <1>0, <1>20 DEF ReverseRefused
  <1>21. ASSUME NEW o \in Orders, MarkReversed(o) PROVE WakeUpInHand(p)'
      BY <1>0, <1>21 DEF MarkReversed
  <1>22. ASSUME NEW o \in Orders, RevCrash(o) PROVE WakeUpInHand(p)'
      BY <1>0, <1>22 DEF RevCrash
  <1>23. ASSUME NEW e \in AcctEvents, ClaimAcctEvent(e) PROVE WakeUpInHand(p)'
      BY <1>0, <1>23 DEF ClaimAcctEvent
  <1>24. ASSUME NEW e \in AcctEvents, SyncPayoutAccount(e) PROVE WakeUpInHand(p)'
      BY <1>0, <1>24 DEF SyncPayoutAccount
  <1>25. ASSUME NEW e \in AcctEvents, ListParkedRuns(e) PROVE WakeUpInHand(p)'
      BY <1>0, <1>25 DEF ListParkedRuns, ParkedPayouts, RowInv
  <1>26. ASSUME NEW e \in AcctEvents, FinishAcctEvent(e) PROVE WakeUpInHand(p)'
      BY <1>0, <1>26 DEF FinishAcctEvent
  <1>27. ASSUME NEW e \in AcctEvents, HookCrash(e) PROVE WakeUpInHand(p)'
      BY <1>0, <1>27 DEF HookCrash, AProcessDies
  <1>28. ASSUME NEW e \in AcctEvents, NEW o \in Orders, SignalRun(e, o) PROVE WakeUpInHand(p)'
      BY <1>0, <1>28 DEF SignalRun, PayLive, PayEnded
  <1>29. ASSUME NEW s \in Sellers, StartPayoutOnboarding(s) PROVE WakeUpInHand(p)'
      BY <1>0, <1>29 DEF StartPayoutOnboarding
  <1>30. ASSUME NEW s \in Sellers, NEW e \in AcctEvents, StandingChanges(s, e)
        PROVE WakeUpInHand(p)'
      BY <1>0, <1>30 DEF StandingChanges
  <1>31. CASE UNCHANGED payoutsVars \/ OtherCrash
      BY <1>0, <1>31 DEF OtherCrash, payoutsVars, payoutVars
  <1> HIDE DEF WakeUpInHand, OrderInv
  <1> QED
      BY <1>1, <1>2, <1>3, <1>4, <1>5, <1>6, <1>7, <1>8, <1>9, <1>10,
         <1>11, <1>12, <1>13, <1>14, <1>15, <1>16, <1>17, <1>18, <1>19,
         <1>20, <1>21, <1>22, <1>23, <1>24, <1>25, <1>26, <1>27, <1>28,
         <1>29, <1>30, <1>31, BoundsAssumption
      DEF PayoutsNext, SaleStep, PayoutsStep, PayStep, RevStep, HookStep, RecordOwed

\* No payout stays parked on an account that is ready but through a handler
\* that died: the order of two writes and two reads in recordOwedPayout and
\* applyEvent rules it out.
THEOREM NoLostWakeupHolds == PayoutsSpec => []NoLostWakeup
  <1>1. PayoutsInit => NoLostWakeup
    BY NoLostWakeupInit
  <1>2. OrderInv /\ NoLostWakeup /\ [PayoutsNext]_payoutsVars => NoLostWakeup'
    BY NoLostWakeupStep
  <1> QED
    BY <1>1, <1>2, OrderInvariant, PTL DEF PayoutsSpec

-----------------------------------------------------------------------------
(* The status machine.                                                      *)

ForwardStep(o) ==
    \/ payout'[o] = payout[o]
    \/ payout[o] = "absent" /\ payout'[o] = "PENDING"
    \/ CanTransitionPayout(payout[o], payout'[o])

\* A payout's status moves only along its machine in every step of the system.
THEOREM PayoutForwardOnlyHolds == PayoutsSpec => PayoutForwardOnly
  <1>1. ASSUME OrderInv, [PayoutsNext]_payoutsVars, NEW p \in Orders
        PROVE  ForwardStep(p)
    <2>0. payout \in [Orders -> {"absent"} \cup PayoutStatuses]
      BY <1>1 DEF OrderInv, TypeOK
    <2>1. ASSUME NEW o \in Orders, RecordOwedUpsert(o) PROVE ForwardStep(p)
      BY <2>0, <2>1 DEF RecordOwedUpsert, ForwardStep
    <2>2. ASSUME NEW o \in Orders, NEW to, Transition(o, to) PROVE ForwardStep(p)
      BY <2>0, <2>2 DEF Transition, ForwardStep, PayoutPredecessorsOf
    <2>3. CASE UNCHANGED payout
      BY <2>3 DEF ForwardStep
    <2>4. \/ UNCHANGED payout
          \/ \E o \in Orders : RecordOwedUpsert(o) \/ \E to \in PayoutStatuses : Transition(o, to)
      BY <1>1, BoundsAssumption
      DEF PayoutsNext, SaleStep, PayoutsStep, PayStep, RevStep, HookStep, RecordOwed,
          OtherCrash, payoutsVars, payoutVars, rowVars, StartSellerPayout, StartPayoutReversal,
          RecordOwedReadAccount, RecordOwedDone, Wake, TransferBegin, PayoutToSend,
          TransferReadAccount, TransferSent, TransferRefused, TransferDone,
          MarkSentDone, PayCrash, FindPayout, CancelRun, ReverseTransfer,
          ReverseRefused, RevCrash, ClaimAcctEvent, SyncPayoutAccount,
          ListParkedRuns, SignalRun, FinishAcctEvent, HookCrash,
          StartPayoutOnboarding, StandingChanges,
          MarkSent, CancelPayout, MarkReversed, PayoutStatuses
    <2> QED
      BY <2>1, <2>2, <2>3, <2>4
  <1>2. OrderInv /\ [PayoutsNext]_payoutsVars
          => [\A o \in Orders : ForwardStep(o)]_payout
    BY <1>1
  <1>3. PayoutsSpec => [][\A o \in Orders : ForwardStep(o)]_payout
    BY <1>2, OrderInvariant, PTL DEF PayoutsSpec
  <1> QED
    BY <1>3 DEF ForwardStep, PayoutForwardOnly

-----------------------------------------------------------------------------
(* What a sale owes its seller.                                            *)

LEMMA CutOfWhole ==
    ASSUME NEW cut \in Nat, NEW gross \in Nat, cut <= gross * 10000
    PROVE  (cut \div 10000) \in 0..gross
BY SMT

\* splitPayment, at any rate up to the whole: fee and share add up to what the
\* buyer paid, neither is negative, so a transfer never asks for more than what
\* arrived, and the fee is the exact cut rounded down.
THEOREM SplitConserves ==
    ASSUME NEW gross \in Nat, NEW bps \in 0..10000
    PROVE  LET split == SplitPayment(gross, bps)
           IN  /\ split.fee \in 0..gross /\ split.net \in 0..gross
               /\ split.fee + split.net = gross
               /\ split.fee * 10000 <= gross * bps
               /\ gross * bps < (split.fee + 1) * 10000
<1> DEFINE cut == gross * bps
<1>1. cut \in Nat /\ cut <= gross * 10000
  <2>1. \A k \in Nat : gross * k \in Nat
    BY SMT
  <2>2. cut \in Nat /\ gross * 10000 \in Nat /\ gross * (10000 - bps) \in Nat
    BY <2>1
  <2>3. gross * 10000 - gross * bps = gross * (10000 - bps)
    BY SMT
  <2> QED
    BY <2>2, <2>3
<1>2. (cut \div 10000) \in 0..gross
  <2> HIDE DEF cut
  <2> QED
    BY <1>1, CutOfWhole
<1>3. (cut \div 10000) * 10000 <= cut /\ cut < ((cut \div 10000) + 1) * 10000
  <2> HIDE DEF cut
  <2> QED
    BY <1>1
<1> QED
  BY <1>2, <1>3 DEF SplitPayment
=============================================================================
