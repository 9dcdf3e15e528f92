------------------------------ MODULE Payouts ------------------------------
(***************************************************************************)
(* The seller's share of a sale: the payout row, the connected account,    *)
(* the two durable runs that move the money (seller-payout and             *)
(* payout-reversal, at the granularity of their awaits), and the           *)
(* account.updated webhook that wakes a parked payout.                     *)
(*                                                                         *)
(* A run is the durable workflow engine's: a finished step is remembered   *)
(* and never repeated, a step cut short by a crash starts again from its   *)
(* beginning, one worker executes a run at a time (the store leases runs   *)
(* with rows), a signal sent before the run waits is kept for it, and a    *)
(* canceled run takes no further step, though a step already executing     *)
(* finishes the calls it has begun.  The inline engine.tick after a start  *)
(* or a signal and the cron tick are both just a worker taking a due run.  *)
(***************************************************************************)
EXTENDS Sales

CONSTANTS
    Sellers,        \* the sellers of their products
    SellerOf,       \* the seller of each order's product
    MaxAcctEvents,  \* bound: account.updated events sent about each seller
    Refundable,     \* bound: the orders whose refund may be confirmed
    MaxAttempts,    \* attempts a provider step gets before its run fails
    StandingMayDrop \* whether the provider may withdraw a seller's standing

ASSUME SellerOfAssumption == SellerOf \in [Orders -> Sellers]
ASSUME BoundsAssumption ==
    /\ MaxAttempts \in Nat \ {0}
    /\ MaxAcctEvents \in Nat
    /\ Refundable \subseteq Orders
    /\ StandingMayDrop \in BOOLEAN

VARIABLES
    standing,    \* provider: whether it would pay this seller out
    account,     \* PayoutAccount row of each seller
    payout,      \* Payout row of each order: "absent" or its status
    payAt,       \* where the seller-payout run of the order is
    payCanceled, \* whether the engine was told to cancel that run
    payTries,    \* failed attempts of its transfer step
    payReady,    \* `ready', as record-owed read it
    paySignal,   \* an account-ready signal kept for the run
    revAt,       \* where the payout-reversal run of the order is
    revTries,    \* failed attempts of its reverse step
    revFound,    \* the payout status its find-payout step remembered
    transfers,   \* provider: transfers made for the order's payout
    reversals,   \* provider: transfers taken back
    hookAt,      \* where the handler of each account.updated event is
    hookEnabled, \* the payoutsEnabled the event carries
    hookTodo     \* orders whose runs the handler has yet to signal

providerVars == <<standing, transfers, reversals>>
rowVars      == <<account, payout>>
payVars      == <<payAt, payCanceled, payTries, payReady, paySignal>>
revVars      == <<revAt, revTries, revFound>>
hookVars     == <<hookAt, hookEnabled, hookTodo>>
payoutVars   == <<providerVars, rowVars, payVars, revVars, hookVars>>
payoutsVars  == <<payoutVars, crashes>>

\* An event about a seller's account; the pair is its providerEventId.
AcctEvents == Sellers \X (1..MaxAcctEvents)
EventSeller(e) == e[1]

-----------------------------------------------------------------------------
(* Where a run is.  A name without a colon is the start of a step (or the  *)
(* wait, or an end); "step:call" is inside the step, before that call.     *)

PayInsideStep ==
    {"record-owed:account", "record-owed:memo",
     "transfer:payout", "transfer:account", "transfer:send", "transfer:memo",
     "transfer:null", "mark-sent:memo"}
PayBetweenSteps == {"record-owed", "wait", "transfer", "mark-sent"}
PayEnded        == {"paid", "canceled", "failed"}
PayLocations    == {"none"} \cup PayBetweenSteps \cup PayInsideStep \cup PayEnded

RevLocations ==
    {"none", "find-payout", "cancel", "cancel:row", "reverse", "mark-reversed",
     "nothing", "canceled", "reversed", "failed"}
RevEnded == {"nothing", "canceled", "reversed", "failed"}

HookLocations == {"idle", "sent", "sync", "list", "signal", "done", "dead"}

\* The start of the step that `at' is inside of: where a crash sends the run.
StepStart(at) ==
    IF at \in {"record-owed:account", "record-owed:memo"} THEN "record-owed"
    ELSE IF at = "mark-sent:memo" THEN "mark-sent"
    ELSE "transfer"

\* The run has been started, has not ended and was not canceled: the engine
\* will execute it, and accepts a signal or a cancel for it.
PayLive(o) == payAt[o] \notin {"none"} \cup PayEnded /\ ~payCanceled[o]

TypeOK ==
    /\ standing    \in [Sellers -> BOOLEAN]
    /\ account     \in [Sellers -> AccountStates]
    /\ payout      \in [Orders -> {"absent"} \cup PayoutStatuses]
    /\ payAt       \in [Orders -> PayLocations]
    /\ payCanceled \in [Orders -> BOOLEAN]
    /\ payTries    \in [Orders -> 0..MaxAttempts]
    /\ payReady    \in [Orders -> BOOLEAN]
    /\ paySignal   \in [Orders -> BOOLEAN]
    /\ revAt       \in [Orders -> RevLocations]
    /\ revTries    \in [Orders -> 0..MaxAttempts]
    /\ revFound    \in [Orders -> {"absent"} \cup PayoutStatuses]
    /\ transfers   \in [Orders -> Nat]
    /\ reversals   \in [Orders -> Nat]
    /\ hookAt      \in [AcctEvents -> HookLocations]
    /\ hookEnabled \in [AcctEvents -> BOOLEAN]
    /\ hookTodo    \in [AcctEvents -> SUBSET Orders]
    /\ crashes     \in 0..MaxCrashes

PayoutsInit ==
    /\ standing    = [s \in Sellers |-> FALSE]
    /\ account     = [s \in Sellers |-> "no_account"]
    /\ payout      = [o \in Orders |-> "absent"]
    /\ payAt       = [o \in Orders |-> "none"]
    /\ payCanceled = [o \in Orders |-> FALSE]
    /\ payTries    = [o \in Orders |-> 0]
    /\ payReady    = [o \in Orders |-> FALSE]
    /\ paySignal   = [o \in Orders |-> FALSE]
    /\ revAt       = [o \in Orders |-> "none"]
    /\ revTries    = [o \in Orders |-> 0]
    /\ revFound    = [o \in Orders |-> "absent"]
    /\ transfers   = [o \in Orders |-> 0]
    /\ reversals   = [o \in Orders |-> 0]
    /\ hookAt      = [e \in AcctEvents |-> "idle"]
    /\ hookEnabled = [e \in AcctEvents |-> FALSE]
    /\ hookTodo    = [e \in AcctEvents |-> {}]
    /\ crashes     = 0

-----------------------------------------------------------------------------
(* The seller's account at the provider, and the events it causes.         *)

\* The sell page's button: the account is created at the provider and its row
\* upserted; a second click finds the row and changes nothing.
StartPayoutOnboarding(s) ==
    /\ account[s] = "no_account"
    /\ account' = [account EXCEPT ![s] = "onboarding_incomplete"]
    /\ UNCHANGED <<providerVars, payout, payVars, revVars, hookVars, crashes>>

\* The provider changes its mind about the seller (onboarding finished, or
\* standing withdrawn) and sends an account.updated event that says so.
StandingChanges(s, e) ==
    /\ account[s] # "no_account"
    /\ standing[s] => StandingMayDrop
    /\ EventSeller(e) = s
    /\ hookAt[e] = "idle"
    /\ standing' = [standing EXCEPT ![s] = ~standing[s]]
    /\ hookAt' = [hookAt EXCEPT ![e] = "sent"]
    /\ hookEnabled' = [hookEnabled EXCEPT ![e] = ~standing[s]]
    /\ UNCHANGED <<transfers, reversals, rowVars, payVars, revVars, hookTodo, crashes>>

-----------------------------------------------------------------------------
(* applyEvent for payout_account_updated.  Events are delivered in any     *)
(* order and more than once; the delivery that inserts the event id is the *)
(* one that goes on, any other is a "duplicate" and changes nothing.       *)

ClaimAcctEvent(e) ==
    /\ hookAt[e] = "sent"
    /\ hookAt' = [hookAt EXCEPT ![e] = "sync"]
    /\ UNCHANGED <<providerVars, rowVars, payVars, revVars, hookEnabled, hookTodo, crashes>>

SyncPayoutAccount(e) ==
    LET s == EventSeller(e)
    IN  /\ hookAt[e] = "sync"
        /\ IF account[s] = "no_account"
             THEN /\ hookAt' = [hookAt EXCEPT ![e] = "done"]
                  /\ UNCHANGED account
             ELSE /\ account' = [account EXCEPT ![s] =
                        IF hookEnabled[e] THEN "ready" ELSE "onboarding_incomplete"]
                  /\ hookAt' = [hookAt EXCEPT ![e] =
                        IF hookEnabled[e] THEN "list" ELSE "done"]
        /\ UNCHANGED <<providerVars, payout, payVars, revVars, hookEnabled, hookTodo, crashes>>

\* Every PENDING row carries the id of its run, written with the row.
ParkedPayouts(s) == {o \in Orders : SellerOf[o] = s /\ payout[o] = "PENDING"}

ListParkedRuns(e) ==
    /\ hookAt[e] = "list"
    /\ hookTodo' = [hookTodo EXCEPT ![e] = ParkedPayouts(EventSeller(e))]
    /\ hookAt' = [hookAt EXCEPT ![e] = "signal"]
    /\ UNCHANGED <<providerVars, rowVars, payVars, revVars, hookEnabled, crashes>>

\* Slip: the signal only reaches a run that is already waiting for it.
SignalWaitingRun(e, o) ==
    /\ hookAt[e] = "signal"
    /\ o \in hookTodo[e]
    /\ paySignal' = [paySignal EXCEPT ![o] = @ \/ (PayLive(o) /\ payAt[o] = "wait")]
    /\ hookTodo' = [hookTodo EXCEPT ![e] = @ \ {o}]
    /\ UNCHANGED <<providerVars, rowVars, payAt, payCanceled, payTries, payReady,
                   revVars, hookAt, hookEnabled, crashes>>

\* One iteration of resumeParkedPayouts: a run that has ended or was canceled
\* refuses the signal and the error is swallowed.
SignalRun(e, o) ==
    /\ hookAt[e] = "signal"
    /\ o \in hookTodo[e]
    /\ paySignal' = [paySignal EXCEPT ![o] = @ \/ PayLive(o)]
    /\ hookTodo' = [hookTodo EXCEPT ![e] = @ \ {o}]
    /\ UNCHANGED <<providerVars, rowVars, payAt, payCanceled, payTries, payReady,
                   revVars, hookAt, hookEnabled, crashes>>

FinishAcctEvent(e) ==
    /\ hookAt[e] = "signal"
    /\ hookTodo[e] = {}
    /\ hookAt' = [hookAt EXCEPT ![e] = "done"]
    /\ UNCHANGED <<providerVars, rowVars, payVars, revVars, hookEnabled, hookTodo, crashes>>

\* The process serving the delivery dies: the id stays claimed, so the
\* provider's redelivery is a duplicate and the rest of the work is lost.
HookCrash(e) ==
    /\ HookMayCrash
    /\ AProcessDies
    /\ hookAt[e] \in {"sync", "list", "signal"}
    /\ hookAt' = [hookAt EXCEPT ![e] = "dead"]
    /\ UNCHANGED <<providerVars, rowVars, payVars, revVars, hookEnabled, hookTodo>>

-----------------------------------------------------------------------------
(* The seller-payout run.                                                  *)

PayGoesTo(o, at) == payAt' = [payAt EXCEPT ![o] = at]

\* The run id is derived from the order, so starting it again finds it there.
StartSellerPayout(o) ==
    /\ payAt[o] = "none"
    /\ PayGoesTo(o, "record-owed")
    /\ UNCHANGED <<providerVars, rowVars, payCanceled, payTries, payReady, paySignal,
                   revVars, hookVars, crashes>>

\* recordOwedPayout writes the row first ...
RecordOwedUpsert(o) ==
    /\ payAt[o] = "record-owed"
    /\ PayLive(o)
    /\ payout' = [payout EXCEPT ![o] = IF @ = "absent" THEN "PENDING" ELSE @]
    /\ PayGoesTo(o, "record-owed:account")
    /\ UNCHANGED <<providerVars, account, payCanceled, payTries, payReady, paySignal,
                   revVars, hookVars, crashes>>

\* ... and reads the account after it.
RecordOwedReadAccount(o) ==
    /\ payAt[o] = "record-owed:account"
    /\ payReady' = [payReady EXCEPT ![o] = PayoutReady(account[SellerOf[o]])]
    /\ PayGoesTo(o, "record-owed:memo")
    /\ UNCHANGED <<providerVars, rowVars, payCanceled, payTries, paySignal,
                   revVars, hookVars, crashes>>

\* Slip: the account is read before the row is written.
RecordOwedReadsFirst(o) ==
    \/ /\ payAt[o] = "record-owed"
       /\ PayLive(o)
       /\ payReady' = [payReady EXCEPT ![o] = PayoutReady(account[SellerOf[o]])]
       /\ PayGoesTo(o, "record-owed:account")
       /\ UNCHANGED <<providerVars, rowVars, payCanceled, payTries, paySignal,
                      revVars, hookVars, crashes>>
    \/ /\ payAt[o] = "record-owed:account"
       /\ payout' = [payout EXCEPT ![o] = IF @ = "absent" THEN "PENDING" ELSE @]
       /\ PayGoesTo(o, "record-owed:memo")
       /\ UNCHANGED <<providerVars, account, payCanceled, payTries, payReady, paySignal,
                      revVars, hookVars, crashes>>

RecordOwed(o) == RecordOwedUpsert(o) \/ RecordOwedReadAccount(o)

\* The step is remembered; a seller who cannot be paid yet parks the run.
RecordOwedDone(o) ==
    /\ payAt[o] = "record-owed:memo"
    /\ PayLive(o)
    /\ PayGoesTo(o, IF payReady[o] THEN "transfer" ELSE "wait")
    /\ UNCHANGED <<providerVars, rowVars, payCanceled, payTries, payReady, paySignal,
                   revVars, hookVars, crashes>>

\* The wait has no timeout: only the signal ends it.
Wake(o) ==
    /\ payAt[o] = "wait"
    /\ PayLive(o)
    /\ paySignal[o]
    /\ paySignal' = [paySignal EXCEPT ![o] = FALSE]
    /\ PayGoesTo(o, "transfer")
    /\ UNCHANGED <<providerVars, rowVars, payCanceled, payTries, payReady,
                   revVars, hookVars, crashes>>

TransferBegin(o) ==
    /\ payAt[o] = "transfer"
    /\ PayLive(o)
    /\ PayGoesTo(o, "transfer:payout")
    /\ UNCHANGED <<providerVars, rowVars, payCanceled, payTries, payReady, paySignal,
                   revVars, hookVars, crashes>>

\* payoutToSend: a payout that is no longer PENDING has nothing to send.
PayoutToSend(o) ==
    /\ payAt[o] = "transfer:payout"
    /\ PayGoesTo(o, IF payout[o] = "PENDING" THEN "transfer:account" ELSE "transfer:null")
    /\ UNCHANGED <<providerVars, rowVars, payCanceled, payTries, payReady, paySignal,
                   revVars, hookVars, crashes>>

\* An attempt of the transfer step throws: the engine retries it later, and
\* fails the run once the attempts are spent.
TransferFails(o) ==
    /\ payTries' = [payTries EXCEPT ![o] = @ + 1]
    /\ PayGoesTo(o, IF payTries[o] + 1 < MaxAttempts THEN "transfer" ELSE "failed")

\* payoutToSend, second half: throws when the account cannot be paid now.
TransferReadAccount(o) ==
    /\ payAt[o] = "transfer:account"
    /\ IF PayoutReady(account[SellerOf[o]])
         THEN PayGoesTo(o, "transfer:send") /\ UNCHANGED payTries
         ELSE TransferFails(o)
    /\ UNCHANGED <<providerVars, rowVars, payCanceled, payReady, paySignal,
                   revVars, hookVars, crashes>>

\* Slip: the transfer carries no idempotency key.
MakeTransferUnkeyed(o) == transfers' = [transfers EXCEPT ![o] = @ + 1]

\* sendPayout, made under the payout's id as idempotency key: the provider
\* makes the transfer once and answers every repetition with that one.
MakeTransfer(o) == transfers' = [transfers EXCEPT ![o] = IF @ = 0 THEN 1 ELSE @]

\* The provider makes the transfer; its answer arrives, or is lost and the
\* attempt counts as failed.
TransferSent(o) ==
    /\ payAt[o] = "transfer:send"
    /\ MakeTransfer(o)
    /\ \/ PayGoesTo(o, "transfer:memo") /\ UNCHANGED payTries
       \/ TransferFails(o)
    /\ UNCHANGED <<standing, reversals, rowVars, payCanceled, payReady, paySignal,
                   revVars, hookVars, crashes>>

\* The provider refuses or cannot be reached, and nothing was sent.
TransferRefused(o) ==
    /\ payAt[o] = "transfer:send"
    /\ TransferFails(o)
    /\ UNCHANGED <<providerVars, rowVars, payCanceled, payReady, paySignal,
                   revVars, hookVars, crashes>>

\* The step's result is remembered: nothing to send ends the run.
TransferDone(o) ==
    /\ PayLive(o)
    /\ \/ payAt[o] = "transfer:memo" /\ PayGoesTo(o, "mark-sent")
       \/ payAt[o] = "transfer:null" /\ PayGoesTo(o, "canceled")
    /\ UNCHANGED <<providerVars, rowVars, payCanceled, payTries, payReady, paySignal,
                   revVars, hookVars, crashes>>

\* The conditional UPDATE every change of a payout's status goes through.
Transition(o, to) ==
    payout' = [payout EXCEPT ![o] = IF @ \in PayoutPredecessorsOf(to) THEN to ELSE @]

MarkSent(o) ==
    /\ payAt[o] = "mark-sent"
    /\ PayLive(o)
    /\ Transition(o, "PAID")
    /\ PayGoesTo(o, "mark-sent:memo")
    /\ UNCHANGED <<providerVars, account, payCanceled, payTries, payReady, paySignal,
                   revVars, hookVars, crashes>>

MarkSentDone(o) ==
    /\ payAt[o] = "mark-sent:memo"
    /\ PayLive(o)
    /\ PayGoesTo(o, "paid")
    /\ UNCHANGED <<providerVars, rowVars, payCanceled, payTries, payReady, paySignal,
                   revVars, hookVars, crashes>>

\* The worker executing the run dies: what the run remembers is the last
\* finished step, and another worker takes it up from there.
PayCrash(o) ==
    /\ AProcessDies
    /\ payAt[o] \in PayInsideStep
    /\ PayGoesTo(o, StepStart(payAt[o]))
    /\ UNCHANGED <<providerVars, rowVars, payCanceled, payTries, payReady, paySignal,
                   revVars, hookVars>>

-----------------------------------------------------------------------------
(* The payout-reversal run.                                                *)

RevGoesTo(o, at) == revAt' = [revAt EXCEPT ![o] = at]

StartPayoutReversal(o) ==
    /\ revAt[o] = "none"
    /\ RevGoesTo(o, "find-payout")
    /\ UNCHANGED <<providerVars, rowVars, payVars, revTries, revFound, hookVars, crashes>>

\* Slip: only a PENDING payout is cancelled; anything else is reversed.
FindPayoutByPending(o) ==
    /\ revAt[o] = "find-payout"
    /\ revFound' = [revFound EXCEPT ![o] = payout[o]]
    /\ RevGoesTo(o, IF payout[o] = "absent" THEN "nothing"
                    ELSE IF payout[o] = "PENDING" THEN "cancel" ELSE "canceled")
    /\ UNCHANGED <<providerVars, rowVars, payVars, revTries, hookVars, crashes>>

\* The payout as it is now is remembered, and decides the rest of the run.
FindPayout(o) ==
    /\ revAt[o] = "find-payout"
    /\ revFound' = [revFound EXCEPT ![o] = payout[o]]
    /\ RevGoesTo(o, IF payout[o] = "absent" THEN "nothing"
                    ELSE IF payout[o] = "PAID" THEN "reverse" ELSE "cancel")
    /\ UNCHANGED <<providerVars, rowVars, payVars, revTries, hookVars, crashes>>

\* engine.cancel of the run the row names; a run that has ended stays as it is.
CancelRun(o) ==
    /\ revAt[o] = "cancel"
    /\ payCanceled' = [payCanceled EXCEPT ![o] = @ \/ PayLive(o)]
    /\ RevGoesTo(o, "cancel:row")
    /\ UNCHANGED <<providerVars, rowVars, payAt, payTries, payReady, paySignal,
                   revTries, revFound, hookVars, crashes>>

\* Slip: the run is stopped and the row left as it was.
CancelPayoutForgetsRow(o) ==
    /\ revAt[o] = "cancel:row"
    /\ RevGoesTo(o, "canceled")
    /\ UNCHANGED <<providerVars, rowVars, payVars, revTries, revFound, hookVars, crashes>>

CancelPayout(o) ==
    /\ revAt[o] = "cancel:row"
    /\ Transition(o, "CANCELED")
    /\ RevGoesTo(o, "canceled")
    /\ UNCHANGED <<providerVars, account, payVars, revTries, revFound, hookVars, crashes>>

ReverseFails(o) ==
    /\ revTries' = [revTries EXCEPT ![o] = @ + 1]
    /\ RevGoesTo(o, IF revTries[o] + 1 < MaxAttempts THEN "reverse" ELSE "failed")

\* reversePayout, under the transfer's reference as idempotency key.
MakeReversal(o) == reversals' = [reversals EXCEPT ![o] = IF @ = 0 THEN 1 ELSE @]

ReverseTransfer(o) ==
    /\ revAt[o] = "reverse"
    /\ MakeReversal(o)
    /\ \/ RevGoesTo(o, "mark-reversed") /\ UNCHANGED revTries
       \/ ReverseFails(o)
    /\ UNCHANGED <<standing, transfers, rowVars, payVars, revFound, hookVars, crashes>>

ReverseRefused(o) ==
    /\ revAt[o] = "reverse"
    /\ ReverseFails(o)
    /\ UNCHANGED <<providerVars, rowVars, payVars, revFound, hookVars, crashes>>

MarkReversed(o) ==
    /\ revAt[o] = "mark-reversed"
    /\ Transition(o, "REVERSED")
    /\ RevGoesTo(o, "reversed")
    /\ UNCHANGED <<providerVars, account, payVars, revTries, revFound, hookVars, crashes>>

\* The worker dies between the two calls of the cancel step.  (Every other
\* step of this run is one call, and repeating it changes nothing.)
RevCrash(o) ==
    /\ AProcessDies
    /\ revAt[o] = "cancel:row"
    /\ RevGoesTo(o, "cancel")
    /\ UNCHANGED <<providerVars, rowVars, payVars, revTries, revFound, hookVars>>

-----------------------------------------------------------------------------
PayStep(o) ==
    \/ RecordOwed(o) \/ RecordOwedDone(o) \/ Wake(o)
    \/ TransferBegin(o) \/ PayoutToSend(o) \/ TransferReadAccount(o)
    \/ TransferSent(o) \/ TransferRefused(o) \/ TransferDone(o)
    \/ MarkSent(o) \/ MarkSentDone(o)

RevStep(o) ==
    \/ FindPayout(o) \/ CancelRun(o) \/ CancelPayout(o)
    \/ ReverseTransfer(o) \/ ReverseRefused(o) \/ MarkReversed(o)

HookStep(e) ==
    \/ ClaimAcctEvent(e) \/ SyncPayoutAccount(e) \/ ListParkedRuns(e)
    \/ \E o \in Orders : SignalRun(e, o)
    \/ FinishAcctEvent(e)

\* What billing does to this component: an order became PAID, or REFUNDED.
\* (Billing's two handlers may reach these calls in either order.)
SaleStep ==
    \/ \E o \in Orders : StartSellerPayout(o)
    \/ \E o \in Refundable : StartPayoutReversal(o)

\* Everything in Next but what billing does.
PayoutsStep ==
    \/ \E o \in Orders : PayStep(o) \/ RevStep(o) \/ PayCrash(o) \/ RevCrash(o)
    \/ \E e \in AcctEvents : HookStep(e) \/ HookCrash(e)
    \/ \E s \in Sellers : StartPayoutOnboarding(s)
    \/ \E s \in Sellers, e \in AcctEvents : StandingChanges(s, e)

\* A process that is executing no run and serving no account event dies.
OtherCrash == AProcessDies /\ UNCHANGED payoutVars

PayoutsNext == SaleStep \/ PayoutsStep \/ OtherCrash

PayoutsSpec == PayoutsInit /\ [][PayoutsNext]_payoutsVars

\* The cron tick and the inline ticks take every due run; the provider
\* redelivers an event until it is answered, and a handler runs to its end.
PayoutsFairness ==
    /\ \A o \in Orders : WF_payoutsVars(PayStep(o)) /\ WF_payoutsVars(RevStep(o))
    /\ \A e \in AcctEvents : WF_payoutsVars(HookStep(e))

FairPayoutsSpec == PayoutsSpec /\ PayoutsFairness

-----------------------------------------------------------------------------
(* Properties.                                                             *)

\* The run has read the account as not ready and no signal is kept for it:
\* nothing but a signal will take it to its transfer.
Parked(o) ==
    /\ \/ payAt[o] = "record-owed:memo" /\ ~payReady[o]
       \/ payAt[o] = "wait"
    /\ ~payCanceled[o]
    /\ ~paySignal[o]

WakeUpInHand(o) ==
    \E e \in AcctEvents :
        /\ EventSeller(e) = SellerOf[o]
        /\ hookEnabled[e]
        /\ \/ hookAt[e] = "list"
           \/ hookAt[e] = "signal" /\ o \in hookTodo[e]
           \/ hookAt[e] = "dead"

\* No lost wake-up: a payout is never left parked on a seller whose row says
\* they can be paid, unless a webhook handler is on its way to signal it, or
\* has died on its way: a crash is the only thing that loses a wake-up.
\* The run writes its row and then reads the account; the webhook writes the
\* account and then reads the rows.
NoLostWakeup ==
    \A o \in Orders :
        Parked(o) /\ account[SellerOf[o]] = "ready" => WakeUpInHand(o)

\* A step that runs twice pays once, and the row tells the truth about the
\* provider: a payout that reads PAID was transferred, one that reads
\* REVERSED was transferred and taken back, and nothing is taken back twice
\* or without having been sent.
RowsMatchProvider ==
    \A o \in Orders :
        /\ reversals[o] <= transfers[o]
        /\ transfers[o] <= 1
        /\ payout[o] \in {"PAID", "REVERSED"} => transfers[o] = 1
        /\ payout[o] = "REVERSED" => reversals[o] = 1

\* Money owed always has someone working on it: a PENDING row has a live run,
\* or a reversal about to cancel it, unless the transfer spent its attempts.
PendingHasOwner ==
    \A o \in Orders :
        payout[o] = "PENDING" =>
            \/ PayLive(o)
            \/ revAt[o] \in {"cancel", "cancel:row"}
            \/ payAt[o] = "failed"

\* A payout's status only moves along the machine, whatever is repeated after
\* a crash and however the two runs interleave.
PayoutForwardOnly ==
    [][\A o \in Orders :
         \/ payout'[o] = payout[o]
         \/ payout[o] = "absent" /\ payout'[o] = "PENDING"
         \/ CanTransitionPayout(payout[o], payout'[o])]_payout

\* A reversal that found a sent payout ends with the money taken back, or
\* with its attempts spent.
FoundPaidIsReversed ==
    \A o \in Orders :
        revFound[o] = "PAID" =>
            \/ revAt[o] \in {"reverse", "mark-reversed", "failed"}
            \/ revAt[o] = "reversed" /\ payout[o] = "REVERSED" /\ reversals[o] = 1

PaySettled(o) ==
    payAt[o] \in {"paid", "canceled"} \/ payCanceled[o] \/ payTries[o] = MaxAttempts

\* What a seller has earned is sent once the provider will pay them: the run
\* ends, is canceled by a refund, or has spent its attempts.
EarnedMoneyMoves ==
    \A o \in Orders :
        (payAt[o] # "none" /\ standing[SellerOf[o]]) ~> PaySettled(o)

\* A refund starts payout-reversal, which reverses the transfer if there was
\* one and otherwise cancels the payout: when both runs are over, the seller
\* holds no money of a refunded sale.
RunsOver(o) ==
    /\ payAt[o] \in PayEnded \/ (payCanceled[o] /\ payAt[o] \notin PayInsideStep)
    /\ revAt[o] \in RevEnded \ {"failed"}
RefundedSaleIsNotPaidOut ==
    \A o \in Orders : RunsOver(o) => transfers[o] = reversals[o]

\* An account that lost its standing between the signal and the transfer is
\* worth waiting for rather than a reason to drop the money: no run gives up
\* on a payout because the seller's account is not ready.
LostStandingIsWaitedFor ==
    \A o \in Orders :
        payAt[o] = "failed" /\ payout[o] = "PENDING" => account[SellerOf[o]] = "ready"

\* What a seller has earned does not expire: once the provider will pay them
\* out for good, their parked payouts are sent.
StandingSellerIsPaid ==
    \A o \in Orders :
        <>[]standing[SellerOf[o]] => (payAt[o] # "none" ~> PaySettled(o))
=============================================================================
