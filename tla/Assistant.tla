------------------------------ MODULE Assistant ------------------------------
(***************************************************************************)
(* One account's monthly AI budget, and the calls that spend it: questions *)
(* to a listing's assistant, remembered in a thread, and drafts of a       *)
(* translation.  One account, one listing; accounts and listings share     *)
(* nothing here.  A call is metered, runs, and is given back if it fails   *)
(* with nothing delivered.  Tokens are abstracted to turns.                *)
(***************************************************************************)
EXTENDS Integers, Sequences, FiniteSets, SequencesExt

CONSTANTS
    Calls,      \* the account's requests, questions and drafts
    Asks,       \* those that are questions; the others are drafts
    FreeQuota, ProQuota, \* aiMessages a month
    SummaryMax, \* questions one fold keeps
    Environments, \* bound: the settings below that may be set
    MaxMonth    \* bound: months

ASSUME AssistantAssumption ==
    /\ IsFiniteSet(Calls) /\ Asks \subseteq Calls
    /\ FreeQuota \in Nat /\ ProQuota \in Nat /\ FreeQuota <= ProQuota
    /\ SummaryMax \in Nat \ {0}
    /\ \A e \in Environments : e \subseteq {"FAKE_PROVIDERS", "STRIPE_SECRET_KEY", "ANTHROPIC_API_KEY"}
    /\ MaxMonth \in Nat \ {0}

VARIABLES
    env,         \* the settings that are set
    month,       \* currentPeriod
    plan,        \* the plan the account's subscription entitles it to
    used,        \* UsageCounter.used by month
    callAt,      \* where each call is
    limit,       \* the quota it read
    meteredIn,   \* the month whose counter it took a unit of, or 0
    givenBackIn, \* the month whose counter got the unit back, or 0
    delivered,   \* whether a token of it reached the buyer
    thread,      \* the calls whose turns are rows, in the order of ordinal
    history,     \* the thread as the call read it
    folded,      \* how many turns of it its memory has dropped so far
    summary      \* the questions its model is told of in their place

Months == 1..MaxMonth
Settings == {"FAKE_PROVIDERS", "STRIPE_SECRET_KEY", "ANTHROPIC_API_KEY"}
Places == {"asked", "planned", "metered", "running", "recording", "refunding",
           "refused", "answered", "failed", "lost"}
Ended(c) == callAt[c] \in {"refused", "answered", "failed", "lost"}

quotaVars  == <<used, limit, meteredIn, givenBackIn>>
memoryVars == <<history, folded, summary>>
assistantVars == <<env, month, plan, callAt, quotaVars, delivered, thread, memoryVars>>

TypeOKCalls ==
    /\ env         \subseteq Settings
    /\ month       \in Months
    /\ plan        \in {"free", "pro"}
    /\ used        \in [Months -> Nat]
    /\ callAt      \in [Calls -> Places]
    /\ limit       \in [Calls -> {FreeQuota, ProQuota}]
    /\ meteredIn   \in [Calls -> 0..MaxMonth]
    /\ givenBackIn \in [Calls -> 0..MaxMonth]
    /\ delivered   \in [Calls -> BOOLEAN]

TypeOKThreads ==
    /\ thread      \in Seq(Asks)
    /\ history     \in [Calls -> Seq(Asks)]
    /\ folded      \in [Calls -> Nat]
    /\ summary     \in [Calls -> Seq(Asks)]

TypeOKAssistant == TypeOKCalls /\ TypeOKThreads

AssistantInit ==
    /\ env \in Environments
    /\ month = 1
    /\ plan \in {"free", "pro"}
    /\ used = [m \in Months |-> 0]
    /\ callAt = [c \in Calls |-> "asked"]
    /\ limit = [c \in Calls |-> FreeQuota]
    /\ meteredIn = [c \in Calls |-> 0]
    /\ givenBackIn = [c \in Calls |-> 0]
    /\ delivered = [c \in Calls |-> FALSE]
    /\ thread = <<>>
    /\ history = [c \in Calls |-> <<>>]
    /\ folded = [c \in Calls |-> 0]
    /\ summary = [c \in Calls |-> <<>>]

Goes(c, from, to) == callAt[c] = from /\ callAt' = [callAt EXCEPT ![c] = to]

-----------------------------------------------------------------------------
(* The gate.                                                               *)

NextMonth ==
    /\ month < MaxMonth
    /\ month' = month + 1
    /\ UNCHANGED <<env, plan, callAt, quotaVars, delivered, thread, memoryVars>>

ChangePlan ==
    /\ plan' = IF plan = "free" THEN "pro" ELSE "free"
    /\ UNCHANGED <<env, month, callAt, quotaVars, delivered, thread, memoryVars>>

\* Derived on every read; both plans include ask_ai, so only the quota counts.
QuotaOf(p) == IF p = "pro" THEN ProQuota ELSE FreeQuota

ReadPlan(c) ==
    /\ Goes(c, "asked", "planned")
    /\ limit' = [limit EXCEPT ![c] = QuotaOf(plan)]
    /\ UNCHANGED <<env, month, plan, used, meteredIn, givenBackIn, delivered, thread, memoryVars>>

Admitted(c, count) ==
    IF count > limit[c] THEN "refused" ELSE IF c \in Asks THEN "metered" ELSE "running"

\* Slip: allowed by the count before its own increment.
MeterJudgesBefore(c) ==
    /\ Goes(c, "planned", Admitted(c, used[month]))
    /\ used' = [used EXCEPT ![month] = @ + 1]
    /\ meteredIn' = [meteredIn EXCEPT ![c] = month]
    /\ UNCHANGED <<env, month, plan, limit, givenBackIn, delivered, thread, memoryVars>>

\* One upsert, whose returned count decides; a refused call has counted too.
Meter(c) ==
    /\ Goes(c, "planned", Admitted(c, used[month] + 1))
    /\ used' = [used EXCEPT ![month] = @ + 1]
    /\ meteredIn' = [meteredIn EXCEPT ![c] = month]
    /\ UNCHANGED <<env, month, plan, limit, givenBackIn, delivered, thread, memoryVars>>

\* refundMeter: the counter of the month it now is, and never below zero.
Refund(c) ==
    /\ Goes(c, "refunding", "failed")
    /\ IF used[month] >= 1
       THEN /\ used' = [used EXCEPT ![month] = @ - 1]
            /\ givenBackIn' = [givenBackIn EXCEPT ![c] = month]
       ELSE UNCHANGED <<used, givenBackIn>>
    /\ UNCHANGED <<env, month, plan, limit, meteredIn, delivered, thread, memoryVars>>

-----------------------------------------------------------------------------
(* The run.                                                                *)

\* The stand-ins serve where they are asked for; beside a real key, nothing does.
FakesRequested ==
    IF "FAKE_PROVIDERS" \notin env THEN "no"
    ELSE IF env \intersect {"STRIPE_SECRET_KEY", "ANTHROPIC_API_KEY"} # {} THEN "throws" ELSE "yes"

HasKey == FakesRequested = "no" /\ "ANTHROPIC_API_KEY" \in env

ModelProvider == FakesRequested = "yes" \/ HasKey

\* The read is outside the try that refunds: failing, it loses the unit.
ReadThread(c) ==
    /\ \/ Goes(c, "metered", "running") /\ history' = [history EXCEPT ![c] = thread]
       \/ Goes(c, "metered", "lost")    /\ UNCHANGED history
    /\ UNCHANGED <<env, month, plan, quotaVars, delivered, thread, folded, summary>>

\* What a fold says of dropped turns: the newest SummaryMax of their questions.
QuestionsOf(s) ==
    SubSeq(s, 1 + (IF Len(s) > SummaryMax THEN Len(s) - SummaryMax ELSE 0), Len(s))

\* Slip: every call folds again all that has been dropped.
ModelCallFoldsAgain(c) ==
    /\ c \in Asks /\ callAt[c] = "running" /\ ModelProvider
    /\ \E n \in folded[c]..Len(history[c]) :
         /\ folded' = [folded EXCEPT ![c] = n]
         /\ summary' = [summary EXCEPT ![c] = @ \o QuestionsOf(SubSeq(history[c], 1, n))]
    /\ UNCHANGED <<env, month, plan, callAt, quotaVars, delivered, thread, history>>

\* Whole turns beyond the budget are dropped, oldest first; what the run has
\* added since makes the budget tighter.  Only the newly dropped are folded.
ModelCall(c) ==
    /\ c \in Asks /\ callAt[c] = "running" /\ ModelProvider
    /\ \E n \in folded[c]..Len(history[c]) :
         /\ folded' = [folded EXCEPT ![c] = n]
         /\ summary' = [summary EXCEPT ![c] = @ \o QuestionsOf(SubSeq(history[c], folded[c] + 1, n))]
    /\ UNCHANGED <<env, month, plan, callAt, quotaVars, delivered, thread, history>>

Deliver(c) ==
    /\ c \in Asks /\ callAt[c] = "running" /\ ModelProvider
    /\ delivered' = [delivered EXCEPT ![c] = TRUE]
    /\ UNCHANGED <<env, month, plan, callAt, quotaVars, thread, memoryVars>>

\* An answer with text is worth a turn; an empty one is none, and is paid.
Answer(c) ==
    /\ c \in Asks /\ Goes(c, "running", IF delivered[c] THEN "recording" ELSE "answered")
    /\ ModelProvider
    /\ UNCHANGED <<env, month, plan, quotaVars, delivered, thread, memoryVars>>

\* Slip: the turn is numbered after the thread the run had read.
RecordTurnAfterRead(c) ==
    /\ Goes(c, "recording", "answered")
    /\ thread' \in {thread, Append(history[c], c)}
    /\ UNCHANGED <<env, month, plan, quotaVars, delivered, memoryVars>>

\* The increment takes the row's lock; a failure to write is swallowed.
RecordTurn(c) ==
    /\ Goes(c, "recording", "answered")
    /\ thread' \in {thread, Append(thread, c)}
    /\ UNCHANGED <<env, month, plan, quotaVars, delivered, memoryVars>>

\* No provider, or one that fails: given back unless a token was read.
AskFails(c) ==
    /\ c \in Asks /\ Goes(c, "running", IF delivered[c] THEN "lost" ELSE "refunding")
    /\ UNCHANGED <<env, month, plan, quotaVars, delivered, thread, memoryVars>>

\* What one call of a translator comes to, and the replies that are its fields.
DraftReplies == {"throws", "prose", "out of bounds", "fields", "fenced fields"}
ParseDraft(reply) == reply \in {"fields", "fenced fields"}

\* The stand-in hands the seller's own words back.
DraftProvider ==
    CASE FakesRequested = "yes" -> {"throws", "fields"} [] HasKey -> DraftReplies [] OTHER -> {"throws"}

DraftWith(reply) == IF ParseDraft(reply) THEN "answered" ELSE "refunding"

\* Slip: a reply that is not the two fields is an error, and stays charged.
DraftReturnsUnparsed(c) ==
    /\ c \notin Asks
    /\ \E reply \in DraftProvider :
         Goes(c, "running", IF ParseDraft(reply) THEN "answered"
                            ELSE IF reply = "throws" THEN "refunding" ELSE "failed")
    /\ UNCHANGED <<env, month, plan, quotaVars, delivered, thread, memoryVars>>

DraftReturns(c) ==
    /\ c \notin Asks
    /\ \E reply \in DraftProvider : Goes(c, "running", DraftWith(reply))
    /\ UNCHANGED <<env, month, plan, quotaVars, delivered, thread, memoryVars>>

Die(c) ==
    /\ ~Ended(c) /\ callAt[c] # "asked"
    /\ callAt' = [callAt EXCEPT ![c] = "lost"]
    /\ UNCHANGED <<env, month, plan, quotaVars, delivered, thread, memoryVars>>

AssistantNext ==
    \/ NextMonth
    \/ ChangePlan
    \/ \E c \in Calls :
         \/ ReadPlan(c) \/ Meter(c) \/ ReadThread(c) \/ ModelCall(c) \/ Deliver(c)
         \/ Answer(c) \/ RecordTurn(c) \/ AskFails(c) \/ DraftReturns(c)
         \/ Refund(c) \/ Die(c)

AssistantSpec == AssistantInit /\ [][AssistantNext]_assistantVars

-----------------------------------------------------------------------------
Metered(m)   == {c \in Calls : meteredIn[c] = m}
GivenBack(m) == {c \in Calls : givenBackIn[c] = m}
Strays(m)    == {c \in GivenBack(m) : meteredIn[c] # m}
Allowed(m)   == {c \in Metered(m) : callAt[c] # "refused"}
Charged(m)   == {c \in Allowed(m) : givenBackIn[c] = 0}

\* A month's counter is the calls that counted in it less those given back in
\* it (usage.ts): no interleaving of increments, decrements and month ends
\* loses or invents a unit.
CounterIsTheBooks ==
    \A m \in Months : used[m] = Cardinality(Metered(m)) - Cardinality(GivenBack(m))

\* The calls a month lets through and keeps charged stay within the quota one
\* of them read, however they interleave with refunds and changes of plan; the
\* only excess is units of an earlier month given back to this one.
QuotaHolds ==
    \A m \in Months : Charged(m) # {} =>
        \E c \in Allowed(m) :
            Cardinality(Charged(m)) <= limit[c] + Cardinality(Strays(m))

\* A call is paid for exactly when something of it was delivered: an answer a
\* buyer has begun to read is never given back, even when its run dies, and a
\* call that failed with nothing to show is, unless the month it was metered in
\* has ended (assistant.ts:166, translate.ts:84).
PaidIfDelivered ==
    \A c \in Calls :
        /\ delivered[c] \/ callAt[c] = "answered" => givenBackIn[c] = 0
        /\ callAt[c] = "failed" =>
             givenBackIn[c] # 0 \/ meteredIn[c] < month \/ Strays(month) # {}

\* The thread a run was asked inside is how the thread still begins: two tabs
\* that record at once lose no turn and reorder none (conversations.ts:19).
HistoryIsPrefix == \A c \in Calls : IsPrefix(history[c], thread)

\* However many model calls a run makes, no question is read twice: not in the
\* fold, and not in the fold and in the window (domain/conversation.ts:51).
NoQuestionReadTwice ==
    \A c \in Calls :
        /\ IsInjective(summary[c])
        /\ \A i \in DOMAIN summary[c] : \A j \in folded[c] + 1..Len(history[c]) :
               summary[c][i] # history[c][j]
=============================================================================
