---------------------------- MODULE SellersProofs -----------------------------
(***************************************************************************)
(* Theorems about what a seller works with: Assistant, for any calls,      *)
(* quotas and number of months, then Listings, for any numbers of listings, *)
(* reviewers and runs.                                                     *)
(***************************************************************************)
EXTENDS Assistant, Listings, FiniteSetTheorems, SequenceTheorems, TLAPS

-----------------------------------------------------------------------------
(* Assistant.                                                              *)

\* Type correctness of the counters and of the calls they count.
THEOREM CallsTypeCorrect == AssistantSpec => []TypeOKCalls
<1>1. AssistantInit => TypeOKCalls
  BY AssistantAssumption DEF AssistantInit, TypeOKCalls, Settings, Months, Places
<1>2. ASSUME TypeOKCalls, [AssistantNext]_assistantVars
      PROVE  TypeOKCalls'
  <2> USE <1>2 DEF quotaVars
  <2>1. CASE NextMonth
    BY <2>1, AssistantAssumption DEF NextMonth, TypeOKCalls, Months
  <2>2. CASE ChangePlan
    BY <2>2 DEF ChangePlan, TypeOKCalls
  <2>3. ASSUME NEW c \in Calls, ReadPlan(c)
        PROVE  TypeOKCalls'
    BY <2>3 DEF ReadPlan, Goes, QuotaOf, TypeOKCalls, Places
  <2>4. ASSUME NEW c \in Calls, Meter(c)
        PROVE  TypeOKCalls'
    <3>1. month \in 0..MaxMonth /\ used[month] + 1 \in Nat
      BY AssistantAssumption DEF TypeOKCalls, Months
    <3>2. Admitted(c, used[month] + 1) \in Places
      BY DEF Admitted, Places
    <3> QED
      BY <2>4, <3>1, <3>2 DEF Meter, Goes, TypeOKCalls
  <2>5. ASSUME NEW c \in Calls, Refund(c)
        PROVE  TypeOKCalls'
    <3>1. month \in 0..MaxMonth /\ (used[month] >= 1 => used[month] - 1 \in Nat)
      BY AssistantAssumption DEF TypeOKCalls, Months
    <3> QED
      BY <2>5, <3>1 DEF Refund, Goes, TypeOKCalls, Places
  <2>6. ASSUME NEW c \in Calls, ReadThread(c) \/ Answer(c) \/ RecordTurn(c) \/ AskFails(c) \/ Die(c)
        PROVE  TypeOKCalls'
    BY <2>6 DEF ReadThread, Answer, RecordTurn, AskFails, Die, Goes, TypeOKCalls, Places
  <2>7. ASSUME NEW c \in Calls, ModelCall(c) \/ Deliver(c)
        PROVE  TypeOKCalls'
    BY <2>7 DEF ModelCall, Deliver, TypeOKCalls
  <2>8. ASSUME NEW c \in Calls, DraftReturns(c)
        PROVE  TypeOKCalls'
    BY <2>8 DEF DraftReturns, DraftWith, Goes, TypeOKCalls, Places
  <2>9. CASE UNCHANGED assistantVars
    BY <2>9 DEF assistantVars, TypeOKCalls
  <2> QED
    BY <2>1, <2>2, <2>3, <2>4, <2>5, <2>6, <2>7, <2>8, <2>9 DEF AssistantNext
<1> QED
  BY <1>1, <1>2, PTL DEF AssistantSpec

-----------------------------------------------------------------------------
(* Threads.                                                                *)

LEMMA PrefixOfItself ==
    ASSUME NEW S, NEW s \in Seq(S)
    PROVE  IsPrefix(s, s)
BY LenProperties DEF IsPrefix

LEMMA PrefixOfAppended ==
    ASSUME NEW S, NEW s \in Seq(S), NEW t \in Seq(S), NEW x \in S, IsPrefix(s, t)
    PROVE  IsPrefix(s, Append(t, x))
<1>1. Len(s) \in Nat /\ Len(t) \in Nat /\ Len(s) <= Len(t)
  BY LenProperties DEF IsPrefix
<1>2. Append(t, x) \in Seq(S) /\ Len(Append(t, x)) = Len(t) + 1
  OBVIOUS
<1>3. SubSeq(Append(t, x), 1, Len(s)) = SubSeq(t, 1, Len(s))
  BY <1>1
<1> QED
  BY <1>1, <1>2, <1>3 DEF IsPrefix

\* Only questions are recorded, and each was read before.
ThreadInv ==
    /\ thread \in Seq(Asks)
    /\ \A c \in Calls : history[c] \in Seq(Asks)
    /\ history \in [Calls -> Seq(Asks)]
    /\ \A c \in Calls : callAt[c] \in {"metered", "recording"} => c \in Asks
    /\ HistoryIsPrefix

LEMMA ThreadInvHolds == AssistantSpec => []ThreadInv
<1>1. AssistantInit => ThreadInv
  <2> SUFFICES ASSUME AssistantInit PROVE ThreadInv
    OBVIOUS
  <2>1. thread = <<>> /\ history = [c \in Calls |-> <<>>] /\ callAt = [c \in Calls |-> "asked"]
    BY DEF AssistantInit
  <2>2. <<>> \in Seq(Asks) /\ IsPrefix(<<>>, <<>>)
    BY EmptySeq, PrefixOfItself
  <2> QED
    BY <2>1, <2>2 DEF ThreadInv, HistoryIsPrefix
<1>2. ASSUME TypeOKCalls, ThreadInv, [AssistantNext]_assistantVars
      PROVE  ThreadInv'
  <2> USE AssistantAssumption
  <2>1. ASSUME UNCHANGED <<thread, history>>,
               \A c \in Calls : callAt'[c] \in {"metered", "recording"} => c \in Asks
        PROVE  ThreadInv'
    BY <1>2, <2>1 DEF ThreadInv, HistoryIsPrefix
  <2>2. ASSUME NEW c \in Calls, NEW to, callAt' = [callAt EXCEPT ![c] = to],
               to \in {"metered", "recording"} => c \in Asks
        PROVE  \A d \in Calls : callAt'[d] \in {"metered", "recording"} => d \in Asks
    BY <1>2, <2>2 DEF ThreadInv, TypeOKCalls
  <2>3. ASSUME UNCHANGED <<thread, history, callAt>>
        PROVE  ThreadInv'
    BY <1>2, <2>3 DEF ThreadInv, HistoryIsPrefix
  <2>4. CASE NextMonth \/ ChangePlan \/ UNCHANGED assistantVars
    BY <2>3, <2>4 DEF NextMonth, ChangePlan, assistantVars, memoryVars
  <2>5. ASSUME NEW c \in Calls, ReadPlan(c)
        PROVE  ThreadInv'
    <3>1. UNCHANGED <<thread, history>> /\ callAt' = [callAt EXCEPT ![c] = "planned"]
      BY <2>5 DEF ReadPlan, Goes, memoryVars
    <3> QED
      BY <2>1, <2>2, <3>1
  <2>6. ASSUME NEW c \in Calls, Meter(c)
        PROVE  ThreadInv'
    <3>1. UNCHANGED <<thread, history>>
            /\ callAt' = [callAt EXCEPT ![c] = Admitted(c, used[month] + 1)]
      BY <2>6 DEF Meter, Goes, memoryVars
    <3>2. Admitted(c, used[month] + 1) \in {"metered", "recording"} => c \in Asks
      BY DEF Admitted
    <3> QED
      BY <2>1, <2>2, <3>1, <3>2
  <2>7. ASSUME NEW c \in Calls, ReadThread(c)
        PROVE  ThreadInv'
    <3>1. UNCHANGED thread /\ (history' = [history EXCEPT ![c] = thread] \/ UNCHANGED history)
      BY <2>7 DEF ReadThread
    <3>2. \E to \in {"running", "lost"} : callAt' = [callAt EXCEPT ![c] = to]
      BY <2>7 DEF ReadThread, Goes
    <3>3. \A d \in Calls : callAt'[d] \in {"metered", "recording"} => d \in Asks
      BY <2>2, <3>2
    <3>4. IsPrefix(thread, thread)
      BY <1>2, PrefixOfItself DEF ThreadInv
    <3>5. history' \in [Calls -> Seq(Asks)] /\ \A d \in Calls : history'[d] \in {history[d], thread}
      BY <1>2, <3>1 DEF ThreadInv
    <3> QED
      BY <1>2, <3>1, <3>3, <3>4, <3>5 DEF ThreadInv, HistoryIsPrefix
  <2>8. ASSUME NEW c \in Calls, ModelCall(c) \/ Deliver(c)
        PROVE  ThreadInv'
    BY <2>3, <2>8 DEF ModelCall, Deliver, memoryVars
  <2>9. ASSUME NEW c \in Calls, Answer(c) \/ AskFails(c)
        PROVE  ThreadInv'
    <3>1. UNCHANGED <<thread, history>> /\ c \in Asks
            /\ \E to \in Places : callAt' = [callAt EXCEPT ![c] = to]
      BY <2>9 DEF Answer, AskFails, Goes, memoryVars, Places
    <3> QED
      BY <2>1, <2>2, <3>1
  <2>10. ASSUME NEW c \in Calls, RecordTurn(c)
         PROVE  ThreadInv'
    <3>1. c \in Asks /\ UNCHANGED history /\ callAt' = [callAt EXCEPT ![c] = "answered"]
      BY <1>2, <2>10 DEF RecordTurn, Goes, memoryVars, ThreadInv
    <3>2. \A d \in Calls : callAt'[d] \in {"metered", "recording"} => d \in Asks
      BY <2>2, <3>1
    <3>3. CASE thread' = thread
      BY <2>1, <3>1, <3>2, <3>3
    <3>4. CASE thread' = Append(thread, c)
      <4>1. thread' \in Seq(Asks)
        BY <1>2, <3>1, <3>4 DEF ThreadInv
      <4>2. \A d \in Calls : IsPrefix(history[d], thread')
        BY <1>2, <3>1, <3>4, PrefixOfAppended DEF ThreadInv, HistoryIsPrefix
      <4> QED
        BY <1>2, <3>1, <3>2, <4>1, <4>2 DEF ThreadInv, HistoryIsPrefix
    <3> QED
      BY <2>10, <3>3, <3>4 DEF RecordTurn
  <2>11. ASSUME NEW c \in Calls, DraftReturns(c) \/ Refund(c) \/ Die(c)
         PROVE  ThreadInv'
    <3>1. UNCHANGED <<thread, history>>
            /\ \E to \in {"answered", "refunding", "failed", "lost"} : callAt' = [callAt EXCEPT ![c] = to]
      BY <2>11 DEF DraftReturns, DraftWith, Refund, Die, Goes, memoryVars
    <3> QED
      BY <2>1, <2>2, <3>1
  <2> QED
    BY <1>2, <2>4, <2>5, <2>6, <2>7, <2>8, <2>9, <2>10, <2>11 DEF AssistantNext
<1> QED
  BY <1>1, <1>2, CallsTypeCorrect, PTL DEF AssistantSpec

\* However many of a buyer's tabs ask and record at once, the thread a question
\* was asked inside is how the thread still begins (conversations.ts:19).
THEOREM HistoryIsPrefixHolds == AssistantSpec => []HistoryIsPrefix
<1>1. ThreadInv => HistoryIsPrefix
  BY DEF ThreadInv
<1> QED
  BY <1>1, ThreadInvHolds, PTL

-----------------------------------------------------------------------------
(* The counters.                                                           *)

\* Where a call is says whether it was counted, and whether that may have been
\* given back; no call is counted in a month to come.
CallsInv ==
    /\ \A c \in Calls : callAt[c] \in {"asked", "planned"} => meteredIn[c] = 0
    /\ \A c \in Calls :
         callAt[c] \in {"metered", "running", "recording", "refunding", "refused", "answered", "failed"}
           => meteredIn[c] # 0
    /\ \A c \in Calls : meteredIn[c] <= month
    /\ \A c \in Calls : givenBackIn[c] # 0 => callAt[c] = "failed"
    /\ \A c \in Calls : delivered[c] =>
         c \in Asks /\ callAt[c] \in {"running", "recording", "answered", "lost"}

LEMMA CallsInvHolds == AssistantSpec => []CallsInv
<1>1. AssistantInit => CallsInv
  BY DEF AssistantInit, CallsInv
<1>2. ASSUME TypeOKCalls, CallsInv, [AssistantNext]_assistantVars
      PROVE  CallsInv'
  <2>0. month \in Nat
    BY <1>2, AssistantAssumption DEF TypeOKCalls, Months
  <2>1. CASE NextMonth
    <3>1. UNCHANGED <<callAt, meteredIn, givenBackIn, delivered>> /\ month' = month + 1
      BY <2>1 DEF NextMonth, quotaVars
    <3>2. \A c \in Calls : meteredIn[c] \in 0..MaxMonth
      BY <1>2 DEF TypeOKCalls
    <3> QED
      BY <1>2, <2>0, <3>1, <3>2, AssistantAssumption DEF CallsInv
  <2>2. ASSUME UNCHANGED <<month, callAt, meteredIn, givenBackIn, delivered>>
        PROVE  CallsInv'
    BY <1>2, <2>2 DEF CallsInv
  <2>3. CASE ChangePlan \/ UNCHANGED assistantVars
    BY <2>2, <2>3 DEF ChangePlan, assistantVars, quotaVars
  \* A call that goes from one place to another, and is counted, or given back.
  <2>4. ASSUME NEW c \in Calls, NEW to, callAt' = [callAt EXCEPT ![c] = to],
               UNCHANGED <<month, delivered>>,
               \A d \in Calls : d # c => meteredIn'[d] = meteredIn[d] /\ givenBackIn'[d] = givenBackIn[d],
               to \in {"asked", "planned"} => meteredIn'[c] = 0,
               to \in {"metered", "running", "recording", "refunding", "refused", "answered", "failed"}
                 => meteredIn'[c] # 0,
               meteredIn'[c] <= month,
               givenBackIn'[c] # 0 => to = "failed",
               delivered[c] => c \in Asks /\ to \in {"running", "recording", "answered", "lost"}
        PROVE  CallsInv'
    <3>1. callAt'[c] = to /\ \A d \in Calls : d # c => callAt'[d] = callAt[d]
      BY <1>2, <2>4 DEF TypeOKCalls
    <3> QED
      BY <1>2, <2>4, <3>1 DEF CallsInv
  \* And one that is not.
  <2>5. ASSUME NEW c \in Calls, NEW to, callAt' = [callAt EXCEPT ![c] = to],
               UNCHANGED <<month, delivered, meteredIn, givenBackIn>>,
               \/ to = "planned" /\ callAt[c] = "asked"
               \/ to \in {"running", "recording", "refunding", "answered"}
                  /\ callAt[c] \in {"metered", "running", "recording"}
               \/ to = "lost" /\ callAt[c] # "failed",
               delivered[c] => to # "refunding"
        PROVE  CallsInv'
    <3>1. callAt[c] # "failed" /\ givenBackIn[c] = 0 /\ meteredIn[c] <= month
      BY <1>2, <2>5 DEF CallsInv
    <3>2. to = "planned" => meteredIn[c] = 0 /\ ~delivered[c]
      BY <1>2, <2>5 DEF CallsInv
    <3>3. to \in {"running", "recording", "refunding", "answered"} => meteredIn[c] # 0
      BY <1>2, <2>5 DEF CallsInv
    <3>4. delivered[c] => c \in Asks
      BY <1>2 DEF CallsInv
    <3> QED
      BY <2>4, <2>5, <3>1, <3>2, <3>3, <3>4
  <2>6. ASSUME NEW c \in Calls, ReadPlan(c)
        PROVE  CallsInv'
    <3>1. callAt[c] = "asked" /\ callAt' = [callAt EXCEPT ![c] = "planned"]
            /\ UNCHANGED <<month, delivered, meteredIn, givenBackIn>>
      BY <2>6 DEF ReadPlan, Goes
    <3> QED
      BY <2>5, <3>1
  <2>7. ASSUME NEW c \in Calls, Meter(c)
        PROVE  CallsInv'
    <3>1. callAt[c] = "planned" /\ UNCHANGED <<month, delivered, givenBackIn>>
            /\ callAt' = [callAt EXCEPT ![c] = Admitted(c, used[month] + 1)]
            /\ meteredIn' = [meteredIn EXCEPT ![c] = month]
      BY <2>7 DEF Meter, Goes
    <3>2. meteredIn'[c] = month /\ \A d \in Calls : d # c => meteredIn'[d] = meteredIn[d]
      BY <1>2, <3>1 DEF TypeOKCalls
    <3>3. Admitted(c, used[month] + 1) \in {"refused", "metered", "running"}
      BY DEF Admitted
    <3>4. givenBackIn[c] = 0 /\ ~delivered[c]
      BY <1>2, <3>1 DEF CallsInv
    <3>5. month # 0 /\ month <= month
      BY <1>2, <2>0, AssistantAssumption DEF TypeOKCalls, Months
    <3> QED
      BY <2>4, <3>1, <3>2, <3>3, <3>4, <3>5
  <2>8. ASSUME NEW c \in Calls, Refund(c)
        PROVE  CallsInv'
    <3>1. callAt[c] = "refunding" /\ callAt' = [callAt EXCEPT ![c] = "failed"]
            /\ UNCHANGED <<month, delivered, meteredIn>>
      BY <2>8 DEF Refund, Goes
    <3>2. \A d \in Calls : d # c => givenBackIn'[d] = givenBackIn[d]
      BY <1>2, <2>8 DEF Refund, TypeOKCalls
    <3>3. meteredIn[c] # 0 /\ meteredIn[c] <= month /\ ~delivered[c]
      BY <1>2, <3>1 DEF CallsInv
    <3> QED
      BY <2>4, <3>1, <3>2, <3>3
  <2>9. ASSUME NEW c \in Calls,
               ReadThread(c) \/ Answer(c) \/ RecordTurn(c) \/ AskFails(c) \/ DraftReturns(c) \/ Die(c)
        PROVE  CallsInv'
    <3>1. UNCHANGED <<month, delivered, meteredIn, givenBackIn>>
      BY <2>9 DEF ReadThread, Answer, RecordTurn, AskFails, DraftReturns, Die, quotaVars
    <3>2. delivered[c] => c \in Asks
      BY <1>2 DEF CallsInv
    <3>3. \E to \in {"running", "recording", "refunding", "answered", "lost"} :
            /\ callAt' = [callAt EXCEPT ![c] = to]
            /\ \/ to # "lost" /\ callAt[c] \in {"metered", "running", "recording"}
               \/ to = "lost" /\ callAt[c] # "failed"
            /\ delivered[c] => to # "refunding"
      BY <2>9, <3>2 DEF ReadThread, Answer, RecordTurn, AskFails, DraftReturns, DraftWith, Die, Ended, Goes
    <3> QED
      BY <2>5, <3>1, <3>3
  <2>10. ASSUME NEW c \in Calls, ModelCall(c)
         PROVE  CallsInv'
    BY <2>2, <2>10 DEF ModelCall, quotaVars
  <2>11. ASSUME NEW c \in Calls, Deliver(c)
         PROVE  CallsInv'
    <3>1. UNCHANGED <<month, callAt, meteredIn, givenBackIn>> /\ c \in Asks /\ callAt[c] = "running"
            /\ \A d \in Calls : d # c => delivered'[d] = delivered[d]
      BY <1>2, <2>11 DEF Deliver, quotaVars, TypeOKCalls
    <3> QED
      BY <1>2, <3>1 DEF CallsInv
  <2> QED
    BY <1>2, <2>1, <2>3, <2>6, <2>7, <2>8, <2>9, <2>10, <2>11 DEF AssistantNext
<1> QED
  BY <1>1, <1>2, CallsTypeCorrect, PTL DEF AssistantSpec

\* A step that neither counts a call nor gives one back.
Quiet ==
    /\ UNCHANGED <<used, meteredIn, givenBackIn>>
    /\ month' = month \/ month' = month + 1
    /\ \A c \in Calls :
         /\ callAt'[c] = "refused" <=> callAt[c] = "refused"
         /\ callAt'[c] = "failed" => callAt[c] = "failed"
         /\ meteredIn[c] # 0 => limit'[c] = limit[c]

LEMMA StepsThatCount ==
    ASSUME TypeOKCalls, CallsInv, [AssistantNext]_assistantVars
    PROVE  Quiet \/ \E c \in Calls : Meter(c) \/ Refund(c)
<1>1. ASSUME UNCHANGED <<used, meteredIn, givenBackIn, callAt, limit>>, month' = month \/ month' = month + 1
      PROVE  Quiet
  BY <1>1 DEF Quiet
<1>2. CASE NextMonth \/ ChangePlan \/ UNCHANGED assistantVars \/ \E c \in Calls : ModelCall(c) \/ Deliver(c)
  BY <1>1, <1>2 DEF NextMonth, ChangePlan, ModelCall, Deliver, assistantVars, quotaVars
<1>3. ASSUME NEW c \in Calls, NEW to \in {"planned", "running", "recording", "refunding", "answered", "lost"},
             callAt' = [callAt EXCEPT ![c] = to], callAt[c] # "refused",
             UNCHANGED <<month, used, meteredIn, givenBackIn>>,
             UNCHANGED limit \/ (meteredIn[c] = 0 /\ \E q : limit' = [limit EXCEPT ![c] = q])
      PROVE  Quiet
  <2>1. callAt'[c] = to /\ \A d \in Calls : d # c => callAt'[d] = callAt[d]
    BY <1>3 DEF TypeOKCalls
  <2>2. \A d \in Calls : meteredIn[d] # 0 => limit'[d] = limit[d]
    BY <1>3 DEF TypeOKCalls
  <2> QED
    BY <1>3, <2>1, <2>2 DEF Quiet
<1>4. ASSUME NEW c \in Calls, ReadPlan(c)
      PROVE  Quiet
  <2>1. callAt[c] = "asked" /\ callAt' = [callAt EXCEPT ![c] = "planned"]
          /\ UNCHANGED <<month, used, meteredIn, givenBackIn>>
          /\ limit' = [limit EXCEPT ![c] = QuotaOf(plan)]
    BY <1>4 DEF ReadPlan, Goes
  <2>2. meteredIn[c] = 0
    BY <2>1 DEF CallsInv
  <2> QED
    BY <1>3, <2>1, <2>2
<1>5. ASSUME NEW c \in Calls,
             ReadThread(c) \/ Answer(c) \/ RecordTurn(c) \/ AskFails(c) \/ DraftReturns(c) \/ Die(c)
      PROVE  Quiet
  <2>1. UNCHANGED <<month, used, meteredIn, givenBackIn, limit>>
    BY <1>5 DEF ReadThread, Answer, RecordTurn, AskFails, DraftReturns, Die, quotaVars
  <2>2. callAt[c] # "refused"
          /\ \E to \in {"running", "recording", "refunding", "answered", "lost"} :
               callAt' = [callAt EXCEPT ![c] = to]
    BY <1>5 DEF ReadThread, Answer, RecordTurn, AskFails, DraftReturns, DraftWith, Die, Ended, Goes
  <2> QED
    BY <1>3, <2>1, <2>2
<1> QED
  BY <1>2, <1>4, <1>5 DEF AssistantNext

LEMMA CallSetsAreFinite ==
    \A m \in Months : IsFiniteSet(Metered(m)) /\ IsFiniteSet(GivenBack(m))
                     /\ IsFiniteSet(Charged(m)) /\ IsFiniteSet(Strays(m))
<1>1. \A S \in SUBSET Calls : IsFiniteSet(S)
  BY AssistantAssumption, FS_Subset
<1> QED
  BY <1>1 DEF Metered, GivenBack, Charged, Strays, Allowed

\* What is charged of a month's calls, from its two counts.
LEMMA BooksBound ==
    ASSUME NEW M, IsFiniteSet(M), NEW G, IsFiniteSet(G),
           NEW X \in SUBSET G, NEW C \in SUBSET M, C \cap G = {}, G \ X \subseteq M
    PROVE  Cardinality(C) <= Cardinality(M) - Cardinality(G) + Cardinality(X)
<1> DEFINE O == G \ X
<1>1. IsFiniteSet(O) /\ Cardinality(O) = Cardinality(G) - Cardinality(G \cap X)
  BY FS_Difference
<1>2. G \cap X = X /\ M \cap O = O
  OBVIOUS
<1>3. IsFiniteSet(M \ O) /\ Cardinality(M \ O) = Cardinality(M) - Cardinality(M \cap O)
  BY FS_Difference
<1>4. C \in SUBSET (M \ O)
  OBVIOUS
<1>5. Cardinality(C) <= Cardinality(M \ O) /\ IsFiniteSet(C)
  BY <1>3, <1>4, FS_Subset
<1>6. IsFiniteSet(X)
  BY FS_Subset
<1>7. Cardinality(C) \in Nat /\ Cardinality(M) \in Nat /\ Cardinality(G) \in Nat
        /\ Cardinality(X) \in Nat /\ Cardinality(O) \in Nat /\ Cardinality(M \ O) \in Nat
  BY <1>1, <1>3, <1>5, <1>6, FS_CardinalityType
<1> QED
  BY <1>1, <1>2, <1>3, <1>5, <1>7

\* What a Meter and a Refund do to the books.
LEMMA MeterCounts ==
    ASSUME TypeOKCalls, CallsInv, NEW c \in Calls, Meter(c)
    PROVE  /\ month \in Months /\ month' = month /\ used[month] \in Nat
           /\ used'[month] = used[month] + 1
           /\ \A m \in Months \ {month} : used'[m] = used[m]
           /\ meteredIn[c] = 0 /\ meteredIn'[c] = month
           /\ \A d \in Calls \ {c} : meteredIn'[d] = meteredIn[d] /\ callAt'[d] = callAt[d]
           /\ givenBackIn' = givenBackIn /\ givenBackIn[c] = 0 /\ limit' = limit
           /\ callAt'[c] # "failed" /\ (callAt'[c] = "refused" <=> used[month] + 1 > limit[c])
<1>1. callAt[c] = "planned" /\ callAt' = [callAt EXCEPT ![c] = Admitted(c, used[month] + 1)]
        /\ used' = [used EXCEPT ![month] = @ + 1] /\ meteredIn' = [meteredIn EXCEPT ![c] = month]
        /\ UNCHANGED <<month, limit, givenBackIn>>
  BY DEF Meter, Goes
<1>2. callAt'[c] = Admitted(c, used[month] + 1)
  BY <1>1 DEF TypeOKCalls
<1>3. callAt'[c] # "failed" /\ (callAt'[c] = "refused" <=> used[month] + 1 > limit[c])
  BY <1>2 DEF Admitted
<1>4. meteredIn[c] = 0 /\ givenBackIn[c] = 0
  BY <1>1 DEF CallsInv
<1> QED
  BY <1>1, <1>3, <1>4 DEF TypeOKCalls

LEMMA RefundCounts ==
    ASSUME TypeOKCalls, CallsInv, NEW c \in Calls, Refund(c)
    PROVE  /\ month \in Months /\ month' = month /\ used[month] \in Nat
           /\ \A m \in Months \ {month} : used'[m] = used[m]
           /\ UNCHANGED <<meteredIn, limit>>
           /\ \A d \in Calls \ {c} : givenBackIn'[d] = givenBackIn[d] /\ callAt'[d] = callAt[d]
           /\ givenBackIn[c] = 0 /\ callAt[c] = "refunding" /\ callAt'[c] = "failed"
           /\ meteredIn[c] # 0 /\ meteredIn[c] <= month
           /\ \/ used[month] >= 1 /\ used'[month] = used[month] - 1 /\ givenBackIn'[c] = month
              \/ used[month] = 0 /\ used' = used /\ givenBackIn' = givenBackIn
<1>1. callAt[c] = "refunding" /\ callAt' = [callAt EXCEPT ![c] = "failed"]
        /\ UNCHANGED <<month, limit, meteredIn>>
  BY DEF Refund, Goes
<1>2. month \in Months /\ used[month] \in Nat
  BY DEF TypeOKCalls
<1>3. \/ used[month] >= 1 /\ used' = [used EXCEPT ![month] = @ - 1]
         /\ givenBackIn' = [givenBackIn EXCEPT ![c] = month]
      \/ used[month] = 0 /\ UNCHANGED <<used, givenBackIn>>
  BY <1>2 DEF Refund
<1>4. givenBackIn[c] = 0 /\ meteredIn[c] # 0 /\ meteredIn[c] <= month
  BY <1>1 DEF CallsInv
<1>5. callAt'[c] = "failed" /\ \A d \in Calls \ {c} : callAt'[d] = callAt[d]
  BY <1>1 DEF TypeOKCalls
<1> QED
  BY <1>1, <1>2, <1>3, <1>4, <1>5 DEF TypeOKCalls

\* A month's counter is the calls that counted in it less those given back in it,
\* however they interleave with each other and the month's end (usage.ts:7, 21).
THEOREM CounterIsTheBooksHolds == AssistantSpec => []CounterIsTheBooks
<1>1. AssistantInit => CounterIsTheBooks
  <2> SUFFICES ASSUME AssistantInit, NEW m \in Months
               PROVE  used[m] = Cardinality(Metered(m)) - Cardinality(GivenBack(m))
    BY DEF CounterIsTheBooks
  <2>1. m # 0
    BY DEF Months
  <2>2. Metered(m) = {} /\ GivenBack(m) = {} /\ used[m] = 0
    BY <2>1 DEF AssistantInit, Metered, GivenBack
  <2> QED
    BY <2>2, FS_EmptySet
<1>2. ASSUME TypeOKCalls, CallsInv, CounterIsTheBooks, [AssistantNext]_assistantVars
      PROVE  CounterIsTheBooks'
  <2> SUFFICES ASSUME NEW m \in Months
               PROVE  used'[m] = Cardinality(Metered(m)') - Cardinality(GivenBack(m)')
    BY DEF CounterIsTheBooks
  <2>0. used[m] = Cardinality(Metered(m)) - Cardinality(GivenBack(m)) /\ used[m] \in Nat /\ m # 0
    <3>1. used[m] = Cardinality(Metered(m)) - Cardinality(GivenBack(m))
      BY <1>2 DEF CounterIsTheBooks
    <3>2. used[m] \in Nat
      BY <1>2 DEF TypeOKCalls
    <3>3. m # 0
      BY DEF Months
    <3> QED
      BY <3>1, <3>2, <3>3
  <2>1. Cardinality(Metered(m)) \in Nat /\ Cardinality(GivenBack(m)) \in Nat
    BY CallSetsAreFinite, FS_CardinalityType
  <2>2. CASE Quiet
    <3>1. Metered(m)' = Metered(m) /\ GivenBack(m)' = GivenBack(m) /\ used' = used
      BY <2>2 DEF Quiet, Metered, GivenBack
    <3> QED
      BY <2>0, <3>1
  <2>3. ASSUME NEW c \in Calls, Meter(c)
        PROVE  used'[m] = Cardinality(Metered(m)') - Cardinality(GivenBack(m)')
    <3>1. GivenBack(m)' = GivenBack(m)
      BY <1>2, <2>3, MeterCounts DEF GivenBack
    <3>2. CASE m = month
      <4>1. Metered(m)' = Metered(m) \cup {c} /\ c \notin Metered(m)
        BY <1>2, <2>0, <2>3, <3>2, MeterCounts DEF Metered
      <4>2. Cardinality(Metered(m)') = Cardinality(Metered(m)) + 1
        BY <4>1, CallSetsAreFinite, FS_AddElement
      <4>3. used'[m] = used[m] + 1
        BY <1>2, <2>3, <3>2, MeterCounts
      <4> QED
        BY <2>0, <2>1, <3>1, <4>2, <4>3
    <3>3. CASE m # month
      <4>1. Metered(m)' = Metered(m) /\ used'[m] = used[m]
        BY <1>2, <2>0, <2>3, <3>3, MeterCounts DEF Metered
      <4> QED
        BY <2>0, <3>1, <4>1
    <3> QED
      BY <3>2, <3>3
  <2>4. ASSUME NEW c \in Calls, Refund(c)
        PROVE  used'[m] = Cardinality(Metered(m)') - Cardinality(GivenBack(m)')
    <3>1. Metered(m)' = Metered(m)
      BY <1>2, <2>4, RefundCounts DEF Metered
    <3>2. CASE m = month /\ used[month] >= 1
      <4>1. GivenBack(m)' = GivenBack(m) \cup {c} /\ c \notin GivenBack(m)
        BY <1>2, <2>0, <2>4, <3>2, RefundCounts DEF GivenBack
      <4>2. Cardinality(GivenBack(m)') = Cardinality(GivenBack(m)) + 1
        BY <4>1, CallSetsAreFinite, FS_AddElement
      <4>3. used'[m] = used[m] - 1
        BY <1>2, <2>4, <3>2, RefundCounts
      <4> QED
        BY <2>0, <2>1, <3>1, <4>2, <4>3
    <3>3. CASE m # month \/ ~(used[month] >= 1)
      <4>1. GivenBack(m)' = GivenBack(m) /\ used'[m] = used[m]
        BY <1>2, <2>0, <2>4, <3>3, RefundCounts DEF GivenBack
      <4> QED
        BY <2>0, <3>1, <4>1
    <3> QED
      BY <3>2, <3>3
  <2> QED
    BY <1>2, <2>2, <2>3, <2>4, StepsThatCount
<1> QED
  BY <1>1, <1>2, CallsTypeCorrect, CallsInvHolds, PTL DEF AssistantSpec

\* What a month lets through and keeps charged is within the quota that one of
\* those calls read, but for units of an earlier month given back to this one.
THEOREM QuotaHoldsAlways == AssistantSpec => []QuotaHolds
<1>1. AssistantInit => QuotaHolds
  <2> SUFFICES ASSUME AssistantInit, NEW m \in Months
               PROVE  Charged(m) = {}
    BY DEF QuotaHolds
  <2>1. m # 0
    BY DEF Months
  <2> QED
    BY <2>1 DEF AssistantInit, Charged, Allowed, Metered
<1>2. ASSUME TypeOKCalls, CallsInv, CounterIsTheBooks, CounterIsTheBooks', QuotaHolds,
             [AssistantNext]_assistantVars
      PROVE  QuotaHolds'
  <2> SUFFICES ASSUME NEW m \in Months, Charged(m)' # {}
               PROVE  \E c \in Allowed(m)' :
                        Cardinality(Charged(m)') <= limit'[c] + Cardinality(Strays(m)')
    BY DEF QuotaHolds
  <2>0. m # 0
    BY DEF Months
  \* Nothing more is charged, and no less given back of other months.
  <2>1. ASSUME Allowed(m)' = Allowed(m), Charged(m)' \subseteq Charged(m), Strays(m) \subseteq Strays(m)',
               \A c \in Allowed(m) : limit'[c] = limit[c]
        PROVE  \E c \in Allowed(m)' :
                 Cardinality(Charged(m)') <= limit'[c] + Cardinality(Strays(m)')
    <3>1. PICK c \in Allowed(m) : Cardinality(Charged(m)) <= limit[c] + Cardinality(Strays(m))
      BY <1>2, <2>1 DEF QuotaHolds
    <3>2. IsFiniteSet(Charged(m)) /\ IsFiniteSet(Strays(m)')
      <4>1. \A S \in SUBSET Calls : IsFiniteSet(S)
        BY AssistantAssumption, FS_Subset
      <4> QED
        BY <4>1 DEF Charged, Strays, Allowed, Metered, GivenBack
    <3>3. Cardinality(Charged(m)') <= Cardinality(Charged(m)) /\ IsFiniteSet(Charged(m)')
      BY <2>1, <3>2, FS_Subset
    <3>4. Cardinality(Strays(m)) <= Cardinality(Strays(m)') /\ IsFiniteSet(Strays(m))
      BY <2>1, <3>2, FS_Subset
    <3>5. Cardinality(Charged(m)) \in Nat /\ Cardinality(Charged(m)') \in Nat
            /\ Cardinality(Strays(m)) \in Nat /\ Cardinality(Strays(m)') \in Nat
      BY <3>2, <3>3, <3>4, FS_CardinalityType
    <3>6. limit[c] \in Nat
      BY <1>2, AssistantAssumption DEF TypeOKCalls, Allowed, Metered
    <3> QED
      BY <2>1, <3>1, <3>3, <3>4, <3>5, <3>6
  <2>2. CASE Quiet
    <3>1. \A c \in Calls : c \in Metered(m) => meteredIn[c] # 0
      BY <2>0 DEF Metered
    <3>2. Allowed(m)' = Allowed(m) /\ Charged(m)' = Charged(m) /\ Strays(m)' = Strays(m)
      BY <2>2 DEF Quiet, Allowed, Charged, Strays, Metered, GivenBack
    <3>3. \A c \in Allowed(m) : limit'[c] = limit[c]
      BY <2>2, <3>1 DEF Quiet, Allowed, Metered
    <3> QED
      BY <2>1, <3>2, <3>3
  <2>3. ASSUME NEW c \in Calls, Meter(c)
        PROVE  \E d \in Allowed(m)' :
                 Cardinality(Charged(m)') <= limit'[d] + Cardinality(Strays(m)')
    <3>1. CASE m = month /\ callAt'[c] # "refused"
      <4>1. c \in Allowed(m)'
        BY <1>2, <2>3, <3>1, MeterCounts DEF Allowed, Metered
      <4>2. IsFiniteSet(Metered(m)') /\ IsFiniteSet(GivenBack(m)')
        <5>1. \A S \in SUBSET Calls : IsFiniteSet(S)
          BY AssistantAssumption, FS_Subset
        <5> QED
          BY <5>1 DEF Metered, GivenBack
      <4>3. Strays(m)' \in SUBSET (GivenBack(m)') /\ Charged(m)' \in SUBSET (Metered(m)')
              /\ Charged(m)' \cap GivenBack(m)' = {} /\ GivenBack(m)' \ Strays(m)' \subseteq Metered(m)'
        BY <2>0 DEF Strays, Charged, Allowed, GivenBack, Metered
      <4>4. Cardinality(Charged(m)')
              <= Cardinality(Metered(m)') - Cardinality(GivenBack(m)') + Cardinality(Strays(m)')
        BY <4>2, <4>3, BooksBound
      <4>5. used'[m] = Cardinality(Metered(m)') - Cardinality(GivenBack(m)')
        BY <1>2 DEF CounterIsTheBooks
      <4>6. used'[m] <= limit'[c] /\ used'[m] \in Nat /\ limit'[c] \in Nat
        <5>1. used'[m] = used[m] + 1 /\ ~(used[m] + 1 > limit[c]) /\ used[m] \in Nat /\ limit' = limit
          BY <1>2, <2>3, <3>1, MeterCounts
        <5>2. limit[c] \in Nat
          BY <1>2, AssistantAssumption DEF TypeOKCalls
        <5> QED
          BY <5>1, <5>2
      <4>7. IsFiniteSet(Strays(m)') /\ IsFiniteSet(Charged(m)')
        BY <4>2, <4>3, FS_Subset
      <4>8. Cardinality(Charged(m)') \in Nat /\ Cardinality(Strays(m)') \in Nat
        BY <4>7, FS_CardinalityType
      <4>9. Cardinality(Charged(m)') <= limit'[c] + Cardinality(Strays(m)')
        BY <4>4, <4>5, <4>6, <4>8
      <4> QED
        BY <4>1, <4>9
    <3>2. CASE m # month \/ callAt'[c] = "refused"
      <4>1. \A d \in Calls : d \in Allowed(m)' <=> d \in Allowed(m)
        BY <1>2, <2>0, <2>3, <3>2, MeterCounts DEF Allowed, Metered
      <4>2. Allowed(m)' = Allowed(m)
        BY <4>1 DEF Allowed, Metered
      <4>3. Charged(m)' = Charged(m)
        BY <1>2, <2>3, <4>2, MeterCounts DEF Charged
      <4>4. \A d \in Calls : d \in GivenBack(m) => d # c
        BY <1>2, <2>0, <2>3, MeterCounts DEF GivenBack
      <4>5. Strays(m)' = Strays(m)
        BY <1>2, <2>3, <4>4, MeterCounts DEF Strays, GivenBack
      <4>6. limit' = limit
        BY <1>2, <2>3, MeterCounts
      <4> QED
        BY <2>1, <4>2, <4>3, <4>5, <4>6
    <3> QED
      BY <3>1, <3>2
  <2>4. ASSUME NEW c \in Calls, Refund(c)
        PROVE  \E d \in Allowed(m)' :
                 Cardinality(Charged(m)') <= limit'[d] + Cardinality(Strays(m)')
    <3>1. UNCHANGED <<meteredIn, limit>> /\ month \in Months
            /\ \A d \in Calls : callAt'[d] = "refused" <=> callAt[d] = "refused"
      BY <1>2, <2>4, RefundCounts
    <3>2. \A d \in Calls :
            givenBackIn'[d] = givenBackIn[d] \/ (givenBackIn[d] = 0 /\ givenBackIn'[d] = month)
      BY <1>2, <2>4, RefundCounts
    <3>3. Allowed(m)' = Allowed(m)
      BY <3>1 DEF Allowed, Metered
    <3>4. month # 0
      BY <3>1 DEF Months
    <3>5. Charged(m)' \subseteq Charged(m)
      BY <3>2, <3>3, <3>4 DEF Charged, Allowed, Metered
    <3>6. Strays(m) \subseteq Strays(m)'
      BY <2>0, <3>1, <3>2 DEF Strays, GivenBack
    <3> QED
      BY <2>1, <3>1, <3>3, <3>5, <3>6
  <2> QED
    BY <1>2, <2>2, <2>3, <2>4, StepsThatCount
<1> QED
  BY <1>1, <1>2, CallsTypeCorrect, CallsInvHolds, CounterIsTheBooksHolds, PTL DEF AssistantSpec

\* No answer a buyer has begun to read is given back, and a call that failed with
\* nothing to show is, or its month is over (assistant.ts:166, translate.ts:84).
THEOREM PaidIfDeliveredHolds == AssistantSpec => []PaidIfDelivered
<1> DEFINE Repaid == \A c \in Calls : callAt[c] = "failed" =>
                        givenBackIn[c] # 0 \/ meteredIn[c] < month \/ Strays(month) # {}
<1>1. AssistantInit => Repaid
  BY DEF AssistantInit
<1>2. ASSUME TypeOKCalls, CallsInv, CounterIsTheBooks, Repaid, [AssistantNext]_assistantVars
      PROVE  Repaid'
  <2> SUFFICES ASSUME NEW d \in Calls, callAt'[d] = "failed"
               PROVE  givenBackIn'[d] # 0 \/ meteredIn'[d] < month' \/ Strays(month)' # {}
    OBVIOUS
  <2>0. month \in Nat /\ month \in Months /\ month # 0 /\ meteredIn[d] \in Nat
    BY <1>2, AssistantAssumption DEF TypeOKCalls, Months
  <2>1. CASE Quiet
    <3>1. callAt[d] = "failed" /\ UNCHANGED <<meteredIn, givenBackIn>> /\ meteredIn[d] <= month
      BY <1>2, <2>1 DEF Quiet, CallsInv
    <3>2. month' = month => Strays(month)' = Strays(month)
      BY <3>1 DEF Strays, GivenBack
    <3>3. givenBackIn[d] # 0 \/ meteredIn[d] < month \/ Strays(month) # {}
      BY <1>2, <3>1
    <3>4. CASE month' = month
      BY <3>1, <3>2, <3>3, <3>4
    <3>5. CASE month' = month + 1
      BY <2>0, <3>1, <3>5
    <3> QED
      BY <2>1, <3>4, <3>5 DEF Quiet
  <2>2. ASSUME NEW c \in Calls, Meter(c)
        PROVE  givenBackIn'[d] # 0 \/ meteredIn'[d] < month' \/ Strays(month)' # {}
    <3>1. d # c /\ callAt[d] = "failed" /\ meteredIn'[d] = meteredIn[d]
            /\ UNCHANGED <<month, givenBackIn>>
      BY <1>2, <2>2, MeterCounts
    <3>2. \A e \in Strays(month) : e # c /\ meteredIn'[e] = meteredIn[e]
      BY <1>2, <2>0, <2>2, MeterCounts DEF Strays, GivenBack
    <3>3. Strays(month) \subseteq Strays(month)'
      BY <3>1, <3>2 DEF Strays, GivenBack
    <3> QED
      BY <1>2, <3>1, <3>3
  <2>3. ASSUME NEW c \in Calls, Refund(c)
        PROVE  givenBackIn'[d] # 0 \/ meteredIn'[d] < month' \/ Strays(month)' # {}
    <3>1. UNCHANGED <<month, meteredIn>>
            /\ \A e \in Calls :
                 givenBackIn'[e] = givenBackIn[e] \/ (givenBackIn[e] = 0 /\ givenBackIn'[e] = month)
      BY <1>2, <2>3, RefundCounts
    <3>2. Strays(month) \subseteq Strays(month)'
      BY <2>0, <3>1 DEF Strays, GivenBack
    <3>3. CASE d # c
      <4>1. callAt[d] = "failed"
        BY <1>2, <2>3, <3>3, RefundCounts
      <4> QED
        BY <1>2, <2>0, <3>1, <3>2, <4>1
    <3>4. CASE d = c /\ used[month] >= 1
      BY <1>2, <2>0, <2>3, <3>4, RefundCounts
    <3>5. CASE d = c /\ ~(used[month] >= 1) /\ meteredIn[c] = month
      \* As many were given back this month as were counted in it, and not this one.
      <4>1. used[month] = 0 /\ givenBackIn[c] = 0
        BY <1>2, <2>3, <3>5, RefundCounts
      <4>2. c \in Metered(month) /\ c \notin GivenBack(month)
        BY <2>0, <3>5, <4>1 DEF Metered, GivenBack
      <4>3. Cardinality(Metered(month)) = Cardinality(GivenBack(month))
        <5>1. Cardinality(Metered(month)) \in Nat /\ Cardinality(GivenBack(month)) \in Nat
          BY <2>0, CallSetsAreFinite, FS_CardinalityType
        <5>2. used[month] = Cardinality(Metered(month)) - Cardinality(GivenBack(month))
          BY <1>2, <2>0 DEF CounterIsTheBooks
        <5> QED
          BY <4>1, <5>1, <5>2
      <4>4. ~(GivenBack(month) \subseteq Metered(month))
        BY <2>0, <4>2, <4>3, CallSetsAreFinite, FS_Subset
      <4>5. Strays(month) # {}
        BY <4>4 DEF Strays, GivenBack, Metered
      <4> QED
        BY <3>2, <4>5
    <3>6. CASE d = c /\ meteredIn[c] # month
      <4>1. meteredIn[c] < month
        BY <1>2, <2>0, <2>3, <3>6, RefundCounts
      <4> QED
        BY <3>1, <3>6, <4>1
    <3> QED
      BY <3>3, <3>4, <3>5, <3>6
  <2> QED
    BY <1>2, <2>1, <2>2, <2>3, StepsThatCount
<1>3. CallsInv /\ Repaid => PaidIfDelivered
  BY DEF CallsInv, PaidIfDelivered
<1> QED
  BY <1>1, <1>2, <1>3, CallsTypeCorrect, CallsInvHolds, CounterIsTheBooksHolds, PTL DEF AssistantSpec
-----------------------------------------------------------------------------
(* Memory.                                                                 *)

Distinct(s) == \A i, j \in 1..Len(s) : s[i] = s[j] => i = j

\* What a call tells its model in place of the first folded of the turns it
\* read: questions of those, none of them twice.
Tells(h, n, s) ==
    /\ n \in 0..Len(h)
    /\ s \in Seq(Asks)
    /\ \A i \in 1..Len(s) : \E k \in 1..n : s[i] = h[k]
    /\ Distinct(s)

MemoryInv ==
    /\ folded \in [Calls -> Nat] /\ summary \in [Calls -> Seq(Asks)]
    /\ Distinct(thread)
    /\ \A i \in 1..Len(thread) : callAt[thread[i]] = "answered"
    /\ \A c \in Calls :
         /\ Distinct(history[c])
         /\ Tells(history[c], folded[c], summary[c])
         /\ callAt[c] \in {"asked", "planned", "metered"} => folded[c] = 0 /\ summary[c] = <<>>

\* A fold keeps the newest of the questions it is given, in their order.
LEMMA QuestionsAreOfTheTurns ==
    ASSUME NEW s \in Seq(Asks)
    PROVE  /\ QuestionsOf(s) \in Seq(Asks)
           /\ \E d \in Nat : /\ Len(QuestionsOf(s)) + d = Len(s)
                             /\ \A j \in 1..Len(QuestionsOf(s)) : QuestionsOf(s)[j] = s[j + d]
<1> DEFINE d == IF Len(s) > SummaryMax THEN Len(s) - SummaryMax ELSE 0
           q == SubSeq(s, 1 + d, Len(s))
<1>1. Len(s) \in Nat /\ SummaryMax \in Nat /\ d \in Nat /\ d <= Len(s)
  BY AssistantAssumption, LenProperties
<1>2. 1 + d \in 1..Len(s) + 1 /\ Len(s) \in 1 + d - 1..Len(s)
  BY <1>1
<1> HIDE DEF d
<1>3. q \in Seq(Asks) /\ Len(q) = Len(s) - d
  BY <1>1, <1>2, SubSeqProperties
<1>4. \A j \in 1..Len(q) : q[j] = s[j + d]
  BY <1>1, <1>2, <1>3, SubSeqProperties
<1>5. QuestionsOf(s) = q
  BY DEF QuestionsOf, d
<1> QED
  BY <1>1, <1>3, <1>4, <1>5

\* Folding the turns that were dropped since the last fold repeats no question.
LEMMA FoldingTellsMore ==
    ASSUME NEW h \in Seq(Asks), NEW n \in Nat, NEW s, Tells(h, n, s), Distinct(h),
           NEW m \in n..Len(h)
    PROVE  Tells(h, m, s \o QuestionsOf(SubSeq(h, n + 1, m)))
<1> DEFINE w == SubSeq(h, n + 1, m)
           q == QuestionsOf(w)
           t == s \o q
<1>1. Len(h) \in Nat /\ m \in Nat /\ n <= m /\ m <= Len(h) /\ s \in Seq(Asks) /\ Len(s) \in Nat
  BY LenProperties DEF Tells
<1>2. w \in Seq(Asks) /\ Len(w) = m - n /\ \A i \in 1..Len(w) : w[i] = h[n + i]
  BY <1>1
<1>3. q \in Seq(Asks)
  BY <1>2, QuestionsAreOfTheTurns
<1>4. PICK d \in Nat : Len(q) + d = Len(w) /\ \A j \in 1..Len(q) : q[j] = w[j + d]
  BY <1>2, QuestionsAreOfTheTurns
<1>5. Len(q) \in Nat
  BY <1>3, LenProperties
<1> HIDE DEF w, q
<1>6. \A j \in 1..Len(q) : n + j + d \in n + 1..m /\ q[j] = h[n + j + d]
  BY <1>1, <1>2, <1>4, <1>5
<1>7. t \in Seq(Asks) /\ Len(t) = Len(s) + Len(q)
        /\ (\A i \in 1..Len(s) : t[i] = s[i])
        /\ (\A i \in Len(s) + 1..Len(t) : t[i] = q[i - Len(s)])
  BY <1>1, <1>3, <1>5, ConcatProperties
<1> HIDE DEF t
<1>8. \A i \in 1..Len(s) : \E k \in 1..n : t[i] = h[k]
  BY <1>7 DEF Tells
<1>9. \A i \in Len(s) + 1..Len(t) : i - Len(s) \in 1..Len(q)
  BY <1>1, <1>5, <1>7
<1>10. \A i \in Len(s) + 1..Len(t) :
         n + (i - Len(s)) + d \in n + 1..m /\ t[i] = h[n + (i - Len(s)) + d]
  BY <1>6, <1>7, <1>9
<1>11. \A i \in 1..Len(t) : i \in 1..Len(s) \/ i \in Len(s) + 1..Len(t)
  BY <1>1, <1>5, <1>7
<1>12. \A i \in 1..Len(t) : \E k \in 1..m : t[i] = h[k]
  <2> TAKE i \in 1..Len(t)
  <2>1. CASE i \in 1..Len(s)
    BY <1>1, <1>8, <2>1
  <2>2. CASE i \in Len(s) + 1..Len(t)
    <3>1. n + (i - Len(s)) + d \in 1..m
      BY <1>1, <1>10, <2>2
    <3> QED
      BY <1>10, <2>2, <3>1
  <2> QED
    BY <1>11, <2>1, <2>2
<1>13. \A i, j \in 1..Len(t) : t[i] = t[j] => i = j
  <2> SUFFICES ASSUME NEW i \in 1..Len(t), NEW j \in 1..Len(t), t[i] = t[j] PROVE i = j
    OBVIOUS
  <2>1. CASE i \in 1..Len(s) /\ j \in 1..Len(s)
    BY <1>7, <2>1 DEF Tells, Distinct
  <2>2. CASE i \in Len(s) + 1..Len(t) /\ j \in Len(s) + 1..Len(t)
    <3>1. n + (i - Len(s)) + d \in 1..Len(h) /\ n + (j - Len(s)) + d \in 1..Len(h)
      BY <1>1, <1>10, <2>2
    <3>2. n + (i - Len(s)) + d = n + (j - Len(s)) + d
      BY <1>10, <2>2, <3>1 DEF Distinct
    <3> QED
      BY <1>1, <3>2
  <2>3. ASSUME NEW a \in 1..Len(s), NEW b \in Len(s) + 1..Len(t), t[a] = t[b] PROVE FALSE
    <3>1. PICK k \in 1..n : t[a] = h[k]
      BY <1>8
    <3>2. n + (b - Len(s)) + d \in n + 1..m /\ t[b] = h[n + (b - Len(s)) + d]
      BY <1>10
    <3>3. k \in 1..Len(h) /\ n + (b - Len(s)) + d \in 1..Len(h)
      BY <1>1, <3>2
    <3>4. k = n + (b - Len(s)) + d
      BY <2>3, <3>1, <3>2, <3>3 DEF Distinct
    <3> QED
      BY <3>2, <3>4
  <2> QED
    BY <1>11, <2>1, <2>2, <2>3
<1>14. t \in Seq(Asks) /\ m \in 0..Len(h)
  BY <1>1, <1>7
<1>15. Tells(h, m, t)
  BY <1>12, <1>13, <1>14 DEF Tells, Distinct
<1> QED
  BY <1>15 DEF t, q, w

LEMMA MemoryInvHolds == AssistantSpec => []MemoryInv
<1>1. AssistantInit => MemoryInv
  <2> SUFFICES ASSUME AssistantInit PROVE MemoryInv
    OBVIOUS
  <2>1. <<>> \in Seq(Asks) /\ Len(<<>>) = 0
    BY EmptySeq
  <2>2. Distinct(<<>>) /\ Tells(<<>>, 0, <<>>)
    BY <2>1 DEF Distinct, Tells
  <2>3. \A c \in Calls : history[c] = <<>> /\ folded[c] = 0 /\ summary[c] = <<>>
    BY DEF AssistantInit
  <2>4. folded \in [Calls -> Nat] /\ summary \in [Calls -> Seq(Asks)] /\ thread = <<>>
    BY <2>1 DEF AssistantInit
  <2> QED
    BY <2>1, <2>2, <2>3, <2>4 DEF MemoryInv
<1>2. ASSUME TypeOKCalls, ThreadInv, MemoryInv, [AssistantNext]_assistantVars
      PROVE  MemoryInv'
  \* Steps that change neither the thread nor a memory.
  <2>1. ASSUME UNCHANGED <<thread, history, folded, summary>>,
               \A c \in Calls : callAt[c] = "answered" => callAt'[c] = "answered",
               \A c \in Calls : callAt'[c] \in {"asked", "planned", "metered"}
                                  => callAt[c] \in {"asked", "planned", "metered"}
        PROVE  MemoryInv'
    <3>1. \A i \in 1..Len(thread) : thread[i] \in Calls
      BY <1>2, AssistantAssumption DEF ThreadInv
    <3> QED
      BY <1>2, <2>1, <3>1 DEF MemoryInv
  <2>2. ASSUME NEW c \in Calls, NEW to, callAt' = [callAt EXCEPT ![c] = to],
               callAt[c] # "answered",
               to \in {"asked", "planned", "metered"} => callAt[c] \in {"asked", "planned"}
        PROVE  /\ \A d \in Calls : callAt[d] = "answered" => callAt'[d] = "answered"
               /\ \A d \in Calls : callAt'[d] \in {"asked", "planned", "metered"}
                                     => callAt[d] \in {"asked", "planned", "metered"}
    BY <1>2, <2>2 DEF TypeOKCalls
  <2>3. CASE NextMonth \/ ChangePlan \/ UNCHANGED assistantVars
    <3>1. UNCHANGED <<thread, history, folded, summary, callAt>>
      BY <2>3 DEF NextMonth, ChangePlan, assistantVars, memoryVars
    <3> QED
      BY <2>1, <3>1
  <2>4. ASSUME NEW c \in Calls, ReadPlan(c) \/ Meter(c)
        PROVE  MemoryInv'
    <3>1. UNCHANGED <<thread, history, folded, summary>> /\ callAt[c] \in {"asked", "planned"}
            /\ \E to \in Places : callAt' = [callAt EXCEPT ![c] = to]
      BY <2>4 DEF ReadPlan, Meter, Goes, Admitted, Places, memoryVars
    <3> QED
      BY <2>1, <2>2, <3>1
  <2>5. ASSUME NEW c \in Calls, Deliver(c)
        PROVE  MemoryInv'
    <3>1. UNCHANGED <<thread, history, folded, summary, callAt>>
      BY <2>5 DEF Deliver, memoryVars
    <3> QED
      BY <2>1, <3>1
  <2>6. ASSUME NEW c \in Calls, Answer(c) \/ AskFails(c) \/ DraftReturns(c) \/ Refund(c) \/ Die(c)
        PROVE  MemoryInv'
    <3>1. UNCHANGED <<thread, history, folded, summary>> /\ callAt[c] # "answered"
            /\ \E to \in {"recording", "answered", "lost", "refunding", "failed"} :
                 callAt' = [callAt EXCEPT ![c] = to]
      BY <2>6 DEF Answer, AskFails, DraftReturns, DraftWith, Refund, Die, Goes, Ended, memoryVars
    <3> QED
      BY <2>1, <2>2, <3>1
  <2>7. ASSUME NEW c \in Calls, ReadThread(c)
        PROVE  MemoryInv'
    <3>1. UNCHANGED <<thread, folded, summary>> /\ callAt[c] = "metered"
            /\ \E to \in {"running", "lost"} : callAt' = [callAt EXCEPT ![c] = to]
      BY <2>7 DEF ReadThread, Goes
    <3>2. CASE history' = history
      BY <2>1, <2>2, <3>1, <3>2
    <3>3. CASE history' = [history EXCEPT ![c] = thread]
      <4>1. folded[c] = 0 /\ summary[c] = <<>> /\ Distinct(thread)
        BY <1>2, <3>1 DEF MemoryInv
      <4>2. <<>> \in Seq(Asks) /\ Len(<<>>) = 0 /\ Len(thread) \in Nat
        BY <1>2, EmptySeq, LenProperties DEF ThreadInv
      <4>3. Tells(thread, 0, <<>>)
        BY <4>2 DEF Tells, Distinct
      <4>4. history'[c] = thread /\ \A d \in Calls \ {c} : history'[d] = history[d]
        BY <1>2, <3>3 DEF ThreadInv
      <4>5. callAt'[c] \in {"running", "lost"} /\ \A d \in Calls \ {c} : callAt'[d] = callAt[d]
        BY <1>2, <3>1 DEF TypeOKCalls
      <4>6. \A d \in Calls :
              /\ Distinct(history'[d])
              /\ Tells(history'[d], folded[d], summary[d])
              /\ callAt'[d] \in {"asked", "planned", "metered"} => folded[d] = 0 /\ summary[d] = <<>>
        <5> TAKE d \in Calls
        <5>1. CASE d = c
          BY <4>1, <4>3, <4>4, <4>5, <5>1
        <5>2. CASE d # c
          BY <1>2, <4>4, <4>5, <5>2 DEF MemoryInv
        <5> QED
          BY <5>1, <5>2
      <4>7. \A i \in 1..Len(thread) : callAt'[thread[i]] = "answered"
        <5>1. \A i \in 1..Len(thread) : thread[i] \in Calls /\ callAt[thread[i]] = "answered"
          BY <1>2, AssistantAssumption DEF ThreadInv, MemoryInv
        <5> QED
          BY <3>1, <4>5, <5>1
      <4> QED
        BY <1>2, <3>1, <4>1, <4>6, <4>7 DEF MemoryInv
    <3> QED
      BY <2>7, <3>2, <3>3 DEF ReadThread
  <2>8. ASSUME NEW c \in Calls, ModelCall(c)
        PROVE  MemoryInv'
    <3>1. PICK m \in folded[c]..Len(history[c]) :
            /\ folded' = [folded EXCEPT ![c] = m]
            /\ summary' = [summary EXCEPT ![c] =
                             summary[c] \o QuestionsOf(SubSeq(history[c], folded[c] + 1, m))]
      BY <2>8 DEF ModelCall
    <3>2. UNCHANGED <<callAt, thread, history>> /\ callAt[c] = "running"
      BY <2>8 DEF ModelCall
    <3>3. history[c] \in Seq(Asks) /\ folded[c] \in Nat
            /\ Tells(history[c], folded[c], summary[c]) /\ Distinct(history[c])
      BY <1>2 DEF MemoryInv, ThreadInv
    <3>4. Tells(history[c], m, summary[c] \o QuestionsOf(SubSeq(history[c], folded[c] + 1, m)))
      BY <3>3, FoldingTellsMore
    <3>5. m \in Nat /\ summary[c] \o QuestionsOf(SubSeq(history[c], folded[c] + 1, m)) \in Seq(Asks)
      BY <3>3, <3>4, LenProperties DEF Tells
    <3>6. folded'[c] = m
            /\ summary'[c] = summary[c] \o QuestionsOf(SubSeq(history[c], folded[c] + 1, m))
            /\ \A d \in Calls \ {c} : folded'[d] = folded[d] /\ summary'[d] = summary[d]
      BY <1>2, <3>1 DEF MemoryInv
    <3>7. folded' \in [Calls -> Nat] /\ summary' \in [Calls -> Seq(Asks)]
      BY <1>2, <3>1, <3>5 DEF MemoryInv
    <3>8. \A d \in Calls :
            /\ Tells(history[d], folded'[d], summary'[d])
            /\ callAt[d] \in {"asked", "planned", "metered"} => folded'[d] = 0 /\ summary'[d] = <<>>
      BY <1>2, <3>2, <3>4, <3>6 DEF MemoryInv
    <3> QED
      BY <1>2, <3>2, <3>7, <3>8 DEF MemoryInv
  <2>9. ASSUME NEW c \in Calls, RecordTurn(c)
        PROVE  MemoryInv'
    <3>1. c \in Asks /\ callAt[c] = "recording" /\ UNCHANGED <<history, folded, summary>>
            /\ callAt' = [callAt EXCEPT ![c] = "answered"]
      BY <1>2, <2>9 DEF RecordTurn, Goes, memoryVars, ThreadInv
    <3>2. CASE thread' = thread
      BY <2>1, <2>2, <3>1, <3>2
    <3>3. CASE thread' = Append(thread, c)
      <4>1. thread \in Seq(Asks) /\ Len(thread) \in Nat
        BY <1>2, LenProperties DEF ThreadInv
      <4>2. Len(thread') = Len(thread) + 1 /\ thread'[Len(thread) + 1] = c
              /\ \A i \in 1..Len(thread) : thread'[i] = thread[i]
        BY <3>1, <3>3, <4>1
      <4>3. \A i \in 1..Len(thread) : thread[i] \in Calls /\ callAt[thread[i]] = "answered"
        BY <1>2, AssistantAssumption DEF ThreadInv, MemoryInv
      <4>4. \A i \in 1..Len(thread) : thread[i] # c
        BY <3>1, <4>3
      <4>5. callAt'[c] = "answered" /\ \A d \in Calls \ {c} : callAt'[d] = callAt[d]
        BY <1>2, <3>1 DEF TypeOKCalls
      <4>6. \A i \in 1..Len(thread') : i \in 1..Len(thread) \/ i = Len(thread) + 1
        BY <4>1, <4>2
      <4>7. Distinct(thread')
        BY <1>2, <4>2, <4>4, <4>6 DEF MemoryInv, Distinct
      <4>8. \A i \in 1..Len(thread') : callAt'[thread'[i]] = "answered"
        BY <4>2, <4>3, <4>5, <4>6
      <4>9. \A d \in Calls : callAt'[d] \in {"asked", "planned", "metered"}
                               => callAt[d] \in {"asked", "planned", "metered"}
        BY <4>5
      <4> QED
        BY <1>2, <3>1, <4>7, <4>8, <4>9 DEF MemoryInv
    <3> QED
      BY <2>9, <3>2, <3>3 DEF RecordTurn
  <2> QED
    BY <1>2, <2>3, <2>4, <2>5, <2>6, <2>7, <2>8, <2>9 DEF AssistantNext
<1> QED
  BY <1>1, <1>2, CallsTypeCorrect, ThreadInvHolds, PTL DEF AssistantSpec

\* However long a thread is and however often a run folds it, no model reads a
\* question twice (domain/conversation.ts:51).
THEOREM NoQuestionReadTwiceHolds == AssistantSpec => []NoQuestionReadTwice
<1>1. ThreadInv /\ MemoryInv => NoQuestionReadTwice
  <2> SUFFICES ASSUME ThreadInv, MemoryInv, NEW c \in Calls
               PROVE  /\ IsInjective(summary[c])
                      /\ \A i \in DOMAIN summary[c] : \A j \in folded[c] + 1..Len(history[c]) :
                             summary[c][i] # history[c][j]
    BY DEF NoQuestionReadTwice
  <2>1. Tells(history[c], folded[c], summary[c]) /\ Distinct(history[c])
    BY DEF MemoryInv
  <2>2. DOMAIN summary[c] = 1..Len(summary[c]) /\ Len(history[c]) \in Nat /\ folded[c] \in 0..Len(history[c])
    BY <2>1, LenProperties DEF Tells, ThreadInv
  <2>3. IsInjective(summary[c])
    BY <2>1, <2>2 DEF IsInjective, Tells, Distinct
  <2>4. ASSUME NEW i \in DOMAIN summary[c], NEW j \in folded[c] + 1..Len(history[c]),
               summary[c][i] = history[c][j]
        PROVE  FALSE
    <3>1. PICK k \in 1..folded[c] : summary[c][i] = history[c][k]
      BY <2>1, <2>2 DEF Tells
    <3>2. k \in 1..Len(history[c]) /\ j \in 1..Len(history[c]) /\ k # j
      BY <2>2
    <3> QED
      BY <2>1, <2>4, <3>1, <3>2 DEF Distinct
  <2> QED
    BY <2>3, <2>4
<1> QED
  BY <1>1, ThreadInvHolds, MemoryInvHolds, PTL


-----------------------------------------------------------------------------
(* Listings.                                                               *)

\* Type correctness of the review of a listing: every row, run and request.
THEOREM ListingsTypeCorrect == ListingsSpec => []TypeOKListings
<1>1. ListingsInit => TypeOKListings
  <2> SUFFICES ASSUME ListingsInit PROVE TypeOKListings
    OBVIOUS
  <2>1. hasFile \in BOOLEAN
    BY DEF ListingsInit
  <2>2. crashes \in 0..MaxCrashes
    BY ListingAssumption DEF ListingsInit
  <2>3. submitAt \in [Submissions -> {"none", "checked", "served"}]
    BY DEF ListingsInit
  <2> QED
    BY <2>1, <2>2, <2>3 DEF ListingsInit, TypeOKListings, ProductStatuses, RunLocations
<1>2. ASSUME TypeOKListings, [ListingsNext]_listingVars
      PROVE  TypeOKListings'
  <2> USE <1>2, ListingAssumption
      DEF TypeOKListings, ProductStatuses, RunLocations, productVars, reviewVars, RunGoesTo
  <2>1. CASE AttachDocument
    BY <2>1 DEF AttachDocument
  <2>2. CASE AdminReads
    BY <2>2 DEF AdminReads
  <2>3. CASE AdminDecides
    <3>1. PICK v \in {"approved", "denied"} :
            verdict' = [verdict EXCEPT ![adminSees] =
                          IF Live(adminSees) /\ @ = "none" THEN v ELSE @]
      BY <2>3 DEF AdminDecides
    <3>2. verdict' \in [Submissions -> {"none", "approved", "denied"}]
      BY <3>1, <2>3 DEF AdminDecides
    <3> QED
      BY <2>3, <3>2 DEF AdminDecides
  <2>4. ASSUME NEW r \in Submissions, CheckSubmission(r) \/ StartReview(r)
        PROVE  TypeOKListings'
    BY <2>4 DEF CheckSubmission, StartReview
  <2>5. ASSUME NEW r \in Submissions, RunStep(r)
        PROVE  TypeOKListings'
    BY <2>5 DEF RunStep, MarkPending, MarkPendingDone, ReviewArrives, ReviewTimesOut,
                Decide, ReviewEnds
  <2>6. ASSUME NEW r \in Submissions, RunCrash(r)
        PROVE  TypeOKListings'
    <3>1. StepStart[runAt[r]] \in RunLocations
      BY <2>6 DEF RunCrash, StepStart
    <3> QED
      BY <2>6, <3>1 DEF RunCrash
  <2>7. CASE UNCHANGED listingVars
    BY <2>7 DEF listingVars
  <2> QED
    BY <2>1, <2>2, <2>3, <2>4, <2>5, <2>6, <2>7 DEF ListingsNext
<1> QED
  BY <1>1, <1>2, PTL DEF ListingsSpec

-----------------------------------------------------------------------------
(* Any number of racing submissions, and of repeated steps.                *)

\* A listing under review can be decided: the run it names will still write
\* a decision.  The UPDATE that marks the listing names the run, so whoever
\* marked it last is the owner, and an owner that has decided has unmarked it.
THEOREM PendingIsDecidableHolds == ListingsSpec => []PendingIsDecidable
<1>1. ListingsInit => PendingIsDecidable
  BY DEF ListingsInit, PendingIsDecidable
<1>2. ASSUME TypeOKListings, PendingIsDecidable, [ListingsNext]_listingVars
      PROVE  PendingIsDecidable'
  <2> USE <1>2, ListingAssumption
      DEF TypeOKListings, PendingIsDecidable, productVars, reviewVars, RunGoesTo
  <2>1. CASE AttachDocument \/ AdminReads \/ AdminDecides
    BY <2>1 DEF AttachDocument, AdminReads, AdminDecides
  <2>2. ASSUME NEW r \in Submissions, CheckSubmission(r)
        PROVE  PendingIsDecidable'
    BY <2>2 DEF CheckSubmission
  <2>3. ASSUME NEW r \in Submissions, StartReview(r)
        PROVE  PendingIsDecidable'
    BY <2>3 DEF StartReview
  <2>4. ASSUME NEW r \in Submissions, MarkPending(r)
        PROVE  PendingIsDecidable'
    BY <2>4 DEF MarkPending
  <2>5. ASSUME NEW r \in Submissions,
               MarkPendingDone(r) \/ ReviewArrives(r) \/ ReviewTimesOut(r) \/ ReviewEnds(r)
        PROVE  PendingIsDecidable'
    BY <2>5 DEF MarkPendingDone, ReviewArrives, ReviewTimesOut, ReviewEnds
  <2>6. ASSUME NEW r \in Submissions, Decide(r)
        PROVE  PendingIsDecidable'
    BY <2>6 DEF Decide
  <2>7. ASSUME NEW r \in Submissions, RunCrash(r)
        PROVE  PendingIsDecidable'
    <3>1. StepStart[runAt[r]] \in {"mark-pending", "publish", "reject"}
      BY <2>7 DEF RunCrash, StepStart
    <3> QED
      BY <2>7, <3>1 DEF RunCrash
  <2>8. CASE UNCHANGED listingVars
    BY <2>8 DEF listingVars
  <2> QED
    BY <2>1, <2>2, <2>3, <2>4, <2>5, <2>6, <2>7, <2>8 DEF ListingsNext, RunStep
<1> QED
  BY <1>1, <1>2, ListingsTypeCorrect, PTL DEF ListingsSpec

-----------------------------------------------------------------------------
\* The strengthening: a run on its way to publish has an admin's approval.
ApprovedInv ==
    /\ \A r \in Submissions :
         runAt[r] \in {"publish", "publish:memo", "published"} => verdict[r] = "approved"
    /\ PublishedWasApproved

\* No listing is published that no admin approved.
THEOREM PublishedWasApprovedHolds == ListingsSpec => []PublishedWasApproved
<1>1. ListingsInit => ApprovedInv
  BY DEF ListingsInit, ApprovedInv, PublishedWasApproved
<1>2. ASSUME TypeOKListings, ApprovedInv, [ListingsNext]_listingVars
      PROVE  ApprovedInv'
  <2> USE <1>2, ListingAssumption
      DEF TypeOKListings, ApprovedInv, PublishedWasApproved, productVars, reviewVars, RunGoesTo
  <2>1. CASE AttachDocument \/ AdminReads
    BY <2>1 DEF AttachDocument, AdminReads
  <2>2. CASE AdminDecides
    <3>1. \A r \in Submissions : verdict[r] = "approved" => verdict'[r] = "approved"
      BY <2>2 DEF AdminDecides
    <3> QED
      BY <2>2, <3>1 DEF AdminDecides
  <2>3. ASSUME NEW r \in Submissions, CheckSubmission(r) \/ StartReview(r)
        PROVE  ApprovedInv'
    BY <2>3 DEF CheckSubmission, StartReview
  <2>4. ASSUME NEW r \in Submissions, RunStep(r)
        PROVE  ApprovedInv'
    BY <2>4 DEF RunStep, MarkPending, MarkPendingDone, ReviewArrives, ReviewTimesOut,
                Decide, ReviewEnds
  <2>5. ASSUME NEW r \in Submissions, RunCrash(r)
        PROVE  ApprovedInv'
    <3>1. runAt[r] # "publish:memo" => StepStart[runAt[r]] \in {"mark-pending", "reject"}
      BY <2>5 DEF RunCrash, StepStart
    <3> QED
      BY <2>5, <3>1 DEF RunCrash
  <2>6. CASE UNCHANGED listingVars
    BY <2>6 DEF listingVars
  <2> QED
    BY <2>1, <2>2, <2>3, <2>4, <2>5, <2>6 DEF ListingsNext
<1>3. ApprovedInv => PublishedWasApproved
  BY DEF ApprovedInv
<1> QED
  BY <1>1, <1>2, <1>3, ListingsTypeCorrect, PTL DEF ListingsSpec
===============================================================================
