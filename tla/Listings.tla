------------------------------ MODULE Listings ------------------------------
(***************************************************************************)
(* The review of a listing: the submit route, the product-review run it    *)
(* starts, the admin who decides and the seven days that decide otherwise. *)
(* One listing; listings share nothing.                                    *)
(*                                                                         *)
(* The run is the durable workflow engine's, as in Payouts: a finished     *)
(* step is remembered, a step cut short starts again, one worker executes  *)
(* a run at a time, and a signal sent before the run waits is kept for it. *)
(***************************************************************************)
EXTENDS Integers

CONSTANTS
    Submissions,  \* submit requests; each starts a run of its own
    NoRun,        \* the reviewRunId of a listing never reviewed
    MaxCrashes    \* bound: workers that die executing a run

ASSUME ListingAssumption ==
    /\ NoRun \notin Submissions
    /\ MaxCrashes \in Nat

VARIABLES
    status,      \* Product.status
    hasFile,     \* whether Product.fileKey is set
    reviewRunId, \* Product.reviewRunId
    submitAt,    \* where each submit request is
    runAt,       \* where the run it started is
    verdict,     \* the first review signal kept for the run, or "none"
    adminSees,   \* the run the admin's request has read from the listing
    crashes

productVars == <<status, hasFile, reviewRunId>>
reviewVars  == <<runAt, verdict>>
listingVars == <<productVars, submitAt, reviewVars, adminSees, crashes>>

ProductStatuses == {"DRAFT", "PENDING_REVIEW", "PUBLISHED", "REJECTED"}

\* "step:memo" is inside the step, its UPDATE done and not yet remembered.
RunLocations ==
    {"none", "mark-pending", "mark-pending:memo", "wait", "publish", "publish:memo",
     "reject", "reject:memo", "published", "rejected"}

StepStart ==
    [at \in {"mark-pending:memo", "publish:memo", "reject:memo"} |->
        IF at = "mark-pending:memo" THEN "mark-pending"
        ELSE IF at = "publish:memo" THEN "publish" ELSE "reject"]

\* The run has been started and has not ended: it accepts a signal.
Live(r) == runAt[r] \notin {"none", "published", "rejected"}

TypeOKListings ==
    /\ status      \in ProductStatuses
    /\ hasFile     \in BOOLEAN
    /\ reviewRunId \in Submissions \cup {NoRun}
    /\ submitAt    \in [Submissions -> {"none", "checked", "served"}]
    /\ runAt       \in [Submissions -> RunLocations]
    /\ verdict     \in [Submissions -> {"none", "approved", "denied"}]
    /\ adminSees   \in Submissions \cup {NoRun}
    /\ crashes     \in 0..MaxCrashes

ListingsInit ==
    /\ status = "DRAFT"
    /\ hasFile = FALSE
    /\ reviewRunId = NoRun
    /\ submitAt = [r \in Submissions |-> "none"]
    /\ runAt = [r \in Submissions |-> "none"]
    /\ verdict = [r \in Submissions |-> "none"]
    /\ adminSees = NoRun
    /\ crashes = 0

-----------------------------------------------------------------------------
(* The seller.  A request that dies goes no further: nothing makes it.     *)

\* The last await of an upload.
AttachDocument ==
    /\ hasFile' = TRUE
    /\ UNCHANGED <<status, reviewRunId, submitAt, reviewVars, adminSees, crashes>>

\* What is read here is not read again: two requests may both find a DRAFT.
CheckSubmission(r) ==
    /\ submitAt[r] = "none"
    /\ status \in {"DRAFT", "REJECTED"}
    /\ hasFile
    /\ submitAt' = [submitAt EXCEPT ![r] = "checked"]
    /\ UNCHANGED <<productVars, reviewVars, adminSees, crashes>>

\* engine.start, with an id of its own: a run per request.
StartReview(r) ==
    /\ submitAt[r] = "checked"
    /\ submitAt' = [submitAt EXCEPT ![r] = "served"]
    /\ runAt' = [runAt EXCEPT ![r] = "mark-pending"]
    /\ UNCHANGED <<productVars, verdict, adminSees, crashes>>

-----------------------------------------------------------------------------
(* The admin's request reads the listing's run, then signals it.           *)

AdminReads ==
    /\ reviewRunId # NoRun
    /\ adminSees' = reviewRunId
    /\ UNCHANGED <<productVars, submitAt, reviewVars, crashes>>

\* A run that has ended refuses the signal; a run keeps the first it gets.
AdminDecides ==
    /\ adminSees # NoRun
    /\ \E v \in {"approved", "denied"} :
         verdict' = [verdict EXCEPT ![adminSees] =
                        IF Live(adminSees) /\ @ = "none" THEN v ELSE @]
    /\ adminSees' = NoRun
    /\ UNCHANGED <<productVars, submitAt, runAt, crashes>>

-----------------------------------------------------------------------------
(* The product-review run.                                                 *)

RunGoesTo(r, at) == runAt' = [runAt EXCEPT ![r] = at]

\* Slip: the listing is marked, and its run written down only later.
MarkPendingForgetsRun(r) ==
    /\ runAt[r] = "mark-pending"
    /\ status' = "PENDING_REVIEW"
    /\ RunGoesTo(r, "mark-pending:memo")
    /\ UNCHANGED <<hasFile, reviewRunId, submitAt, verdict, adminSees, crashes>>

\* The status and the run that owns it, in one UPDATE.
MarkPending(r) ==
    /\ runAt[r] = "mark-pending"
    /\ status' = "PENDING_REVIEW"
    /\ reviewRunId' = r
    /\ RunGoesTo(r, "mark-pending:memo")
    /\ UNCHANGED <<hasFile, submitAt, verdict, adminSees, crashes>>

MarkPendingDone(r) ==
    /\ runAt[r] = "mark-pending:memo"
    /\ RunGoesTo(r, "wait")
    /\ UNCHANGED <<productVars, submitAt, verdict, adminSees, crashes>>

ReviewArrives(r) ==
    /\ runAt[r] = "wait"
    /\ \/ verdict[r] = "approved" /\ RunGoesTo(r, "publish")
       \/ verdict[r] = "denied"   /\ RunGoesTo(r, "reject")
    /\ UNCHANGED <<productVars, submitAt, verdict, adminSees, crashes>>

\* Slip: the timeout is swallowed and the run waits on.
ReviewWaitsOn(r) ==
    /\ runAt[r] = "wait"
    /\ verdict[r] = "none"
    /\ UNCHANGED listingVars

\* Slip: silence is consent.
ReviewTimesOutApproved(r) ==
    /\ runAt[r] = "wait"
    /\ verdict[r] = "none"
    /\ RunGoesTo(r, "publish")
    /\ UNCHANGED <<productVars, submitAt, verdict, adminSees, crashes>>

\* Seven days without a signal.
ReviewTimesOut(r) ==
    /\ runAt[r] = "wait"
    /\ verdict[r] = "none"
    /\ RunGoesTo(r, "reject")
    /\ UNCHANGED <<productVars, submitAt, verdict, adminSees, crashes>>

\* Neither UPDATE asks what it replaces.
Decide(r) ==
    /\ \/ runAt[r] = "publish" /\ status' = "PUBLISHED" /\ RunGoesTo(r, "publish:memo")
       \/ runAt[r] = "reject"  /\ status' = "REJECTED"  /\ RunGoesTo(r, "reject:memo")
    /\ UNCHANGED <<hasFile, reviewRunId, submitAt, verdict, adminSees, crashes>>

ReviewEnds(r) ==
    /\ \/ runAt[r] = "publish:memo" /\ RunGoesTo(r, "published")
       \/ runAt[r] = "reject:memo"  /\ RunGoesTo(r, "rejected")
    /\ UNCHANGED <<productVars, submitAt, verdict, adminSees, crashes>>

\* The worker dies with a step done and not remembered: it is done again.
RunCrash(r) ==
    /\ crashes < MaxCrashes
    /\ crashes' = crashes + 1
    /\ runAt[r] \in DOMAIN StepStart
    /\ RunGoesTo(r, StepStart[runAt[r]])
    /\ UNCHANGED <<productVars, submitAt, verdict, adminSees>>

RunStep(r) ==
    \/ MarkPending(r) \/ MarkPendingDone(r) \/ ReviewArrives(r) \/ ReviewTimesOut(r)
    \/ Decide(r) \/ ReviewEnds(r)

-----------------------------------------------------------------------------
ListingsNext ==
    \/ AttachDocument \/ AdminReads \/ AdminDecides
    \/ \E r \in Submissions : CheckSubmission(r) \/ StartReview(r) \/ RunStep(r) \/ RunCrash(r)

ListingsSpec == ListingsInit /\ [][ListingsNext]_listingVars

\* The cron tick takes every due run, one past its timeout included.
ListingsFairness == \A r \in Submissions : WF_listingVars(RunStep(r))

FairListingsSpec == ListingsSpec /\ ListingsFairness

-----------------------------------------------------------------------------
(* Properties.                                                             *)

\* A listing under review can be decided: its reviewRunId is a run that will
\* still write a decision, however many runs were started and whatever steps
\* were repeated.  (An admin can only signal the run the listing names.)
PendingIsDecidable ==
    status = "PENDING_REVIEW" =>
        /\ reviewRunId # NoRun
        /\ runAt[reviewRunId] \in {"mark-pending", "mark-pending:memo", "wait", "publish", "reject"}

\* No listing is published that no admin approved; silence rejects.  (Whichever
\* run it was: of two runs of one listing either may be the one approved.)
PublishedWasApproved ==
    status = "PUBLISHED" => \E r \in Submissions : verdict[r] = "approved"

\* Not so: two runs of one listing may both be on their way to a decision, and
\* the one the listing does not name decides it too.
OwnerDecides ==
    \A r \in Submissions : runAt[r] \in {"publish", "reject"} => reviewRunId = r

\* Not so: a run the listing does not name times out after it was published, or
\* a worker dies with its UPDATE done and the step is executed again.
PublishedStays == [][status = "PUBLISHED" => status' = "PUBLISHED"]_status

\* A review ends: approved, denied, or timed out.
ReviewIsDecided == status = "PENDING_REVIEW" ~> status \in {"PUBLISHED", "REJECTED"}
=============================================================================
