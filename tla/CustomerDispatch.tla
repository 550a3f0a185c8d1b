-------------------------- MODULE CustomerDispatch --------------------------
(***************************************************************************)
(* The dispatch of one confirmed campaign to its approved audience: the     *)
(* staff operations on it, its background job and lease, and the workers    *)
(* that execute it, one awaited database or provider call per step.         *)
(*                                                                          *)
(* A worker is one execution of runJobTick.  The worker process gives up on *)
(* a tick after five minutes and starts another, and several processes may  *)
(* run, so an execution whose lease expired may still be running: it keeps  *)
(* its program counter and its local variables, and every write it makes is *)
(* still subject to the compare-and-set of that write.                      *)
(*                                                                          *)
(* Abstractions.  Addresses are members of Recipients; time is only where   *)
(* now lies relative to scheduledAt, and whether a lease is unexpired (a    *)
(* heartbeat extends an unexpired lease, so it is a stutter here).  READY   *)
(* exists only inside the claim transaction and is never committed.         *)
(***************************************************************************)
EXTENDS DeliveryPolicy, FiniteSets

CONSTANTS
    Recipients,     \* destinations of the approved final audience
    Workers,        \* executions of runJobTick
    NoRecipient,    \* "no current row"
    NoWorker,       \* "the job is not leased"
    BatchSize,      \* rows one execution takes (20 in the code)
    CampaignLanguage,
    Facts,          \* the live facts an address may take
    Disturbances    \* what the environment may do, see Next

ASSUME RecipientsAssumption == NoRecipient \notin Recipients
ASSUME WorkersAssumption    == NoWorker \notin Workers
ASSUME BatchAssumption      == BatchSize \in Nat \ {0}
ASSUME FactsAssumption      == Facts \subseteq DispatchVetoFacts

VARIABLES
    campaign,       \* Campaign.status
    clock,          \* now relative to Campaign.scheduledAt
    job,            \* BackgroundJob.state
    owner,          \* the worker whose token the job holds
    leaseLive,      \* leaseExpiresAt > now
    asap,           \* availableAt is now rather than scheduledAt
    row,            \* CampaignRecipient.state, NOROW before preparation
    attempts,       \* CampaignRecipient.attemptCount
    hasId           \* CampaignRecipient.providerMessageId is set

VARIABLES
    revoked,        \* the production approval is revoked
    release,        \* customer release gates
    segmentActive,  \* Segment.isActive
    actorActive,    \* the job's delegating user is active and authorized
    facts,          \* live address facts
    matched         \* the canonical resolver still finds the address

VARIABLES
    pc,             \* where each worker stands
    seen,           \* the campaign status it read
    batch,          \* rows it selected and has not looked at
    cur,            \* the row it is working on
    note            \* the result it carries to its next write

VARIABLES           \* history: no guard of the program reads it
    submitted,      \* submissions made for a destination, counted up to 2
    accepted,       \* the provider took the message
    lateOptOut      \* opted out after its submission was decided

dbVars     == <<campaign, job, owner, leaseLive, asap, row, attempts, hasId>>
envVars    == <<clock, revoked, release, segmentActive, actorActive, facts,
                matched>>
workerVars == <<pc, seen, batch, cur, note>>
ghostVars  == <<submitted, accepted, lateOptOut>>
jobVars    == <<job, owner, leaseLive, asap>>
rowVars    == <<row, attempts, hasId>>
vars       == <<dbVars, envVars, workerVars, ghostVars>>

RowState == (DeliveryState \ {"SENT", "READY"}) \union {"NOROW"}

PC == {"idle", "entry", "load", "start", "select", "next", "gate", "live",
       "veto", "claim", "submit", "record", "rowcatch", "count", "close",
       "finish", "catch"}

Note == {"none", "ACCEPTED", "FAILED", "UNCERTAIN", "SENT", "PENDING",
         "BLOCKED", "DONE", "CAUGHT"}

TypeOK ==
    /\ campaign \in {"DRAFT", "SCHEDULED", "SENDING", "SENT", "FAILED",
                     "CANCELED"}
    /\ clock \in {"early", "due", "missed"}
    /\ job \in {"NONE", "PENDING", "RUNNING", "ATTENTION", "SUCCEEDED",
                "CANCELED"}
    /\ owner \in Workers \union {NoWorker}
    /\ leaseLive \in BOOLEAN
    /\ asap \in BOOLEAN
    /\ row \in [Recipients -> RowState]
    /\ attempts \in [Recipients -> {0, 1}]
    /\ hasId \in [Recipients -> BOOLEAN]
    /\ revoked \in BOOLEAN
    /\ release \in {"open", "degraded", "locked"}
    /\ segmentActive \in BOOLEAN
    /\ actorActive \in BOOLEAN
    /\ facts \in [Recipients -> DispatchVetoFacts]
    /\ matched \in [Recipients -> BOOLEAN]
    /\ pc \in [Workers -> PC]
    /\ seen \in [Workers -> {"none", "SCHEDULED", "SENDING"}]
    /\ batch \in [Workers -> SUBSET Recipients]
    /\ cur \in [Workers -> Recipients \union {NoRecipient}]
    /\ note \in [Workers -> Note]
    /\ submitted \in [Recipients -> 0 .. 2]
    /\ accepted \in [Recipients -> BOOLEAN]
    /\ lateOptOut \in [Recipients -> BOOLEAN]

Init ==
    /\ campaign = "DRAFT"
    /\ clock = "early"
    /\ job = "NONE" /\ owner = NoWorker /\ leaseLive = FALSE /\ asap = FALSE
    /\ row = [r \in Recipients |-> "NOROW"]
    /\ attempts = [r \in Recipients |-> 0]
    /\ hasId = [r \in Recipients |-> FALSE]
    /\ revoked = FALSE /\ release = "open"
    /\ segmentActive = TRUE /\ actorActive = TRUE
    /\ facts \in [Recipients -> Facts]
    /\ matched = [r \in Recipients |-> TRUE]
    /\ pc = [w \in Workers |-> "idle"]
    /\ seen = [w \in Workers |-> "none"]
    /\ batch = [w \in Workers |-> {}]
    /\ cur = [w \in Workers |-> NoRecipient]
    /\ note = [w \in Workers |-> "none"]
    /\ submitted = [r \in Recipients |-> 0]
    /\ accepted = [r \in Recipients |-> FALSE]
    /\ lateOptOut = [r \in Recipients |-> FALSE]

-----------------------------------------------------------------------------
(* The conditions the actions share. *)

HoldsLease(w) == job = "RUNNING" /\ owner = w /\ leaseLive

(* requireCapability inside a claimed job: a fresh lease, an active actor. *)
MayAct(w) == HoldsLease(w) /\ actorActive

OptedOut(f) == f.isUnsubscribed \/ f.isSuppressed

(* Mutant of MaySend: the approved snapshot is trusted, only CRM is re-read. *)
MaySendBySnapshot(r) == matched[r]

(* The verdict of one dispatch, and the looser one of ledger preparation. *)
MaySend(r) ==
    /\ DecideDispatch(facts[r], CampaignLanguage, TRUE) = "SEND"
    /\ matched[r]

MayList(r) == DecideDispatch(facts[r], CampaignLanguage, FALSE) = "SEND"

(* Mutants of AllInFlightUncertain: interrupted rows are queued again, or    *)
(* forgotten.                                                                *)
AllInFlightRetried ==
    row' = [r \in Recipients |->
              IF row[r] = "SENDING" THEN "PENDING" ELSE row[r]]

AllInFlightForgotten == row' = row

(* UPDATE ... SET state = 'UNCERTAIN' WHERE campaignId = ... AND SENDING *)
AllInFlightUncertain ==
    row' = [r \in Recipients |->
              IF row[r] = "SENDING" THEN "UNCERTAIN" ELSE row[r]]

Goto(w, label) == pc' = [pc EXCEPT ![w] = label]

GotoWith(w, label, result) ==
    /\ Goto(w, label)
    /\ note' = [note EXCEPT ![w] = result]

(* Locals of an execution that ended. *)
Forget(w) ==
    /\ pc' = [pc EXCEPT ![w] = "idle"]
    /\ seen' = [seen EXCEPT ![w] = "none"]
    /\ batch' = [batch EXCEPT ![w] = {}]
    /\ cur' = [cur EXCEPT ![w] = NoRecipient]
    /\ note' = [note EXCEPT ![w] = "none"]

-----------------------------------------------------------------------------
(* Staff.  Each of these is a signed-in action with its confirmation. *)

(* One row per destination of the audience that has none yet. *)
PrepareDeliveryLedger ==
    /\ ~revoked
    /\ \E r \in Recipients : row[r] = "NOROW"
    /\ row' = [r \in Recipients |->
                 IF row[r] # "NOROW" THEN row[r]
                 ELSE IF MayList(r) THEN "PENDING" ELSE "SUPPRESSED"]
    /\ UNCHANGED <<campaign, jobVars, attempts, hasId, envVars, workerVars,
                   ghostVars>>

(* DRAFT -> PENDING_APPROVAL -> APPROVED -> SCHEDULED and the job, in one *)
(* serializable transaction, after the ledger was prepared.                *)
ScheduleCustomerDelivery ==
    /\ campaign = "DRAFT"
    /\ release = "open"
    /\ ~revoked
    /\ \A r \in Recipients : row[r] # "NOROW" /\ attempts[r] = 0
    /\ campaign' = "SCHEDULED"
    /\ clock' = "early"
    /\ job' = "PENDING"
    /\ asap' = FALSE
    /\ actorActive' = TRUE
    /\ UNCHANGED <<owner, leaseLive, rowVars, revoked, release,
                   segmentActive, facts, matched, workerVars, ghostVars>>

(* Mutant of Cancelable: a campaign being sent can be canceled as well. *)
CancelableWhileSending == campaign \in {"SCHEDULED", "SENDING"}

Cancelable == campaign = "SCHEDULED" /\ CampaignMayMove("SCHEDULED", "CANCELED")

(* A RUNNING job is left to its worker. *)
CancelCustomerDelivery ==
    /\ Cancelable
    /\ campaign' = "CANCELED"
    /\ job' = IF job \in {"PENDING", "ATTENTION"} THEN "CANCELED" ELSE job
    /\ UNCHANGED <<owner, leaseLive, asap, rowVars, envVars, workerVars,
                   ghostVars>>

(* Here and on resumption the job is delegated anew, to the (active) person  *)
(* who confirms.                                                             *)
RescheduleCustomerDelivery ==
    /\ campaign = "SCHEDULED"
    /\ job = "ATTENTION"
    /\ job' = "PENDING"
    /\ asap' = FALSE
    /\ clock' = "early"
    /\ actorActive' = TRUE
    /\ UNCHANGED <<campaign, owner, leaseLive, rowVars, revoked, release,
                   segmentActive, facts, matched, workerVars, ghostVars>>

ResumeCustomerDelivery ==
    /\ campaign = "SENDING"
    /\ job = "ATTENTION"
    /\ job' = "PENDING"
    /\ asap' = TRUE
    /\ actorActive' = TRUE
    /\ UNCHANGED <<campaign, owner, leaseLive, rowVars, clock, revoked,
                   release, segmentActive, facts, matched, workerVars,
                   ghostVars>>

-----------------------------------------------------------------------------
(* The job. *)

ClaimJob(w) ==
    /\ pc[w] = "idle"
    /\ job = "PENDING"
    /\ asap \/ clock # "early"
    /\ job' = "RUNNING"
    /\ owner' = w
    /\ leaseLive' = TRUE
    /\ Goto(w, "entry")
    /\ UNCHANGED <<campaign, asap, rowVars, envVars, seen, batch, cur, note,
                   ghostVars>>

(* recoverExpiredJobs, run by every tick before it claims. *)
RecoverExpiredJob ==
    /\ job = "RUNNING"
    /\ ~leaseLive
    /\ job' = "ATTENTION"
    /\ owner' = NoWorker
    /\ AllInFlightUncertain
    /\ UNCHANGED <<campaign, leaseLive, asap, attempts, hasId, envVars,
                   workerVars, ghostVars>>

(* Mutant of FinishState: what remains is not asked. *)
FinishStateIgnoringRemaining(result) ==
    IF result \in {"PENDING", "DONE"} THEN "SUCCEEDED" ELSE "ATTENTION"

(* BLOCKED: the run was refused.  CAUGHT: the tick threw.  PENDING: rows are *)
(* left.  DONE: none is, and an uncertain one needs a person.                *)
FinishState(result) ==
    CASE result = "PENDING" -> "PENDING"
      [] result = "DONE" /\ \A r \in Recipients : row[r] # "UNCERTAIN"
                            -> "SUCCEEDED"
      [] OTHER              -> "ATTENTION"

(* finishJob: only under the worker's own unexpired lease. *)
FinishJob(w) ==
    /\ pc[w] = "finish"
    /\ IF HoldsLease(w)
         THEN /\ job' = FinishState(note[w])
              /\ owner' = NoWorker
              /\ leaseLive' = FALSE
              /\ asap' = (asap \/ note[w] = "PENDING")
         ELSE UNCHANGED jobVars
    /\ Forget(w)
    /\ UNCHANGED <<campaign, rowVars, envVars, ghostVars>>

(* The catch of the tick: every SENDING row of the campaign, whoever claimed *)
(* it, and then the job.                                                     *)
CatchTick(w) ==
    /\ pc[w] = "catch"
    /\ AllInFlightUncertain
    /\ GotoWith(w, "finish", "CAUGHT")
    /\ UNCHANGED <<campaign, jobVars, attempts, hasId, envVars, seen, batch,
                   cur, ghostVars>>

-----------------------------------------------------------------------------
(* executeCustomerDispatch, one awaited call per step. *)

ReadOnly == UNCHANGED <<dbVars, envVars, ghostVars>>

Enter(w) ==
    /\ pc[w] = "entry"
    /\ IF ~MayAct(w) THEN Goto(w, "catch") /\ UNCHANGED note
       ELSE IF release # "open" THEN GotoWith(w, "finish", "BLOCKED")
       ELSE Goto(w, "load") /\ UNCHANGED note
    /\ ReadOnly /\ UNCHANGED <<seen, batch, cur>>

(* What a loaded campaign must satisfy, or the run is blocked. *)
Executable ==
    /\ campaign \in {"SCHEDULED", "SENDING"}
    /\ clock # "early"
    /\ campaign = "SCHEDULED" => clock # "missed"
    /\ ~revoked

(* An article of the issue may have lost its approval at any time, or got it *)
(* back: how the count of such articles comes out is the environment's.      *)
LoadCampaign(w) ==
    /\ pc[w] = "load"
    /\ \/ /\ Executable
          /\ seen' = [seen EXCEPT ![w] = campaign]
          /\ Goto(w, IF campaign = "SCHEDULED" THEN "start" ELSE "select")
          /\ UNCHANGED note
       \/ /\ ~Executable \/ "articles" \in Disturbances
          /\ GotoWith(w, "finish", "BLOCKED")
          /\ UNCHANGED seen
    /\ ReadOnly /\ UNCHANGED <<batch, cur>>

(* Mutant of Startable: the update is not conditional on the status read. *)
StartableUnconditionally(w) == seen[w] = "SCHEDULED"

Startable(w) == campaign = seen[w] /\ CampaignMayMove(seen[w], "SENDING")

StartSending(w) ==
    /\ pc[w] = "start"
    /\ IF Startable(w)
         THEN campaign' = "SENDING" /\ Goto(w, "select")
         ELSE UNCHANGED campaign /\ Goto(w, "catch")
    /\ UNCHANGED <<jobVars, rowVars, envVars, seen, batch, cur, note,
                   ghostVars>>

NeverAttempted == {r \in Recipients : row[r] = "PENDING" /\ attempts[r] = 0}

(* The first BatchSize rows by address; which ones does not matter here. *)
SelectBatch(w) ==
    /\ pc[w] = "select"
    /\ \E rows \in SUBSET NeverAttempted :
         /\ \/ rows = NeverAttempted /\ Cardinality(rows) <= BatchSize
            \/ Cardinality(rows) = BatchSize
         /\ batch' = [batch EXCEPT ![w] = rows]
    /\ Goto(w, "next")
    /\ ReadOnly /\ UNCHANGED <<seen, cur, note>>

(* Head of the loop: a provider slot and an unsubscribe link for the row. *)
NextRow(w) ==
    /\ pc[w] = "next"
    /\ \/ /\ batch[w] = {}
          /\ Goto(w, "count")
          /\ cur' = [cur EXCEPT ![w] = NoRecipient]
          /\ UNCHANGED batch
       \/ \E r \in batch[w] :
            /\ cur' = [cur EXCEPT ![w] = r]
            /\ batch' = [batch EXCEPT ![w] = @ \ {r}]
            /\ Goto(w, "gate")
    /\ ReadOnly /\ UNCHANGED <<seen, note>>

(* Another campaign took the provider slot twice: leave the loop. *)
SlotRefused(w) ==
    /\ pc[w] = "next"
    /\ batch[w] # {}
    /\ Goto(w, "count")
    /\ cur' = [cur EXCEPT ![w] = NoRecipient]
    /\ ReadOnly /\ UNCHANGED <<seen, batch, note>>

(* Mutant of StillPermitted: the approval read at the start is trusted. *)
StillPermittedByFirstRead == release # "locked" /\ segmentActive

StillPermitted == release # "locked" /\ ~revoked /\ segmentActive

Gate(w) ==
    /\ pc[w] = "gate"
    /\ Goto(w, IF ~MayAct(w) THEN "catch"
               ELSE IF StillPermitted THEN "live" ELSE "count")
    /\ ReadOnly /\ UNCHANGED <<seen, batch, cur, note>>

CheckLiveFacts(w) ==
    /\ pc[w] = "live"
    /\ Goto(w, IF MaySend(cur[w]) THEN "claim" ELSE "veto")
    /\ ReadOnly /\ UNCHANGED <<seen, batch, cur, note>>

(* Mutant of StillUntouched: the row is taken as the batch saw it. *)
StillUntouchedAsRead(r) == TRUE

(* The WHERE clause of both updates below: as the batch saw the row. *)
StillUntouched(r) == row[r] = "PENDING" /\ attempts[r] = 0

VetoRecipient(w) ==
    /\ pc[w] = "veto"
    /\ row' = IF StillUntouched(cur[w])
                     /\ CanTransition("PENDING", "SUPPRESSED")
                THEN [row EXCEPT ![cur[w]] = "SUPPRESSED"] ELSE row
    /\ Goto(w, "next")
    /\ UNCHANGED <<campaign, jobVars, attempts, hasId, envVars, seen, batch,
                   cur, note, ghostVars>>

(* PENDING -> READY -> SENDING and the attempt, in one transaction. *)
ClaimRecipient(w) ==
    /\ pc[w] = "claim"
    /\ LET r == cur[w] IN
         IF StillUntouched(r)
              /\ CanTransition("PENDING", "READY")
              /\ CanTransition("READY", "SENDING")
           THEN /\ row' = [row EXCEPT ![r] = "SENDING"]
                /\ attempts' = [attempts EXCEPT ![r] = 1]
                /\ Goto(w, "submit")
           ELSE /\ UNCHANGED <<row, attempts>>
                /\ Goto(w, "next")
    /\ UNCHANGED <<campaign, jobVars, hasId, envVars, seen, batch, cur, note,
                   ghostVars>>

(* The provider took the message and answered, took it and was not heard,    *)
(* or refused it; or nothing reached it and the answer was lost as well.     *)
Answers ==
    {[took |-> TRUE,  answer |-> "ACCEPTED"],
     [took |-> TRUE,  answer |-> "UNCERTAIN"],
     [took |-> FALSE, answer |-> "FAILED"],
     [took |-> FALSE, answer |-> "UNCERTAIN"]}

SendCustomer(w) ==
    /\ pc[w] = "submit"
    /\ release # "locked"
    /\ \E a \in Answers :
         /\ submitted' = [submitted EXCEPT ![cur[w]] = IF @ < 2 THEN @ + 1 ELSE 2]
         /\ accepted' = IF a.took THEN [accepted EXCEPT ![cur[w]] = TRUE]
                                  ELSE accepted
         /\ GotoWith(w, "record", a.answer)
    /\ UNCHANGED <<dbVars, envVars, seen, batch, cur, lateOptOut>>

(* The adapter refuses to submit: locked flags, or an unusable envelope. *)
SendCustomerThrows(w) ==
    /\ pc[w] = "submit"
    /\ Goto(w, "rowcatch")
    /\ ReadOnly /\ UNCHANGED <<seen, batch, cur, note>>

(* Mutant of OutcomeState: an answer without a message id counts as taken. *)
OutcomeStateWithoutId(answer) ==
    IF answer = "FAILED" THEN "FAILED" ELSE "ACCEPTED"

OutcomeState(answer) ==
    IF answer \in {"ACCEPTED", "FAILED"} THEN answer ELSE "UNCERTAIN"

RecordOutcome(w) ==
    /\ pc[w] = "record"
    /\ LET r == cur[w]
           state == OutcomeState(note[w])
       IN
         IF row[r] = "SENDING" /\ CanTransition("SENDING", state)
           THEN /\ row' = [row EXCEPT ![r] = state]
                /\ hasId' = [hasId EXCEPT ![r] = (note[w] = "ACCEPTED")]
           ELSE UNCHANGED <<row, hasId>>
    /\ GotoWith(w, "next", "none")
    /\ UNCHANGED <<campaign, jobVars, attempts, envVars, seen, batch, cur,
                   ghostVars>>

(* Persisting the answer failed: the inner catch takes over. *)
RecordFails(w) ==
    /\ pc[w] = "record"
    /\ GotoWith(w, "rowcatch", "none")
    /\ ReadOnly /\ UNCHANGED <<seen, batch, cur>>

CatchSubmission(w) ==
    /\ pc[w] = "rowcatch"
    /\ row' = IF row[cur[w]] = "SENDING"
                THEN [row EXCEPT ![cur[w]] = "UNCERTAIN"] ELSE row
    /\ Goto(w, "next")
    /\ UNCHANGED <<campaign, jobVars, attempts, hasId, envVars, seen, batch,
                   cur, note, ghostVars>>

(* The two counts after the loop; receipts are reconciled by ProviderEvent. *)
(* Mutant of Remaining: a row handed to the provider is not waited for. *)
RemainingUnsubmitted == {r \in Recipients : row[r] = "PENDING"}

Remaining == {r \in Recipients : row[r] \in {"PENDING", "SENDING"}}

CountRemaining(w) ==
    /\ pc[w] = "count"
    /\ IF Remaining # {}
         THEN GotoWith(w, "finish", "PENDING")
         ELSE GotoWith(w, "close",
                IF \E r \in Recipients : row[r] \in {"FAILED", "UNCERTAIN"}
                  THEN "FAILED" ELSE "SENT")
    /\ ReadOnly /\ UNCHANGED <<seen, batch, cur>>

CloseCampaign(w) ==
    /\ pc[w] = "close"
    /\ campaign' = IF campaign = "SENDING" /\ CampaignMayMove("SENDING", note[w])
                     THEN note[w] ELSE campaign
    /\ GotoWith(w, "finish", "DONE")
    /\ UNCHANGED <<jobVars, rowVars, envVars, seen, batch, cur, ghostVars>>

-----------------------------------------------------------------------------
(* Failures of an execution. *)

(* A database call of the tick's try block throws. *)
StepThrows(w) ==
    /\ pc[w] \notin {"idle", "catch", "submit", "record"}
    /\ note[w] # "CAUGHT"
    /\ Goto(w, "catch")
    /\ ReadOnly /\ UNCHANGED <<seen, batch, cur, note>>

(* The process dies, or the catch itself throws: nothing else is written. *)
Crash(w) ==
    /\ pc[w] # "idle"
    /\ Forget(w)
    /\ ReadOnly

(* No heartbeat for two minutes.  A dead owner stops beating; a live one    *)
(* can stall (a blocked event loop, an unreachable database).               *)
OwnerDied == \A w \in Workers : owner = w => pc[w] = "idle"

LeaseExpires ==
    /\ job = "RUNNING"
    /\ leaseLive
    /\ OwnerDied \/ "stall" \in Disturbances
    /\ leaseLive' = FALSE
    /\ UNCHANGED <<campaign, job, owner, asap, rowVars, envVars, workerVars,
                   ghostVars>>

-----------------------------------------------------------------------------
(* The world around the dispatch. *)

EnvOnly == UNCHANGED <<dbVars, workerVars, ghostVars>>

TimePasses ==
    /\ clock # "missed"
    /\ campaign \in {"SCHEDULED", "SENDING"}
    /\ clock' = IF clock = "early" THEN "due" ELSE "missed"
    /\ EnvOnly
    /\ UNCHANGED <<revoked, release, segmentActive, actorActive, facts, matched>>

RevokeApproval ==
    /\ ~revoked
    /\ revoked' = TRUE
    /\ EnvOnly
    /\ UNCHANGED <<clock, release, segmentActive, actorActive, facts, matched>>

ChangeRelease ==
    /\ release' \in {"open", "degraded", "locked"} \ {release}
    /\ EnvOnly
    /\ UNCHANGED <<clock, revoked, segmentActive, actorActive, facts, matched>>

ToggleSegment ==
    /\ segmentActive' = ~segmentActive
    /\ EnvOnly
    /\ UNCHANGED <<clock, revoked, release, actorActive, facts, matched>>

DeactivateActor ==
    /\ actorActive
    /\ actorActive' = FALSE
    /\ EnvOnly
    /\ UNCHANGED <<clock, revoked, release, segmentActive, facts, matched>>

(* Past the decision of some worker, or past its submission. *)
PastDecision(r) ==
    \/ submitted[r] > 0
    \/ \E w \in Workers : cur[w] = r /\ pc[w] \in {"claim", "submit"}

(* Unsubscribes and suppressions are only ever added. *)
SetFacts(r, f) ==
    /\ facts' = [facts EXCEPT ![r] =
         [f EXCEPT !.isUnsubscribed = @ \/ facts[r].isUnsubscribed,
                   !.isSuppressed   = @ \/ facts[r].isSuppressed]]
    /\ lateOptOut' = [lateOptOut EXCEPT ![r] =
         @ \/ (~OptedOut(facts[r]) /\ OptedOut(facts'[r]) /\ PastDecision(r))]

ChangeFacts(r) ==
    /\ \E f \in Facts : SetFacts(r, f) /\ facts' # facts
    /\ UNCHANGED <<dbVars, clock, revoked, release, segmentActive, actorActive,
                   matched, workerVars, submitted, accepted>>

(* The CRM record is archived, relinked, or leaves or re-enters the segment. *)
ChangeMatch(r) ==
    /\ matched' = [matched EXCEPT ![r] = ~@]
    /\ EnvOnly
    /\ UNCHANGED <<clock, revoked, release, segmentActive, actorActive, facts>>

(* A signed event about a message whose id the row holds. *)
ProviderEvent(r, type) ==
    LET c == ConsequenceOf(type) IN
    /\ hasId[r] /\ accepted[r]
    /\ row' = IF c.deliveryState # "NONE" /\ CanTransition(row[r], c.deliveryState)
                THEN [row EXCEPT ![r] = c.deliveryState] ELSE row
    /\ SetFacts(r, [facts[r] EXCEPT
         !.isSuppressed   = @ \/ c.suppression # "NONE",
         !.emailStatus    = IF c.markEmailInvalid THEN "INVALID" ELSE @,
         !.isUnsubscribed = @ \/ c.unsubscribe])
    /\ UNCHANGED <<campaign, jobVars, attempts, hasId, clock, revoked, release,
                   segmentActive, actorActive, matched, workerVars, submitted,
                   accepted>>

-----------------------------------------------------------------------------
(* One execution's own progress, without failures. *)
WorkerStep(w) ==
    \/ Enter(w) \/ LoadCampaign(w) \/ StartSending(w) \/ SelectBatch(w)
    \/ NextRow(w) \/ Gate(w) \/ CheckLiveFacts(w) \/ VetoRecipient(w)
    \/ ClaimRecipient(w) \/ SendCustomer(w) \/ RecordOutcome(w)
    \/ CatchSubmission(w) \/ CountRemaining(w) \/ CloseCampaign(w)
    \/ CatchTick(w) \/ FinishJob(w)
    \/ release = "locked" /\ SendCustomerThrows(w)

WorkerFails(w) ==
    \/ "error" \in Disturbances
         /\ (StepThrows(w) \/ SendCustomerThrows(w) \/ RecordFails(w))
    \/ "slot" \in Disturbances /\ SlotRefused(w)
    \/ "crash" \in Disturbances /\ Crash(w)

Staff ==
    \/ PrepareDeliveryLedger \/ ScheduleCustomerDelivery
    \/ CancelCustomerDelivery \/ RescheduleCustomerDelivery
    \/ ResumeCustomerDelivery

World ==
    \/ TimePasses
    \/ "revoke" \in Disturbances /\ RevokeApproval
    \/ "release" \in Disturbances /\ ChangeRelease
    \/ "segment" \in Disturbances /\ ToggleSegment
    \/ "actor" \in Disturbances /\ DeactivateActor
    \/ \E r \in Recipients :
         \/ "facts" \in Disturbances /\ (ChangeFacts(r) \/ ChangeMatch(r))
         \/ "events" \in Disturbances
              /\ \E type \in ProviderEventType : ProviderEvent(r, type)

Next ==
    \/ Staff
    \/ World
    \/ RecoverExpiredJob
    \/ LeaseExpires
    \/ \E w \in Workers : ClaimJob(w) \/ WorkerStep(w) \/ WorkerFails(w)

Spec == Init /\ [][Next]_vars

(* A worker that runs keeps running, ticks keep coming (each recovers expired *)
(* jobs and claims one), a dead owner's lease runs out, and time passes.      *)
Fairness ==
    /\ \A w \in Workers : WF_vars(WorkerStep(w))
    /\ WF_vars(\E w \in Workers : ClaimJob(w))
    /\ WF_vars(RecoverExpiredJob)
    /\ WF_vars(OwnerDied /\ LeaseExpires)
    /\ WF_vars(TimePasses)

FairSpec == Spec /\ Fairness

-----------------------------------------------------------------------------
(* Safety. *)

(* No destination is ever submitted twice, whatever expired, crashed or was  *)
(* resumed: "attempted at most once" of executeCustomerDispatch.             *)
AtMostOneSubmission == \A r \in Recipients : submitted[r] <= 1

(* A campaign that was not started, or was canceled before it, attempted and *)
(* submitted nothing: the worker's SCHEDULED -> SENDING update against the   *)
(* staff's SCHEDULED -> CANCELED.                                            *)
UntouchedUnlessStarted ==
    campaign \in {"DRAFT", "SCHEDULED", "CANCELED"} =>
        \A r \in Recipients : attempts[r] = 0 /\ submitted[r] = 0

(* A campaign reported SENT has no open or doubtful row and no submission    *)
(* still to come from any execution, expired ones included.                  *)
SentMeansSettled ==
    campaign = "SENT" =>
        /\ \A r \in Recipients :
             row[r] \notin {"NOROW", "PENDING", "SENDING", "UNCERTAIN"}
        /\ \A w \in Workers : pc[w] # "submit"

(* The ledger never claims more than the provider did: a row recorded as     *)
(* taken was taken, an untouched or suppressed row was never submitted, and  *)
(* a taken message is recorded as FAILED only by the provider's own event.   *)
LedgerTellsTruth ==
    \A r \in Recipients :
        /\ row[r] \in {"ACCEPTED", "DELIVERED", "BOUNCED", "COMPLAINED"} =>
             accepted[r]
        /\ row[r] \in {"NOROW", "PENDING", "SUPPRESSED"} => submitted[r] = 0
        /\ row[r] = "FAILED" /\ accepted[r] => hasId[r]

(* An opt-out or suppression that was there before the live check of its own *)
(* row stops the message; only one that arrives after it can be too late.    *)
OptOutHonoured ==
    \A r \in Recipients :
        submitted[r] > 0 /\ OptedOut(facts[r]) => lateOptOut[r]

(* A campaign that is neither closed nor canceled keeps a job someone will   *)
(* act on, and a job that succeeded leaves a closed campaign without doubt.  *)
JobTellsCampaign ==
    /\ campaign \in {"SCHEDULED", "SENDING"} =>
         job \in {"PENDING", "RUNNING", "ATTENTION"}
    /\ job = "SUCCEEDED" =>
         /\ campaign \in {"SENT", "FAILED"}
         /\ \A r \in Recipients : row[r] # "UNCERTAIN"

-----------------------------------------------------------------------------
(* What a step may never do. *)

(* PENDING reaches SENDING through READY in one step; every other change of  *)
(* a row is one allowed transition, and no attempted row becomes untouched.  *)
RowsOnlyMoveForward ==
    [][\A r \in Recipients :
         row'[r] # row[r] /\ row[r] # "NOROW" =>
           \/ CanTransition(row[r], row'[r])
           \/ row[r] = "PENDING" /\ row'[r] = "SENDING"]_vars

(* Once the approval is revoked and no execution is past its per-row gate,   *)
(* none passes it again and nothing more is submitted.                       *)
RevokedAndQuiet ==
    revoked /\ \A w \in Workers : pc[w] \notin {"live", "claim", "submit"}

RevocationStopsWork ==
    [][RevokedAndQuiet => RevokedAndQuiet' /\ submitted' = submitted]_vars

(* Delivery is an implementation of what it promises. *)
FateOf(state) ==
    CASE state = "NOROW"      -> "unlisted"
      [] state = "PENDING"    -> "waiting"
      [] state = "SUPPRESSED" -> "dropped"
      [] OTHER                -> "attempted"

Promise == INSTANCE DeliveryPromise WITH
    phase  <- campaign,
    fate   <- [r \in Recipients |-> FateOf(row[r])],
    mailed <- {r \in Recipients : submitted[r] > 0}

(* CustomerDispatch implements DeliveryPromise: the executions, leases and   *)
(* recoveries of the code only ever take the steps it promises.              *)
ImplementsPromise == Promise!PromiseSpec

-----------------------------------------------------------------------------
(* The inductive invariant behind the safety properties, in parts.          *)

Untouched == {"NOROW", "PENDING", "SUPPRESSED"}
Taken     == {"ACCEPTED", "DELIVERED", "BOUNCED", "COMPLAINED"}
Open      == {"NOROW", "PENDING", "SENDING"}
Closed    == {"SENT", "FAILED"}

(* Labels a worker reaches only after the campaign was started. *)
Dispatching == {"select", "next", "gate", "live", "veto", "claim", "submit",
                "record", "rowcatch", "count", "close"}

(* Labels at which a worker owns the attempt of its current row. *)
InHand == {"submit", "record", "rowcatch"}

(* The attempt is recorded before anything reaches the provider. *)
AttemptInv ==
    \A r \in Recipients :
        /\ attempts[r] = 0 <=> row[r] \in Untouched
        /\ attempts[r] = 0 => submitted[r] = 0
        /\ submitted[r] <= 1
        /\ accepted[r] => submitted[r] = 1

(* One worker at most owns an attempt, and it has submitted or will. *)
InHandInv ==
    /\ \A w \in Workers :
         /\ pc[w] \in InHand \union {"gate", "live", "veto", "claim"} =>
              cur[w] \in Recipients
         /\ pc[w] \in InHand => attempts[cur[w]] = 1
         /\ pc[w] = "submit" =>
              submitted[cur[w]] = 0 /\ row[cur[w]] \in {"SENDING", "UNCERTAIN"}
         /\ pc[w] = "record" =>
              /\ note[w] \in {"ACCEPTED", "FAILED", "UNCERTAIN"}
              /\ submitted[cur[w]] = 1
              /\ note[w] = "ACCEPTED" => accepted[cur[w]]
              /\ note[w] = "FAILED" => ~accepted[cur[w]]
    /\ \A v, w \in Workers :
         v # w /\ pc[v] \in InHand /\ pc[w] \in InHand => cur[v] # cur[w]

(* What a row says of the provider, and when it can be matched to an event. *)
OutcomeInv ==
    \A r \in Recipients :
        /\ row[r] \in Taken => accepted[r]
        /\ row[r] = "FAILED" /\ accepted[r] => hasId[r]
        /\ hasId[r] => row[r] \in Taken \union {"FAILED"}

(* Where the campaign stands, its rows and its executions. *)
PhaseInv ==
    /\ campaign \in {"DRAFT", "SCHEDULED", "CANCELED"} =>
         /\ \A r \in Recipients : attempts[r] = 0
         /\ \A w \in Workers : pc[w] \notin Dispatching
    /\ campaign # "DRAFT" => \A r \in Recipients : row[r] # "NOROW"
    /\ campaign \in Closed => \A r \in Recipients : row[r] \notin Open
    /\ campaign = "SENT" => \A r \in Recipients : row[r] # "UNCERTAIN"
    /\ \A w \in Workers : pc[w] = "close" =>
         /\ note[w] \in Closed
         /\ \A r \in Recipients : row[r] \notin Open
         /\ note[w] = "SENT" => \A r \in Recipients : row[r] # "UNCERTAIN"

(* The job of a campaign, and what an execution about to finish has done. *)
JobInv ==
    /\ campaign = "DRAFT" => job = "NONE"
    /\ campaign \in {"SCHEDULED", "SENDING"} =>
         job \in {"PENDING", "RUNNING", "ATTENTION"}
    /\ job = "SUCCEEDED" =>
         /\ campaign \in Closed
         /\ \A r \in Recipients : row[r] # "UNCERTAIN"
    /\ \A w \in Workers :
         pc[w] = "finish" /\ note[w] = "DONE" => campaign \in Closed

(* An opt-out known when its row was decided stopped it: what is past the    *)
(* decision, and opted out, opted out too late.                              *)
OptOutInv ==
    \A r \in Recipients :
        PastDecision(r) /\ OptedOut(facts[r]) => lateOptOut[r]

IInv == TypeOK /\ AttemptInv /\ InHandInv /\ OutcomeInv /\ PhaseInv /\ JobInv

-----------------------------------------------------------------------------
(* Liveness. *)

(* A started campaign is closed or handed to a person: no crash or error of  *)
(* an execution leaves it SENDING with nobody told.                          *)
DispatchSettles ==
    campaign = "SENDING" ~>
        (campaign \in {"SENT", "FAILED"} \/ job = "ATTENTION")

=============================================================================
