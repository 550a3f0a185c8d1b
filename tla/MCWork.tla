------------------------------- MODULE MCWork --------------------------------
(***************************************************************************)
(* What must come to an end although executions die, leases lapse, answers *)
(* are lost and pulls fall short: small instances of four modules for TLC.  *)
(* They share no state here: the scenario drawn at the start says which one *)
(* moves, while the others rest in one initial state of theirs.             *)
(***************************************************************************)
EXTENDS JobQueue, ProviderFeedback, CrmMirror, TLC

CONSTANTS w1, w2, none, nojob, r1, r2, bounce, k1, k2, t1, o1

VARIABLES scenario,
          campaign, job, dispatcher, lease, asap, row, tries, hasId,        \* of the delivery
          revoked, release, segmentActive, actorActive, facts, matched, clock,
          at, seen, batch, cur, note, submitted, accepted, lateOptOut

\* Two reconciliations, and any key's kind and resource.
CrmJobs    == {<<"CRM_SYNC", "crm", 1>>, <<"CRM_SYNC", "crm", 2>>}
MCKind     == [j \in Jobs |-> j[1]]
MCResource == [j \in Jobs |-> j[2]]

Sendable ==
    [isUnsubscribed |-> FALSE, isSuppressed |-> FALSE, emailStatus |-> "VALID",
     consentStatus |-> "GRANTED", language |-> "HE"]
D == INSTANCE CustomerDispatch WITH
        Recipients <- {r1, r2}, NoRecipient <- none, NoWorker <- none, BatchSize <- 1,
        CampaignLanguage <- "HE", Facts <- {Sendable},
        Disturbances <- {"crash", "error", "revoke", "actor"},
        owner <- dispatcher, leaseLive <- lease, attempts <- tries, pc <- at
dispatchVars == <<campaign, job, dispatcher, lease, asap, row, tries, hasId, revoked, release,
                  segmentActive, actorActive, facts, matched, clock, at, seen, batch, cur, note,
                  submitted, accepted, lateOptOut>>
(* No crash or error of an execution leaves a campaign SENDING with nobody   *)
(* told.                                                                    *)
DispatchSettles == D!DispatchSettles

\* A bounce that may be reported before the response to its submission.
SomeEvents   == [e \in {bounce} |-> [name |-> "email.bounced", permanent |-> TRUE, mail |-> "ann", msg |-> "m1", at |-> 1]]
SomeMails    == [r \in Rows |-> "ann"]
SomeMessages == [r \in Rows |-> "m1"]
NoHolders    == <<>>

\* A contact and an owned product of one of two companies, all at one address.
SomeOwner == [i \in {t1, o1} |-> k1]
SomeMail  == [i \in {k1, k2, t1} |-> "office"]

MCInit ==
    /\ scenario \in {"jobs", "dispatch", "reports", "crm"}
    /\ Init /\ D!Init /\ FeedbackInit /\ MirrorInit
    /\ monday = [i \in Records |-> IF scenario = "crm" THEN 1 ELSE 0]

all == <<scenario, queueVars, dispatchVars, feedbackVars, mirrorVars>>
InJobs(A)     == scenario = "jobs" /\ A /\ UNCHANGED <<scenario, dispatchVars, feedbackVars, mirrorVars>>
InDispatch(A) == scenario = "dispatch" /\ A /\ UNCHANGED <<scenario, queueVars, feedbackVars, mirrorVars>>
InReports(A)  == scenario = "reports" /\ A /\ UNCHANGED <<scenario, queueVars, dispatchVars, mirrorVars>>
InCrm(A)      == scenario = "crm" /\ A /\ UNCHANGED <<scenario, queueVars, dispatchVars, feedbackVars>>

MCNext == InJobs(Next) \/ InDispatch(D!Next) \/ InReports(FeedbackNext) \/ InCrm(MirrorNext)

(* The fairness each module states.  No two scenarios ever move together,   *)
(* so that one weak fairness of a disjunction says it for one step of each.  *)
j1 == <<"CRM_SYNC", "crm", 1>>
j2 == <<"CRM_SYNC", "crm", 2>>
Abandoned(j) == Expire(j) /\ \A w \in Workers : held[w] # j
WorkFairness ==
    /\ \A w \in Workers : WF_all(InJobs(Tick(w)) \/ InDispatch(D!WorkerStep(w)) \/ InCrm(PullStep(w)))
    /\ WF_all(\/ InJobs(Elapse(j1)) \/ InDispatch(\E w \in Workers : D!ClaimJob(w))
              \/ InReports(\E h \in Hooks : Receive(h, bounce)))
    /\ WF_all(InJobs(Elapse(j2)) \/ InDispatch(D!RecoverExpiredJob) \/ InReports(Reconcile(bounce)))
    /\ WF_all(InJobs(Abandoned(j1)) \/ InDispatch(D!OwnerDied /\ D!LeaseExpires) \/ InReports(Apply(w1)))
    /\ WF_all(InJobs(Abandoned(j2)) \/ InDispatch(D!TimePasses))

MCSpec == MCInit /\ [][MCNext]_all /\ WorkFairness
=============================================================================
