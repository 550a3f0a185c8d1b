-------------------------- MODULE ProviderFeedback --------------------------
(***************************************************************************)
(* What comes back after a send: signed provider events, stored as receipts *)
(* and applied (providerWebhookService.ts, providerEventService.ts), and    *)
(* recipients who follow their unsubscribe link (unsubscribeService.ts).    *)
(*                                                                         *)
(* The provider repeats an event until it is answered, in any order, and an *)
(* event may arrive before the response to the submission it speaks of.     *)
(* Storing a receipt and applying it are two transactions; the process may  *)
(* die between them.  The worker applies again what now finds its message.  *)
(***************************************************************************)
EXTENDS DeliveryPolicy, Integers, FiniteSets

CONSTANTS Events,     \* provider event ids
          EventOf,    \* [Events -> [name, permanent, mail, msg, at]]
          Rows,       \* CampaignRecipient rows under submission
          MailOf,     \* [Rows -> normalized email]
          MsgOf,      \* [Rows -> the id the provider gives the message]
          Pilots,     \* provider pilot sends: [mail, msg]
          Secrets,     \* minted unsubscribe secrets
          HolderOf,   \* [Secrets -> normalized email]
          Hooks,      \* webhook requests being handled
          Visitors,   \* recipients at the unsubscribe page
          MaxDeaths, MaxUses   \* bounds: deaths of the process; visits

Facts == {"ACCEPTED", "DELIVERED", "OPENED", "CLICKED", "HARD_BOUNCE", "COMPLAINT"}
Mails == {MailOf[r] : r \in Rows} \cup {EventOf[e].mail : e \in Events} \cup {HolderOf[t] : t \in Secrets}

(* normalizeResendEvent: only a permanent bounce is a hard one.  Any other  *)
(* name is that of the platform, from another adapter behind the same port. *)
TypeOf(e) ==
    LET name == EventOf[e].name IN
    CASE name = "email.sent"             -> "ACCEPTED"
      [] name = "email.delivered"        -> "DELIVERED"
      [] name = "email.opened"           -> "OPENED"
      [] name = "email.clicked"          -> "CLICKED"
      [] name = "email.bounced"          -> IF EventOf[e].permanent THEN "HARD_BOUNCE" ELSE "SOFT_BOUNCE"
      [] name = "email.complained"       -> "COMPLAINT"
      [] name = "email.failed"           -> "FAILED"
      [] name = "email.delivery_delayed" -> "SOFT_BOUNCE"
      [] OTHER                           -> name

ASSUME FeedbackAssumption ==
    /\ \A e \in Events : TypeOf(e) \in ProviderEventType /\ EventOf[e].at \in Nat \ {0}
    /\ MailOf \in [Rows -> Mails] /\ HolderOf \in [Secrets -> Mails]
    /\ \A r \in Rows : MsgOf[r] # "none"
    \* The provider gives each message an id of its own.
    /\ \A r \in Rows : /\ \A s \in Rows : MsgOf[s] = MsgOf[r] => s = r
                       /\ \A p \in Pilots : p.msg # MsgOf[r]
    /\ MaxDeaths \in Nat /\ MaxUses \in Nat

VARIABLES
    outbox,      \* [Rows -> CampaignRecipient: state, message id, earliest times (0: none), events]
    emitted,     \* events the provider has to report
    answered,    \* events it got a 200 for
    receipt,     \* [Events -> ProviderWebhookReceipt, or Unreceived]
    ingested,    \* [Events -> PROVIDER_EVENT_INGESTED audit rows]
    optedOut,    \* normalized emails with a GLOBAL Unsubscribe
    suppressed,  \* Suppression rows: <<email, reason>>
    invalid,     \* emails marked INVALID
    links,       \* [Secrets -> useCount, or Unissued]
    hook, visit, \* requests in progress
    deaths

feedbackVars == <<outbox, emitted, answered, receipt, ingested, optedOut, suppressed, invalid,
                  links, hook, visit, deaths>>

Unreceived == [effects |-> FALSE, processed |-> FALSE, stored |-> FALSE]
Unissued == -1
Quiet == [at |-> "idle"]

FeedbackInit ==
    /\ outbox = [r \in Rows |-> [state |-> "SENDING", msg |-> "none",
                                 first |-> [f \in Facts |-> 0], events |-> {}]]
    /\ emitted = {} /\ answered = {}
    /\ receipt = [e \in Events |-> Unreceived] /\ ingested = [e \in Events |-> 0]
    /\ optedOut = {} /\ suppressed = {} /\ invalid = {}
    /\ links = [t \in Secrets |-> Unissued]
    /\ hook = [h \in Hooks |-> Quiet] /\ visit = [v \in Visitors |-> Quiet]
    /\ deaths = 0

(***************************************************************************)
(* The dispatch: a link is minted, then the response to the submission is   *)
(* recorded.  Without an answer the message id stays unknown.               *)
(***************************************************************************)
IssueLink(t) ==
    /\ links[t] = Unissued /\ links' = [links EXCEPT ![t] = 0]
    /\ UNCHANGED <<outbox, emitted, answered, receipt, ingested, optedOut, suppressed, invalid, hook, visit, deaths>>
RecordResponse(r, state) ==
    /\ outbox[r].state = "SENDING"
    /\ outbox' = [outbox EXCEPT ![r].state = state,
                                ![r].msg = IF state = "ACCEPTED" THEN MsgOf[r] ELSE @]
    /\ UNCHANGED <<emitted, answered, receipt, ingested, optedOut, suppressed, invalid, links, hook, visit, deaths>>

Emit(e) ==
    /\ e \notin emitted /\ emitted' = emitted \cup {e}
    /\ UNCHANGED <<outbox, answered, receipt, ingested, optedOut, suppressed, invalid, links, hook, visit, deaths>>

(***************************************************************************)
(* applyReceipt, one transaction under the lock of the receipt.             *)
(***************************************************************************)
Matches(r, e) ==
    /\ EventOf[e].msg # "none"
    /\ MailOf[r] = EventOf[e].mail /\ outbox[r].msg = EventOf[e].msg
Addressed(e) == {r \in Rows : Matches(r, e)}
IsPilot(e) == Addressed(e) = {} /\ [mail |-> EventOf[e].mail, msg |-> EventOf[e].msg] \in Pilots

Earlier(old, at) == IF old = 0 \/ at < old THEN at ELSE old
EventRecorded(row, e) ==
    LET type == TypeOf(e)
        to == ConsequenceOf(type).deliveryState
    IN  [row EXCEPT !.events = @ \cup {e},
                    !.state = IF to # "NONE" /\ CanTransition(row.state, to) THEN to ELSE @,
                    !.first = [f \in Facts |-> IF f = type THEN Earlier(row.first[f], EventOf[e].at)
                                                           ELSE row.first[f]]]
(* Mutant of EffectsDue: what a receipt obliges to is done at every attempt. *)
EffectsAlwaysDue(e) == TRUE
EffectsDue(e) == ~receipt[e].effects
Explained(e) == Addressed(e) # {} \/ IsPilot(e) \/ EventOf[e].msg = "none"

Effects(e) ==
    LET due == EffectsDue(e)
        mail == EventOf[e].mail
        consequence == ConsequenceOf(TypeOf(e))
    IN  /\ suppressed' = IF due /\ consequence.suppression # "NONE"
                           THEN suppressed \cup {<<mail, consequence.suppression>>} ELSE suppressed
        /\ invalid' = IF due /\ consequence.markEmailInvalid THEN invalid \cup {mail} ELSE invalid
        /\ optedOut' = IF due /\ consequence.unsubscribe THEN optedOut \cup {mail} ELSE optedOut
        /\ ingested' = IF due THEN [ingested EXCEPT ![e] = @ + 1] ELSE ingested
ApplyReceipt(e) ==
    IF receipt[e].processed
      THEN UNCHANGED <<outbox, receipt, ingested, optedOut, suppressed, invalid>>
      ELSE /\ outbox' = [r \in Rows |-> IF r \in Addressed(e) /\ e \notin outbox[r].events
                                          THEN EventRecorded(outbox[r], e) ELSE outbox[r]]
           /\ Effects(e)
           /\ receipt' = [receipt EXCEPT ![e] = [@ EXCEPT !.effects = TRUE, !.processed = Explained(e)]]

(***************************************************************************)
(* A webhook request: the receipt is stored, once per event, and applied.   *)
(* Only then is the provider answered.                                      *)
(***************************************************************************)
Receive(h, e) ==
    /\ hook[h] = Quiet /\ e \in emitted \ answered
    /\ receipt' = [receipt EXCEPT ![e].stored = TRUE]
    /\ hook' = [hook EXCEPT ![h] = [at |-> "stored", e |-> e]]
    /\ UNCHANGED <<outbox, emitted, answered, ingested, optedOut, suppressed, invalid, links, visit, deaths>>
Apply(h) ==
    /\ hook[h] # Quiet
    /\ ApplyReceipt(hook[h].e)
    /\ answered' = answered \cup {hook[h].e}
    /\ hook' = [hook EXCEPT ![h] = Quiet]
    /\ UNCHANGED <<emitted, links, visit, deaths>>
(* Mutant of Reconcile: only receipts without effects yet are pending. *)
ReconcileUnapplied(e) ==
    /\ receipt[e].stored /\ ~receipt[e].effects
    /\ Addressed(e) # {} \/ IsPilot(e)
    /\ ApplyReceipt(e)
    /\ UNCHANGED <<emitted, answered, links, hook, visit, deaths>>
Reconcile(e) ==
    /\ receipt[e].stored /\ ~receipt[e].processed
    /\ Addressed(e) # {} \/ IsPilot(e)
    /\ ApplyReceipt(e)
    /\ UNCHANGED <<emitted, answered, links, hook, visit, deaths>>

(***************************************************************************)
(* The unsubscribe page.  Opening it writes nothing; confirming reads the   *)
(* token, then in a transaction looks for an Unsubscribe and creates one.   *)
(* (normalizedEmail, scope) is unique: the second of two creations fails    *)
(* and takes the record of its visit with it.                               *)
(***************************************************************************)
ConfirmVisit(v, t) ==
    /\ visit[v] = Quiet
    /\ links[t] # Unissued /\ links[t] < MaxUses
    /\ visit' = [visit EXCEPT ![v] = [at |-> "token", t |-> t]]
    /\ UNCHANGED <<outbox, emitted, answered, receipt, ingested, optedOut, suppressed, invalid, links, hook, deaths>>
LookForUnsubscribe(v) ==
    /\ visit[v].at = "token"
    /\ visit' = [visit EXCEPT ![v] = [at |-> "commit", t |-> visit[v].t,
                                      found |-> HolderOf[visit[v].t] \in optedOut]]
    /\ UNCHANGED <<outbox, emitted, answered, receipt, ingested, optedOut, suppressed, invalid, links, hook, deaths>>
CommitUnsubscribe(v) ==
    LET t == visit[v].t IN
    /\ visit[v].at = "commit"
    /\ IF ~visit[v].found /\ HolderOf[t] \in optedOut
         THEN UNCHANGED <<optedOut, links>>
         ELSE /\ optedOut' = optedOut \cup {HolderOf[t]}
              /\ links' = [links EXCEPT ![t] = @ + 1]
    /\ visit' = [visit EXCEPT ![v] = Quiet]
    /\ UNCHANGED <<outbox, emitted, answered, receipt, ingested, suppressed, invalid, hook, deaths>>

(* The process dies: requests in progress are gone, transactions undone.    *)
ProcessDies ==
    /\ deaths < MaxDeaths /\ deaths' = deaths + 1
    /\ hook' = [h \in Hooks |-> Quiet] /\ visit' = [v \in Visitors |-> Quiet]
    /\ UNCHANGED <<outbox, emitted, answered, receipt, ingested, optedOut, suppressed, invalid, links>>

FeedbackNext ==
    \/ \E t \in Secrets : IssueLink(t) \/ \E v \in Visitors : ConfirmVisit(v, t)
    \/ \E r \in Rows : RecordResponse(r, "ACCEPTED") \/ RecordResponse(r, "UNCERTAIN")
    \/ \E e \in Events : Emit(e) \/ Reconcile(e) \/ \E h \in Hooks : Receive(h, e)
    \/ \E h \in Hooks : Apply(h)
    \/ \E v \in Visitors : LookForUnsubscribe(v) \/ CommitUnsubscribe(v)
    \/ ProcessDies

(* A request that is running goes on, the provider repeats what was not     *)
(* answered, and the worker loop reconciles on every turn.                  *)
FeedbackFairness ==
    /\ \A h \in Hooks : WF_feedbackVars(Apply(h))
    /\ \A e \in Events : /\ WF_feedbackVars(\E h \in Hooks : Receive(h, e))
                         /\ WF_feedbackVars(Reconcile(e))
FeedbackSpec == FeedbackInit /\ [][FeedbackNext]_feedbackVars /\ FeedbackFairness

(***************************************************************************)
(* Properties.                                                              *)
(***************************************************************************)
(* providerEventService.ts: whatever is repeated, reconciled or cut short,  *)
(* an event has its effects once, and all of them: one audit row, and the   *)
(* suppression, opt-out and invalid mark it obliges to.                     *)
EffectsAreAppliedOnce ==
    \A e \in Events :
      LET c == ConsequenceOf(TypeOf(e)) IN
      /\ ingested[e] = IF receipt[e].effects THEN 1 ELSE 0
      /\ receipt[e].effects =>
           /\ c.suppression # "NONE" => <<EventOf[e].mail, c.suppression>> \in suppressed
           /\ c.markEmailInvalid => EventOf[e].mail \in invalid
           /\ c.unsubscribe => EventOf[e].mail \in optedOut

(* "Never guess the newest send": a delivery knows the events of its own    *)
(* message and no other, and an event done with is in the delivery it is    *)
(* about, also when it arrived before the response to the submission.       *)
EventsFindTheirDelivery ==
    \A e \in Events, r \in Rows :
      LET own == EventOf[e].mail = MailOf[r] /\ EventOf[e].msg = MsgOf[r] IN
      /\ e \in outbox[r].events => own /\ outbox[r].msg = MsgOf[r]
      /\ receipt[e].processed /\ own => e \in outbox[r].events

(* The times of a delivery are those of its earliest reports, in whatever   *)
(* order the reports arrived.                                               *)
TimesAreTheEarliest ==
    \A r \in Rows, f \in Facts :
      LET seen == {EventOf[e].at : e \in {d \in outbox[r].events : TypeOf(d) = f}}
      IN  IF seen = {} THEN outbox[r].first[f] = 0
                       ELSE outbox[r].first[f] \in seen /\ \A at \in seen : outbox[r].first[f] <= at

(* unsubscribeService.ts: an address is opted out when a holder of one of   *)
(* its links confirmed, or the provider reported it; and always then, even  *)
(* when two confirmations race or the process dies in one.                  *)
OptOutsAreAsked ==
    \A m \in Mails :
      m \in optedOut <=> \/ \E t \in Secrets : HolderOf[t] = m /\ links[t] > 0
                         \/ \E e \in Events : /\ EventOf[e].mail = m /\ receipt[e].effects
                                              /\ TypeOf(e) = "UNSUBSCRIBE"

(* A report of a message whose id is known reaches its delivery, also when  *)
(* the response to the submission was recorded after it.                    *)
ReportsReachTheirDelivery ==
    \A e \in Events, r \in Rows :
      (e \in emitted /\ Matches(r, e)) ~> (e \in outbox[r].events)

(* Reports count once and where they belong: effects, times and opt-outs.   *)
ReportsCountOnce ==
    EffectsAreAppliedOnce /\ EventsFindTheirDelivery /\ TimesAreTheEarliest /\ OptOutsAreAsked

(***************************************************************************)
(* The inductive invariant.                                                 *)
(***************************************************************************)
OutboxRow == [state : DeliveryState, msg : {"none"} \cup {MsgOf[r] : r \in Rows},
              first : [Facts -> Nat], events : SUBSET Events]
FeedbackTypeOK ==
    /\ outbox \in [Rows -> OutboxRow]
    /\ emitted \subseteq Events /\ answered \subseteq Events
    /\ receipt \in [Events -> [effects : BOOLEAN, processed : BOOLEAN, stored : BOOLEAN]]
    /\ ingested \in [Events -> Nat]
    /\ optedOut \subseteq Mails /\ invalid \subseteq Mails
    /\ suppressed \subseteq Mails \X {"HARD_BOUNCE", "COMPLAINT"}
    /\ links \in [Secrets -> Int]
    /\ hook \in [Hooks -> [at : {"idle"}] \cup [at : {"stored"}, e : Events]]
    /\ visit \in [Visitors -> [at : {"idle"}] \cup [at : {"token"}, t : Secrets]
                                \cup [at : {"commit"}, t : Secrets, found : BOOLEAN]]
    /\ deaths \in Nat
(* A delivery has the id of its own message or none yet, and only a link     *)
(* that was issued is followed.                                             *)
MessageIdsAreOwn == \A r \in Rows : outbox[r].msg \in {"none", MsgOf[r]}
LinksAreIssued ==
    /\ \A t \in Secrets : links[t] >= Unissued
    /\ \A v \in Visitors : visit[v].at # "idle" => links[visit[v].t] >= 0
FeedbackInv == FeedbackTypeOK /\ MessageIdsAreOwn /\ LinksAreIssued /\ ReportsCountOnce
=============================================================================
