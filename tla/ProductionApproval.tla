------------------------- MODULE ProductionApproval -------------------------
(***************************************************************************)
(* Freezing the audience of one newsletter, approving it by a second       *)
(* person, and scheduling it (sendReadinessService.ts, with the rules of   *)
(* finalAudience.ts, productionApproval.ts and sendReadiness.ts).          *)
(*                                                                         *)
(* Several staff members work at once.  Every service call is as many      *)
(* actions as it has awaits between which another call may commit: a       *)
(* preparation resolves, then reads the watermark, then opens its          *)
(* transaction, then commits; an approval reads the newsletter, reads the  *)
(* readiness, opens its transaction, commits.  Transactions run at READ    *)
(* COMMITTED: the updateMany that revokes sees the rows committed when it  *)
(* ran, which the opening action takes down, and commits later.            *)
(***************************************************************************)
EXTENDS Integers, FiniteSets

CONSTANTS
    Staff, Creator,    \* people; Creator wrote the newsletter
    People, Facts,     \* addresses and what the CRM may say of one
    Segments, Criteria,\* segments and the sets of addresses rules may select
    Contents,          \* renderings of the newsletter
    Unreviewed,        \* those with an external article nobody approved
    Keys,              \* preparation keys of the form (double clicks)
    MaxDestinations,   \* MAX_FINAL_DESTINATIONS
    MaxStamp, MaxIds   \* bounds: writes the watermark sees; rows created

Languages == {"HE", "AR", "UNKNOWN"}
NoSegment == "no segment"
NoContent == "not frozen"
Idle == [at |-> "idle"]

ASSUME ApprovalAssumption ==
    /\ Creator \in Staff
    /\ Segments # {} /\ NoSegment \notin Segments /\ NoContent \notin Contents
    /\ Unreviewed \subseteq Contents
    /\ Criteria \subseteq SUBSET People
    /\ \A f \in Facts : f.ok \in BOOLEAN /\ f.granted \in BOOLEAN
    /\ MaxStamp \in Nat /\ MaxIds \in Nat /\ MaxDestinations \in Nat

VARIABLES
    campaign,   \* status, language, segment, live content, frozen document
    rules,      \* [Segments -> Criteria]
    facts,      \* [People -> Facts]
    stamp,      \* what computeAudienceWatermark fingerprints, as a counter
    audiences,  \* committed CampaignFinalAudience rows
    approvals,  \* committed CampaignProductionApproval rows
    nextId,     \* createdAt order: given when a transaction inserts
    manager,    \* staff holding APPROVE_PRODUCTION now
    ledger,     \* CampaignRecipient rows: the audience each address is in, or 0
    task        \* what each member of staff has in flight

vars == <<campaign, rules, facts, stamp, audiences, approvals, nextId, manager, ledger, task>>

(***************************************************************************)
(* Resolving and hashing.  A hash is the value it is computed from.        *)
(***************************************************************************)
RequiredLanguage(language) == IF language \in {"HE", "AR"} THEN {language} ELSE Languages

Destinations(m) == {p \in DOMAIN m.facts : /\ m.facts[p].ok
                                           /\ m.facts[p].lang \in RequiredLanguage(m.language)}

(* The frozen form: everything the audience hash covers, exclusions too. *)
Resolve(segment, criteria, language) ==
    [segment |-> segment, criteria |-> criteria, language |-> language,
     facts |-> [p \in criteria |-> facts[p]]]

AudienceHash(m) == m

ContentHash(content, language, audience) ==
    [content |-> content, language |-> language, audience |-> audience.id,
     hash |-> AudienceHash(audience.matter)]

(* Mutant of Rendered: the frozen document is not consulted. *)
RenderedLive(c) == c.content
Rendered(c) == IF c.frozen # NoContent THEN c.frozen ELSE c.content

NoRow == [id |-> 0]
Newest(rows) == IF rows = {} THEN NoRow ELSE CHOOSE r \in rows : \A o \in rows : o.id <= r.id

Current ==
    IF campaign.segment = NoSegment THEN NoRow
    ELSE Resolve(campaign.segment, rules[campaign.segment], campaign.language)

Watermark == stamp

(* Mutant of Stale: the stored watermark is trusted whatever it is. *)
NeverStale(frozen) == frozen # NoRow /\ campaign.segment = NoSegment
Stale(frozen) ==
    /\ frozen # NoRow
    /\ frozen.mark # Watermark
    /\ \/ campaign.segment = NoSegment
       \/ LET now == Current IN
          \/ frozen.matter.segment # now.segment
          \/ frozen.matter.criteria # now.criteria
          \/ frozen.matter.language # now.language
          \/ AudienceHash(frozen.matter) # AudienceHash(now)

(* Mutant of CheckApproval: only the message is compared. *)
CheckMessageOnly(approval, frozen) ==
    /\ approval # NoRow /\ frozen # NoRow
    /\ ~approval.revoked
    /\ approval.content = Rendered(campaign) /\ approval.language = campaign.language
CheckApproval(approval, frozen) ==
    /\ approval # NoRow
    /\ ~approval.revoked
    /\ frozen # NoRow
    /\ approval.hash = ContentHash(Rendered(campaign), campaign.language, frozen)
    /\ approval.audience = frozen.id

FourEyes(approver) == approver \in manager /\ approver # Creator

(***************************************************************************)
(* The checks of evaluateSendReadiness that can block, by group.           *)
(***************************************************************************)
SendableStatuses == {"DRAFT", "SCHEDULED"}
ContentBlocked == \/ campaign.status \notin SendableStatuses
                  \/ campaign.content \in Unreviewed
AudienceBlocked(frozen) == \/ campaign.segment = NoSegment
                           \/ frozen = NoRow
                           \/ Stale(frozen)
                           \/ Destinations(frozen.matter) = {}
ApprovalBlocked(frozen, approval) ==
    \/ ~(CheckApproval(approval, frozen) /\ ~Stale(frozen))
    \/ ~FourEyes(approval.by)
PreparationComplete(frozen, approval) ==
    ~ContentBlocked /\ ~AudienceBlocked(frozen) /\ ~ApprovalBlocked(frozen, approval)

(* getSendReadiness: what the page shows and the other calls decide by. *)
Readiness ==
    LET frozen == Newest(audiences)
        approval == Newest(approvals)
    IN [frozen |-> frozen, approval |-> approval,
        stale |-> Stale(frozen),
        valid |-> CheckApproval(approval, frozen) /\ ~Stale(frozen),
        complete |-> PreparationComplete(frozen, approval)]

-----------------------------------------------------------------------------
Init ==
    /\ campaign \in [status : {"DRAFT"}, language : {"HE"}, segment : {CHOOSE s \in Segments : TRUE},
                     content : Contents \ Unreviewed, frozen : {NoContent}, approval : {0}]
    /\ rules \in [Segments -> Criteria]
    /\ facts \in [People -> Facts]
    /\ stamp = 1
    /\ audiences = {} /\ approvals = {}
    /\ nextId = 1
    /\ manager = Staff
    /\ ledger = [p \in People |-> 0]
    /\ task = [s \in Staff |-> Idle]

Start(s, t) == task[s] = Idle /\ task' = [task EXCEPT ![s] = t]
Goto(s, t) == task' = [task EXCEPT ![s] = t]
Finish(s) == Goto(s, Idle)
Bump == stamp < MaxStamp /\ stamp' = stamp + 1

(* What moves a person in or out: CRM pulls, consent, opt-outs, languages. *)
PersonChanges(p, f) ==
    /\ f # facts[p]
    /\ Bump
    /\ facts' = [facts EXCEPT ![p] = f]
    /\ UNCHANGED <<campaign, rules, audiences, approvals, nextId, manager, ledger, task>>

SegmentEdited(seg, c) ==
    /\ c # rules[seg]
    /\ Bump
    /\ rules' = [rules EXCEPT ![seg] = c]
    /\ UNCHANGED <<campaign, facts, audiences, approvals, nextId, manager, ledger, task>>

(* updateNewsletterDetails, the status read again under the row lock. *)
EditDetails(language, content) ==
    /\ campaign.status = "DRAFT"
    /\ Bump
    /\ campaign' = [campaign EXCEPT !.language = language, !.content = content]
    /\ campaign' # campaign
    /\ UNCHANGED <<rules, facts, audiences, approvals, nextId, manager, ledger, task>>

SetCampaignSegment(seg) ==
    /\ campaign.status = "DRAFT"
    /\ seg # campaign.segment
    /\ Bump
    /\ campaign' = [campaign EXCEPT !.segment = seg]
    /\ UNCHANGED <<rules, facts, audiences, approvals, nextId, manager, ledger, task>>

(* An article is edited in the library: the newsletter renders differently, *)
(* in any status, and no watermark moves.                                   *)
ArticleEdited(content) ==
    /\ content # campaign.content
    /\ campaign' = [campaign EXCEPT !.content = content]
    /\ UNCHANGED <<rules, facts, stamp, audiences, approvals, nextId, manager, ledger, task>>

RoleChanges(s) ==
    /\ manager' = IF s \in manager THEN manager \ {s} ELSE manager \cup {s}
    /\ UNCHANGED <<campaign, rules, facts, stamp, audiences, approvals, nextId, ledger, task>>

(***************************************************************************)
(* prepareFinalAudience, for a submission whose key has no audience yet.   *)
(***************************************************************************)
PrepareStart(s, key) ==
    /\ ~\E a \in audiences : a.key = key
    /\ campaign.segment # NoSegment
    /\ Start(s, [at |-> "resolve", key |-> key, seen |-> stamp, segment |-> campaign.segment,
                 criteria |-> rules[campaign.segment], language |-> campaign.language])
    /\ UNCHANGED <<campaign, rules, facts, stamp, audiences, approvals, nextId, manager, ledger>>

PrepareResolve(s) ==
    LET t == task[s] IN
    /\ t.at = "resolve"
    /\ Goto(s, [at |-> "mark", key |-> t.key, seen |-> t.seen,
                matter |-> Resolve(t.segment, t.criteria, t.language)])
    /\ UNCHANGED <<campaign, rules, facts, stamp, audiences, approvals, nextId, manager, ledger>>

PrepareMark(s) ==
    LET t == task[s] IN
    /\ t.at = "mark"
    /\ Goto(s, [at |-> "open", key |-> t.key, seen |-> t.seen, matter |-> t.matter, mark |-> Watermark])
    /\ UNCHANGED <<campaign, rules, facts, stamp, audiences, approvals, nextId, manager, ledger>>

Unrevoked == {a.id : a \in {b \in approvals : ~b.revoked}}

(* The transaction inserts its row (createdAt) and revokes what it can see. *)
PrepareOpen(s) ==
    LET t == task[s] IN
    /\ t.at = "open"
    /\ nextId <= MaxIds /\ nextId' = nextId + 1
    /\ Goto(s, [at |-> "commit", revokes |-> Unrevoked,
                row |-> [id |-> nextId, key |-> t.key, seen |-> t.seen, mark |-> t.mark, matter |-> t.matter]])
    /\ UNCHANGED <<campaign, rules, facts, stamp, audiences, approvals, manager, ledger>>

Revoked(ids) == {IF a.id \in ids THEN [a EXCEPT !.revoked = TRUE] ELSE a : a \in approvals}

(* Mutant of PrepareCommit: a lost race still revokes. *)
PrepareCommitRevokesAnyway(s) ==
    LET t == task[s] IN
    /\ t.at = "commit"
    /\ audiences' = IF \E a \in audiences : a.key = t.row.key THEN audiences ELSE audiences \cup {t.row}
    /\ approvals' = Revoked(t.revokes)
    /\ Finish(s)
    /\ UNCHANGED <<campaign, rules, facts, stamp, nextId, manager, ledger>>
(* The unique key lets one of two submissions of a form in; the other rolls *)
(* back whole and answers with the winner.                                  *)
PrepareCommit(s) ==
    LET t == task[s] IN
    /\ t.at = "commit"
    /\ IF \E a \in audiences : a.key = t.row.key
       THEN UNCHANGED <<audiences, approvals>>
       ELSE /\ audiences' = audiences \cup {t.row}
            /\ approvals' = Revoked(t.revokes)
    /\ Finish(s)
    /\ UNCHANGED <<campaign, rules, facts, stamp, nextId, manager, ledger>>

(***************************************************************************)
(* approveForProduction and revokeProductionApproval.                      *)
(***************************************************************************)
ApproveRead(s) ==
    /\ FourEyes(s)
    /\ Start(s, [at |-> "review", content |-> Rendered(campaign), language |-> campaign.language])
    /\ UNCHANGED <<campaign, rules, facts, stamp, audiences, approvals, nextId, manager, ledger>>

(* The refusals: no audience, a stale one, a check blocked elsewhere. *)
ApproveReview(s) ==
    LET t == task[s]
        r == Readiness
    IN
    /\ t.at = "review"
    /\ Goto(s, IF r.frozen = NoRow \/ r.stale \/ ContentBlocked \/ AudienceBlocked(r.frozen)
               THEN Idle
               ELSE [at |-> "approve", content |-> t.content, language |-> t.language, audience |-> r.frozen])
    /\ UNCHANGED <<campaign, rules, facts, stamp, audiences, approvals, nextId, manager, ledger>>

ApproveOpen(s) ==
    LET t == task[s] IN
    /\ t.at = "approve"
    /\ nextId <= MaxIds /\ nextId' = nextId + 1
    /\ Goto(s, [at |-> "sign", revokes |-> Unrevoked,
                row |-> [id |-> nextId, audience |-> t.audience.id, by |-> s, revoked |-> FALSE,
                         content |-> t.content, language |-> t.language,
                         hash |-> ContentHash(t.content, t.language, t.audience)]])
    /\ UNCHANGED <<campaign, rules, facts, stamp, audiences, approvals, manager, ledger>>

ApproveCommit(s) ==
    LET t == task[s] IN
    /\ t.at = "sign"
    /\ approvals' = Revoked(t.revokes) \cup {t.row}
    /\ Finish(s)
    /\ UNCHANGED <<campaign, rules, facts, stamp, audiences, nextId, manager, ledger>>

RevokeApproval(s) ==
    /\ s \in manager /\ task[s] = Idle
    /\ Unrevoked # {}
    /\ approvals' = Revoked(Unrevoked)
    /\ UNCHANGED <<campaign, rules, facts, stamp, audiences, nextId, manager, ledger, task>>

(***************************************************************************)
(* scheduleCustomerDelivery, as far as the approval decides it.            *)
(***************************************************************************)
ScheduleRead(s) ==
    LET r == Readiness IN
    /\ s \in manager
    /\ r.valid /\ r.complete
    /\ Cardinality(Destinations(r.frozen.matter)) <= MaxDestinations
    /\ \A p \in Destinations(r.frozen.matter) : r.frozen.matter.facts[p].granted
    /\ Start(s, [at |-> "ledger", approval |-> r.approval.id, audience |-> r.frozen.id])
    /\ UNCHANGED <<campaign, rules, facts, stamp, audiences, approvals, nextId, manager, ledger>>

(* prepareDeliveryLedger decides again, for the audience that is newest now, *)
(* and adds a row for every address that has none.                          *)
ScheduleLedger(s) ==
    LET t == task[s]
        r == Readiness
        fit == r.valid /\ FourEyes(r.approval.by)
    IN
    /\ t.at = "ledger"
    /\ ledger' = [p \in People |-> IF fit /\ p \in Destinations(r.frozen.matter) /\ ledger[p] = 0
                                   THEN r.frozen.id ELSE ledger[p]]
    /\ Goto(s, IF fit THEN [at |-> "freeze", approval |-> t.approval, audience |-> t.audience] ELSE Idle)
    /\ UNCHANGED <<campaign, rules, facts, stamp, audiences, approvals, nextId, manager>>

ScheduleFreeze(s) ==
    LET t == task[s] IN
    /\ t.at = "freeze"
    /\ Goto(s, IF campaign.status # "DRAFT" THEN Idle
               ELSE [at |-> "schedule", approval |-> t.approval, audience |-> t.audience,
                     content |-> Rendered(campaign), mark |-> Watermark])
    /\ UNCHANGED <<campaign, rules, facts, stamp, audiences, approvals, nextId, manager, ledger>>

(* Mutant of StillAsFrozen: the transaction trusts what was read before it. *)
AssumeAsFrozen(t) == campaign.status = "DRAFT"
(* The serializable transaction reads everything again. *)
StillAsFrozen(t) ==
    /\ campaign.status = "DRAFT"
    /\ Newest(audiences).id = t.audience
    /\ \E a \in approvals :
          /\ a.id = t.approval /\ ~a.revoked
          /\ FourEyes(a.by)
          /\ a.hash = ContentHash(t.content, campaign.language, Newest(audiences))
    /\ Rendered(campaign) = t.content
    /\ Watermark = t.mark
    /\ \A p \in People : ledger[p] \in {0, t.audience}

ScheduleCommit(s) ==
    LET t == task[s] IN
    /\ t.at = "schedule"
    /\ campaign' = IF StillAsFrozen(t)
                   THEN [campaign EXCEPT !.status = "SCHEDULED", !.frozen = t.content, !.approval = t.approval]
                   ELSE campaign
    /\ Finish(s)
    /\ UNCHANGED <<rules, facts, stamp, audiences, approvals, nextId, manager, ledger>>

World == \/ \E p \in People, f \in Facts : PersonChanges(p, f)
         \/ \E seg \in Segments, c \in Criteria : SegmentEdited(seg, c)
         \/ \E l \in {"HE", "AR"}, c \in Contents : EditDetails(l, c)
         \/ \E seg \in Segments \cup {NoSegment} : SetCampaignSegment(seg)
         \/ \E c \in Contents : ArticleEdited(c)
         \/ \E s \in Staff : RoleChanges(s)

Work(s) == \/ \E key \in Keys : PrepareStart(s, key)
           \/ PrepareResolve(s) \/ PrepareMark(s) \/ PrepareOpen(s) \/ PrepareCommit(s)
           \/ ApproveRead(s) \/ ApproveReview(s) \/ ApproveOpen(s) \/ ApproveCommit(s)
           \/ RevokeApproval(s)
           \/ ScheduleRead(s) \/ ScheduleLedger(s) \/ ScheduleFreeze(s) \/ ScheduleCommit(s)

Next == World \/ \E s \in Staff : Work(s)

Spec == Init /\ [][Next]_vars

-----------------------------------------------------------------------------
(* What the rows and the calls in flight may hold.                           *)
Matters   == UNION {[segment : Segments, criteria : {c}, language : Languages,
                     facts : [c -> Facts]] : c \in Criteria}
Hashes    == [content : Contents, language : Languages, audience : Nat, hash : Matters]
Audiences == [id : Nat \ {0}, key : Keys, seen : Nat, mark : Nat, matter : Matters]
Approvals == [id : Nat \ {0}, audience : Nat, by : Staff, revoked : BOOLEAN,
              content : Contents, language : Languages, hash : Hashes]
Tasks ==
    {Idle}
    \union [at : {"resolve"}, key : Keys, seen : Nat, segment : Segments,
            criteria : Criteria, language : Languages]
    \union [at : {"mark"}, key : Keys, seen : Nat, matter : Matters]
    \union [at : {"open"}, key : Keys, seen : Nat, matter : Matters, mark : Nat]
    \union [at : {"commit"}, revokes : SUBSET Nat, row : Audiences]
    \union [at : {"review"}, content : Contents, language : Languages]
    \union [at : {"approve"}, content : Contents, language : Languages, audience : Audiences]
    \union [at : {"sign"}, revokes : SUBSET Nat, row : Approvals]
    \union [at : {"ledger", "freeze"}, approval : Nat, audience : Nat]
    \union [at : {"schedule"}, approval : Nat, audience : Nat, content : Contents, mark : Nat]

ApprovalTypeOK ==
    /\ campaign \in [status : {"DRAFT", "SCHEDULED"}, language : Languages,
                     segment : Segments \union {NoSegment}, content : Contents,
                     frozen : Contents \union {NoContent}, approval : Nat]
    /\ rules \in [Segments -> Criteria] /\ facts \in [People -> Facts]
    /\ stamp \in Nat /\ nextId \in Nat \ {0}
    /\ audiences \subseteq Audiences /\ approvals \subseteq Approvals
    /\ manager \subseteq Staff
    /\ ledger \in [People -> Nat]
    /\ task \in [Staff -> Tasks]

(* What is scheduled is one thing two people agreed on: the frozen document *)
(* is the content its approval was given for, in its language, by somebody  *)
(* other than the author; the rows of its audience are all of it and only   *)
(* it, with every consent granted; and the audience was resolved for that   *)
(* language unless the newsletter changed inside the preparation.  Rows of  *)
(* another audience there are only once the approval is revoked: a refused  *)
(* second scheduling leaves them.                                           *)
ScheduledAsApproved ==
    campaign.status = "SCHEDULED" =>
        \E a \in approvals, f \in audiences :
            /\ a.id = campaign.approval /\ f.id = a.audience
            /\ a.content = campaign.frozen
            /\ a.language = campaign.language
            /\ a.by # Creator
            /\ Destinations(f.matter) # {}
            /\ {p \in People : ledger[p] = f.id} = Destinations(f.matter)
            /\ a.revoked \/ \A p \in People : ledger[p] \in {0, f.id}
            /\ \A p \in Destinations(f.matter) : f.matter.facts[p].granted
            /\ f.matter.language = campaign.language \/ f.seen # f.mark

(* A newsletter shown as approved goes to exactly the people its segment    *)
(* selects now, unless the change fell inside the preparation itself,       *)
(* between its reading of the newsletter and that of the watermark.         *)
ApprovedAudienceIsCurrent ==
    LET r == Readiness IN
    r.valid => \/ r.frozen.matter = Current
               \/ r.frozen.seen # r.frozen.mark

(* As audienceWatermark.ts states it: a matching watermark proves that the  *)
(* frozen audience is what a resolution would give now.                     *)
MatchingWatermarkProvesCurrent ==
    LET frozen == Newest(audiences) IN
    frozen # NoRow /\ frozen.mark = Watermark => frozen.matter = Current

(* A form submitted twice freezes one audience.                             *)
OneAudiencePerKey == \A a, b \in audiences : a.key = b.key => a = b

(* An approval whose audience has been replaced can never be valid again,   *)
(* in whatever order the transactions that prepared the audiences commit.   *)
ReplacedNeverValidAgain ==
    [][\A a \in approvals : a.audience # Newest(audiences).id =>
          ~(Newest(approvals').id = a.id /\ Readiness'.valid)]_vars

(* Approvals end only with a person's revocation, a newer approval or a new *)
(* audience: a repeated submission that changes nothing revokes nothing.    *)
RevokedForAReason ==
    [][(\E a \in approvals : ~a.revoked /\ a.id \notin Unrevoked') =>
          \/ audiences' # audiences
          \/ {a.id : a \in approvals'} # {a.id : a \in approvals}
          \/ \E s \in Staff : RevokeApproval(s)]_vars

(* Only a draft changes: a schedule freezes language, segment and document. *)
ScheduleFreezes ==
    [][campaign.status = "SCHEDULED" =>
          /\ campaign'.language = campaign.language
          /\ campaign'.segment = campaign.segment
          /\ Rendered(campaign') = campaign.frozen]_vars

(* What was decided stays decided: a form submitted twice freezes once, an  *)
(* approval ends for a reason and for good, and a schedule holds still.     *)
DecisionsStand ==
    /\ []OneAudiencePerKey
    /\ ReplacedNeverValidAgain /\ RevokedForAReason /\ ScheduleFreezes
-----------------------------------------------------------------------------
(* The inductive invariant behind them.                                     *)

\* The id of a row lies in a transaction until it commits.
Pending(s) == task[s].at \in {"commit", "sign"}

IdsAreUnique ==
    /\ \A r \in audiences \union approvals : r.id < nextId
    /\ \A f, g \in audiences : f.id = g.id => f = g
    /\ \A a, b \in approvals : a.id = b.id => a = b
    /\ \A f \in audiences, a \in approvals : f.id # a.id
    /\ \A s \in Staff : Pending(s) =>
         /\ task[s].row.id < nextId
         /\ \A r \in audiences \union approvals : r.id # task[s].row.id
         /\ \A u \in Staff \ {s} : Pending(u) => task[u].row.id # task[s].row.id

\* An approval is of an audience that was committed, and hashes it.
Signed(a) == \E f \in audiences : /\ f.id = a.audience
                                  /\ a.hash = ContentHash(a.content, a.language, f)
ApprovalsAreSigned ==
    /\ \A a \in approvals : Signed(a)
    /\ \A s \in Staff : /\ task[s].at = "approve" => task[s].audience \in audiences
                        /\ task[s].at = "sign" => Signed(task[s].row)

\* While no watermark has moved since a preparation began, what it has
\* resolved is what the newsletter and the CRM say now.
FreshAs(f) == /\ f.seen <= stamp /\ f.mark <= stamp
              /\ f.seen = f.mark /\ f.mark = stamp => f.matter = Current
PreparationsAreFresh ==
    /\ \A f \in audiences : FreshAs(f)
    /\ \A s \in Staff : LET t == task[s] IN
         /\ t.at \in {"resolve", "mark", "open"} => t.seen <= stamp
         /\ t.at = "resolve" /\ t.seen = stamp =>
              /\ campaign.segment = t.segment /\ rules[t.segment] = t.criteria
              /\ campaign.language = t.language
         /\ t.at = "mark" /\ t.seen = stamp => t.matter = Current
         /\ t.at = "open" => FreshAs(t)
         /\ t.at = "commit" => FreshAs(t.row)

\* What a scheduling has checked of the approval and the audience it names.
Checked(a, f) ==
    /\ a.audience = f.id
    /\ Destinations(f.matter) # {}
    /\ \A p \in Destinations(f.matter) : f.matter.facts[p].granted
    /\ f.matter.language = a.language \/ f.seen # f.mark
SchedulingsAreChecked ==
    /\ \A p \in People : ledger[p] # 0 =>
         \E f \in audiences : f.id = ledger[p] /\ p \in Destinations(f.matter)
    /\ \A s \in Staff : LET t == task[s] IN
         t.at \in {"ledger", "freeze", "schedule"} =>
           \E a \in approvals, f \in audiences :
             /\ a.id = t.approval /\ f.id = t.audience /\ Checked(a, f)
             /\ t.at # "ledger" =>
                  \/ \A p \in Destinations(f.matter) : ledger[p] # 0
                  \/ \E g \in audiences : g.id > f.id

\* A later audience was approved only after the schedule, so that approval
\* revokes, or has revoked, the one the schedule is of.
Superseded(a, b, ids) == b.audience > a.audience => a.revoked \/ a.id \in ids
ScheduleStands ==
    campaign.status = "SCHEDULED" =>
        /\ campaign.frozen # NoContent
        /\ \E a \in approvals, f \in audiences :
             /\ a.id = campaign.approval /\ Checked(a, f)
             /\ a.content = campaign.frozen /\ a.language = campaign.language
             /\ a.by # Creator
             /\ \A p \in Destinations(f.matter) : ledger[p] = f.id
             /\ a.revoked \/ \A p \in People : ledger[p] \in {0, f.id}
             /\ \A b \in approvals : Superseded(a, b, {})
             /\ \A s \in Staff : task[s].at = "sign" =>
                  Superseded(a, task[s].row, task[s].revokes)

ApprovalInv ==
    /\ ApprovalTypeOK /\ IdsAreUnique /\ ApprovalsAreSigned /\ PreparationsAreFresh
    /\ SchedulingsAreChecked /\ ScheduleStands
=============================================================================
