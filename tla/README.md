# Verification of the AXIS customer communication platform

TLA+ specifications of the platform in this repository, checked with TLC on
small instances and proved with TLAPS for every instance. Modules are named
after the services they model; each definition names the source lines it
translates in `PROJECT.json` ("map").

## The system

The platform is a Next.js application over one PostgreSQL database. Staff prepare
newsletters and approve them for an audience computed from a read-only CRM
projection; a worker process calls one authenticated HTTP route every few seconds,
which claims at most one background job and runs it inside the web process.
Email leaves through a provider adapter; the provider reports back by signed webhooks.

| Component | State it keeps | Operations | Interacts with | Modelled in |
|---|---|---|---|---|
| Customer dispatch (`productionDispatchService`, `deliveryService`) | `Campaign.status`, `scheduledAt`, frozen document; `CampaignRecipient` rows (state, attemptCount, providerMessageId) | prepare ledger, schedule, cancel, reschedule, resume, execute | jobs, approval, live eligibility, provider, receipts | `CustomerDispatch`, `DeliveryPolicy`, `DeliveryPromise` |
| Background jobs (`jobService`, `jobRepository`, `ops/worker.mjs`) | `BackgroundJob` (state, leaseToken, leaseExpiresAt, attempts, availableAt), `JobSchedule` | tick: recover expired, enqueue due, claim, heartbeat, execute, finish; retry | every background service, sessions | `JobQueue` |
| Provider events, unsubscribe (`providerWebhookService`, `providerEventService`, `unsubscribeService`) | `ProviderWebhookReceipt`, `Suppression`, `Unsubscribe`, tokens | ingest, apply, reconcile, opt out, come back | ledger rows, addresses | `ProviderFeedback` |
| Production approval and final audience (`sendReadinessService`) | `CampaignFinalAudience`, `CampaignProductionApproval`, watermark | prepare audience, approve, revoke, readiness, schedule | campaign edits, CRM sync, consent | `ProductionApproval` |
| The readiness page (`ReadinessActions.tsx`, `CustomerDeliveryControls.tsx`) | what each browser shows, form tokens | press, confirm, repeat | approval, dispatch | `ReadinessScreen` |
| Segments and audiences (`segmentService`, `segmentQuery`, `resolveAudience`, `eligibility`) | rules, snapshots | build, store, choose, resolve, exclude | approval, dispatch | `Segments`, `SegmentRules` |
| Communication settings (`communicationService`) | `CommunicationAddress` consent, language, evidence; audit rows | single and bulk changes from a table on screen | eligibility | `AddressBook` |
| SAFE TEST and provider pilot (`testSendService`, `providerPilotService`) | `CampaignTestApproval`, sends | approve, withdraw, claim, submit, record | providers | `ApprovedSends` |
| QA channel (`qaEmailService`, `qaRunService`) | QA runs and their ledger | open, reserve, submit, record | provider | `QaMail` |
| Newsletter automation (`automationService`, `newsletterDraftService`) | `NewsletterAutomation`, its runs, drafts | run an occurrence, pause, recover | content, jobs | `Automations` |
| Content sources (`contentSourceService`, `contentIngestionService`, `feedFetcher`) | `ContentSource`, ingestion runs, identities | list, check, follow redirects, store | websites, articles | `FeedReading`, `SourceUrls` |
| Editorial desk (`contentReviewService`, `contentService`, inbox and form) | `ContentItem` review state and text | approve, reject, edit, delete, make a draft | newsletters | `ArticleDesk` |
| Article translation (`articleTranslationService`) | `ContentTranslation`, Hebrew items | admit, translate, save, import | articles | `Translations` |
| Newsletters (`newsletterService`, `publicNewsletterService`) | draft, items, order, frozen document, public token | edit, link, order, approve, delete, publish | everything above | `Newsletters` |
| CRM sync (`crmSyncService`, `crmRepository`, `mondayWebhookService`) | company and contact projection, `SyncRun`, schedule, webhook events | full pull, archive, coalesce | jobs, eligibility | `CrmMirror`, `CrmReconciliation` |
| Users and sessions (`userService`, `verifyCredentials`, throttles) | `User`, counters, one-time bootstrap | sign in, create, deactivate, reset | every capability check | `SignIn`, `StaffAccounts` |
| Email infrastructure (`emailInfrastructureService`) | `ProviderDomainSnapshot`, environment, heartbeat | check, release gate | dispatch | `EmailInfrastructure` |
| Public pages, media, reports, rendering, desktop shell, database client | their own rows or none | see the services | | not modelled |

What is hard about it: a tick that the worker gave up on goes on running in the web
process, so two executions of one campaign can overlap; every awaited call is a point
where a lease expires, staff cancel or revoke, a customer opts out, a webhook arrives,
or the process dies; the provider may take a message and its answer may be lost; and
none of this is covered by unit tests, which run one execution at a time.

What makes each part correct, in one line each: a destination is submitted at most
once and a row never claims more than the provider did (dispatch); one holder per job
and per resource, and no job lost (jobs); each receipt takes effect once and in any
order (events); what is sent was approved by a second person for exactly this content
and audience (approval); the mirror comes to agree with the CRM and never touches what
staff decided (CRM sync); a decision is recorded as it was made, from the row it changed
(consent); one approval lets one message out, and every message counts against its cap
(test, pilot and QA sends); one occurrence makes at most one draft (automation); a Hebrew
text is always that of the article as it is (translation); a check asks only addresses it
has judged and says what it did (content sources); limits bind and end, and no removal
takes the last administrator unless another is committed beside it (users). That an
administrator always remains, and that the QA caps are never exceeded, is what the code
says of itself; neither is so (see "What the checks found").

## Modules

Every action is one database transaction, one provider or network call, or one read
between which the code awaits; a local variable that survives an await is part of the
state of whoever runs the call. Services that use no awaits are one action.

**Delivery.** `DeliveryPolicy` has the pure rules: the delivery and campaign state
machines, the consequences of a provider event, and the dispatch veto. `DeliveryPromise`
is the abstract specification of customer delivery, which `CustomerDispatch` implements.
A worker of `CustomerDispatch` is one execution of `runJobTick`; `pc` names the awaited
call it is about to make, `seen`, `batch`, `cur` and `note` are its local variables.
`campaign` is `Campaign.status`; `clock` is where now lies relative to `scheduledAt`
(before it, within the five minutes, after them); `job`, `owner`, `leaseLive`, `asap` are
`BackgroundJob.state`, `leaseToken`, `leaseExpiresAt > now` and whether `availableAt` was
moved to now; `row`, `attempts`, `hasId` are the columns of `CampaignRecipient`; `facts`
and `matched` are what `loadAddressFacts` and `resolveAudienceForDefinition` would answer
now; `release` is `getCustomerReleaseStatus`, split into "locked" (the adapter itself
refuses) and "degraded" (only the check at the entry does). `submitted`, `accepted` and
`lateOptOut` are history that no guard of the program reads.

**Jobs.** In `JobQueue` a worker is again one execution of `runJobTick`. `state`,
`attempts`, `owner`, `leaseLive` are the columns of a row; a worker stands for the random
token of its current claim. `line` holds the pending rows whose `availableAt` has passed
and `ahead` the order in which that happened, which is all the claim's ordering compares.
The claim is three statements and so three actions: the mutex (`TryMutex`), the selection
that locks a candidate (`Select`), the update (`Claim`). `expired` keeps what recovery
read before its compare-and-set updates. The limit of 100 rows per recovery and the state
`FAILED`, which nothing writes, are left out. A row of kind `DISPATCH` may come back to
`PENDING` without end, since a campaign has as much work as it has destinations: why it
ends is the subject of `CustomerDispatch`.

**CRM.** `CrmReconciliation` extends `JobQueue` with a clock, the schedule row, the actor
of each job, the planned occurrence a tick read before its transaction (`plan`), the
handler of a notification under way (`intake`), the notification rows (`status`,
`receivedAt`) and the pulls. The handler reads the schedule, opens its transaction with an
insert that stamps `receivedAt` (`Insert`), and the row is visible only once it commits
(`Accept`) or never (`RollBack`): a run claimed in between may find a row stamped before
its claim that nobody could see then. A pull is the set of changes that had happened when
the boards were read (`pulled`), and the projection is the set it was last written from
(`local`). A job's key is its dedupe key. `startedAfter`, `applied` and `retriedAt` are
history; a notification enters `startedAfter` when a run is claimed after its stamp. What
a pull does to the rows is `CrmMirror`: four boards of `monday`, fetched and stored item
by item into `mirror`, `contactLinks` and `mailbox`, then the archiving of what was not
seen, with its two thresholds; pulls overlap, answers come short. A link is looked for and
then created, and one that another pull made in between ends the pull; the row of an
address may fail to be made without anybody noticing (`MissAddress`); a pull may be given
up at any call.

**Approval.** `ProductionApproval` is the frozen audience, the second person's approval
and the scheduling. `audiences` and `approvals` are the committed rows; the position of a
transaction's insert (`createdAt`) is given when it opens and its commit comes later, so
rows may commit out of order. `stamp` is what `computeAudienceWatermark` fingerprints, as
a counter that every write it sees moves. `task` is what each member of staff has in
flight. A hash is the value it is computed from. `Readiness` is one snapshot where the
code awaits about ten reads (sendReadinessService.ts:684-751); nothing depends on their
being one, because the transaction that schedules checks again what they found.
`ReadinessScreen` is the page these calls come from: `page` is what a browser shows,
`form` the token and counts its forms keep. There as in the code a scheduled newsletter
may be prepared and approved again; its schedule goes on naming the approval it was
confirmed under. `Segments` (with the rules and clauses of `SegmentRules`) is the builder,
the stored rules and the resolution of an audience in its three reads.

**Addresses and reports.** `AddressBook` has the table on each clerk's screen (`table`),
the server action under way (`saving`), the rows (`profile`) and the last audit row of
each address (`trail`). A save keeps the rows as it read them before its transaction, and
its audit row is the value read then and the value written. `ProviderFeedback` has the
provider's side (`emitted`, `answered`), the receipts, their effects, and the unsubscribe
links; storing and applying a receipt are two transactions.

**Content.** `SourceUrls` decides which addresses may be asked and which article a link
names; `FeedReading` checks sources request by request and entry by entry;
of a request, the lookup that is judged (`judged`) and the fetch that looks the name up
again (`asked`) are two steps, and the date a check writes is taken before the transaction
that writes it; what was stored may be deleted; `ArticleDesk`
is the inbox and the article form; `Translations` the Hebrew versions; `Automations`
collects, reviews and drafts occurrences; `Newsletters` composes. In each, `call`,
`hand`, `writing`, `reader` or `screen` is what everybody waits for.

**Sends to staff.** `ApprovedSends` is the SAFE TEST and the provider pilot, one message
per approval; `QaMail` the internal channel and its caps.

**People and set-up.** `SignIn` has the throttle, its windows and the sessions;
`StaffAccounts` who may change whom, and the count that is to keep the last administrator;
`EmailInfrastructure` the stored verdict on the sending domain and the gate that reads it.
With two checks at once the row holds the answer of the check that ended last, be it the
older one; no property promises their order.

`MC...` modules make instances for TLC, `...Proofs` modules hold the theorems:
`CustomerDispatchProofs`, `JobQueueProofs`, `CrmReconciliationProofs` and
`ProductionApprovalProofs` those of the module they are named after, the third also those
of `CrmMirror`; `StaffMailProofs` those of `ApprovedSends` and `QaMail`, `PeopleProofs` of
`StaffAccounts`, `EmailInfrastructure`, `ReadinessScreen`, `Segments` and `SignIn`,
`AddressProofs` of `AddressBook` and `ProviderFeedback`, `ContentProofs` of `Automations`,
`Translations`, `Newsletters`, `FeedReading` and `ArticleDesk`. The inductive invariant of
a module stands at its end, after the properties.

## Runs

Modules that share no state are checked in one run: an MC module extends them all, draws
a `scenario` at the start, lets only that module move while the others rest in one
initial state of theirs, and so explores the sum, not the product, of their state spaces.
The properties are those of the modules themselves. `MCDelivery`, `MCWork`, `MCContent`,
`MCAudience` and `MCOffice` are built like that.

| Run | Question | Bounds |
|---|---|---|
| `zombies` | Can overlapping, expired and dying executions mail twice, mail a canceled campaign, report SENT too early, or leave job and campaign apart? | 2 destinations, 2 executions, batch of 1; stalls, crashes, segment, release, articles and slot; symmetry |
| `delivery` | Do rows tell the truth and only move forward, is an opt-out seen by the live check honoured, does a revoked approval stop a campaign, does the dispatch refine `DeliveryPromise`, and do approvals and caps bind what staff send themselves? | 1 destination, 2 executions; crashes, errors and all events, or 3 fact records and revocation; 2 calls of test mails with 2 approvals; 2 calls of QA mails beside a suite, 1 inbox, caps of 1 |
| `work` | Do jobs, dispatches, reports and pulls come to an end, and does a pull leave what staff decided? | 2 conflicting reconciliations; 2 destinations; 1 report; 2 companies, a contact, an owned product; one death or upset each |
| `content` | Does what was collected, worded, translated, approved, sent, counted or drafted once stay so while a second person or process works on it? | 2 people, 2 or 3 rows of each kind, 1 or 2 repetitions; on the desk 3 articles of which 2 make a newsletter, and one draft; translations with a timeout of 1 and a clock up to 2, so that attempts expire and answers come late (see `Content.cfg`) |
| `audience` | Is what is scheduled what was approved, and is every decision recorded as made? | 2 members of staff, 2 addresses, 2 documents, 3 or 4 rows, 2 writes; 2 clerks, 2 addresses, 5 clicks; 2 browsers, 4 presses from the start or 3 from an approved newsletter |
| `office` | Is a notification swallowed by a run that began before it, an occurrence skipped, a newer pull written over; do limits bind and end, is the last administrator only lost to two removals at once, does the gate open on a verdict only, do rules select whom they say? | 1 notification, up to 4 instants in minutes of 2, 2 configurations, a retry by another account, a manual pull, 1 crash, 2 executions; 2 sign-in requests, windows of 2 over 5 minutes; 2 people and the stand-in; 3 settings, 5 domain states; 2 companies, 2 contacts, 2 conditions |
| `stuck` (violation) | What an execution that outlived its lease leaves behind | 1 destination, 1 execution |
| `crm_unpulled`, `crm_retry` (violations) | Where the reconciliation departs from its documentation | 1 execution |
| `watermark` (violation) | Does a matching watermark prove a frozen audience current? | 1 address, 2 rows |
| `press` (violation) | Does a later press on an open page prepare anew? | 2 browsers |
| `last_admin` (violation) | Does an administrator always remain? | 2 people and the stand-in |

`work` checks `Exclusion`, `RetriesAreBounded`, `LiveLeaseIsKept` and `EveryJobSettles` of
the queue, `DispatchSettles`, `ReportsReachTheirDelivery`, and `MirrorConverges` and
`DecisionsOutliveThePull` of the mirror. `content` checks one property of each of its
modules: `ChecksAreSafeAndTrue` (feeds), `DraftFollowsTheTicks` (desk),
`ReportsCountOnce`, `SentLettersStand`, `OneTrueHebrew`, `OccurrencesAreDraftedOnce`, and
`AutomationRunsOnce` of the queue with mixed kinds. `delivery` adds
`OneApprovedMessageEach` and `CapsHoldAcrossRuns` to the properties of the dispatch,
`audience` adds `EachPressCounts` and `DecisionsAreAsMade` to those of the approval.
`office` checks `ProcessedAfterReceipt`, `LiveSyncNeverRegresses`,
`OccurrenceMaterialized` and `ImplementsQueue` of the reconciliation, and
`LimitsBindAndEnd`, `AccountsStaySound`, `OpenGateWasReported`, `AnswersAccountForAll` and
`RulesMeanWhatTheySay`. A date in `SegmentRules` is a midnight, and now an instant after
the midnight of today.

The batch of one with two destinations makes an execution leave rows behind and its
job come back, which a batch of 20 does with 21; two executions are enough for every
pairwise race, and more only repeat them because every write is conditional on the
row's own state. `submitted` is counted up to 2. `Disturbances` selects what the
environment may do in a run, so that each explores its own question completely.

In the queue, two rows of each conflicting pair and two executions are enough because
every guard of the claim and of a settlement compares at most two rows and one token.
`AttemptCap` counts one attempt past the limit of three, so that a fourth would show.
`MaxCrashes` bounds the processes that die; expiry of a lease under a running execution
is not bounded. In the reconciliation `MaxClock` bounds time, `Interval` and
`MinuteTicks` are chosen so that two occurrences, or one minute and the next, fall
within it, and `MaxEdits` bounds the configurations; where a notification comes, three
instants are enough for it to be stamped in one minute and seen in the next.

On the desk `MAX_ITEMS_PER_DRAFT`, 20 in the code, is 2, so that a third tick is one too
many; its articles are all approved at first, one draft is on its way at a time and the
run goes no further once it is made (`OneDraft`).

In the approval `MaxIds` bounds the rows: three show every order of two preparations and
an approval, and the fourth, in the scenario where calls follow each other, a second
preparation and approval of a newsletter already scheduled. `MaxStamp` lets one write
move the watermark, which is what a preparation can miss; `MaxDestinations` is the code's
own limit. Elsewhere the constants named `Max...`, `Last...` in a module's header are its
bounds, and each is one more than the first case that matters: a second call on one row,
a second window, a second run over the same ledger, a redirect after a redirect.

`CHECK_DEADLOCK FALSE` stands where the system may really stop: a campaign that is
closed, bounds that are used up.

## Fairness

`FairSpec` of the dispatch assumes weak fairness of each execution's own steps (a running
process runs), of some worker claiming a due job and of the recovery of expired jobs (the
worker loop of `ops/worker.mjs` ticks forever, and every tick first recovers), of the
expiry of a dead owner's lease, and of time. It assumes nothing of staff, of the
environment, of errors or of stalls. `work` leaves out stalls because with them the
property is false (`stuck`), and the segment, release and slot because the code retries
such a job every second without a bound.

The queue's `Fairness` is the same loop seen from the queue: each execution keeps taking
its steps (`WF` of `Tick`), the time of a pending row comes (`Elapse`), and the lease of
a row that no execution holds any more expires. `ProviderFeedback` assumes that the
provider repeats what was not answered (it does for as long as it gets no 200), that the
request in hand goes on, and that the reconciliation of receipts runs; `CrmMirror` that
pulls are started again and go on (`PullStep`). Nothing is assumed of staff or crashes.
`MCWork` joins these conditions: since no two scenarios ever move together, weak fairness
of a disjunction of one step from each says of every scenario what its module says.

## What the checks found

1. `stuck`: the claim of a row is not conditional on the lease. An execution that was
   recovered, claims a row and dies leaves the row SENDING; nothing of the code looks
   at such a row until another tick throws, and the job alternates between PENDING and
   RUNNING. ADR-0035 promises that an in-flight email becomes UNCERTAIN.
2. `crm_unpulled`: a board that could not be pulled is marked FAILED but the run is
   settled SUCCEEDED, and the notifications it was started for are marked processed.
3. `crm_retry`: a retry replaces the actor of the job by the account that retries, and a
   run whose actor is not the schedule's is refused, so a retry by any other account
   always ends in attention.
4. `watermark`: a preparation reads the newsletter, resolves, and computes the watermark
   last. A change in between lies inside the stored watermark and outside the frozen
   audience; the audience is then taken for current, may be approved and scheduled.
   `ApprovedAudienceIsCurrent` therefore excepts a change inside the preparation.
5. `press`: the token of the preparation form is renewed only when the message of success
   differs from the one before, and that message consists of counts.
6. `last_admin`: whether another administrator remains is counted outside the transaction
   that writes (userService.ts:185-190, 234-241), so two administrators who step down, or
   remove each other, at once each count the other, and nobody is left. The door for the
   first administrator opens again then, which bootstrapService.ts:22-23 says is closed
   permanently. What the count does keep is `AccountsStaySound`.

The caps of the QA channel are called hard (qaEmailService.ts:47-48, qaPolicy.ts:228-233,
ADR-0027:67-70, ADR-0028:75). The code counts (qaEmailService.ts:295) and reserves (340)
in two statements under no lock: calls that are past their count at the same time, in two
tabs of one account or in several accounts, exceed a cap by as many messages as there are
such calls besides one. `CapsHoldAcrossRuns` states that bound and no better one, counting
the calls in `crowd`; where no two calls overlap it is the cap itself.

The models also contain narrower windows of the code that no property promises away: a
stale execution may start a rescheduled campaign early or attempt a row whose job already
waits for a confirmation (the time and the lease are compared before, not in, the
conditional updates); a feed's name is looked up again by the fetch after the lookup that
was judged, so which address is asked in the end is the resolver's, although
feedFetcher.ts:22-24 takes the one lookup to settle it (`WhatIsAskedWasJudged` speaks of
that lookup and of nothing later); with overlapping checks the one that began first may
write the last word on a source, under its own earlier date; a scheduled newsletter that
is prepared and approved again keeps the approval it was confirmed under, which the
preparation revoked, and its dispatch is then blocked; a notification whose transaction is
delayed past its minute may find that minute's job running; a pull from the customers page
takes no lease, overlaps a claimed one and may write last, so that
`LiveSyncNeverRegresses` speaks of runs under a lease and its theorem assumes no manual
pulls; scheduling a newsletter that is already scheduled, after another preparation and
approval, is refused only after `prepareDeliveryLedger` has added rows of the newer
audience (productionDispatchService.ts:113 before :116) - the first approval is revoked by
then, and `ScheduledAsApproved` says so; the content pages approve and reject through
`setReviewState` (contentService.ts:125), which writes no audit row, although
contentReviewService.ts:17-19 knows of two functions only that do, and both with one. None
of them breaks at-most-once delivery, which holds by the conditional claim.

## Proofs

`CustomerDispatchProofs` assumes only that the "none" constants are not members of
their sets and that facts are well-formed. The safety properties are not inductive:
that a destination is submitted once rests on who owns the attempt. `IInv` therefore
adds that an attempt is written before its submission (`AttemptInv`), that at most one
execution has a row in hand and has submitted it or will (`InHandInv`), what a row's
state says of the provider (`OutcomeInv`), where rows and executions stand in each
campaign state (`PhaseInv`), and what an execution about to finish has done (`JobInv`).
Each part is preserved by every action (`AttemptStep`, `InHandStep`, `OutcomeStep`,
`PhaseStep`, `JobStep`), all five assuming the whole. `RowsNeverMoveBack` and
`DispatchImplementsPromise` are proved step by step under the invariant.

`JobQueueProofs` assumes that kinds are among the three and that the "none" constants
are not members of their sets. `Exclusion` is not inductive: a claim decides in one
statement and writes in another. `QueueInv` adds that only the holder of the mutex is
between the two (`MutexHeld`), that its candidate is still pending and still conflicts
with nothing that runs (`CandidateStands`), and what is left of a row's attempts
(`AttemptsLeft`, `FreshOccurrence`). Steps that make no row RUNNING are treated once, in
`QuietStep`; `Claim` is the only one that needs the candidate's standing.
`LiveLeaseIsKept` is an action property proved from the same invariant.

`OptOutHonoured` needs one more part (`OptOutInv`): a row past its decision whose address
has opted out, opted out after it. `RevocationStopsWork` is an action property of quiet
states: revoked, with no row past its gate, no step submits or leaves quiet.

`CrmReconciliationProofs` assumes the constants' typing and, for one theorem only, that
there are no pulls by hand. `CrmInv` stands beside `QueueInv`: a reconciliation is a run
of its tick (`StepsFollowTick`), nothing is in line, has run or is planned before its time
(`NothingBeforeItsTime`), a notification stamped since a claim is later than the run's
time, and one whose transaction is open is not seen yet (`LaterNotices`), and without
pulls by hand the run under a lease holds the newest pull (`NewestPull`).
`ProcessedAfterReceipt` needs the third, which needs the second; `LiveSyncNeverRegresses`
the fourth, which needs the queue's `Exclusion`. `ReconciliationImplementsQueue` maps
every action to one of `JobQueue` or to a stutter. For `CrmMirror`, every step writes one
row of the mailbox at most and never over a decision (`MailboxSteps`), whatever pulls
overlap. That links, links about to be created and owners lead to stored rows
(`ReferencesHold`) is stated by no run: ids are read before they are used, so `MirrorInv`
says that a pull under way holds versions that were there and ids that were known
(`PullShape`), and that what is known stays known (`Remembers`), archived or not.

`ProductionApprovalProofs` assumes only that there is a segment, that the "none"
constants are not members of their sets, and that criteria select addresses. That what is
scheduled was approved (`ScheduledAsApproved`) depends on rows that other calls will
commit later, so `ApprovalInv` says of calls in flight what they hold: ids of rows and of
open transactions are unique (`IdsAreUnique`), an approval hashes an audience that was
committed (`ApprovalsAreSigned`), a preparation under which no watermark has moved has
resolved what is true now (`PreparationsAreFresh`), a scheduling has checked the approval
and the audience it names, and after its ledger call either every address of that
audience has its row or a newer audience exists (`SchedulingsAreChecked`), and once
scheduled, every approval of a newer audience, committed or in a transaction, revokes the
one the schedule is of (`ScheduleStands`). `StandingStays` is the lemma all depends on:
an approval that stands keeps standing beside whatever is committed. The existence of a
newest row (`NewestExists`) is proved by well-founded induction on the ids.

`StaffMailProofs` assumes that QA calls are finitely many and that the QA caps are
positive. For `ApprovedSends`, `OneApprovedMessageEach` is no more than what a claim
leaves: `SendsInv` adds that a send carries the message its approval was given for and
keeps it claimed, that nobody else is about to submit under it and nothing was submitted
yet (`ClaimsAreAlone`), and that the rows an approval under way supersedes are unused
while it locks them. For `QaMail`, the caps are
counted in one statement, the row is reserved in another and the mail leaves after it:
`QaInv` says that the rows counted and the calls already past their count stay together
below the cap and the most such calls there were at once (`crowd`). It says nothing of who
makes the calls, and calls may be any finite number.

`PeopleProofs` holds five parts. Of accounts it assumes only that the names used for
nobody and for the stand-in are nobody's. A removal of an administrator counts the others
before it writes; `StaffInv` says that, until a removal was committed which another had
overtaken since its count, there is an administrator and every decided removal not
overtaken spares another (`RemovalsSpareOne`), what a request knows of its target, and
that nobody exists before the first administrator. Of the domain, `InfraInv` says that a
verdict on both mechanisms, stored or about to be, was told as one (`VerdictsWereTold`):
the check and its store are two steps, between which the domain may move. What
`planSpfMerge` advises for a record is a theorem about the operator (`SpfMergeIsSound`),
for records of any length: the code looks for the include's text anywhere in the record,
so the provider is let in unless a longer part contains that text, and then the record
stays as it was. Of the readiness page, with finitely many staff, `ScreenInv` says that a
form that reaches the server again has frozen its audience (`KeysAreFrozen`), that
audiences and presses still on their way never exceed the presses made (`PressesSuffice`),
which is what makes the count inductive, and that a live approval is of the newest
audience, approvals are numbered, and a schedule keeps the approval it was confirmed under
(`ScheduleHolds`): a scheduled newsletter can be prepared and approved again, but a later
approval has another number, so what may be sent is still what was confirmed. Of the
resolution of an audience, with a CRM that is finite and whose companies and contacts are
told apart, `AudienceInv` says that a record was read once, in whatever state it was then
(`ReadOnce`), and that an opt-out known when the resolution began is still known when the
facts are read (`OptOutsStay`); from these the three counts of an answer add up. What
rules mean (`RulesMeanWhatTheySay`) is a fact of the operators for any CRM, once the
builder and the store hold definitions (`RulesAreWhole`); it is assumed that the offered
conditions and the stored definitions have the fields of their types
(`BuilderAssumption`). Of signing in, where only the constants are typed, `SignInv` says
of each identity that its window counts what it let through, all of it inside the window,
that nothing else was let through since, and that the length of a window before it opened
let through one limit's worth at most. Hence two limits' worth in any such length, and a
refusal only after a full limit; attempts are counted as a set of pairs.

`AddressProofs` holds two parts. `BookInv` of the communication page: a question on screen
is about what is ticked and filled in now, a save under way is documented, and a row not
overtaken by another save of the same kind is still as the save under way read it
(`BeforeIsReplaced`). `FeedbackInv` of reports: a row carries its own message id or none,
and a link that is followed was issued. It is assumed that the provider gives each message
an id of its own.

`ContentProofs` holds five parts. `PlanInv`: a run past its claim is alone in its
occurrence (`RunsAreAlone`), the run of an occurrence that is drafted knows its draft and
will report it (`DraftsAreRecorded`), and what it picked was judged. `TranslateInv`:
attempts are numbered in the order of admission, whoever waits for the provider has an
attempt of that text, and an attempt that may still become a draft is alone with its text.
The last is why an answer that comes in time finds no other Hebrew version; it survives
time because an attempt only leaves the set. It needs that the ids of drafts are not the
two words that stand for none. `LetterInv`: rows are whole, a draft has no frozen
document, open forms know their newsletter and copies their articles. That a locked
newsletter is composed no further and its page shows what was frozen are action
properties, both of one fact: a step moves the status or the link of such a row at most
(`LockedRowMoves`). Articles are assumed finite. `ReadInv` of feeds: a check knows a list
of sources that are still there, has judged the address it asks by its form and by
everything its name resolved to when it was judged, and holds entries of what it was
given. A date is one check's (`DatesAreTheirOwn`), which is why a source shows an error
exactly when the check whose date it bears failed (`DatesTellOneCheck`), in whatever order
checks end. That overlapping checks never claim more than a source had is a sum over
checks, counted as a set of pairs (`Summed`): what a check stores is credited to it at
once (`CreditsAreStored`: no more is credited than is stored or was deleted), and its run
claims nothing before it ends (`ClaimsComeLast`). It is assumed that sources and checks
are finitely many, that feeds list their entries in some order (`BodiesAssumption`), and
that URLs name hosts as the platform's parser writes them and lookups give addresses
(`HostsAssumption`). `DeskInv` of the desk: a draft being built knows everything approved
since its press, what it takes to have stayed approved still is, and one about to be
written follows its ticks. What `Only` keeps of a sequence is a recursive function of its
length; its lemmas (`KeptHold`, `KeptAgree`) go by induction over the places of the
sequence, which `Climb` states of a set of numbers and proves from the well-foundedness of
< on the naturals, since an induction theorem over a predicate cannot be instantiated
here.

## Only model-checked

Liveness (`EveryJobSettles`, `DispatchSettles`, `ReportsReachTheirDelivery`,
`MirrorConverges`) is outside the prover's reach together with `ENABLED`. Every other
property that a passing run checks, of states and of steps, is also proved. The six
violations are TLC's: each shows a trace.

## Not modelled

QA scenario texts and review verdicts, the rendering of newsletters, reports, media
storage, help pages and forms that only present, the desktop shell, the database client,
health and migrations keep no state the properties speak of, or are I/O. Signatures,
tokens and the parsing of payloads are assumed done. Wire formats of the providers are
replaced by the answers their adapters can give. `PROJECT.json` lists every component
with what is left out of it, and every hazard with the properties that cover it.
