----------------------------- MODULE Automations -----------------------------
(***************************************************************************)
(* Collected articles, their review, and the automations that put approved *)
(* ones in a draft (automationService.ts, contentIngestionService.ts,      *)
(* contentReviewService.ts, newsletterDraftService.ts, enqueueDueJobs).    *)
(*                                                                         *)
(* Staff press "Run now" and workers run the jobs of due occurrences.  A   *)
(* run claims its occurrence, polls the feeds article by article, picks    *)
(* candidates, reads them again, drafts, and reports - each a step of its  *)
(* own between which anybody may review, pause, edit or recover.           *)
(***************************************************************************)
EXTENDS Integers, FiniteSets

CONSTANTS Crew, Hands,     \* staff pressing "Run now"; job workers
          Plans, Feeds,    \* newsletter automations, content sources
          Entries,         \* feed entries: records [feed, ext, link]
          MaxNew,          \* MAX_NEW_ITEMS_PER_SOURCE
          MaxItems,        \* articles considered for one draft
          Every,           \* ticks from one occurrence to the next
          LastHour, MaxDrafts   \* bounds: the clock, the drafts made

ASSUME AutomationAssumption ==
    /\ \A e \in Entries : e.feed \in Feeds
    /\ Crew \cap Hands = {}
    /\ Every \in Nat \ {0} /\ {MaxNew, MaxItems, LastHour, MaxDrafts} \subseteq Nat

VARIABLES
    stock,     \* [Entries -> "absent" or the reviewState of its ContentItem]
    judged,    \* history: entries a person has ever approved
    feeds,     \* [Feeds -> ContentSource.isEnabled]
    plans,     \* [Plans -> NewsletterAutomation row]
    turns,     \* [Plans -> [Occurrences -> NewsletterAutomationRun row]]
    chores,    \* [Plans -> [Occurrences -> state of its AUTOMATION job]]
    drafts,    \* campaigns made from content, with their articles
    hand,      \* what each of the crew and the workers is doing
    hour       \* the clock

planVars == <<stock, judged, feeds, plans, turns, chores, drafts, hand, hour>>

Actors == Crew \cup Hands
NextTurn(t) == ((t \div Every) + 1) * Every
Occurrences == {NextTurn(t) : t \in 0..LastHour}
NoTurn == [status |-> "none", draft |-> 0]
AtRest == [at |-> "rest"]

PlanInit ==
    /\ stock = [e \in Entries |-> "absent"] /\ judged = {}
    /\ feeds = [f \in Feeds |-> TRUE]
    /\ plans = [a \in Plans |-> [on |-> TRUE, next |-> NextTurn(0)]]
    /\ turns = [a \in Plans |-> [s \in Occurrences |-> NoTurn]]
    /\ chores = [a \in Plans |-> [s \in Occurrences |-> "none"]]
    /\ drafts = {}
    /\ hand = [p \in Actors |-> AtRest]
    /\ hour = 0

Takes(p, step) == hand' = [hand EXCEPT ![p] = step]
Rest(p) == Takes(p, AtRest)
Turn(p) == turns[hand[p].plan][hand[p].slot]
SetTurn(p, row) == turns' = [turns EXCEPT ![hand[p].plan][hand[p].slot] = row]
(* finishJob by the worker that still holds its job. *)
Settle(p, state) ==
    IF p \in Hands /\ chores[hand[p].plan][hand[p].slot] = "RUNNING"
    THEN chores' = [chores EXCEPT ![hand[p].plan][hand[p].slot] = state]
    ELSE UNCHANGED chores

(***************************************************************************)
(* Staff: sources, review, the automation's settings.                      *)
(***************************************************************************)
SetSourceEnabled(f) ==
    /\ feeds' = [feeds EXCEPT ![f] = ~@]
    /\ UNCHANGED <<stock, judged, plans, turns, chores, drafts, hand, hour>>

Review(e, state) ==
    /\ stock[e] # "absent"
    /\ stock' = [stock EXCEPT ![e] = state]
    /\ judged' = IF state = "APPROVED" THEN judged \cup {e} ELSE judged
    /\ UNCHANGED <<feeds, plans, turns, chores, drafts, hand, hour>>

SetAutomationEnabled(a) ==
    /\ plans' = [plans EXCEPT ![a] =
           IF @.on THEN [on |-> FALSE, next |-> 0] ELSE [on |-> TRUE, next |-> NextTurn(hour)]]
    /\ UNCHANGED <<stock, judged, feeds, turns, chores, drafts, hand, hour>>

(* Saving the form dates the automation anew, paused or not. *)
UpdateAutomation(a) ==
    /\ plans' = [plans EXCEPT ![a].next = NextTurn(hour)]
    /\ UNCHANGED <<stock, judged, feeds, turns, chores, drafts, hand, hour>>

(***************************************************************************)
(* The scheduler: one job per occurrence, and the date moves on.           *)
(***************************************************************************)
EnqueueDue(a) ==
    LET s == plans[a].next IN
    /\ plans[a].on /\ s <= hour
    /\ chores' = [chores EXCEPT ![a][s] = IF @ = "none" THEN "PENDING" ELSE @]
    /\ plans' = [plans EXCEPT ![a].next = NextTurn(hour)]
    /\ UNCHANGED <<stock, judged, feeds, turns, drafts, hand, hour>>

(* A lease may lapse under a worker that is only slow. *)
RecoverOccurrence(a, s) ==
    /\ chores[a][s] = "RUNNING"
    /\ chores' = [chores EXCEPT ![a][s] = "ATTENTION"]
    /\ turns' = [turns EXCEPT ![a][s].status = IF @ = "PREPARING" THEN "FAILED" ELSE @]
    /\ UNCHANGED <<stock, judged, feeds, plans, drafts, hand, hour>>

(***************************************************************************)
(* runAutomation.                                                          *)
(***************************************************************************)
Begun(a, s) == [at |-> "claim", plan |-> a, slot |-> s, base |-> plans[a].next, began |-> hour]

RunNow(p, a) ==
    /\ p \in Crew /\ hand[p] = AtRest /\ plans[a].on
    /\ Takes(p, Begun(a, plans[a].next))
    /\ UNCHANGED <<stock, judged, feeds, plans, turns, chores, drafts, hour>>

RunJob(p, a, s) ==
    /\ p \in Hands /\ hand[p] = AtRest /\ chores[a][s] = "PENDING"
    /\ IF plans[a].on
       THEN /\ Takes(p, Begun(a, s)) /\ chores' = [chores EXCEPT ![a][s] = "RUNNING"]
       ELSE /\ chores' = [chores EXCEPT ![a][s] = "SUCCEEDED"] /\ UNCHANGED hand
    /\ UNCHANGED <<stock, judged, feeds, plans, turns, drafts, hour>>

Unclaimed(turn) == turn = NoTurn
ClaimTurn(p) ==
    /\ hand[p].at = "claim"
    /\ IF Unclaimed(Turn(p))
       THEN /\ SetTurn(p, [status |-> "PREPARING", draft |-> 0])
            /\ Takes(p, [hand[p] EXCEPT !.at = "poll"]) /\ UNCHANGED chores
       ELSE Settle(p, "SUCCEEDED") /\ Rest(p) /\ UNCHANGED turns
    /\ UNCHANGED <<stock, judged, feeds, plans, drafts, hour>>

(* What the enabled feeds that answer list today, read one by one.          *)
Poll(p, listed, down) ==
    /\ hand[p].at = "poll"
    /\ \A e \in listed : feeds[e.feed] /\ e.feed \notin down
    /\ \A f \in down : feeds[f]
    /\ Takes(p, [at |-> "entries", plan |-> hand[p].plan, slot |-> hand[p].slot, base |-> hand[p].base,
                began |-> hand[p].began, todo |-> listed, new |-> 0, down |-> down # {}])
    /\ UNCHANGED <<stock, judged, feeds, plans, turns, chores, drafts, hour>>

None == "none"
Same(e, f) == e.feed = f.feed /\ ((e.ext = f.ext /\ e.ext # None) \/ (e.link = f.link /\ e.link # None))
Identifiable(e) == e.ext # None \/ e.link # None
Stored == {e \in Entries : stock[e] # "absent"}

(* Over the limit, without identity, or already there: passed over.  A new  *)
(* one is stored by the next step, and only the indexes see what came since. *)
LookEntry(p, e) ==
    /\ hand[p].at = "entries" /\ e \in hand[p].todo
    /\ IF hand[p].new >= MaxNew \/ ~Identifiable(e) \/ \E f \in Stored : Same(e, f)
       THEN Takes(p, [hand[p] EXCEPT !.todo = @ \ {e}])
       ELSE Takes(p, [hand[p] EXCEPT !.at = "store", !.todo = {e} \cup @])
    /\ UNCHANGED <<stock, judged, feeds, plans, turns, chores, drafts, hour>>

Clash(e) == \E f \in Stored : Same(e, f)
StoreEntry(p, e) ==
    /\ hand[p].at = "store" /\ e \in hand[p].todo
    /\ Identifiable(e)
    /\ stock' = IF Clash(e) THEN stock ELSE [stock EXCEPT ![e] = "PENDING_REVIEW"]
    /\ Takes(p, [hand[p] EXCEPT !.at = "entries", !.todo = @ \ {e}, !.new = IF Clash(e) THEN @ ELSE @ + 1])
    /\ UNCHANGED <<judged, feeds, plans, turns, chores, drafts, hour>>

Holds(p) == p \in Crew \/ chores[hand[p].plan][hand[p].slot] = "RUNNING"
Approved(e) == stock[e] = "APPROVED"
InNoDraft(e) == \A d \in drafts : e \notin d.articles
Candidates == {e \in Entries : Approved(e) /\ InNoDraft(e)}

Report(p, status, draft) ==
    Takes(p, [at |-> "report", plan |-> hand[p].plan, slot |-> hand[p].slot, base |-> hand[p].base,
             began |-> hand[p].began, status |-> status, draft |-> draft])

Pick(p, picks) ==
    /\ hand[p].at = "entries" /\ hand[p].todo = {}
    /\ IF ~Holds(p) THEN picks = {} /\ Rest(p)
       ELSE /\ picks \subseteq Candidates
            /\ Cardinality(picks) = IF Cardinality(Candidates) > MaxItems THEN MaxItems ELSE Cardinality(Candidates)
            /\ IF picks = {} THEN Report(p, "NO_CONTENT", 0)
               ELSE Takes(p, [at |-> "read", plan |-> hand[p].plan, slot |-> hand[p].slot, base |-> hand[p].base,
                             began |-> hand[p].began, down |-> hand[p].down, picks |-> picks])
    /\ UNCHANGED <<stock, judged, feeds, plans, turns, chores, drafts, hour>>

(* createDraftFromContent: the articles are read, then one transaction. *)
ReadArticles(p) ==
    LET good == {e \in hand[p].picks : Approved(e)} IN
    /\ hand[p].at = "read"
    /\ IF ~Holds(p) THEN Rest(p)
       ELSE IF good = {} THEN Report(p, "FAILED", 0)
       ELSE Takes(p, [hand[p] EXCEPT !.at = "draft", !.picks = good])
    /\ UNCHANGED <<stock, judged, feeds, plans, turns, chores, drafts, hour>>

(* Mutant of StillPreparing: the automation is asked, the run is not. *)
AutomationOn(turn, a) == plans[a].on
StillPreparing(turn, a) == turn.status = "PREPARING" /\ turn.draft = 0 /\ plans[a].on
DraftRoom == Cardinality(drafts) < MaxDrafts
MakeDraft(p) ==
    LET id == Cardinality(drafts) + 1
        d == [id |-> id, plan |-> hand[p].plan, slot |-> hand[p].slot, articles |-> hand[p].picks] IN
    /\ hand[p].at = "draft" /\ DraftRoom
    /\ IF StillPreparing(Turn(p), hand[p].plan)
       THEN /\ drafts' = drafts \cup {d}
            /\ SetTurn(p, [Turn(p) EXCEPT !.draft = id])
            /\ Report(p, IF hand[p].down THEN "PARTIAL" ELSE "PREPARED", id)
            /\ UNCHANGED chores
       ELSE Settle(p, "ATTENTION") /\ Rest(p) /\ UNCHANGED <<drafts, turns>>
    /\ UNCHANGED <<stock, judged, feeds, plans, hour>>

Confirm(p) ==
    /\ hand[p].at = "report"
    /\ IF Holds(p) THEN Takes(p, [hand[p] EXCEPT !.at = "commit"]) ELSE Rest(p)
    /\ UNCHANGED <<stock, judged, feeds, plans, turns, chores, drafts, hour>>

(* Mutant of Redate: the date is put forward whatever has been set since. *)
RedateAlways(row, base, began) == [row EXCEPT !.next = NextTurn(began)]
Redate(row, base, began) ==
    IF row.on /\ row.next = base THEN [row EXCEPT !.next = NextTurn(began)] ELSE row
CompleteRun(p) ==
    LET h == hand[p] IN
    /\ h.at = "commit"
    /\ SetTurn(p, [status |-> h.status, draft |-> h.draft])
    /\ plans' = [plans EXCEPT ![h.plan] = Redate(@, h.base, h.began)]
    /\ Settle(p, IF h.status = "FAILED" THEN "ATTENTION" ELSE "SUCCEEDED") /\ Rest(p)
    /\ UNCHANGED <<stock, judged, feeds, drafts, hour>>

(* The process dies, or loses its right to go on. *)
LoseActor(p) ==
    /\ hand[p] # AtRest /\ Rest(p)
    /\ UNCHANGED <<stock, judged, feeds, plans, turns, chores, drafts, hour>>

HourPasses ==
    /\ hour < LastHour /\ hour' = hour + 1
    /\ UNCHANGED <<stock, judged, feeds, plans, turns, chores, drafts, hand>>

Proceed(p) ==
    \/ ClaimTurn(p) \/ ReadArticles(p) \/ MakeDraft(p) \/ Confirm(p) \/ CompleteRun(p) \/ LoseActor(p)
    \/ \E listed \in SUBSET Entries, down \in SUBSET Feeds : Poll(p, listed, down)
    \/ \E e \in Entries : LookEntry(p, e) \/ StoreEntry(p, e)
    \/ \E picks \in SUBSET Entries : Pick(p, picks)

PlanNext ==
    \/ HourPasses
    \/ \E f \in Feeds : SetSourceEnabled(f)
    \/ \E e \in Entries, state \in {"APPROVED", "REJECTED", "PENDING_REVIEW"} : Review(e, state)
    \/ \E a \in Plans : SetAutomationEnabled(a) \/ UpdateAutomation(a) \/ EnqueueDue(a)
    \/ \E a \in Plans, s \in Occurrences : RecoverOccurrence(a, s)
    \/ \E p \in Actors, a \in Plans : RunNow(p, a) \/ \E s \in Occurrences : RunJob(p, a, s)
    \/ \E p \in Actors : Proceed(p)

PlanSpec == PlanInit /\ [][PlanNext]_planVars

-----------------------------------------------------------------------------
(* One occurrence of one automation is drafted at most once, though "Run    *)
(* now" is pressed twice, a worker runs its job, dies and is recovered.     *)
OccurrenceDraftedOnce ==
    \A c, d \in drafts : c.plan = d.plan /\ c.slot = d.slot => c = d

(* A run the recovery has given up gets no draft afterwards, and neither    *)
(* does a run whose automation was paused while it collected.               *)
NoDraftAfterTheFact ==
    [][\A d \in drafts' \ drafts :
          /\ turns[d.plan][d.slot].status = "PREPARING"
          /\ plans[d.plan].on]_planVars

(* What a feed delivers reaches no draft unless a person has approved it,   *)
(* however collection, review and drafting interleave.                      *)
DraftsHoldJudgedArticles == \A d \in drafts : d.articles \subseteq judged

(* Two polls at once store no article twice, by its id or by its address.   *)
ArticlesAreStoredOnce == \A e, f \in Stored : Same(e, f) => e = f

(* A run that ends late leaves alone the date of an automation that was     *)
(* paused or edited while it ran: the occurrence that was set comes.        *)
LateRunsKeepTheDate ==
    [][\A p \in Actors : hand[p].at = "commit" /\ hand'[p] # hand[p] =>
          \A a \in Plans : plans'[a] # plans[a] => plans[a].on /\ plans[a].next = hand[p].base]_planVars

(* An occurrence is drafted once, in time, of articles a person approved,   *)
(* and moves its automation on only from the date it was due.               *)
OccurrencesAreDraftedOnce ==
    /\ [](OccurrenceDraftedOnce /\ DraftsHoldJudgedArticles /\ ArticlesAreStoredOnce)
    /\ NoDraftAfterTheFact /\ LateRunsKeepTheDate

(***************************************************************************)
(* The inductive invariant.                                                 *)
(***************************************************************************)
StockStates == {"absent", "PENDING_REVIEW", "APPROVED", "REJECTED"}
RunStates == {"PREPARING", "PREPARED", "PARTIAL", "NO_CONTENT", "FAILED"}
TurnRow == [status : RunStates \cup {"none"}, draft : Nat]
JobStates == {"none", "PENDING", "RUNNING", "SUCCEEDED", "ATTENTION"}
DraftRow == [id : Nat \ {0}, plan : Plans, slot : Occurrences, articles : SUBSET Entries]
RunClaiming == [at : {"claim", "poll"}, plan : Plans, slot : Occurrences, base : Nat, began : 0..LastHour]
RunCollecting == [at : {"entries", "store"}, plan : Plans, slot : Occurrences, base : Nat, began : 0..LastHour,
                  todo : SUBSET Entries, new : Nat, down : BOOLEAN]
RunDrafting == [at : {"read", "draft"}, plan : Plans, slot : Occurrences, base : Nat, began : 0..LastHour,
                down : BOOLEAN, picks : SUBSET Entries]
RunReporting == [at : {"report", "commit"}, plan : Plans, slot : Occurrences, base : Nat, began : 0..LastHour,
                 status : RunStates, draft : Nat]
HandType == [at : {"rest"}] \cup RunClaiming \cup RunCollecting \cup RunDrafting \cup RunReporting
PlanTypeOK ==
    /\ stock \in [Entries -> StockStates] /\ judged \subseteq Entries
    /\ feeds \in [Feeds -> BOOLEAN]
    /\ plans \in [Plans -> [on : BOOLEAN, next : Nat]]
    /\ turns \in [Plans -> [Occurrences -> TurnRow]]
    /\ chores \in [Plans -> [Occurrences -> JobStates]]
    /\ drafts \subseteq DraftRow /\ IsFiniteSet(drafts)
    /\ hand \in [Actors -> HandType]
    /\ hour \in 0..LastHour

(* An automation that is on waits for one of its occurrences.               *)
DatesAreOccurrences == \A a \in Plans : plans[a].on => plans[a].next \in Occurrences
(* Past its claim a run is the only one of its occurrence.                  *)
Working(p) == hand[p].at \notin {"rest", "claim"}
WorksOn(p, a, s) == Working(p) /\ hand[p].plan = a /\ hand[p].slot = s
RunsAreAlone ==
    \A p \in Actors : \A a \in Plans, s \in Occurrences :
      WorksOn(p, a, s) => turns[a][s] # NoTurn /\ \A q \in Actors : WorksOn(q, a, s) => q = p
(* The run of an occurrence that is drafted knows, and will report, it.      *)
DraftsAreRecorded ==
    \A d \in drafts :
      /\ turns[d.plan][d.slot].draft = d.id
      /\ \A p \in Actors : WorksOn(p, d.plan, d.slot) =>
                             hand[p].at \in {"report", "commit"} /\ hand[p].draft = d.id
PicksAreJudged ==
    /\ \A e \in Entries : Approved(e) => e \in judged
    /\ \A p \in Actors : hand[p].at \in {"read", "draft"} => hand[p].picks \subseteq judged
PlanInv ==
    /\ PlanTypeOK /\ DatesAreOccurrences /\ RunsAreAlone /\ DraftsAreRecorded /\ PicksAreJudged
    /\ OccurrenceDraftedOnce /\ DraftsHoldJudgedArticles /\ ArticlesAreStoredOnce
=============================================================================
