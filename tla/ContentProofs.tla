---------------------------- MODULE ContentProofs ----------------------------
(***************************************************************************)
(* Proofs about what a newsletter holds: the drafts automations make, the   *)
(* Hebrew versions of articles, newsletters that went out, the feeds the    *)
(* articles come from and the desk that judges them.  Each part proves its  *)
(* module's inductive invariant step by step, and from it the properties of *)
(* states and steps.                                                        *)
(***************************************************************************)
EXTENDS Automations, Translations, Newsletters, FeedReading, ArticleDesk, FiniteSetTheorems,
        SequenceTheorems, WellFoundedInduction, TLAPS

(***************************************************************************)
(* Automations.                                                             *)
(***************************************************************************)
LEMMA NextTurnOccurs == ASSUME NEW t \in 0..LastHour PROVE NextTurn(t) \in Occurrences
  BY DEF Occurrences

LEMMA OccurrencesAreNats == Occurrences \subseteq Nat
  <1> SUFFICES ASSUME NEW t \in 0..LastHour PROVE NextTurn(t) \in Nat
    BY DEF Occurrences
  <1>1. t \in Nat /\ Every \in Nat \ {0}
    BY AutomationAssumption
  <1>2. t \div Every \in Nat
    BY <1>1
  <1> QED
    BY <1>1, <1>2 DEF NextTurn

LEMMA PlanInitInv == PlanInit => PlanInv
  <1> SUFFICES ASSUME PlanInit PROVE PlanInv
    OBVIOUS
  <1>1. 0 \in 0..LastHour /\ NextTurn(0) \in Occurrences /\ NextTurn(0) \in Nat
    <2>1. LastHour \in Nat
      BY AutomationAssumption
    <2>2. 0 \in 0..LastHour
      BY <2>1
    <2> QED
      BY <2>2, NextTurnOccurs, OccurrencesAreNats
  <1>2. PlanTypeOK
    BY <1>1, FS_EmptySet DEF PlanInit, PlanTypeOK, StockStates, TurnRow, NoTurn, JobStates, HandType, AtRest, RunStates
  <1>3. DatesAreOccurrences
    BY <1>1 DEF PlanInit, DatesAreOccurrences
  <1>4. \A p \in Actors : hand[p].at = "rest"
    BY DEF PlanInit, AtRest
  <1>5. RunsAreAlone /\ DraftsAreRecorded /\ PicksAreJudged
    BY <1>4 DEF RunsAreAlone, DraftsAreRecorded, PicksAreJudged, WorksOn, Working, PlanInit, Approved
  <1>6. OccurrenceDraftedOnce /\ DraftsHoldJudgedArticles /\ ArticlesAreStoredOnce
    BY DEF PlanInit, OccurrenceDraftedOnce, DraftsHoldJudgedArticles, ArticlesAreStoredOnce, Stored
  <1> QED
    BY <1>2, <1>3, <1>5, <1>6 DEF PlanInv

\* A step that takes no run further than its claim, makes no draft and judges
\* nothing away: only the articles in hand and the dates may change.
LEMMA CalmStepInv ==
  ASSUME PlanInv, PlanTypeOK', DatesAreOccurrences', ArticlesAreStoredOnce',
         UNCHANGED drafts, judged \subseteq judged',
         \A a \in Plans, s \in Occurrences :
            turns'[a][s].draft = turns[a][s].draft /\ (turns[a][s] # NoTurn => turns'[a][s] # NoTurn),
         \A e \in Entries : stock'[e] = "APPROVED" => stock[e] = "APPROVED" \/ e \in judged',
         \A p \in Actors : \A a \in Plans, s \in Occurrences : WorksOn(p, a, s)' =>
            /\ WorksOn(p, a, s)
            /\ hand[p].at \in {"report", "commit"} =>
                 hand'[p].at \in {"report", "commit"} /\ hand'[p].draft = hand[p].draft,
         \A p \in Actors : hand'[p].at \in {"read", "draft"} => hand'[p].picks \subseteq judged
  PROVE  PlanInv'
  <1>1. PlanTypeOK /\ RunsAreAlone /\ DraftsAreRecorded /\ PicksAreJudged
        /\ OccurrenceDraftedOnce /\ DraftsHoldJudgedArticles
    BY DEF PlanInv
  <1>2. RunsAreAlone'
    BY <1>1 DEF RunsAreAlone
  <1>3. DraftsAreRecorded'
    <2> SUFFICES ASSUME NEW d \in drafts
                 PROVE  /\ turns'[d.plan][d.slot].draft = d.id
                        /\ \A p \in Actors : WorksOn(p, d.plan, d.slot)' =>
                                               hand'[p].at \in {"report", "commit"} /\ hand'[p].draft = d.id
      BY DEF DraftsAreRecorded
    <2>1. d.plan \in Plans /\ d.slot \in Occurrences
      BY <1>1 DEF PlanTypeOK, DraftRow
    <2> QED
      BY <1>1, <2>1 DEF DraftsAreRecorded
  <1>4. PicksAreJudged'
    BY <1>1 DEF PicksAreJudged, Approved
  <1>5. OccurrenceDraftedOnce' /\ DraftsHoldJudgedArticles'
    BY <1>1 DEF OccurrenceDraftedOnce, DraftsHoldJudgedArticles
  <1> QED
    BY <1>2, <1>3, <1>4, <1>5 DEF PlanInv

\* A step that leaves runs, drafts and articles alone.
LEMMA SettingsStepInv ==
  ASSUME PlanInv,
         feeds' \in [Feeds -> BOOLEAN], plans' \in [Plans -> [on : BOOLEAN, next : Nat]],
         chores' \in [Plans -> [Occurrences -> JobStates]], hour' \in 0..LastHour,
         \A a \in Plans : plans'[a].on => plans'[a].next \in Occurrences,
         UNCHANGED <<stock, judged, turns, drafts, hand>>
  PROVE  PlanInv'
  <1>1. PlanTypeOK /\ ArticlesAreStoredOnce /\ PicksAreJudged
    BY DEF PlanInv
  <1>2. PlanTypeOK' /\ DatesAreOccurrences'
    BY <1>1 DEF PlanTypeOK, DatesAreOccurrences
  <1>3. ArticlesAreStoredOnce'
    BY <1>1 DEF ArticlesAreStoredOnce, Stored
  <1>4. \A e \in Entries : stock'[e] = "APPROVED" => stock[e] = "APPROVED"
    OBVIOUS
  <1>5. \A p \in Actors : hand'[p] = hand[p]
    OBVIOUS
  <1>6. \A p \in Actors : \A a \in Plans, s \in Occurrences : WorksOn(p, a, s)' => WorksOn(p, a, s)
    BY DEF WorksOn, Working
  <1> QED
    BY <1>1, <1>2, <1>3, <1>4, <1>5, <1>6, CalmStepInv DEF PicksAreJudged

LEMMA SettingsInv ==
  ASSUME PlanInv,
         \/ HourPasses
         \/ \E f \in Feeds : SetSourceEnabled(f)
         \/ \E a \in Plans : SetAutomationEnabled(a) \/ UpdateAutomation(a) \/ EnqueueDue(a)
         \/ UNCHANGED planVars
  PROVE  PlanInv'
  <1>1. PlanTypeOK /\ DatesAreOccurrences
    BY DEF PlanInv
  <1>2. NextTurn(hour) \in Occurrences /\ NextTurn(hour) \in Nat
    BY <1>1, NextTurnOccurs, OccurrencesAreNats DEF PlanTypeOK
  <1>3. CASE HourPasses
    <2>1. hour' \in 0..LastHour
      BY <1>1, <1>3, AutomationAssumption DEF HourPasses, PlanTypeOK
    <2> QED
      BY <1>1, <1>3, <2>1, SettingsStepInv DEF HourPasses, PlanTypeOK, DatesAreOccurrences
  <1>4. ASSUME NEW f \in Feeds, SetSourceEnabled(f) PROVE PlanInv'
    <2>1. feeds' \in [Feeds -> BOOLEAN]
      BY <1>1, <1>4 DEF SetSourceEnabled, PlanTypeOK
    <2> QED
      BY <1>1, <1>4, <2>1, SettingsStepInv DEF SetSourceEnabled, PlanTypeOK, DatesAreOccurrences
  <1>5. ASSUME NEW a \in Plans, SetAutomationEnabled(a) PROVE PlanInv'
    <2>1. /\ plans' \in [Plans -> [on : BOOLEAN, next : Nat]]
          /\ \A b \in Plans : plans'[b].on => plans'[b].next \in Occurrences
      <3>1. plans \in [Plans -> [on : BOOLEAN, next : Nat]]
        BY <1>1 DEF PlanTypeOK
      <3>2. plans' = [plans EXCEPT ![a] = IF plans[a].on THEN [on |-> FALSE, next |-> 0]
                                                         ELSE [on |-> TRUE, next |-> NextTurn(hour)]]
        BY <1>5 DEF SetAutomationEnabled
      <3>3. CASE plans[a].on
        BY <1>1, <3>1, <3>2, <3>3 DEF DatesAreOccurrences
      <3>4. CASE ~plans[a].on
        BY <1>1, <1>2, <3>1, <3>2, <3>4 DEF DatesAreOccurrences
      <3> QED
        BY <3>3, <3>4
    <2> QED
      BY <1>1, <1>5, <2>1, SettingsStepInv DEF SetAutomationEnabled, PlanTypeOK
  <1>6. ASSUME NEW a \in Plans, plans' = [plans EXCEPT ![a].next = NextTurn(hour)]
        PROVE  /\ plans' \in [Plans -> [on : BOOLEAN, next : Nat]]
               /\ \A b \in Plans : plans'[b].on => plans'[b].next \in Occurrences
    BY <1>1, <1>2, <1>6 DEF PlanTypeOK, DatesAreOccurrences
  <1>7. ASSUME NEW a \in Plans, UpdateAutomation(a) PROVE PlanInv'
    BY <1>1, <1>6, <1>7, SettingsStepInv DEF UpdateAutomation, PlanTypeOK
  <1>8. ASSUME NEW a \in Plans, EnqueueDue(a) PROVE PlanInv'
    <2>1. plans[a].next \in Occurrences
      BY <1>1, <1>8 DEF EnqueueDue, DatesAreOccurrences
    <2>2. chores' \in [Plans -> [Occurrences -> JobStates]]
      BY <1>1, <1>8, <2>1 DEF EnqueueDue, PlanTypeOK, JobStates
    <2> QED
      BY <1>1, <1>6, <1>8, <2>2, SettingsStepInv DEF EnqueueDue, PlanTypeOK
  <1>9. CASE UNCHANGED planVars
    BY <1>1, <1>9, SettingsStepInv DEF planVars, PlanTypeOK, DatesAreOccurrences
  <1> QED
    BY <1>3, <1>4, <1>5, <1>7, <1>8, <1>9

\* A step of one actor's own, which writes nothing but perhaps its job: what it
\* holds then must still be its occurrence, its draft and judged articles.
LEMMA HandStepInv ==
  ASSUME PlanInv, NEW p \in Actors, NEW w \in HandType, hand' = [hand EXCEPT ![p] = w],
         chores' \in [Plans -> [Occurrences -> JobStates]],
         UNCHANGED <<stock, judged, feeds, plans, turns, drafts, hour>>,
         w.at \notin {"rest", "claim"} =>
            /\ Working(p) /\ w.plan = hand[p].plan /\ w.slot = hand[p].slot
            /\ hand[p].at \in {"report", "commit"} => w.at \in {"report", "commit"} /\ w.draft = hand[p].draft,
         w.at \in {"read", "draft"} => w.picks \subseteq judged
  PROVE  PlanInv'
  <1>1. PlanTypeOK /\ DatesAreOccurrences /\ ArticlesAreStoredOnce /\ PicksAreJudged
    BY DEF PlanInv
  <1>2. hand \in [Actors -> HandType]
    BY <1>1 DEF PlanTypeOK
  <1>3. /\ hand' \in [Actors -> HandType] /\ hand'[p] = w
        /\ \A q \in Actors \ {p} : hand'[q] = hand[q]
    BY <1>2
  <1>4. PlanTypeOK'
    BY <1>1, <1>3 DEF PlanTypeOK
  <1>5. DatesAreOccurrences' /\ ArticlesAreStoredOnce'
    BY <1>1 DEF DatesAreOccurrences, ArticlesAreStoredOnce, Stored
  <1>6. \A q \in Actors : \A a \in Plans, s \in Occurrences : WorksOn(q, a, s)' =>
            /\ WorksOn(q, a, s)
            /\ hand[q].at \in {"report", "commit"} =>
                 hand'[q].at \in {"report", "commit"} /\ hand'[q].draft = hand[q].draft
    <2> SUFFICES ASSUME NEW q \in Actors, NEW a \in Plans, NEW s \in Occurrences, WorksOn(q, a, s)'
                 PROVE  /\ WorksOn(q, a, s)
                        /\ hand[q].at \in {"report", "commit"} =>
                             hand'[q].at \in {"report", "commit"} /\ hand'[q].draft = hand[q].draft
      OBVIOUS
    <2>1. CASE q = p
      BY <1>3, <2>1, Zenon DEF WorksOn, Working
    <2>2. CASE q # p
      <3>1. hand'[q] = hand[q]
        BY <1>3, <2>2
      <3> QED
        BY <3>1, Zenon DEF WorksOn, Working
    <2> QED
      BY <2>1, <2>2
  <1>7. \A q \in Actors : hand'[q].at \in {"read", "draft"} => hand'[q].picks \subseteq judged
    <2> SUFFICES ASSUME NEW q \in Actors, hand'[q].at \in {"read", "draft"}
                 PROVE  hand'[q].picks \subseteq judged
      OBVIOUS
    <2>1. CASE q = p
      BY <1>3, <2>1, Zenon
    <2>2. CASE q # p
      <3>1. hand'[q] = hand[q]
        BY <1>3, <2>2
      <3> QED
        BY <1>1, <3>1, Zenon DEF PicksAreJudged
    <2> QED
      BY <2>1, <2>2
  <1>8. \A a \in Plans, s \in Occurrences :
            turns'[a][s].draft = turns[a][s].draft /\ (turns[a][s] # NoTurn => turns'[a][s] # NoTurn)
    OBVIOUS
  <1>9. \A e \in Entries : stock'[e] = "APPROVED" => stock[e] = "APPROVED" \/ e \in judged'
    OBVIOUS
  <1> QED
    BY <1>4, <1>5, <1>6, <1>7, <1>8, <1>9, CalmStepInv

\* finishJob changes no more than one job's state.
LEMMA SettledChores ==
  ASSUME PlanTypeOK, NEW p \in Actors, hand[p].at # "rest", NEW state \in JobStates, Settle(p, state)
  PROVE  chores' \in [Plans -> [Occurrences -> JobStates]]
  <1>1. hand[p].plan \in Plans /\ hand[p].slot \in Occurrences
    BY DEF PlanTypeOK, HandType, RunClaiming, RunCollecting, RunDrafting, RunReporting
  <1>2. chores \in [Plans -> [Occurrences -> JobStates]]
    BY DEF PlanTypeOK
  <1> QED
    BY <1>1, <1>2 DEF Settle

LEMMA BeginsInv ==
  ASSUME PlanInv, NEW p \in Actors, NEW a \in Plans,
         RunNow(p, a) \/ \E s \in Occurrences : RunJob(p, a, s)
  PROVE  PlanInv'
  <1>1. PlanTypeOK /\ DatesAreOccurrences
    BY DEF PlanInv
  <1>2. ASSUME NEW s \in Occurrences
        PROVE  Begun(a, s) \in HandType /\ Begun(a, s).at = "claim"
    BY <1>1 DEF Begun, HandType, RunClaiming, PlanTypeOK
  <1>3. AtRest \in HandType /\ AtRest.at = "rest"
    BY DEF AtRest, HandType
  <1>4. CASE RunNow(p, a)
    <2>1. plans[a].next \in Occurrences
      BY <1>1, <1>4 DEF RunNow, DatesAreOccurrences
    <2>2. Begun(a, plans[a].next) \in HandType /\ Begun(a, plans[a].next).at = "claim"
      BY <1>2, <2>1
    <2>3. /\ hand' = [hand EXCEPT ![p] = Begun(a, plans[a].next)]
          /\ UNCHANGED <<stock, judged, feeds, plans, turns, chores, drafts, hour>>
      BY <1>4 DEF RunNow, Takes
    <2>4. chores' \in [Plans -> [Occurrences -> JobStates]]
      BY <1>1, <2>3 DEF PlanTypeOK
    <2> DEFINE w == Begun(a, plans[a].next)
    <2> HIDE DEF w
    <2> QED
      BY <2>2, <2>3, <2>4, HandStepInv
  <1>5. ASSUME NEW s \in Occurrences, RunJob(p, a, s) PROVE PlanInv'
    <2> DEFINE w == IF plans[a].on THEN Begun(a, s) ELSE hand[p]
    <2>1. /\ UNCHANGED <<stock, judged, feeds, plans, turns, drafts, hour>>
          /\ hand[p] = AtRest
      BY <1>5 DEF RunJob
    <2>2. hand' = [hand EXCEPT ![p] = w]
      BY <1>1, <1>5 DEF RunJob, Takes, PlanTypeOK
    <2>3. chores' \in [Plans -> [Occurrences -> JobStates]]
      <3>1. chores \in [Plans -> [Occurrences -> JobStates]]
        BY <1>1 DEF PlanTypeOK
      <3>2. \/ chores' = [chores EXCEPT ![a][s] = "RUNNING"]
            \/ chores' = [chores EXCEPT ![a][s] = "SUCCEEDED"]
        BY <1>5 DEF RunJob
      <3> QED
        BY <3>1, <3>2 DEF JobStates
    <2>4. w \in HandType /\ w.at \in {"rest", "claim"}
      BY <1>2, <1>3, <2>1
    <2> HIDE DEF w
    <2> QED
      BY <2>1, <2>2, <2>3, <2>4, HandStepInv
  <1> QED
    BY <1>4, <1>5

\* What an actor holds at each stage.
LEMMA HandsAtStage ==
  ASSUME PlanTypeOK, NEW p \in Actors
  PROVE  /\ hand[p] \in HandType
         /\ hand[p].at \in {"claim", "poll"} => hand[p] \in RunClaiming
         /\ hand[p].at \in {"entries", "store"} => hand[p] \in RunCollecting
         /\ hand[p].at \in {"read", "draft"} => hand[p] \in RunDrafting
         /\ hand[p].at \in {"report", "commit"} => hand[p] \in RunReporting
  <1>1. hand[p] \in HandType
    BY DEF PlanTypeOK
  <1> QED
    BY <1>1 DEF HandType, RunClaiming, RunCollecting, RunDrafting, RunReporting

\* Collecting, picking and reading: each carries what it holds one stage on.
LEMMA CollectsInv ==
  ASSUME PlanInv, NEW p \in Actors,
         \/ \E listed \in SUBSET Entries, down \in SUBSET Feeds : Poll(p, listed, down)
         \/ \E e \in Entries : LookEntry(p, e)
         \/ \E picks \in SUBSET Entries : Pick(p, picks)
         \/ ReadArticles(p) \/ Confirm(p) \/ LoseActor(p)
  PROVE  PlanInv'
  <1>1. PlanTypeOK /\ PicksAreJudged
    BY DEF PlanInv
  <1>2. chores \in [Plans -> [Occurrences -> JobStates]]
    BY <1>1 DEF PlanTypeOK
  <1>3. AtRest \in HandType /\ AtRest.at = "rest"
    BY DEF AtRest, HandType
  <1>4. ASSUME Rest(p), UNCHANGED <<stock, judged, feeds, plans, turns, chores, drafts, hour>>
        PROVE  PlanInv'
    <2>1. hand' = [hand EXCEPT ![p] = AtRest]
      BY <1>4 DEF Rest, Takes
    <2> QED
      BY <1>2, <1>3, <1>4, <2>1, HandStepInv
  <1>5. ASSUME NEW listed \in SUBSET Entries, NEW down \in SUBSET Feeds, Poll(p, listed, down) PROVE PlanInv'
    <2> DEFINE w == [at |-> "entries", plan |-> hand[p].plan, slot |-> hand[p].slot, base |-> hand[p].base,
                     began |-> hand[p].began, todo |-> listed, new |-> 0, down |-> down # {}]
    <2>1. hand[p] \in RunClaiming /\ hand[p].at = "poll"
      BY <1>1, <1>5, HandsAtStage DEF Poll
    <2>2. (down # {}) \in BOOLEAN
      OBVIOUS
    <2>3. w \in RunCollecting
      BY <2>1, <2>2 DEF RunClaiming, RunCollecting
    <2>4. w \in HandType
      BY <2>3 DEF HandType
    <2>5. w.at = "entries" /\ w.plan = hand[p].plan /\ w.slot = hand[p].slot
      OBVIOUS
    <2>6. hand' = [hand EXCEPT ![p] = w] /\ UNCHANGED <<stock, judged, feeds, plans, turns, chores, drafts, hour>>
      BY <1>5 DEF Poll, Takes
    <2> HIDE DEF w
    <2> QED
      BY <1>2, <2>1, <2>4, <2>5, <2>6, HandStepInv DEF Working
  <1>6. ASSUME NEW e \in Entries, LookEntry(p, e) PROVE PlanInv'
    <2> DEFINE passed == [hand[p] EXCEPT !.todo = hand[p].todo \ {e}]
               kept == [hand[p] EXCEPT !.at = "store", !.todo = {e} \cup hand[p].todo]
    <2>1. hand[p] \in RunCollecting /\ hand[p].at = "entries"
      BY <1>1, <1>6, HandsAtStage DEF LookEntry
    <2>2. passed \in RunCollecting /\ kept \in RunCollecting
      BY <2>1 DEF RunCollecting
    <2>3. PICK w \in {passed, kept} : hand' = [hand EXCEPT ![p] = w]
      BY <1>6 DEF LookEntry, Takes
    <2>4. w \in HandType
      BY <2>2 DEF HandType
    <2>5. w.at \in {"entries", "store"} /\ w.plan = hand[p].plan /\ w.slot = hand[p].slot
      BY <2>1 DEF RunCollecting
    <2>6. UNCHANGED <<stock, judged, feeds, plans, turns, chores, drafts, hour>>
      BY <1>6 DEF LookEntry
    <2> HIDE DEF passed, kept
    <2> QED
      BY <1>2, <2>1, <2>3, <2>4, <2>5, <2>6, HandStepInv DEF Working
  <1>7. ASSUME NEW status \in RunStates, NEW draft \in Nat, Working(p), hand[p].at \notin {"report", "commit"},
               Report(p, status, draft),
               UNCHANGED <<stock, judged, feeds, plans, turns, chores, drafts, hour>>
        PROVE  PlanInv'
    <2> DEFINE w == [at |-> "report", plan |-> hand[p].plan, slot |-> hand[p].slot, base |-> hand[p].base,
                     began |-> hand[p].began, status |-> status, draft |-> draft]
    <2>1. /\ hand[p].plan \in Plans /\ hand[p].slot \in Occurrences /\ hand[p].base \in Nat
          /\ hand[p].began \in 0..LastHour
      BY <1>1, <1>7, HandsAtStage DEF Working, HandType, RunClaiming, RunCollecting, RunDrafting, RunReporting
    <2>2. w \in RunReporting
      BY <2>1 DEF RunReporting
    <2>3. w \in HandType
      BY <2>2 DEF HandType
    <2>4. w.at = "report" /\ w.plan = hand[p].plan /\ w.slot = hand[p].slot
      OBVIOUS
    <2>5. hand' = [hand EXCEPT ![p] = w]
      BY <1>7 DEF Report, Takes
    <2> HIDE DEF w
    <2> QED
      BY <1>2, <1>7, <2>3, <2>4, <2>5, HandStepInv
  <1>8. ASSUME NEW picks \in SUBSET Entries, Pick(p, picks) PROVE PlanInv'
    <2> DEFINE w == [at |-> "read", plan |-> hand[p].plan, slot |-> hand[p].slot, base |-> hand[p].base,
                     began |-> hand[p].began, down |-> hand[p].down, picks |-> picks]
    <2>1. hand[p] \in RunCollecting /\ hand[p].at = "entries"
      BY <1>1, <1>8, HandsAtStage DEF Pick
    <2>2. UNCHANGED <<stock, judged, feeds, plans, turns, chores, drafts, hour>>
      BY <1>8 DEF Pick
    <2>3. CASE Rest(p)
      BY <1>4, <2>2, <2>3
    <2>4. CASE Report(p, "NO_CONTENT", 0)
      BY <1>7, <2>1, <2>2, <2>4 DEF Working, RunStates
    <2>5. CASE hand' = [hand EXCEPT ![p] = w] /\ picks \subseteq Candidates
      <3>1. w \in RunDrafting
        BY <2>1 DEF RunDrafting, RunCollecting
      <3>2. w \in HandType
        BY <3>1 DEF HandType
      <3>3. w.at = "read" /\ w.plan = hand[p].plan /\ w.slot = hand[p].slot /\ w.picks = picks
        OBVIOUS
      <3>4. picks \subseteq judged
        BY <1>1, <2>5 DEF Candidates, PicksAreJudged
      <3>5. hand' = [hand EXCEPT ![p] = w]
        BY <2>5
      <3> HIDE DEF w
      <3> QED
        BY <1>2, <2>1, <2>2, <3>2, <3>3, <3>4, <3>5, HandStepInv DEF Working
    <2> QED
      BY <1>8, <2>3, <2>4, <2>5 DEF Pick, Takes
  <1>9. CASE ReadArticles(p)
    <2> DEFINE good == {e \in hand[p].picks : Approved(e)}
               w == [hand[p] EXCEPT !.at = "draft", !.picks = good]
    <2>1. hand[p] \in RunDrafting /\ hand[p].at = "read"
      BY <1>1, <1>9, HandsAtStage DEF ReadArticles
    <2>2. UNCHANGED <<stock, judged, feeds, plans, turns, chores, drafts, hour>>
      BY <1>9 DEF ReadArticles
    <2>3. CASE Rest(p)
      BY <1>4, <2>2, <2>3
    <2>4. CASE Report(p, "FAILED", 0)
      BY <1>7, <2>1, <2>2, <2>4 DEF Working, RunStates
    <2>5. CASE hand' = [hand EXCEPT ![p] = w]
      <3>1. good \subseteq hand[p].picks /\ good \in SUBSET Entries
        BY <2>1 DEF RunDrafting
      <3> HIDE DEF good
      <3>2. w \in RunDrafting
        BY <2>1, <3>1 DEF RunDrafting
      <3>3. w \in HandType
        BY <3>2 DEF HandType
      <3>4. w.at = "draft" /\ w.plan = hand[p].plan /\ w.slot = hand[p].slot /\ w.picks = good
        BY <2>1 DEF RunDrafting
      <3>5. good \subseteq judged
        BY <1>1, <2>1, <3>1 DEF PicksAreJudged
      <3> HIDE DEF w
      <3> QED
        BY <1>2, <2>1, <2>2, <2>5, <3>3, <3>4, <3>5, HandStepInv DEF Working
    <2> QED
      BY <1>9, <2>3, <2>4, <2>5 DEF ReadArticles, Takes
  <1>10. CASE Confirm(p)
    <2> DEFINE w == [hand[p] EXCEPT !.at = "commit"]
    <2>1. hand[p] \in RunReporting /\ hand[p].at = "report"
      BY <1>1, <1>10, HandsAtStage DEF Confirm
    <2>2. UNCHANGED <<stock, judged, feeds, plans, turns, chores, drafts, hour>>
      BY <1>10 DEF Confirm
    <2>3. CASE Rest(p)
      BY <1>4, <2>2, <2>3
    <2>4. CASE hand' = [hand EXCEPT ![p] = w]
      <3>1. w \in RunReporting
        BY <2>1 DEF RunReporting
      <3>2. w \in HandType
        BY <3>1 DEF HandType
      <3>3. w.at = "commit" /\ w.plan = hand[p].plan /\ w.slot = hand[p].slot /\ w.draft = hand[p].draft
        BY <2>1 DEF RunReporting
      <3> HIDE DEF w
      <3> QED
        BY <1>2, <2>1, <2>2, <2>4, <3>2, <3>3, HandStepInv DEF Working
    <2> QED
      BY <1>10, <2>3, <2>4 DEF Confirm, Takes
  <1>11. CASE LoseActor(p)
    BY <1>4, <1>11 DEF LoseActor
  <1> QED
    BY <1>5, <1>6, <1>8, <1>9, <1>10, <1>11

LEMMA ReviewInv ==
  ASSUME PlanInv, NEW e \in Entries, NEW state \in {"APPROVED", "REJECTED", "PENDING_REVIEW"}, Review(e, state)
  PROVE  PlanInv'
  <1>1. PlanTypeOK /\ DatesAreOccurrences /\ ArticlesAreStoredOnce /\ PicksAreJudged
    BY DEF PlanInv
  <1>2. stock \in [Entries -> StockStates] /\ stock[e] # "absent"
    BY <1>1 DEF PlanTypeOK, Review
  <1>3. /\ stock' \in [Entries -> StockStates] /\ stock'[e] = state
        /\ \A f \in Entries \ {e} : stock'[f] = stock[f]
    BY <1>2 DEF Review, StockStates
  <1>4. judged \subseteq judged' /\ judged' \subseteq Entries /\ (state = "APPROVED" => e \in judged')
    BY <1>1 DEF Review, PlanTypeOK
  <1>5. UNCHANGED <<feeds, plans, turns, chores, drafts, hand, hour>>
    BY DEF Review
  <1>6. PlanTypeOK' /\ DatesAreOccurrences'
    BY <1>1, <1>3, <1>4, <1>5 DEF PlanTypeOK, DatesAreOccurrences
  <1>7. ArticlesAreStoredOnce'
    <2>1. \A f \in Entries : stock'[f] # "absent" => stock[f] # "absent"
      BY <1>2, <1>3
    <2> QED
      BY <1>1, <2>1 DEF ArticlesAreStoredOnce, Stored
  <1>8. \A f \in Entries : stock'[f] = "APPROVED" => stock[f] = "APPROVED" \/ f \in judged'
    BY <1>3, <1>4
  <1>9. \A p \in Actors : hand'[p] = hand[p]
    BY <1>5
  <1>10. \A p \in Actors : \A a \in Plans, s \in Occurrences : WorksOn(p, a, s)' => WorksOn(p, a, s)
    BY <1>5 DEF WorksOn, Working
  <1> QED
    BY <1>1, <1>4, <1>5, <1>6, <1>7, <1>8, <1>9, <1>10, CalmStepInv DEF PicksAreJudged

LEMMA RecoverInv ==
  ASSUME PlanInv, NEW a \in Plans, NEW s \in Occurrences, RecoverOccurrence(a, s)
  PROVE  PlanInv'
  <1> DEFINE row == [turns[a][s] EXCEPT !.status = IF turns[a][s].status = "PREPARING" THEN "FAILED"
                                                                                     ELSE turns[a][s].status]
  <1>1. PlanTypeOK /\ DatesAreOccurrences /\ ArticlesAreStoredOnce /\ PicksAreJudged
    BY DEF PlanInv
  <1>2. turns \in [Plans -> [Occurrences -> TurnRow]] /\ chores \in [Plans -> [Occurrences -> JobStates]]
    BY <1>1 DEF PlanTypeOK
  <1>3. turns[a][s] \in TurnRow
    BY <1>2
  <1>4. row \in TurnRow /\ row.draft = turns[a][s].draft /\ (turns[a][s] # NoTurn => row # NoTurn)
    <2>1. row \in TurnRow /\ row.draft = turns[a][s].draft
      BY <1>3 DEF TurnRow, RunStates
    <2>2. CASE turns[a][s].status = "PREPARING"
      <3>1. row.status = "FAILED"
        BY <1>3, <2>2 DEF TurnRow
      <3>2. NoTurn.status = "none"
        BY DEF NoTurn
      <3> QED
        BY <2>1, <3>1, <3>2
    <2>3. CASE turns[a][s].status # "PREPARING"
      BY <1>3, <2>3 DEF TurnRow
    <2> QED
      BY <2>1, <2>2, <2>3
  <1>5. turns' = [turns EXCEPT ![a] = [turns[a] EXCEPT ![s] = row]]
    BY <1>2 DEF RecoverOccurrence
  <1> HIDE DEF row
  <1>6. turns' \in [Plans -> [Occurrences -> TurnRow]]
    BY <1>2, <1>4, <1>5
  <1>7. \A b \in Plans, t \in Occurrences :
           turns'[b][t].draft = turns[b][t].draft /\ (turns[b][t] # NoTurn => turns'[b][t] # NoTurn)
    <2> SUFFICES ASSUME NEW b \in Plans, NEW t \in Occurrences
                 PROVE  turns'[b][t].draft = turns[b][t].draft /\ (turns[b][t] # NoTurn => turns'[b][t] # NoTurn)
      OBVIOUS
    <2>1. CASE b = a /\ t = s
      <3>1. turns'[b][t] = row
        BY <1>2, <1>5, <2>1
      <3> QED
        BY <1>4, <2>1, <3>1, Zenon
    <2>2. CASE ~(b = a /\ t = s)
      <3>1. turns'[b][t] = turns[b][t]
        BY <1>2, <1>5, <2>2
      <3> QED
        BY <3>1, Zenon
    <2> QED
      BY <2>1, <2>2
  <1>8. chores' \in [Plans -> [Occurrences -> JobStates]] /\ UNCHANGED <<stock, judged, feeds, plans, drafts, hand, hour>>
    BY <1>2 DEF RecoverOccurrence, JobStates
  <1>9. PlanTypeOK' /\ DatesAreOccurrences' /\ ArticlesAreStoredOnce'
    BY <1>1, <1>6, <1>8 DEF PlanTypeOK, DatesAreOccurrences, ArticlesAreStoredOnce, Stored
  <1>10. \A p \in Actors : hand'[p] = hand[p]
    BY <1>8
  <1>11. \A p \in Actors : \A b \in Plans, t \in Occurrences : WorksOn(p, b, t)' => WorksOn(p, b, t)
    BY <1>8 DEF WorksOn, Working
  <1>12. \A e \in Entries : stock'[e] = "APPROVED" => stock[e] = "APPROVED"
    BY <1>8
  <1> QED
    BY <1>1, <1>7, <1>8, <1>9, <1>10, <1>11, <1>12, CalmStepInv DEF PicksAreJudged

\* ingestSource: what is stored is not yet judged, and clashes with nothing.
LEMMA StoreInv ==
  ASSUME PlanInv, NEW p \in Actors, NEW e \in Entries, StoreEntry(p, e)
  PROVE  PlanInv'
  <1> DEFINE w == [hand[p] EXCEPT !.at = "entries", !.todo = hand[p].todo \ {e},
                                  !.new = IF Clash(e) THEN hand[p].new ELSE hand[p].new + 1]
  <1>1. PlanTypeOK /\ DatesAreOccurrences /\ ArticlesAreStoredOnce /\ PicksAreJudged
    BY DEF PlanInv
  <1>2. hand[p] \in RunCollecting /\ hand[p].at = "store"
    BY <1>1, HandsAtStage DEF StoreEntry
  <1>3. w \in RunCollecting
    <2>1. (IF Clash(e) THEN hand[p].new ELSE hand[p].new + 1) \in Nat
      BY <1>2 DEF RunCollecting
    <2> QED
      BY <1>2, <2>1 DEF RunCollecting
  <1>4. w.at = "entries" /\ w.plan = hand[p].plan /\ w.slot = hand[p].slot
    BY <1>2 DEF RunCollecting
  <1>5. w \in HandType
    BY <1>3 DEF HandType
  <1>6. hand' = [hand EXCEPT ![p] = w] /\ UNCHANGED <<judged, feeds, plans, turns, chores, drafts, hour>>
    BY DEF StoreEntry, Takes
  <1> HIDE DEF w
  <1>7. /\ hand \in [Actors -> HandType] /\ hand' \in [Actors -> HandType] /\ hand'[p] = w
        /\ \A q \in Actors \ {p} : hand'[q] = hand[q]
    BY <1>1, <1>5, <1>6 DEF PlanTypeOK
  <1>8. stock \in [Entries -> StockStates]
    BY <1>1 DEF PlanTypeOK
  <1>9. /\ stock' \in [Entries -> StockStates]
        /\ \A f \in Entries : stock'[f] = "APPROVED" => stock[f] = "APPROVED"
        /\ stock' = stock \/ (~Clash(e) /\ \A f \in Entries \ {e} : stock'[f] = stock[f])
    <2>1. CASE Clash(e)
      BY <1>8, <2>1 DEF StoreEntry
    <2>2. CASE ~Clash(e)
      <3>1. stock' = [stock EXCEPT ![e] = "PENDING_REVIEW"]
        BY <2>2 DEF StoreEntry
      <3> QED
        BY <1>8, <2>2, <3>1 DEF StockStates
    <2> QED
      BY <2>1, <2>2
  <1>10. PlanTypeOK' /\ DatesAreOccurrences'
    BY <1>1, <1>6, <1>7, <1>9 DEF PlanTypeOK, DatesAreOccurrences
  <1>11. ArticlesAreStoredOnce'
    <2>1. CASE stock' = stock
      BY <1>1, <2>1 DEF ArticlesAreStoredOnce, Stored
    <2>2. CASE ~Clash(e) /\ \A f \in Entries \ {e} : stock'[f] = stock[f]
      <3> SUFFICES ASSUME NEW f \in Stored', NEW g \in Stored', Same(f, g) PROVE f = g
        BY DEF ArticlesAreStoredOnce
      <3>1. f \in Entries /\ g \in Entries
        BY DEF Stored
      <3>2. f # e => f \in Stored
        BY <2>2, <3>1 DEF Stored
      <3>3. g # e => g \in Stored
        BY <2>2, <3>1 DEF Stored
      <3>4. ~(f = e /\ g # e)
        BY <2>2, <3>3 DEF Clash
      <3>5. ~(g = e /\ f # e)
        <4>1. Same(g, f)
          BY DEF Same
        <4> QED
          BY <2>2, <3>2, <4>1 DEF Clash
      <3> QED
        BY <1>1, <3>2, <3>3, <3>4, <3>5 DEF ArticlesAreStoredOnce
    <2> QED
      BY <1>9, <2>1, <2>2
  <1>12. \A q \in Actors : \A a \in Plans, s \in Occurrences : WorksOn(q, a, s)' =>
            /\ WorksOn(q, a, s)
            /\ hand[q].at \in {"report", "commit"} =>
                 hand'[q].at \in {"report", "commit"} /\ hand'[q].draft = hand[q].draft
    <2> SUFFICES ASSUME NEW q \in Actors, NEW a \in Plans, NEW s \in Occurrences, WorksOn(q, a, s)'
                 PROVE  /\ WorksOn(q, a, s)
                        /\ hand[q].at \in {"report", "commit"} =>
                             hand'[q].at \in {"report", "commit"} /\ hand'[q].draft = hand[q].draft
      OBVIOUS
    <2>1. CASE q = p
      BY <1>2, <1>4, <1>7, <2>1 DEF WorksOn, Working
    <2>2. CASE q # p
      <3>1. hand'[q] = hand[q]
        BY <1>7, <2>2
      <3> QED
        BY <3>1, Zenon DEF WorksOn, Working
    <2> QED
      BY <2>1, <2>2
  <1>13. \A q \in Actors : hand'[q].at \in {"read", "draft"} => hand'[q].picks \subseteq judged
    <2> SUFFICES ASSUME NEW q \in Actors, hand'[q].at \in {"read", "draft"} PROVE hand'[q].picks \subseteq judged
      OBVIOUS
    <2>1. q # p
      BY <1>4, <1>7
    <2>2. hand'[q] = hand[q]
      BY <1>7, <2>1
    <2> QED
      BY <1>1, <2>2, Zenon DEF PicksAreJudged
  <1>14. \A a \in Plans, s \in Occurrences :
            turns'[a][s].draft = turns[a][s].draft /\ (turns[a][s] # NoTurn => turns'[a][s] # NoTurn)
    BY <1>6
  <1> QED
    BY <1>6, <1>9, <1>10, <1>11, <1>12, <1>13, <1>14, CalmStepInv

\* The rows of the other occurrences stay when a run writes its own.
LEMMA SetTurnWrites ==
  ASSUME PlanTypeOK, NEW p \in Actors, hand[p].at # "rest", NEW row \in TurnRow, SetTurn(p, row)
  PROVE  /\ hand[p].plan \in Plans /\ hand[p].slot \in Occurrences
         /\ turns' \in [Plans -> [Occurrences -> TurnRow]]
         /\ turns'[hand[p].plan][hand[p].slot] = row
         /\ \A a \in Plans, s \in Occurrences :
              ~(a = hand[p].plan /\ s = hand[p].slot) => turns'[a][s] = turns[a][s]
  <1>1. hand[p].plan \in Plans /\ hand[p].slot \in Occurrences
    BY DEF PlanTypeOK, HandType, RunClaiming, RunCollecting, RunDrafting, RunReporting
  <1>2. turns \in [Plans -> [Occurrences -> TurnRow]]
    BY DEF PlanTypeOK
  <1>3. turns' = [turns EXCEPT ![hand[p].plan] = [turns[hand[p].plan] EXCEPT ![hand[p].slot] = row]]
    BY <1>2 DEF SetTurn
  <1> QED
    BY <1>1, <1>2, <1>3

\* findOrCreateRun: the claim of a slot nobody has; the loser settles its job.
LEMMA ClaimTurnInv ==
  ASSUME PlanInv, NEW p \in Actors, ClaimTurn(p)
  PROVE  PlanInv'
  <1> DEFINE a0 == hand[p].plan
             s0 == hand[p].slot
             fresh == [status |-> "PREPARING", draft |-> 0]
             w == [hand[p] EXCEPT !.at = "poll"]
  <1>1. /\ PlanTypeOK /\ DatesAreOccurrences /\ RunsAreAlone /\ DraftsAreRecorded /\ PicksAreJudged
        /\ OccurrenceDraftedOnce /\ DraftsHoldJudgedArticles /\ ArticlesAreStoredOnce
    BY DEF PlanInv
  <1>2. hand[p] \in RunClaiming /\ hand[p].at = "claim" /\ a0 \in Plans /\ s0 \in Occurrences
    BY <1>1, HandsAtStage DEF ClaimTurn, RunClaiming
  <1>3. UNCHANGED <<stock, judged, feeds, plans, drafts, hour>>
    BY DEF ClaimTurn
  <1>4. CASE ~Unclaimed(Turn(p))
    <2>1. chores' \in [Plans -> [Occurrences -> JobStates]]
      BY <1>1, <1>2, <1>4, SettledChores DEF ClaimTurn, JobStates
    <2>2. hand' = [hand EXCEPT ![p] = AtRest] /\ UNCHANGED turns
      BY <1>4 DEF ClaimTurn, Rest, Takes
    <2>3. AtRest \in HandType /\ AtRest.at = "rest"
      BY DEF AtRest, HandType
    <2> QED
      BY <1>3, <2>1, <2>2, <2>3, HandStepInv
  <1>5. CASE Unclaimed(Turn(p))
    <2>1. turns[a0][s0] = NoTurn
      BY <1>5 DEF Unclaimed, Turn
    <2>2. SetTurn(p, fresh) /\ hand' = [hand EXCEPT ![p] = w] /\ UNCHANGED chores
      BY <1>5 DEF ClaimTurn, Takes
    <2>3. fresh \in TurnRow /\ fresh # NoTurn
      <3>1. fresh \in TurnRow
        BY DEF TurnRow, RunStates
      <3>2. fresh.status # NoTurn.status
        BY DEF NoTurn
      <3> QED
        BY <3>1, <3>2
    <2>4. w \in RunClaiming /\ w.at = "poll" /\ w.plan = a0 /\ w.slot = s0
      BY <1>2 DEF RunClaiming
    <2>5. w \in HandType
      BY <2>4 DEF HandType
    <2> HIDE DEF fresh, w
    <2>6. /\ turns' \in [Plans -> [Occurrences -> TurnRow]] /\ turns'[a0][s0] = fresh
          /\ \A a \in Plans, s \in Occurrences : ~(a = a0 /\ s = s0) => turns'[a][s] = turns[a][s]
      BY <1>1, <1>2, <2>2, <2>3, SetTurnWrites
    <2>7. /\ hand' \in [Actors -> HandType] /\ hand'[p] = w
          /\ \A q \in Actors \ {p} : hand'[q] = hand[q]
      BY <1>1, <2>2, <2>5 DEF PlanTypeOK
    <2>8. PlanTypeOK' /\ DatesAreOccurrences' /\ ArticlesAreStoredOnce'
      BY <1>1, <1>3, <2>2, <2>6, <2>7 DEF PlanTypeOK, DatesAreOccurrences, ArticlesAreStoredOnce, Stored
    <2>9. \A q \in Actors : ~WorksOn(q, a0, s0)
      BY <1>1, <1>2, <2>1 DEF RunsAreAlone
    <2>10. \A d \in drafts : ~(d.plan = a0 /\ d.slot = s0)
      <3>1. \A d \in drafts : d.id # 0
        BY <1>1 DEF PlanTypeOK, DraftRow
      <3>2. turns[a0][s0].draft = 0
        BY <2>1 DEF NoTurn
      <3> QED
        BY <1>1, <3>1, <3>2 DEF DraftsAreRecorded
    <2>11. ASSUME NEW q \in Actors, NEW a \in Plans, NEW s \in Occurrences, WorksOn(q, a, s)'
           PROVE  IF q = p THEN a = a0 /\ s = s0 ELSE WorksOn(q, a, s) /\ ~(a = a0 /\ s = s0)
      <3>1. CASE q = p
        BY <2>4, <2>7, <2>11, <3>1 DEF WorksOn
      <3>2. CASE q # p
        <4>1. hand'[q] = hand[q]
          BY <2>7, <3>2
        <4>2. WorksOn(q, a, s)
          BY <2>11, <4>1, Zenon DEF WorksOn, Working
        <4> QED
          BY <2>9, <3>2, <4>2
      <3> QED
        BY <3>1, <3>2
    <2>12. RunsAreAlone'
      <3> SUFFICES ASSUME NEW q \in Actors, NEW a \in Plans, NEW s \in Occurrences, WorksOn(q, a, s)'
                   PROVE  turns'[a][s] # NoTurn /\ \A u \in Actors : WorksOn(u, a, s)' => u = q
        BY DEF RunsAreAlone
      <3>1. CASE q = p
        BY <2>3, <2>6, <2>11, <3>1
      <3>2. CASE q # p
        <4>1. WorksOn(q, a, s) /\ ~(a = a0 /\ s = s0)
          BY <2>11, <3>2
        <4>2. turns'[a][s] = turns[a][s] /\ turns[a][s] # NoTurn
          BY <1>1, <2>6, <4>1 DEF RunsAreAlone
        <4>3. \A u \in Actors : WorksOn(u, a, s)' => WorksOn(u, a, s)
          BY <2>11, <4>1
        <4> QED
          BY <1>1, <4>1, <4>2, <4>3 DEF RunsAreAlone
      <3> QED
        BY <3>1, <3>2
    <2>13. DraftsAreRecorded'
      <3> SUFFICES ASSUME NEW d \in drafts
                   PROVE  /\ turns'[d.plan][d.slot].draft = d.id
                          /\ \A q \in Actors : WorksOn(q, d.plan, d.slot)' =>
                                                 hand'[q].at \in {"report", "commit"} /\ hand'[q].draft = d.id
        BY <1>3 DEF DraftsAreRecorded
      <3>1. d.plan \in Plans /\ d.slot \in Occurrences /\ ~(d.plan = a0 /\ d.slot = s0)
        BY <1>1, <2>10 DEF PlanTypeOK, DraftRow
      <3>2. turns'[d.plan][d.slot].draft = d.id
        BY <1>1, <2>6, <3>1 DEF DraftsAreRecorded
      <3>3. ASSUME NEW q \in Actors, WorksOn(q, d.plan, d.slot)'
            PROVE  hand'[q].at \in {"report", "commit"} /\ hand'[q].draft = d.id
        <4>1. q # p /\ WorksOn(q, d.plan, d.slot)
          BY <2>11, <3>1, <3>3
        <4>2. hand'[q] = hand[q]
          BY <2>7, <4>1
        <4> QED
          BY <1>1, <4>1, <4>2 DEF DraftsAreRecorded
      <3> QED
        BY <3>2, <3>3
    <2>14. PicksAreJudged'
      <3>1. \A e \in Entries : Approved(e)' => e \in judged'
        BY <1>1, <1>3 DEF PicksAreJudged, Approved
      <3>2. ASSUME NEW q \in Actors, hand'[q].at \in {"read", "draft"} PROVE hand'[q].picks \subseteq judged'
        <4>1. q # p
          BY <2>4, <2>7, <3>2
        <4>2. hand'[q] = hand[q]
          BY <2>7, <4>1
        <4> QED
          BY <1>1, <1>3, <3>2, <4>2 DEF PicksAreJudged
      <3> QED
        BY <3>1, <3>2 DEF PicksAreJudged
    <2>15. OccurrenceDraftedOnce' /\ DraftsHoldJudgedArticles'
      BY <1>1, <1>3 DEF OccurrenceDraftedOnce, DraftsHoldJudgedArticles
    <2> QED
      BY <2>8, <2>12, <2>13, <2>14, <2>15 DEF PlanInv
  <1> QED
    BY <1>4, <1>5

\* createDraftFromContent: the run is still its own, and has no draft yet.
LEMMA MakeDraftInv ==
  ASSUME PlanInv, NEW p \in Actors, MakeDraft(p)
  PROVE  PlanInv'
  <1> DEFINE a0 == hand[p].plan
             s0 == hand[p].slot
             id == Cardinality(drafts) + 1
             new == [id |-> id, plan |-> a0, slot |-> s0, articles |-> hand[p].picks]
             row == [turns[a0][s0] EXCEPT !.draft = id]
             w == [at |-> "report", plan |-> a0, slot |-> s0, base |-> hand[p].base, began |-> hand[p].began,
                   status |-> IF hand[p].down THEN "PARTIAL" ELSE "PREPARED", draft |-> id]
  <1>1. /\ PlanTypeOK /\ DatesAreOccurrences /\ RunsAreAlone /\ DraftsAreRecorded /\ PicksAreJudged
        /\ OccurrenceDraftedOnce /\ DraftsHoldJudgedArticles /\ ArticlesAreStoredOnce
    BY DEF PlanInv
  <1>2. hand[p] \in RunDrafting /\ hand[p].at = "draft" /\ a0 \in Plans /\ s0 \in Occurrences
    BY <1>1, HandsAtStage DEF MakeDraft, RunDrafting
  <1>3. UNCHANGED <<stock, judged, feeds, plans, hour>>
    BY DEF MakeDraft
  <1>4. CASE ~StillPreparing(Turn(p), a0)
    <2>1. chores' \in [Plans -> [Occurrences -> JobStates]]
      BY <1>1, <1>2, <1>4, SettledChores DEF MakeDraft, JobStates
    <2>2. hand' = [hand EXCEPT ![p] = AtRest] /\ UNCHANGED <<drafts, turns>>
      BY <1>4 DEF MakeDraft, Rest, Takes
    <2>3. AtRest \in HandType /\ AtRest.at = "rest"
      BY DEF AtRest, HandType
    <2> QED
      BY <1>3, <2>1, <2>2, <2>3, HandStepInv
  <1>5. CASE StillPreparing(Turn(p), a0)
    <2>1. turns[a0][s0].draft = 0
      BY <1>5 DEF StillPreparing, Turn
    <2>2. /\ SetTurn(p, row) /\ hand' = [hand EXCEPT ![p] = w] /\ UNCHANGED chores
          /\ drafts' = drafts \cup {new}
      BY <1>5 DEF MakeDraft, Report, Takes, Turn
    <2>3. id \in Nat \ {0} /\ IsFiniteSet(drafts')
      <3>1. IsFiniteSet(drafts)
        BY <1>1 DEF PlanTypeOK
      <3>2. Cardinality(drafts) \in Nat
        BY <3>1, FS_CardinalityType
      <3>3. id \in Nat \ {0}
        BY <3>2
      <3> HIDE DEF new
      <3>4. IsFiniteSet(drafts \cup {new})
        BY <3>1, FS_AddElement
      <3> QED
        BY <2>2, <3>3, <3>4
    <2> HIDE DEF id
    <2>4. turns[a0][s0] \in TurnRow
      BY <1>1, <1>2 DEF PlanTypeOK
    <2>5. turns[a0][s0] # NoTurn /\ \A q \in Actors : WorksOn(q, a0, s0) => q = p
      BY <1>1, <1>2 DEF RunsAreAlone, WorksOn, Working
    <2>6. row \in TurnRow /\ row.draft = id /\ row # NoTurn
      <3>1. row \in TurnRow /\ row.draft = id
        BY <2>3, <2>4 DEF TurnRow
      <3>2. NoTurn.draft = 0
        BY DEF NoTurn
      <3> QED
        BY <2>3, <3>1, <3>2
    <2>7. new \in DraftRow /\ new.plan = a0 /\ new.slot = s0 /\ new.id = id /\ new.articles = hand[p].picks
      BY <1>2, <2>3 DEF DraftRow, RunDrafting
    <2>8. w \in RunReporting
      <3>1. (IF hand[p].down THEN "PARTIAL" ELSE "PREPARED") \in RunStates
        BY DEF RunStates
      <3> QED
        BY <1>2, <2>3, <3>1 DEF RunDrafting, RunReporting
    <2>9. w \in HandType /\ w.at = "report" /\ w.plan = a0 /\ w.slot = s0 /\ w.draft = id
      BY <2>8 DEF HandType
    <2> HIDE DEF new, row, w
    <2>10. /\ turns' \in [Plans -> [Occurrences -> TurnRow]] /\ turns'[a0][s0] = row
           /\ \A a \in Plans, s \in Occurrences : ~(a = a0 /\ s = s0) => turns'[a][s] = turns[a][s]
      BY <1>1, <1>2, <2>2, <2>6, SetTurnWrites
    <2>11. /\ hand' \in [Actors -> HandType] /\ hand'[p] = w
           /\ \A q \in Actors \ {p} : hand'[q] = hand[q]
      BY <1>1, <2>2, <2>9 DEF PlanTypeOK
    <2>12. PlanTypeOK' /\ DatesAreOccurrences' /\ ArticlesAreStoredOnce'
      BY <1>1, <1>3, <2>2, <2>3, <2>7, <2>10, <2>11
      DEF PlanTypeOK, DatesAreOccurrences, ArticlesAreStoredOnce, Stored
    <2>13. \A d \in drafts : ~(d.plan = a0 /\ d.slot = s0)
      <3>1. \A d \in drafts : d.id # 0
        BY <1>1 DEF PlanTypeOK, DraftRow
      <3> QED
        BY <1>1, <2>1, <3>1 DEF DraftsAreRecorded
    <2>14. ASSUME NEW q \in Actors, NEW a \in Plans, NEW s \in Occurrences, WorksOn(q, a, s)'
           PROVE  WorksOn(q, a, s) /\ (q = p <=> a = a0 /\ s = s0)
      <3>1. CASE q = p
        BY <1>2, <2>9, <2>11, <2>14, <3>1 DEF WorksOn, Working
      <3>2. CASE q # p
        <4>1. hand'[q] = hand[q]
          BY <2>11, <3>2
        <4>2. WorksOn(q, a, s)
          BY <2>14, <4>1, Zenon DEF WorksOn, Working
        <4> QED
          BY <2>5, <3>2, <4>2
      <3> QED
        BY <3>1, <3>2
    <2>15. RunsAreAlone'
      <3> SUFFICES ASSUME NEW q \in Actors, NEW a \in Plans, NEW s \in Occurrences, WorksOn(q, a, s)'
                   PROVE  turns'[a][s] # NoTurn /\ \A u \in Actors : WorksOn(u, a, s)' => u = q
        BY DEF RunsAreAlone
      <3>1. WorksOn(q, a, s) /\ turns[a][s] # NoTurn /\ \A u \in Actors : WorksOn(u, a, s) => u = q
        BY <1>1, <2>14 DEF RunsAreAlone
      <3>2. turns'[a][s] # NoTurn
        BY <2>6, <2>10, <3>1
      <3> QED
        BY <2>14, <3>1, <3>2
    <2>16. DraftsAreRecorded'
      <3> SUFFICES ASSUME NEW d \in drafts'
                   PROVE  /\ turns'[d.plan][d.slot].draft = d.id
                          /\ \A q \in Actors : WorksOn(q, d.plan, d.slot)' =>
                                                 hand'[q].at \in {"report", "commit"} /\ hand'[q].draft = d.id
        BY DEF DraftsAreRecorded
      <3>1. CASE d = new
        <4>1. d.plan = a0 /\ d.slot = s0 /\ d.id = id
          BY <2>7, <3>1
        <4>2. ASSUME NEW q \in Actors, WorksOn(q, d.plan, d.slot)' PROVE q = p
          BY <1>2, <2>14, <4>1, <4>2
        <4> QED
          BY <2>6, <2>9, <2>10, <2>11, <4>1, <4>2
      <3>2. CASE d \in drafts
        <4>1. d.plan \in Plans /\ d.slot \in Occurrences /\ ~(d.plan = a0 /\ d.slot = s0)
          BY <1>1, <2>13, <3>2 DEF PlanTypeOK, DraftRow
        <4>2. turns'[d.plan][d.slot].draft = d.id
          BY <1>1, <2>10, <3>2, <4>1 DEF DraftsAreRecorded
        <4>3. ASSUME NEW q \in Actors, WorksOn(q, d.plan, d.slot)'
              PROVE  hand'[q].at \in {"report", "commit"} /\ hand'[q].draft = d.id
          <5>1. q # p /\ WorksOn(q, d.plan, d.slot)
            BY <2>14, <4>1, <4>3
          <5>2. hand'[q] = hand[q]
            BY <2>11, <5>1
          <5> QED
            BY <1>1, <3>2, <5>1, <5>2 DEF DraftsAreRecorded
        <4> QED
          BY <4>2, <4>3
      <3> QED
        BY <2>2, <3>1, <3>2
    <2>17. PicksAreJudged'
      <3>1. \A e \in Entries : Approved(e)' => e \in judged'
        BY <1>1, <1>3 DEF PicksAreJudged, Approved
      <3>2. ASSUME NEW q \in Actors, hand'[q].at \in {"read", "draft"} PROVE hand'[q].picks \subseteq judged'
        <4>1. q # p
          BY <2>9, <2>11, <3>2
        <4>2. hand'[q] = hand[q]
          BY <2>11, <4>1
        <4> QED
          BY <1>1, <1>3, <3>2, <4>2 DEF PicksAreJudged
      <3> QED
        BY <3>1, <3>2 DEF PicksAreJudged
    <2>18. OccurrenceDraftedOnce'
      BY <1>1, <2>2, <2>7, <2>13 DEF OccurrenceDraftedOnce
    <2>19. DraftsHoldJudgedArticles'
      <3>1. hand[p].picks \subseteq judged
        BY <1>1, <1>2 DEF PicksAreJudged
      <3> QED
        BY <1>1, <1>3, <2>2, <2>7, <3>1 DEF DraftsHoldJudgedArticles
    <2> QED
      BY <2>12, <2>15, <2>16, <2>17, <2>18, <2>19 DEF PlanInv
  <1> QED
    BY <1>4, <1>5

\* finishRun: what it reports is the draft its occurrence has, if any.
LEMMA CompleteRunInv ==
  ASSUME PlanInv, NEW p \in Actors, CompleteRun(p)
  PROVE  PlanInv'
  <1> DEFINE a0 == hand[p].plan
             s0 == hand[p].slot
             row == [status |-> hand[p].status, draft |-> hand[p].draft]
  <1>1. /\ PlanTypeOK /\ DatesAreOccurrences /\ RunsAreAlone /\ DraftsAreRecorded /\ PicksAreJudged
        /\ OccurrenceDraftedOnce /\ DraftsHoldJudgedArticles /\ ArticlesAreStoredOnce
    BY DEF PlanInv
  <1>2. /\ hand[p] \in RunReporting /\ hand[p].at = "commit" /\ a0 \in Plans /\ s0 \in Occurrences
        /\ hand[p].began \in 0..LastHour /\ hand[p].status \in RunStates /\ hand[p].draft \in Nat
    BY <1>1, HandsAtStage DEF CompleteRun, RunReporting
  <1>3. UNCHANGED <<stock, judged, feeds, drafts, hour>> /\ hand' = [hand EXCEPT ![p] = AtRest] /\ SetTurn(p, row)
    BY DEF CompleteRun, Rest, Takes
  <1>4. chores' \in [Plans -> [Occurrences -> JobStates]]
    <2>1. Settle(p, IF hand[p].status = "FAILED" THEN "ATTENTION" ELSE "SUCCEEDED")
      BY DEF CompleteRun
    <2> QED
      BY <1>1, <1>2, <2>1, SettledChores DEF JobStates
  <1>5. /\ plans' \in [Plans -> [on : BOOLEAN, next : Nat]]
        /\ \A a \in Plans : plans'[a].on => plans'[a].next \in Occurrences
    <2>1. plans \in [Plans -> [on : BOOLEAN, next : Nat]]
      BY <1>1 DEF PlanTypeOK
    <2>2. NextTurn(hand[p].began) \in Occurrences /\ NextTurn(hand[p].began) \in Nat
      BY <1>2, NextTurnOccurs, OccurrencesAreNats
    <2>3. \/ plans' = [plans EXCEPT ![a0] = [plans[a0] EXCEPT !.next = NextTurn(hand[p].began)]]
          \/ plans' = [plans EXCEPT ![a0] = plans[a0]]
      BY DEF CompleteRun, Redate
    <2>4. CASE plans' = [plans EXCEPT ![a0] = plans[a0]]
      BY <1>1, <2>1, <2>4 DEF DatesAreOccurrences
    <2>5. CASE plans' = [plans EXCEPT ![a0] = [plans[a0] EXCEPT !.next = NextTurn(hand[p].began)]]
      BY <1>1, <1>2, <2>1, <2>2, <2>5 DEF DatesAreOccurrences
    <2> QED
      BY <2>3, <2>4, <2>5
  <1>6. row \in TurnRow /\ row # NoTurn /\ row.draft = hand[p].draft
    <2>1. row \in TurnRow
      BY <1>2 DEF TurnRow
    <2>2. NoTurn.status \notin RunStates
      BY DEF NoTurn, RunStates
    <2> QED
      BY <1>2, <2>1, <2>2
  <1> HIDE DEF row
  <1>7. /\ turns' \in [Plans -> [Occurrences -> TurnRow]] /\ turns'[a0][s0] = row
        /\ \A a \in Plans, s \in Occurrences : ~(a = a0 /\ s = s0) => turns'[a][s] = turns[a][s]
    BY <1>1, <1>2, <1>3, <1>6, SetTurnWrites
  <1>8. /\ hand' \in [Actors -> HandType] /\ hand'[p] = AtRest
        /\ \A q \in Actors \ {p} : hand'[q] = hand[q]
    <2>1. AtRest \in HandType
      BY DEF AtRest, HandType
    <2> QED
      BY <1>1, <1>3, <2>1 DEF PlanTypeOK
  <1>9. PlanTypeOK' /\ DatesAreOccurrences' /\ ArticlesAreStoredOnce'
    BY <1>1, <1>3, <1>4, <1>5, <1>7, <1>8 DEF PlanTypeOK, DatesAreOccurrences, ArticlesAreStoredOnce, Stored
  <1>10. WorksOn(p, a0, s0)
    BY <1>2 DEF WorksOn, Working
  <1>11. ASSUME NEW q \in Actors, NEW a \in Plans, NEW s \in Occurrences, WorksOn(q, a, s)'
         PROVE  q # p /\ WorksOn(q, a, s) /\ ~(a = a0 /\ s = s0)
    <2>1. q # p
      BY <1>8, <1>11 DEF WorksOn, Working, AtRest
    <2>2. hand'[q] = hand[q]
      BY <1>8, <2>1
    <2>3. WorksOn(q, a, s)
      BY <1>11, <2>2, Zenon DEF WorksOn, Working
    <2> QED
      BY <1>1, <1>2, <1>10, <2>1, <2>3 DEF RunsAreAlone
  <1>12. RunsAreAlone'
    <2> SUFFICES ASSUME NEW q \in Actors, NEW a \in Plans, NEW s \in Occurrences, WorksOn(q, a, s)'
                 PROVE  turns'[a][s] # NoTurn /\ \A u \in Actors : WorksOn(u, a, s)' => u = q
      BY DEF RunsAreAlone
    <2>1. WorksOn(q, a, s) /\ turns'[a][s] = turns[a][s]
      BY <1>7, <1>11
    <2> QED
      BY <1>1, <1>11, <2>1 DEF RunsAreAlone
  <1>13. DraftsAreRecorded'
    <2> SUFFICES ASSUME NEW d \in drafts
                 PROVE  /\ turns'[d.plan][d.slot].draft = d.id
                        /\ \A q \in Actors : WorksOn(q, d.plan, d.slot)' =>
                                               hand'[q].at \in {"report", "commit"} /\ hand'[q].draft = d.id
      BY <1>3 DEF DraftsAreRecorded
    <2>1. d.plan \in Plans /\ d.slot \in Occurrences
      BY <1>1 DEF PlanTypeOK, DraftRow
    <2>2. turns'[d.plan][d.slot].draft = d.id
      <3>1. CASE d.plan = a0 /\ d.slot = s0
        <4>1. hand[p].draft = d.id
          BY <1>1, <1>10, <3>1 DEF DraftsAreRecorded
        <4> QED
          BY <1>6, <1>7, <3>1, <4>1
      <3>2. CASE ~(d.plan = a0 /\ d.slot = s0)
        BY <1>1, <1>7, <2>1, <3>2 DEF DraftsAreRecorded
      <3> QED
        BY <3>1, <3>2
    <2>3. ASSUME NEW q \in Actors, WorksOn(q, d.plan, d.slot)'
          PROVE  hand'[q].at \in {"report", "commit"} /\ hand'[q].draft = d.id
      <3>1. q # p /\ WorksOn(q, d.plan, d.slot)
        BY <1>11, <2>1, <2>3
      <3>2. hand'[q] = hand[q]
        BY <1>8, <3>1
      <3> QED
        BY <1>1, <3>1, <3>2 DEF DraftsAreRecorded
    <2> QED
      BY <2>2, <2>3
  <1>14. PicksAreJudged'
    <2>1. \A e \in Entries : Approved(e)' => e \in judged'
      BY <1>1, <1>3 DEF PicksAreJudged, Approved
    <2>2. ASSUME NEW q \in Actors, hand'[q].at \in {"read", "draft"} PROVE hand'[q].picks \subseteq judged'
      <3>1. q # p
        BY <1>8, <2>2 DEF AtRest
      <3>2. hand'[q] = hand[q]
        BY <1>8, <3>1
      <3> QED
        BY <1>1, <1>3, <2>2, <3>2 DEF PicksAreJudged
    <2> QED
      BY <2>1, <2>2 DEF PicksAreJudged
  <1>15. OccurrenceDraftedOnce' /\ DraftsHoldJudgedArticles'
    BY <1>1, <1>3 DEF OccurrenceDraftedOnce, DraftsHoldJudgedArticles
  <1> QED
    BY <1>9, <1>12, <1>13, <1>14, <1>15 DEF PlanInv

LEMMA PlanStepInv == PlanInv /\ [PlanNext]_planVars => PlanInv'
  <1> SUFFICES ASSUME PlanInv, [PlanNext]_planVars PROVE PlanInv'
    OBVIOUS
  <1>1. ASSUME NEW p \in Actors, Proceed(p) PROVE PlanInv'
    BY <1>1, CollectsInv, StoreInv, ClaimTurnInv, MakeDraftInv, CompleteRunInv, Zenon DEF Proceed
  <1> QED
    BY <1>1, SettingsInv, ReviewInv, RecoverInv, BeginsInv, Zenon DEF PlanNext

\* A draft is made for a run that is still preparing, of an automation that is
\* on.
LEMMA DraftIsInTime ==
  ASSUME PlanInv, [PlanNext]_planVars, NEW d \in drafts' \ drafts
  PROVE  turns[d.plan][d.slot].status = "PREPARING" /\ plans[d.plan].on
  <1>1. PICK p \in Actors : MakeDraft(p)
    <2>1. UNCHANGED drafts \/ \E p \in Actors : MakeDraft(p)
      BY DEF PlanNext, HourPasses, SetSourceEnabled, Review, SetAutomationEnabled, UpdateAutomation, EnqueueDue,
             RecoverOccurrence, RunNow, RunJob, Proceed, ClaimTurn, ReadArticles, Confirm, CompleteRun, LoseActor,
             Poll, LookEntry, StoreEntry, Pick, planVars
    <2> QED
      BY <2>1
  <1> QED
    BY <1>1 DEF MakeDraft, StillPreparing, Turn

\* Only the commit of a run moves its actor's automation, from the date the run
\* began with.
LEMMA LateRunStep ==
  ASSUME PlanInv, [PlanNext]_planVars, NEW p \in Actors, hand[p].at = "commit", hand'[p] # hand[p],
         NEW a \in Plans, plans'[a] # plans[a]
  PROVE  plans[a].on /\ plans[a].next = hand[p].base
  <1>1. PlanTypeOK
    BY DEF PlanInv
  <1>2. PICK q \in Actors : CompleteRun(q)
    <2>1. \/ UNCHANGED plans \/ UNCHANGED hand
          \/ \E q \in Actors : CompleteRun(q)
      BY DEF PlanNext, HourPasses, SetSourceEnabled, Review, SetAutomationEnabled, UpdateAutomation, EnqueueDue,
             RecoverOccurrence, RunNow, RunJob, Proceed, ClaimTurn, ReadArticles, Confirm, MakeDraft, LoseActor,
             Poll, LookEntry, StoreEntry, Pick, planVars
    <2> QED
      BY <2>1
  <1>3. q = p
    BY <1>1, <1>2 DEF CompleteRun, Rest, Takes, PlanTypeOK
  <1>4. plans' = [plans EXCEPT ![hand[p].plan] = Redate(plans[hand[p].plan], hand[p].base, hand[p].began)]
    BY <1>2, <1>3 DEF CompleteRun
  <1>5. a = hand[p].plan /\ Redate(plans[a], hand[p].base, hand[p].began) # plans[a]
    BY <1>1, <1>4 DEF PlanTypeOK
  <1> QED
    BY <1>5 DEF Redate

\* The strengthening holds in every behaviour of automations and reviews.
THEOREM PlansInvariant == PlanSpec => []PlanInv
  BY PlanInitInv, PlanStepInv, PTL DEF PlanSpec

\* automationService.ts, newsletterDraftService.ts: for any automations, staff,
\* workers and feeds, an occurrence is drafted once, of articles a person
\* approved, while its run was still preparing; and a run that ends late moves
\* its automation on only from the date it began with.
THEOREM DraftedOnce == PlanSpec => OccurrencesAreDraftedOnce
  <1>1. PlanInv => OccurrenceDraftedOnce /\ DraftsHoldJudgedArticles /\ ArticlesAreStoredOnce
    BY DEF PlanInv
  <1>2. PlanInv /\ [PlanNext]_planVars =>
          [\A d \in drafts' \ drafts :
              /\ turns[d.plan][d.slot].status = "PREPARING"
              /\ plans[d.plan].on]_planVars
    BY DraftIsInTime
  <1>3. PlanInv /\ [PlanNext]_planVars =>
          [\A p \in Actors : hand[p].at = "commit" /\ hand'[p] # hand[p] =>
              \A a \in Plans : plans'[a] # plans[a] => plans[a].on /\ plans[a].next = hand[p].base]_planVars
    BY LateRunStep
  <1>4. PlanSpec => [](OccurrenceDraftedOnce /\ DraftsHoldJudgedArticles /\ ArticlesAreStoredOnce)
    BY PlansInvariant, <1>1, PTL
  <1>5. PlanSpec => NoDraftAfterTheFact
    BY PlansInvariant, <1>2, PTL DEF PlanSpec, NoDraftAfterTheFact
  <1>6. PlanSpec => LateRunsKeepTheDate
    BY PlansInvariant, <1>3, PTL DEF PlanSpec, LateRunsKeepTheDate
  <1> QED
    BY <1>4, <1>5, <1>6 DEF OccurrencesAreDraftedOnce

(***************************************************************************)
(* Translations.                                                            *)
(***************************************************************************)
\* Rows numbered from one are as many as their last number.
LEMMA NumberedCount ==
  ASSUME NEW all, NEW n \in Nat, Numbered(all, n)
  PROVE  IsFiniteSet(all) /\ Cardinality(all) = n
  <1> DEFINE f == [i \in 1..n |-> CHOOSE t \in all : t.id = i]
  <1>1. \A i \in 1..n : \E t \in all : t.id = i
    BY DEF Numbered
  <1>2. \A i \in 1..n : f[i] \in all /\ f[i].id = i
    BY <1>1
  <1>3. f \in Bijection(1..n, all)
    <2>1. f \in [1..n -> all]
      BY <1>2
    <2>2. \A i, j \in 1..n : f[i] = f[j] => i = j
      BY <1>2
    <2>3. ASSUME NEW t \in all PROVE \E i \in 1..n : f[i] = t
      <3>1. t.id \in 1..n
        BY DEF Numbered
      <3>2. f[t.id] = t
        BY <1>2, <3>1 DEF Numbered
      <3> QED
        BY <3>1, <3>2
    <2> HIDE DEF f
    <2> QED
      BY <2>1, <2>2, <2>3 DEF Bijection, Injection, Surjection, IsInjective
  <1>4. ExistsBijection(1..n, all)
    BY <1>3 DEF ExistsBijection
  <1>5. IsFiniteSet(1..n) /\ Cardinality(1..n) = n
    BY FS_Interval
  <1> QED
    BY <1>4, <1>5, FS_Bijection

LEMMA TranslateInitInv == TranslateInit => TranslateInv
  <1> SUFFICES ASSUME TranslateInit PROVE TranslateInv
    OBVIOUS
  <1>1. TranslateTypeOK
    BY DEF TranslateInit, TranslateTypeOK, NoItem, NotWriting, WritingType
  <1>2. Cardinality(translations) = 0 /\ translations = {}
    BY FS_EmptySet DEF TranslateInit
  <1>3. AttemptsAreNumbered
    BY <1>2 DEF AttemptsAreNumbered, Numbered
  <1>4. AttemptsAreKept
    BY DEF TranslateInit, AttemptsAreKept, NotWriting
  <1>5. AliveAreAlone /\ OneHebrewPerText
    BY <1>2 DEF AliveAreAlone, OneHebrewPerText
  <1> QED
    BY <1>1, <1>3, <1>4, <1>5 DEF TranslateInv

\* Rows that come of others by failing some or taking their result away.
Descends(all, next) ==
    /\ \A u \in next : \E t \in all :
         /\ u.id = t.id /\ u.src = t.src /\ u.hash = t.hash /\ u.by = t.by /\ u.born = t.born
         /\ u.state = "RUNNING" => t.state = "RUNNING"
         /\ Hebrew(u) => Hebrew(t)
    /\ \A t \in all : \E u \in next : u.id = t.id /\ u.src = t.src /\ u.hash = t.hash /\ u.by = t.by
    /\ \A u, v \in next : u.id = v.id => u = v

LEMMA DescendantsNumbered ==
  ASSUME NEW all, NEW next, NEW n \in Nat, Numbered(all, n), Descends(all, next)
  PROVE  Numbered(next, n)
  <1>1. {u.id : u \in next} = {t.id : t \in all}
    BY DEF Descends
  <1> QED
    BY <1>1 DEF Numbered, Descends

\* What holds of the rows holds of those that come of them.
LEMMA DescendantsAlone ==
  ASSUME AliveAreAlone, OneHebrewPerText, NEW next, Descends(translations, next)
  PROVE  /\ \A t, u \in next : Alive(t) /\ u.src = t.src => (Alive(u) => u = t) /\ (Hebrew(u) => u.hash # t.hash)
         /\ \A t, u \in next : Hebrew(t) /\ Hebrew(u) /\ t.src = u.src /\ t.hash = u.hash => t = u
  <1> SUFFICES ASSUME NEW t \in next, NEW u \in next, u.src = t.src
               PROVE  /\ Alive(t) => (Alive(u) => u = t) /\ (Hebrew(u) => u.hash # t.hash)
                      /\ Hebrew(t) /\ Hebrew(u) /\ t.hash = u.hash => t = u
    BY Zenon
  <1>1. PICK t0 \in translations :
          /\ t.id = t0.id /\ t.src = t0.src /\ t.hash = t0.hash /\ t.born = t0.born
          /\ t.state = "RUNNING" => t0.state = "RUNNING"
          /\ Hebrew(t) => Hebrew(t0)
    BY DEF Descends
  <1>2. PICK u0 \in translations :
          /\ u.id = u0.id /\ u.src = u0.src /\ u.hash = u0.hash /\ u.born = u0.born
          /\ u.state = "RUNNING" => u0.state = "RUNNING"
          /\ Hebrew(u) => Hebrew(u0)
    BY DEF Descends
  <1>3. (Alive(t) => Alive(t0)) /\ (Alive(u) => Alive(u0))
    BY <1>1, <1>2 DEF Alive
  <1>4. t0 = u0 => t = u
    BY <1>1, <1>2 DEF Descends
  <1>5. Alive(t) => (Alive(u) => u = t) /\ (Hebrew(u) => u.hash # t.hash)
    BY <1>1, <1>2, <1>3, <1>4 DEF AliveAreAlone
  <1>6. Hebrew(t) /\ Hebrew(u) /\ t.hash = u.hash => t = u
    BY <1>1, <1>2, <1>4 DEF OneHebrewPerText, Hebrew
  <1> QED
    BY <1>5, <1>6

\* A step that admits nobody and completes nothing.
LEMMA QuietTranslateInv ==
  ASSUME TranslateInv, TranslateTypeOK', now <= now', Descends(translations, translations'),
         \A s \in Writers : writing'[s].at = "provider" => writing'[s] = writing[s]
  PROVE  TranslateInv'
  <1>1. TranslateTypeOK /\ AttemptsAreNumbered /\ AttemptsAreKept /\ AliveAreAlone /\ OneHebrewPerText
    BY DEF TranslateInv
  <1>2. AttemptsAreNumbered'
    <2> DEFINE n == Cardinality(translations)
    <2>1. n \in Nat /\ Numbered(translations, n)
      BY <1>1 DEF AttemptsAreNumbered
    <2> HIDE DEF n
    <2>2. Numbered(translations', n)
      BY <2>1, DescendantsNumbered
    <2>3. Cardinality(translations') = n
      BY <2>1, <2>2, NumberedCount
    <2> QED
      BY <2>1, <2>2, <2>3 DEF AttemptsAreNumbered, Numbered
  <1>3. AttemptsAreKept'
    <2> SUFFICES ASSUME NEW s \in Writers, writing'[s].at = "provider"
                 PROVE  \E u \in translations' : /\ u.id = writing'[s].id /\ u.src = writing'[s].a
                                                 /\ u.hash = writing'[s].hash /\ u.by = s
      BY DEF AttemptsAreKept
    <2>1. writing'[s] = writing[s]
      OBVIOUS
    <2>2. PICK t \in translations : /\ t.id = writing[s].id /\ t.src = writing[s].a
                                    /\ t.hash = writing[s].hash /\ t.by = s
      BY <1>1, <2>1 DEF AttemptsAreKept
    <2> QED
      BY <2>1, <2>2 DEF Descends
  <1>4. AliveAreAlone'
    <2>1. ASSUME NEW t \in translations', Alive(t)' PROVE Alive(t)
      <3>1. t.born \in Nat /\ now \in Nat /\ now' \in Nat
        BY <1>1 DEF TranslateTypeOK, AttemptRow
      <3> QED
        BY <2>1, <3>1, TranslateAssumption DEF Alive
    <2>2. \A t : Hebrew(t)' <=> Hebrew(t)
      BY DEF Hebrew
    <2> QED
      BY <1>1, <2>1, <2>2, DescendantsAlone DEF AliveAreAlone
  <1>5. OneHebrewPerText'
    BY <1>1, DescendantsAlone DEF OneHebrewPerText, Hebrew
  <1> QED
    BY <1>2, <1>3, <1>4, <1>5 DEF TranslateInv

\* Rows rewritten one by one, each keeping what it is known by.
LEMMA RewrittenDescend ==
  ASSUME NEW all, \A t, u \in all : t.id = u.id => t = u,
         NEW f, \A t \in all : /\ f[t].id = t.id /\ f[t].src = t.src /\ f[t].hash = t.hash
                               /\ f[t].by = t.by /\ f[t].born = t.born
                               /\ f[t].state = "RUNNING" => t.state = "RUNNING"
                               /\ Hebrew(f[t]) => Hebrew(t)
  PROVE  Descends(all, {f[t] : t \in all})
  <1> DEFINE next == {f[t] : t \in all}
  <1>1. \A u \in next : \E t \in all : u = f[t]
    OBVIOUS
  <1>2. \A t \in all : f[t] \in next
    OBVIOUS
  <1> HIDE DEF next
  <1>3. \A u, v \in next : u.id = v.id => u = v
    <2> SUFFICES ASSUME NEW u \in next, NEW v \in next, u.id = v.id PROVE u = v
      OBVIOUS
    <2>1. PICK t \in all : u = f[t]
      BY <1>1
    <2>2. PICK s \in all : v = f[s]
      BY <1>1
    <2>3. t.id = s.id
      BY <2>1, <2>2
    <2> QED
      BY <2>1, <2>2, <2>3
  <1>4. Descends(all, next)
    BY <1>1, <1>2, <1>3 DEF Descends
  <1> QED
    BY <1>4 DEF next

LEMMA UnchangedDescend ==
  ASSUME TranslateInv PROVE Descends(translations, translations)
  BY DEF TranslateInv, AttemptsAreNumbered, Numbered, Descends

\* Attempts whose time is up are failed, and are no others' then.
LEMMA InterruptDescends ==
  ASSUME TranslateInv
  PROVE  /\ Interrupt(translations) \subseteq AttemptRow
         /\ Descends(translations, Interrupt(translations))
         /\ \A t \in Interrupt(translations) : t.state = "RUNNING" => ~Expired(t)
  <1> DEFINE f == [t \in translations |-> IF Expired(t) THEN [t EXCEPT !.state = "FAILED"] ELSE t]
  <1>1. translations \subseteq AttemptRow /\ \A t, u \in translations : t.id = u.id => t = u
    BY DEF TranslateInv, TranslateTypeOK, AttemptsAreNumbered, Numbered
  <1>2. ASSUME NEW t \in translations
        PROVE  /\ f[t] \in AttemptRow
               /\ f[t].id = t.id /\ f[t].src = t.src /\ f[t].hash = t.hash
               /\ f[t].by = t.by /\ f[t].born = t.born
               /\ f[t].state = "RUNNING" => t.state = "RUNNING" /\ f[t] = t /\ ~Expired(t)
               /\ Hebrew(f[t]) => Hebrew(t)
    <2>1. t \in AttemptRow
      BY <1>1
    <2>2. CASE Expired(t)
      <3>1. f[t] = [t EXCEPT !.state = "FAILED"]
        BY <2>2
      <3>2. /\ f[t] \in AttemptRow
            /\ f[t].id = t.id /\ f[t].src = t.src /\ f[t].hash = t.hash
            /\ f[t].by = t.by /\ f[t].born = t.born /\ f[t].state = "FAILED"
        BY <2>1, <3>1 DEF AttemptRow
      <3> QED
        BY <3>2 DEF Hebrew
    <2>3. CASE ~Expired(t)
      <3>1. f[t] = t
        BY <2>3
      <3> QED
        BY <2>1, <2>3, <3>1
    <2> QED
      BY <2>2, <2>3
  <1>3. Interrupt(translations) = {f[t] : t \in translations}
    BY DEF Interrupt
  <1> HIDE DEF f
  <1>4. Descends(translations, {f[t] : t \in translations})
    BY <1>1, <1>2, RewrittenDescend
  <1> QED
    BY <1>2, <1>3, <1>4

\* Requests, receipts, the clock and everything that only ends.
LEMMA DeskWorkInv ==
  ASSUME TranslateInv,
         \/ MinutePasses \/ UNCHANGED translateVars
         \/ \E s \in Writers :
              \/ \E a \in Originals : Request(s, a) \/ PrepareForChatgpt(s, a) \/ UpdateContent(s, a)
              \/ WalkAway(s) \/ DisableOriginal(s)
  PROVE  TranslateInv'
  <1>1. TranslateTypeOK
    BY DEF TranslateInv
  <1>2. ASSUME UNCHANGED <<items, translations>>, active' \subseteq Writers, now' \in Nat, now <= now', UNCHANGED writing
        PROVE  TranslateInv'
    <2>1. TranslateTypeOK'
      BY <1>1, <1>2 DEF TranslateTypeOK
    <2> QED
      BY <1>2, <2>1, QuietTranslateInv, UnchangedDescend
  <1>3. now \in Nat /\ now <= now /\ active \subseteq Writers
    BY <1>1 DEF TranslateTypeOK
  <1>4. CASE MinutePasses
    <2>1. now' \in Nat /\ now <= now'
      BY <1>3, <1>4 DEF MinutePasses
    <2> QED
      BY <1>2, <1>3, <1>4, <2>1 DEF MinutePasses
  <1>5. CASE UNCHANGED translateVars
    BY <1>2, <1>3, <1>5 DEF translateVars
  <1>6. ASSUME NEW s \in Writers, DisableOriginal(s) PROVE TranslateInv'
    <2>1. active' \subseteq Writers
      BY <1>3, <1>6 DEF DisableOriginal
    <2> QED
      BY <1>2, <1>3, <1>6, <2>1 DEF DisableOriginal
  <1>7. ASSUME NEW s \in Writers, NEW w \in WritingType, w.at # "provider", Sit(s, w),
               UNCHANGED <<items, translations, active, now>>
        PROVE  TranslateInv'
    <2>1. writing' \in [Writers -> WritingType] /\ \A u \in Writers : writing'[u] = w \/ writing'[u] = writing[u]
      BY <1>1, <1>7 DEF TranslateTypeOK, Sit
    <2>2. TranslateTypeOK'
      BY <1>1, <1>7, <2>1 DEF TranslateTypeOK
    <2>3. \A u \in Writers : writing'[u].at = "provider" => writing'[u] = writing[u]
      BY <1>7, <2>1
    <2>4. Descends(translations, translations')
      BY <1>7, UnchangedDescend
    <2> QED
      BY <1>3, <1>7, <2>2, <2>3, <2>4, QuietTranslateInv
  <1>8. ASSUME NEW a \in Originals PROVE fingerprint(a) \in Nat
    BY <1>1 DEF TranslateTypeOK, fingerprint
  <1>9. ASSUME NEW s \in Writers, NEW a \in Originals, Request(s, a) PROVE TranslateInv'
    <2> DEFINE w == [at |-> "admission", a |-> a, hash |-> fingerprint(a)]
    <2>1. w \in WritingType /\ w.at # "provider"
      BY <1>8 DEF WritingType
    <2>2. Sit(s, w) /\ UNCHANGED <<items, translations, active, now>>
      BY <1>9 DEF Request, Arrive
    <2> HIDE DEF w
    <2> QED
      BY <1>7, <2>1, <2>2
  <1>10. ASSUME NEW s \in Writers, NEW a \in Originals, PrepareForChatgpt(s, a) PROVE TranslateInv'
    <2> DEFINE w == [at |-> "chatgpt", a |-> a, hash |-> fingerprint(a), expires |-> now + Day]
    <2>1. now + Day \in Nat
      BY <1>3, TranslateAssumption
    <2>2. w \in WritingType /\ w.at # "provider"
      BY <1>8, <2>1 DEF WritingType
    <2>3. Sit(s, w) /\ UNCHANGED <<items, translations, active, now>>
      BY <1>10 DEF PrepareForChatgpt, Arrive
    <2> HIDE DEF w
    <2> QED
      BY <1>7, <2>2, <2>3
  <1>11. ASSUME NEW s \in Writers, WalkAway(s) PROVE TranslateInv'
    <2>1. NotWriting \in WritingType /\ NotWriting.at # "provider"
      BY DEF NotWriting, WritingType
    <2> QED
      BY <1>7, <1>11, <2>1 DEF WalkAway
  <1>12. ASSUME NEW s \in Writers, NEW a \in Originals, UpdateContent(s, a) PROVE TranslateInv'
    <2>1. items' \in [Originals \cup Drafts -> [text : Nat]]
      BY <1>1, <1>12 DEF UpdateContent, TranslateTypeOK
    <2>2. UNCHANGED <<translations, active, now, writing>>
      BY <1>12 DEF UpdateContent
    <2>3. TranslateTypeOK'
      BY <1>1, <2>1, <2>2 DEF TranslateTypeOK
    <2>4. Descends(translations, translations')
      BY <2>2, UnchangedDescend
    <2> QED
      BY <1>3, <2>2, <2>3, <2>4, QuietTranslateInv
  <1> QED
    BY <1>4, <1>5, <1>6, <1>9, <1>10, <1>11, <1>12

\* Deleting a translation takes its attempt's result away and no more.
LEMMA DeleteContentInv ==
  ASSUME TranslateInv, NEW s \in Writers, NEW a \in Originals \cup Drafts, DeleteContent(s, a)
  PROVE  TranslateInv'
  <1> DEFINE f == [t \in translations |-> IF t.gen = a THEN [t EXCEPT !.gen = "gone"] ELSE t]
  <1>1. TranslateTypeOK
    BY DEF TranslateInv
  <1>2. translations \subseteq AttemptRow /\ \A t, u \in translations : t.id = u.id => t = u
    BY DEF TranslateInv, TranslateTypeOK, AttemptsAreNumbered, Numbered
  <1>3. ASSUME NEW t \in translations
        PROVE  /\ f[t] \in AttemptRow
               /\ f[t].id = t.id /\ f[t].src = t.src /\ f[t].hash = t.hash
               /\ f[t].by = t.by /\ f[t].born = t.born
               /\ f[t].state = "RUNNING" => t.state = "RUNNING"
               /\ Hebrew(f[t]) => Hebrew(t)
    <2>1. t \in AttemptRow
      BY <1>2
    <2>2. CASE t.gen = a
      <3>1. f[t] = [t EXCEPT !.gen = "gone"]
        BY <2>2
      <3>2. /\ f[t] \in AttemptRow
            /\ f[t].id = t.id /\ f[t].src = t.src /\ f[t].hash = t.hash
            /\ f[t].by = t.by /\ f[t].born = t.born /\ f[t].state = t.state /\ f[t].gen = "gone"
        BY <2>1, <3>1 DEF AttemptRow
      <3> QED
        BY <3>2, TranslateAssumption DEF Hebrew
    <2>3. CASE t.gen # a
      <3>1. f[t] = t
        BY <2>3
      <3> QED
        BY <2>1, <3>1
    <2> QED
      BY <2>2, <2>3
  <1>4. translations' = {f[t] : t \in translations}
    BY DEF DeleteContent
  <1> HIDE DEF f
  <1>5. Descends(translations, translations') /\ translations' \subseteq AttemptRow
    BY <1>2, <1>3, <1>4, RewrittenDescend
  <1>6. items' \in [Originals \cup Drafts -> [text : Nat]]
    BY <1>1 DEF DeleteContent, TranslateTypeOK, NoItem
  <1>7. UNCHANGED <<active, now, writing>> /\ now \in Nat
    BY <1>1 DEF DeleteContent, TranslateTypeOK
  <1>8. TranslateTypeOK'
    BY <1>1, <1>5, <1>6, <1>7 DEF TranslateTypeOK
  <1> QED
    BY <1>5, <1>7, <1>8, QuietTranslateInv

\* One more row, numbered after the others, where nothing of its text is alive.
LEMMA AddedRowInv ==
  ASSUME TranslateInv, TranslateTypeOK', now' = now,
         NEW all, Descends(translations, all), NEW row, row.id = FreshId(all),
         translations' = all \cup {row},
         \A u \in all : u.src = row.src => ~Alive(u) /\ (Hebrew(u) => u.hash # row.hash),
         \A s \in Writers : writing'[s].at = "provider" =>
            \/ writing'[s] = writing[s]
            \/ writing'[s].id = row.id /\ writing'[s].a = row.src /\ writing'[s].hash = row.hash /\ row.by = s
  PROVE  TranslateInv'
  <1>1. TranslateTypeOK /\ AttemptsAreNumbered /\ AttemptsAreKept /\ AliveAreAlone /\ OneHebrewPerText
    BY DEF TranslateInv
  <1>2. PICK n \in Nat : Numbered(all, n)
    BY <1>1, DescendantsNumbered DEF AttemptsAreNumbered
  <1>3. row.id = n + 1
    BY <1>2, NumberedCount DEF FreshId
  <1>4. \A u \in all : u.id \in 1..n
    BY <1>2 DEF Numbered
  <1>5. \A u \in all : u.id # row.id
    BY <1>3, <1>4
  <1>6. AttemptsAreNumbered'
    <2>1. {t.id : t \in translations'} = {t.id : t \in all} \cup {row.id}
      BY Zenon
    <2>2. 1..n \cup {n + 1} = 1..(n + 1) /\ n + 1 \in Nat
      OBVIOUS
    <2>3. {t.id : t \in translations'} = 1..(n + 1)
      BY <1>2, <1>3, <2>1, <2>2 DEF Numbered
    <2>4. \A t, u \in translations' : t.id = u.id => t = u
      BY <1>2, <1>5 DEF Numbered
    <2>5. Numbered(translations', n + 1)
      BY <2>3, <2>4 DEF Numbered
    <2>6. Cardinality(translations') = n + 1
      BY <2>2, <2>5, NumberedCount
    <2> QED
      BY <2>2, <2>5, <2>6 DEF AttemptsAreNumbered, Numbered
  <1>7. AttemptsAreKept'
    <2> SUFFICES ASSUME NEW s \in Writers, writing'[s].at = "provider"
                 PROVE  \E u \in translations' : /\ u.id = writing'[s].id /\ u.src = writing'[s].a
                                                 /\ u.hash = writing'[s].hash /\ u.by = s
      BY DEF AttemptsAreKept
    <2>1. CASE writing'[s] = writing[s]
      <3>1. PICK t \in translations : /\ t.id = writing[s].id /\ t.src = writing[s].a
                                      /\ t.hash = writing[s].hash /\ t.by = s
        BY <1>1, <2>1 DEF AttemptsAreKept
      <3>2. PICK u \in all : u.id = t.id /\ u.src = t.src /\ u.hash = t.hash /\ u.by = t.by
        BY DEF Descends
      <3> QED
        BY <2>1, <3>1, <3>2
    <2>2. CASE writing'[s] # writing[s]
      BY <2>2
    <2> QED
      BY <2>1, <2>2
  <1>8. \A u : (Alive(u)' <=> Alive(u)) /\ (Hebrew(u)' <=> Hebrew(u))
    BY DEF Alive, Hebrew
  <1>9. /\ \A t, u \in all : Alive(t) /\ u.src = t.src => (Alive(u) => u = t) /\ (Hebrew(u) => u.hash # t.hash)
        /\ \A t, u \in all : Hebrew(t) /\ Hebrew(u) /\ t.src = u.src /\ t.hash = u.hash => t = u
    BY <1>1, DescendantsAlone
  <1>10. AliveAreAlone'
    <2> SUFFICES ASSUME NEW t \in translations', NEW u \in translations', Alive(t), u.src = t.src
                 PROVE  (Alive(u) => u = t) /\ (Hebrew(u) => u.hash # t.hash)
      BY <1>8 DEF AliveAreAlone
    <2>1. CASE t \in all /\ u \in all
      BY <1>9, <2>1
    <2>2. CASE t = row /\ u \in all
      BY <2>2
    <2>3. CASE t \in all /\ u = row
      BY <2>3
    <2>4. CASE t = row /\ u = row
      BY <2>4 DEF Alive, Hebrew
    <2> QED
      BY <2>1, <2>2, <2>3, <2>4
  <1>11. OneHebrewPerText'
    <2> SUFFICES ASSUME NEW t \in translations', NEW u \in translations',
                        Hebrew(t), Hebrew(u), t.src = u.src, t.hash = u.hash
                 PROVE  t = u
      BY DEF OneHebrewPerText, Hebrew
    <2>1. CASE t \in all /\ u \in all
      BY <1>9, <2>1
    <2>2. CASE t = row /\ u \in all
      BY <2>2
    <2>3. CASE t \in all /\ u = row
      BY <2>3
    <2> QED
      BY <2>1, <2>2, <2>3
  <1> QED
    BY <1>6, <1>7, <1>10, <1>11 DEF TranslateInv

\* Admission fails what is overdue, and admits where nothing runs or stands.
LEMMA AdmitInv ==
  ASSUME TranslateInv, NEW s \in Writers, Admit(s)
  PROVE  TranslateInv'
  <1> DEFINE all == Interrupt(translations)
  <1> DEFINE row == [id |-> FreshId(all), src |-> writing[s].a, hash |-> writing[s].hash, by |-> s,
                     state |-> "RUNNING", born |-> now, gen |-> "none", manual |-> FALSE]
  <1> DEFINE w == [at |-> "provider", id |-> row.id, a |-> writing[s].a, hash |-> writing[s].hash]
  <1>1. TranslateTypeOK
    BY DEF TranslateInv
  <1>2. UNCHANGED <<items, active, now>> /\ now \in Nat /\ writing[s].at = "admission"
    BY <1>1 DEF Admit, TranslateTypeOK
  <1>3. writing[s].a \in Originals /\ writing[s].hash \in Nat
    BY <1>1, <1>2 DEF TranslateTypeOK, WritingType
  <1>4. all \subseteq AttemptRow /\ Descends(translations, all)
    BY InterruptDescends
  <1>5. FreshId(all) \in Nat
    <2>1. PICK n \in Nat : Numbered(all, n)
      BY <1>4, DescendantsNumbered DEF TranslateInv, AttemptsAreNumbered
    <2> QED
      BY <2>1, NumberedCount DEF FreshId
  <1>6. /\ row \in AttemptRow /\ row.id = FreshId(all) /\ row.src = writing[s].a
        /\ row.hash = writing[s].hash /\ row.by = s
    BY <1>2, <1>3, <1>5 DEF AttemptRow
  <1>7. /\ w \in WritingType /\ w.id = row.id /\ w.a = row.src /\ w.hash = row.hash
    BY <1>3, <1>5 DEF WritingType
  <1>8. \/ /\ Ready(all, writing[s].a, writing[s].hash) = {}
           /\ ~\E t \in Running(all) : t.src = writing[s].a
           /\ translations' = all \cup {row} /\ Sit(s, w)
        \/ translations' = all /\ Sit(s, NotWriting)
    BY DEF Admit
  <1> HIDE DEF row, w, all
  <1>9. ASSUME translations' = all, Sit(s, NotWriting) PROVE TranslateInv'
    <2>1. NotWriting \in WritingType /\ NotWriting.at # "provider"
      BY DEF NotWriting, WritingType
    <2>2. /\ writing' \in [Writers -> WritingType]
          /\ \A u \in Writers : writing'[u] = NotWriting \/ writing'[u] = writing[u]
      BY <1>1, <1>9, <2>1 DEF TranslateTypeOK, Sit
    <2>3. TranslateTypeOK'
      BY <1>1, <1>2, <1>4, <1>9, <2>2 DEF TranslateTypeOK
    <2>4. \A u \in Writers : writing'[u].at = "provider" => writing'[u] = writing[u]
      BY <2>1, <2>2
    <2>5. now <= now'
      BY <1>2
    <2>6. Descends(translations, translations')
      BY <1>4, <1>9
    <2> QED
      BY <2>3, <2>4, <2>5, <2>6, QuietTranslateInv
  <1>10. ASSUME Ready(all, writing[s].a, writing[s].hash) = {},
                ~\E t \in Running(all) : t.src = writing[s].a,
                translations' = all \cup {row}, Sit(s, w)
         PROVE  TranslateInv'
    <2>1. /\ writing' \in [Writers -> WritingType] /\ writing'[s] = w
          /\ \A u \in Writers \ {s} : writing'[u] = writing[u]
      BY <1>1, <1>7, <1>10 DEF TranslateTypeOK, Sit
    <2>2. TranslateTypeOK'
      BY <1>1, <1>2, <1>4, <1>6, <1>10, <2>1 DEF TranslateTypeOK
    <2>3. \A u \in all : u.src = row.src => ~Alive(u) /\ (Hebrew(u) => u.hash # row.hash)
      <3> SUFFICES ASSUME NEW u \in all, u.src = row.src
                   PROVE  ~Alive(u) /\ (Hebrew(u) => u.hash # row.hash)
        OBVIOUS
      <3>1. u.state # "RUNNING"
        BY <1>6, <1>10 DEF Running
      <3>2. u.hash = row.hash => ~Hebrew(u)
        BY <1>6, <1>10 DEF Ready, Hebrew
      <3> QED
        BY <3>1, <3>2 DEF Alive
    <2>4. \A u \in Writers : writing'[u].at = "provider" =>
            \/ writing'[u] = writing[u]
            \/ writing'[u].id = row.id /\ writing'[u].a = row.src /\ writing'[u].hash = row.hash /\ row.by = u
      BY <1>6, <1>7, <2>1
    <2> QED
      BY <1>2, <1>4, <1>6, <1>10, <2>2, <2>3, <2>4, AddedRowInv
  <1> QED
    BY <1>8, <1>9, <1>10

\* A reply is saved where no attempt is due and no Hebrew of the text stands.
LEMMA SaveFromChatgptInv ==
  ASSUME TranslateInv, NEW s \in Writers, NEW g \in Drafts, SaveFromChatgpt(s, g)
  PROVE  TranslateInv'
  <1> DEFINE row == [id |-> FreshId(translations), src |-> writing[s].a, hash |-> writing[s].hash, by |-> s,
                     state |-> "READY", born |-> now, gen |-> g, manual |-> TRUE]
  <1>1. TranslateTypeOK
    BY DEF TranslateInv
  <1>2. /\ UNCHANGED <<active, now>> /\ now \in Nat /\ writing[s].at = "chatgpt" /\ Sit(s, NotWriting)
        /\ Descends(translations, translations)
    BY <1>1, UnchangedDescend DEF SaveFromChatgpt, TranslateTypeOK
  <1>3. NotWriting \in WritingType /\ NotWriting.at # "provider"
    BY DEF NotWriting, WritingType
  <1>4. /\ writing' \in [Writers -> WritingType]
        /\ \A u \in Writers : writing'[u] = NotWriting \/ writing'[u] = writing[u]
    BY <1>1, <1>2, <1>3 DEF TranslateTypeOK, Sit
  <1>5. \A u \in Writers : writing'[u].at = "provider" => writing'[u] = writing[u]
    BY <1>3, <1>4
  <1>6. ASSUME UNCHANGED <<items, translations>> PROVE TranslateInv'
    <2>1. TranslateTypeOK' /\ now <= now'
      BY <1>1, <1>2, <1>4, <1>6 DEF TranslateTypeOK
    <2> QED
      BY <1>2, <1>5, <1>6, <2>1, QuietTranslateInv
  <1>7. ASSUME ImportAllowed(s, writing[s]), NewDraft(g, writing[s].a), translations' = translations \cup {row}
        PROVE  TranslateInv'
    <2>1. writing[s].a \in Originals /\ writing[s].hash \in Nat
      BY <1>1, <1>2 DEF TranslateTypeOK, WritingType
    <2>2. FreshId(translations) \in Nat
      BY DEF TranslateInv, AttemptsAreNumbered, FreshId
    <2>3. /\ row \in AttemptRow /\ row.id = FreshId(translations) /\ row.src = writing[s].a
          /\ row.hash = writing[s].hash
      BY <1>2, <2>1, <2>2 DEF AttemptRow
    <2> HIDE DEF row
    <2>4. items' \in [Originals \cup Drafts -> [text : Nat]]
      BY <1>1, <1>7, <2>1 DEF NewDraft, fingerprint, TranslateTypeOK
    <2>5. TranslateTypeOK'
      BY <1>1, <1>2, <1>4, <1>7, <2>3, <2>4 DEF TranslateTypeOK
    <2>6. \A u \in translations : u.src = row.src => ~Alive(u) /\ (Hebrew(u) => u.hash # row.hash)
      <3> SUFFICES ASSUME NEW u \in translations, u.src = row.src
                   PROVE  ~Alive(u) /\ (Hebrew(u) => u.hash # row.hash)
        OBVIOUS
      <3>1. u.hash = row.hash => ~Hebrew(u)
        BY <1>7, <2>3 DEF ImportAllowed, Ready, Hebrew
      <3>2. ~(u.state = "RUNNING" /\ u.born >= now - Timeout)
        BY <1>7, <2>3 DEF ImportAllowed, Running
      <3>3. u.born \in Nat
        BY <1>1 DEF TranslateTypeOK, AttemptRow
      <3> QED
        BY <1>2, <3>1, <3>2, <3>3, TranslateAssumption DEF Alive
    <2> QED
      BY <1>2, <1>5, <1>7, <2>3, <2>5, <2>6, AddedRowInv
  <1> QED
    BY <1>6, <1>7 DEF SaveFromChatgpt

\* Who waits for the provider finds the attempt of their own.
LEMMA OwnAttempt ==
  ASSUME TranslateInv, NEW s \in Writers, writing[s].at = "provider"
  PROVE  LET r == Attempt(writing[s].id) IN
         /\ r \in translations /\ r \in AttemptRow /\ r.id = writing[s].id
         /\ r.src = writing[s].a /\ r.hash = writing[s].hash /\ r.by = s
         /\ \A t \in translations : t.id = writing[s].id <=> t = r
  <1> DEFINE r == Attempt(writing[s].id)
  <1>1. PICK t \in translations : /\ t.id = writing[s].id /\ t.src = writing[s].a
                                  /\ t.hash = writing[s].hash /\ t.by = s
    BY DEF TranslateInv, AttemptsAreKept
  <1>2. r \in translations /\ r.id = writing[s].id
    BY <1>1, Zenon DEF Attempt
  <1>3. \A u \in translations : u.id = r.id => u = r
    BY <1>2, Zenon DEF TranslateInv, AttemptsAreNumbered, Numbered
  <1>4. t = r
    BY <1>1, <1>2, <1>3, Zenon
  <1>5. r \in AttemptRow
    BY <1>2 DEF TranslateInv, TranslateTypeOK
  <1> HIDE DEF r
  <1>6. /\ r \in translations /\ r \in AttemptRow /\ r.id = writing[s].id
        /\ r.src = writing[s].a /\ r.hash = writing[s].hash /\ r.by = s
        /\ \A u \in translations : u.id = writing[s].id <=> u = r
    BY <1>1, <1>2, <1>3, <1>4, <1>5
  <1> QED
    BY <1>6 DEF r

\* An answer too late, refused or overtaken fails the attempt and no more.
LEMMA FailedAttemptInv ==
  ASSUME TranslateInv, NEW s \in Writers, writing[s].at = "provider",
         NEW r, r = Attempt(writing[s].id),
         NEW w \in AttemptRow, Change(writing[s].id, w),
         w.id = r.id, w.src = r.src, w.hash = r.hash, w.by = r.by, w.born = r.born,
         w.gen = r.gen, w.state # "RUNNING", w.state = "READY" => r.state = "READY",
         Sit(s, NotWriting), UNCHANGED <<items, active, now>>
  PROVE  TranslateInv'
  <1>1. TranslateTypeOK
    BY DEF TranslateInv
  <1>2. /\ r \in translations /\ r \in AttemptRow /\ r.id = writing[s].id
        /\ \A t \in translations : t.id = writing[s].id <=> t = r
    BY OwnAttempt
  <1>3. translations' = {IF t.id = writing[s].id THEN w ELSE t : t \in translations}
    BY DEF Change
  <1>4. translations' = (translations \ {r}) \cup {w}
    BY <1>2, <1>3
  <1>5. Hebrew(w) => Hebrew(r)
    BY DEF Hebrew
  <1>6. Descends(translations, translations') /\ translations' \subseteq AttemptRow
    <2>1. \A t \in translations : t.id = r.id => t = r
      BY <1>2
    <2>2. \A t, u \in translations : t.id = u.id => t = u
      BY DEF TranslateInv, AttemptsAreNumbered, Numbered
    <2>3. \A u \in translations' : \E t \in translations :
            /\ u.id = t.id /\ u.src = t.src /\ u.hash = t.hash /\ u.by = t.by /\ u.born = t.born
            /\ u.state = "RUNNING" => t.state = "RUNNING"
            /\ Hebrew(u) => Hebrew(t)
      BY <1>2, <1>4, <1>5
    <2>4. \A t \in translations : \E u \in translations' :
            u.id = t.id /\ u.src = t.src /\ u.hash = t.hash /\ u.by = t.by
      BY <1>4
    <2>5. \A u, v \in translations' : u.id = v.id => u = v
      BY <1>4, <2>1, <2>2
    <2> QED
      BY <1>1, <1>4, <2>3, <2>4, <2>5 DEF Descends, TranslateTypeOK
  <1>7. NotWriting \in WritingType /\ NotWriting.at # "provider"
    BY DEF NotWriting, WritingType
  <1>8. /\ writing' \in [Writers -> WritingType]
         /\ \A u \in Writers : writing'[u] = NotWriting \/ writing'[u] = writing[u]
    BY <1>1, <1>7 DEF TranslateTypeOK, Sit
  <1>9. TranslateTypeOK' /\ now <= now'
    BY <1>1, <1>6, <1>8 DEF TranslateTypeOK
  <1>10. \A u \in Writers : writing'[u].at = "provider" => writing'[u] = writing[u]
    BY <1>7, <1>8
  <1> QED
    BY <1>6, <1>9, <1>10, QuietTranslateInv

\* An answer in time takes the place of its attempt, which was alone.
LEMMA ReadyAttemptInv ==
  ASSUME TranslateInv, NEW s \in Writers, NEW g \in Drafts, writing[s].at = "provider",
         StillWanted(s, writing[s]), NewDraft(g, writing[s].a),
         Change(writing[s].id, [Attempt(writing[s].id) EXCEPT !.state = "READY", !.gen = g]),
         Sit(s, NotWriting), UNCHANGED <<active, now>>
  PROVE  TranslateInv'
  <1> DEFINE r == Attempt(writing[s].id)
  <1> DEFINE w == [r EXCEPT !.state = "READY", !.gen = g]
  <1>1. TranslateTypeOK /\ AttemptsAreNumbered /\ AttemptsAreKept /\ AliveAreAlone /\ OneHebrewPerText
    BY DEF TranslateInv
  <1>2. /\ r \in translations /\ r \in AttemptRow /\ r.id = writing[s].id /\ r.src = writing[s].a
        /\ \A t \in translations : t.id = writing[s].id <=> t = r
    BY OwnAttempt
  <1>3. translations' = {IF t.id = writing[s].id THEN w ELSE t : t \in translations}
    BY DEF Change
  <1>4. Alive(r)
    BY DEF StillWanted, Alive
  <1> HIDE DEF r
  <1>5. /\ w \in AttemptRow /\ w.id = r.id /\ w.src = r.src /\ w.hash = r.hash /\ w.by = r.by
        /\ w.state = "READY" /\ w.gen = g
    BY <1>2 DEF AttemptRow
  <1> HIDE DEF w
  <1>6. translations' = (translations \ {r}) \cup {w}
    BY <1>2, <1>3
  <1>7. NotWriting \in WritingType /\ NotWriting.at # "provider"
    BY DEF NotWriting, WritingType
  <1>8. /\ writing' \in [Writers -> WritingType]
        /\ \A u \in Writers : writing'[u] = NotWriting \/ writing'[u] = writing[u]
    BY <1>1, <1>7 DEF TranslateTypeOK, Sit
  <1>9. TranslateTypeOK'
    <2>1. writing[s].a \in Originals
      BY <1>2 DEF AttemptRow
    <2>2. items' \in [Originals \cup Drafts -> [text : Nat]]
      BY <1>1, <2>1 DEF NewDraft, fingerprint, TranslateTypeOK
    <2> QED
      BY <1>1, <1>5, <1>6, <1>8, <2>2 DEF TranslateTypeOK
  <1>10. PICK n \in Nat : n = Cardinality(translations) /\ Numbered(translations, n)
    BY <1>1 DEF AttemptsAreNumbered
  <1>11. \A t \in translations : t.id = r.id => t = r
    BY <1>2
  <1>12. AttemptsAreNumbered'
    <2>1. {t.id : t \in translations'} = {t.id : t \in translations}
      BY <1>2, <1>5, <1>6
    <2>2. \A t, u \in translations' : t.id = u.id => t = u
      BY <1>5, <1>6, <1>10, <1>11 DEF Numbered
    <2>3. Numbered(translations', n)
      BY <1>10, <2>1, <2>2 DEF Numbered
    <2>4. Cardinality(translations') = n
      BY <2>3, NumberedCount
    <2> QED
      BY <2>3, <2>4 DEF AttemptsAreNumbered, Numbered
  <1>13. AttemptsAreKept'
    <2> SUFFICES ASSUME NEW u \in Writers, writing'[u].at = "provider"
                 PROVE  \E t \in translations' : /\ t.id = writing'[u].id /\ t.src = writing'[u].a
                                                 /\ t.hash = writing'[u].hash /\ t.by = u
      BY DEF AttemptsAreKept
    <2>1. writing'[u] = writing[u]
      BY <1>7, <1>8
    <2>2. PICK t \in translations : /\ t.id = writing[u].id /\ t.src = writing[u].a
                                    /\ t.hash = writing[u].hash /\ t.by = u
      BY <1>1, <2>1 DEF AttemptsAreKept
    <2>3. CASE t = r
      BY <1>5, <1>6, <2>1, <2>2, <2>3
    <2>4. CASE t # r
      BY <1>6, <2>1, <2>2, <2>4
    <2> QED
      BY <2>3, <2>4
  <1>14. \A t : (Alive(t)' <=> Alive(t)) /\ (Hebrew(t)' <=> Hebrew(t))
    BY DEF Alive, Hebrew
  <1>15. ~Alive(w)
    BY <1>5 DEF Alive
  <1>16. \A u \in translations : u.src = r.src /\ u # r => ~Alive(u) /\ (Hebrew(u) => u.hash # r.hash)
    BY <1>1, <1>2, <1>4 DEF AliveAreAlone
  <1>17. AliveAreAlone'
    <2> SUFFICES ASSUME NEW t \in translations', NEW u \in translations', Alive(t), u.src = t.src
                 PROVE  (Alive(u) => u = t) /\ (Hebrew(u) => u.hash # t.hash)
      BY <1>14 DEF AliveAreAlone
    <2>1. t \in translations /\ t # r
      BY <1>6, <1>15
    <2>2. t.src # r.src
      BY <1>16, <2>1
    <2>3. u \in translations
      BY <1>5, <1>6, <2>2
    <2> QED
      BY <1>1, <2>1, <2>3 DEF AliveAreAlone
  <1>18. OneHebrewPerText'
    <2> SUFFICES ASSUME NEW t \in translations', NEW u \in translations',
                        Hebrew(t), Hebrew(u), t.src = u.src, t.hash = u.hash
                 PROVE  t = u
      BY DEF OneHebrewPerText, Hebrew
    <2>1. CASE t = w
      BY <1>5, <1>6, <1>16, <2>1
    <2>2. CASE u = w
      BY <1>5, <1>6, <1>16, <2>2
    <2>3. CASE t # w /\ u # w
      BY <1>1, <1>6, <2>3 DEF OneHebrewPerText, Hebrew
    <2> QED
      BY <2>1, <2>2, <2>3
  <1> QED
    BY <1>9, <1>12, <1>13, <1>17, <1>18 DEF TranslateInv

LEMMA CompleteInv ==
  ASSUME TranslateInv, NEW s \in Writers, NEW g \in Drafts, NEW answered \in BOOLEAN, Complete(s, g, answered)
  PROVE  TranslateInv'
  <1>1. CASE answered /\ StillWanted(s, writing[s])
    BY <1>1, ReadyAttemptInv DEF Complete
  <1>2. CASE ~(answered /\ StillWanted(s, writing[s]))
    <2> DEFINE r == Attempt(writing[s].id)
    <2> DEFINE w == [r EXCEPT !.state = IF r.state = "RUNNING" THEN "FAILED" ELSE r.state]
    <2>1. /\ writing[s].at = "provider" /\ Change(writing[s].id, w)
          /\ Sit(s, NotWriting) /\ UNCHANGED <<items, active, now>>
      BY <1>2 DEF Complete
    <2>2. r = Attempt(writing[s].id) /\ r \in AttemptRow
      BY <2>1, OwnAttempt
    <2> HIDE DEF r
    <2>3. (IF r.state = "RUNNING" THEN "FAILED" ELSE r.state) \in {"READY", "FAILED"}
      BY <2>2 DEF AttemptRow
    <2>4. /\ w \in AttemptRow
          /\ w.id = r.id /\ w.src = r.src /\ w.hash = r.hash /\ w.by = r.by /\ w.born = r.born
          /\ w.state # "RUNNING" /\ w.gen = r.gen
          /\ w.state = "READY" => r.state = "READY"
      BY <2>2, <2>3 DEF AttemptRow
    <2> HIDE DEF w
    <2> QED
      BY <2>1, <2>2, <2>4, FailedAttemptInv
  <1> QED
    BY <1>1, <1>2

LEMMA TranslateStepInv == TranslateInv /\ [TranslateNext]_translateVars => TranslateInv'
  BY DeskWorkInv, DeleteContentInv, AdmitInv, CompleteInv, SaveFromChatgptInv DEF TranslateNext, Translate

\* What appears in the library is the draft of a READY row just written.
LEMMA DraftStep ==
  ASSUME TranslateInv, [TranslateNext]_translateVars, NEW g \in Drafts, ~Has(g), Has(g)'
  PROVE  \E t \in translations' : /\ t.gen = g /\ t.state = "READY"
                                  /\ t.hash = items[t.src].text
                                  /\ t.by \in active
  <1>1. TranslateTypeOK /\ items[g] = NoItem /\ items'[g] # NoItem
    BY DEF TranslateInv, Has
  <1>2. items' # items
    BY <1>1
  <1>3. ASSUME NEW s \in Writers, NEW h \in Drafts, NEW answered \in BOOLEAN, Complete(s, h, answered)
        PROVE  \E t \in translations' : /\ t.gen = g /\ t.state = "READY"
                                        /\ t.hash = items[t.src].text
                                        /\ t.by \in active
    <2> DEFINE r == Attempt(writing[s].id)
    <2> DEFINE w == [r EXCEPT !.state = "READY", !.gen = h]
    <2>1. writing[s].at = "provider" /\ StillWanted(s, writing[s]) /\ NewDraft(h, writing[s].a)
      BY <1>2, <1>3 DEF Complete
    <2>2. /\ r \in translations /\ r \in AttemptRow /\ r.id = writing[s].id
          /\ r.src = writing[s].a /\ r.hash = writing[s].hash /\ r.by = s
      BY <2>1, OwnAttempt
    <2>3. Change(writing[s].id, w)
      BY <1>3, <2>1, <1>2 DEF Complete
    <2>4. w \in translations'
      BY <2>2, <2>3 DEF Change
    <2>5. h = g
      BY <1>1, <2>1 DEF NewDraft, TranslateTypeOK
    <2> HIDE DEF r
    <2>6. w.gen = g /\ w.state = "READY" /\ w.src = writing[s].a /\ w.hash = writing[s].hash /\ w.by = s
      BY <2>2, <2>5 DEF AttemptRow
    <2> HIDE DEF w
    <2> QED
      BY <2>1, <2>4, <2>6 DEF StillWanted, fingerprint
  <1>4. ASSUME NEW s \in Writers, NEW h \in Drafts, SaveFromChatgpt(s, h)
        PROVE  \E t \in translations' : /\ t.gen = g /\ t.state = "READY"
                                        /\ t.hash = items[t.src].text
                                        /\ t.by \in active
    <2> DEFINE w == [id |-> FreshId(translations), src |-> writing[s].a, hash |-> writing[s].hash, by |-> s,
                     state |-> "READY", born |-> now, gen |-> h, manual |-> TRUE]
    <2>1. ImportAllowed(s, writing[s]) /\ NewDraft(h, writing[s].a) /\ w \in translations'
      BY <1>2, <1>4 DEF SaveFromChatgpt
    <2>2. h = g
      BY <1>1, <2>1 DEF NewDraft, TranslateTypeOK
    <2>3. w.gen = g /\ w.state = "READY" /\ w.src = writing[s].a /\ w.hash = writing[s].hash /\ w.by = s
      BY <2>2
    <2> HIDE DEF w
    <2> QED
      BY <2>1, <2>3 DEF ImportAllowed, fingerprint
  <1>5. ASSUME NEW s \in Writers, NEW a \in Originals \cup Drafts, UpdateContent(s, a) \/ DeleteContent(s, a)
        PROVE  FALSE
    <2>1. CASE UpdateContent(s, a)
      BY <1>1, <2>1 DEF UpdateContent, Has, TranslateTypeOK
    <2>2. CASE DeleteContent(s, a)
      BY <1>1, <2>2 DEF DeleteContent, Has, TranslateTypeOK
    <2> QED
      BY <1>5, <2>1, <2>2
  <1> QED
    BY <1>2, <1>3, <1>4, <1>5
       DEF TranslateNext, Translate, translateVars, MinutePasses, Request, PrepareForChatgpt, Admit, WalkAway, DisableOriginal

(* Attempts are numbered and kept, and one that may still become a draft is *)
(* alone with its text: the translation protocol of                          *)
(* articleTranslationService.ts, for every number of writers and articles.   *)
THEOREM TranslationsInvariant == TranslateSpec => []TranslateInv
  BY TranslateInitInv, TranslateStepInv, PTL DEF TranslateSpec

(* One text of one article has at most one Hebrew version, made from that    *)
(* very text by somebody whose account worked then, though requests,         *)
(* imports, expiries and late answers cross (createHebrewArticleTranslation, *)
(* saveArticleTranslationFromChatgpt).                                       *)
THEOREM OneHebrew == TranslateSpec => OneTrueHebrew
  <1>1. TranslateInv /\ TranslateInv' /\ [TranslateNext]_translateVars =>
          [/\ OneHebrewPerText'
           /\ \A g \in Drafts : ~Has(g) /\ Has(g)' =>
                \E t \in translations' : /\ t.gen = g /\ t.state = "READY"
                                        /\ t.hash = items[t.src].text
                                        /\ t.by \in active]_translateVars
    <2> SUFFICES ASSUME TranslateInv, TranslateInv', [TranslateNext]_translateVars,
                        ~UNCHANGED translateVars
                 PROVE  /\ OneHebrewPerText'
                        /\ \A g \in Drafts : ~Has(g) /\ Has(g)' =>
                             \E t \in translations' : /\ t.gen = g /\ t.state = "READY"
                                                     /\ t.hash = items[t.src].text
                                                     /\ t.by \in active
      OBVIOUS
    <2>1. OneHebrewPerText'
      BY DEF TranslateInv
    <2> QED
      BY <2>1, DraftStep
  <1> QED
    BY TranslationsInvariant, <1>1, PTL DEF TranslateSpec, OneTrueHebrew

(***************************************************************************)
(* Newsletters.                                                             *)
(***************************************************************************)
\* An order of some articles is a sequence of them.
LEMMA OrderIsSeq ==
  ASSUME NEW S \in SUBSET Articles, NEW s \in SetToSeqs(S)
  PROVE  s \in Seq(Articles) /\ \A i \in DOMAIN s : s[i] \in S
  <1>1. Cardinality(S) \in Nat
    BY LetterAssumption, FS_Subset, FS_CardinalityType
  <1>2. s \in [1..Cardinality(S) -> S]
    BY DEF SetToSeqs
  <1> DEFINE n == Cardinality(S)
  <1> HIDE DEF n
  <1>3. n \in Nat /\ s \in [1..n -> S]
    BY <1>1, <1>2 DEF n
  <1> QED
    BY <1>3

\* Renumbering leaves the articles they are.
LEMMA PlacedKeeps ==
  ASSUME NEW order, NEW first, NEW held
  PROVE  DOMAIN Placed(order, first, held) = DOMAIN held
  BY DEF Placed

\* One column of a row is written, the others stand.
LEMMA ColumnWritten ==
  ASSUME NEW r, r = Columns(r), NEW x
  PROVE  /\ [r EXCEPT !.items = x] = [status |-> r.status, items |-> x, segment |-> r.segment,
                                      doc |-> r.doc, token |-> r.token]
         /\ [r EXCEPT !.segment = x] = [status |-> r.status, items |-> r.items, segment |-> x,
                                        doc |-> r.doc, token |-> r.token]
         /\ [r EXCEPT !.token = x] = [status |-> r.status, items |-> r.items, segment |-> r.segment,
                                      doc |-> r.doc, token |-> x]
         /\ [r EXCEPT !.status = x] = [status |-> x, items |-> r.items, segment |-> r.segment,
                                       doc |-> r.doc, token |-> r.token]
  BY DEF Columns

LEMMA ColumnsWritten ==
  ASSUME NEW r, r = Columns(r), NEW x, NEW d
  PROVE  [r EXCEPT !.status = x, !.doc = d] =
           [status |-> x, items |-> r.items, segment |-> r.segment, doc |-> d, token |-> r.token]
  <1> DEFINE q == [r EXCEPT !.status = x]
  <1>1. q = [status |-> x, items |-> r.items, segment |-> r.segment, doc |-> r.doc, token |-> r.token]
    BY DEF Columns
  <1>2. [r EXCEPT !.status = x, !.doc = d] = [q EXCEPT !.doc = d]
    OBVIOUS
  <1> HIDE DEF q
  <1>3. [q EXCEPT !.doc = d] =
           [status |-> x, items |-> r.items, segment |-> r.segment, doc |-> d, token |-> r.token]
    BY <1>1
  <1> QED
    BY <1>2, <1>3

\* What is in flight after a step of an editor.
CallsOK == CallsAreKnown /\ call = [e \in Editors |-> call[e]] /\ calls \in Nat

LEMMA CallMoves ==
  ASSUME LetterInv, NEW e \in Editors, NEW c, KnownCall(c), Begin(e, c) \/ Continue(e, c)
  PROVE  CallsOK'
  <1>1. CallsAreKnown /\ call = [x \in Editors |-> call[x]] /\ calls \in Nat
    BY DEF LetterInv, LetterTypeOK
  <1>2. call' = [call EXCEPT ![e] = c] /\ (calls' = calls \/ calls' = calls + 1)
    BY DEF Begin, Continue
  <1>3. call' = [x \in Editors |-> call'[x]] /\ calls' \in Nat
    BY <1>1, <1>2
  <1>4. \A x \in Editors : call'[x] = c \/ call'[x] = call[x]
    BY <1>1, <1>2
  <1>5. CallsAreKnown'
    BY <1>1, <1>4 DEF CallsAreKnown, KnownCall
  <1> QED
    BY <1>3, <1>5 DEF CallsOK

LEMMA RestIsKnown == KnownCall(Resting)
  BY DEF KnownCall, Resting

\* Nothing but what is in flight changes.
LEMMA FormStep ==
  ASSUME LetterInv, CallsOK', UNCHANGED <<letters, library, sent, minted>>
  PROVE  LetterInv'
  BY DEF LetterInv, CallsOK, LetterTypeOK, Exists, Editable, DraftsAreLive, HistoryIsKept, UsedArticlesAreKept

\* One newsletter is written.
SoundRow(row) ==
    /\ row = Columns(row)
    /\ row.status \in {"DRAFT", "SCHEDULED", "CANCELED"}
    /\ DOMAIN row.items \subseteq Articles
    /\ \A a \in DOMAIN row.items : library[a] > 0
    /\ row.status = "DRAFT" => row.doc = NoDocument

LEMMA RowStep ==
  ASSUME LetterInv, NEW n \in Letters, NEW row, Write(n, row),
         SoundRow(row) \/ (row = NoLetter /\ n \notin sent),
         CallsOK', library' = library, sent' = sent \/ (sent' = sent \cup {n} /\ row # NoLetter),
         minted' \subseteq Tokens
  PROVE  LetterInv'
  <1>1. LetterTypeOK /\ CallsAreKnown /\ DraftsAreLive /\ HistoryIsKept /\ UsedArticlesAreKept
    BY DEF LetterInv
  <1>2. /\ letters' = [m \in Letters |-> letters'[m]] /\ letters'[n] = row
        /\ \A m \in Letters \ {n} : letters'[m] = letters[m]
    BY <1>1 DEF LetterTypeOK, Write
  <1>3. LetterTypeOK'
    BY <1>1, <1>2 DEF LetterTypeOK, Exists, SoundRow, CallsOK
  <1>4. DraftsAreLive'
    BY <1>1, <1>2 DEF DraftsAreLive, Editable, Exists, SoundRow
  <1>5. UsedArticlesAreKept'
    BY <1>1, <1>2 DEF UsedArticlesAreKept, Exists, SoundRow
  <1>6. SoundRow(row) => row # NoLetter
    BY DEF SoundRow, NoLetter
  <1>7. HistoryIsKept'
    BY <1>1, <1>2, <1>6 DEF HistoryIsKept, Exists, LetterTypeOK
  <1> QED
    BY <1>3, <1>4, <1>5, <1>7 DEF LetterInv, CallsOK

LEMMA RowSaved ==
  ASSUME LetterInv, NEW n \in Letters, NEW row, Write(n, row), SoundRow(row),
         CallsOK', UNCHANGED <<library, sent, minted>>
  PROVE  LetterInv'
  <1>1. minted' \subseteq Tokens
    BY DEF LetterInv, LetterTypeOK
  <1>2. SoundRow(row) \/ (row = NoLetter /\ n \notin sent)
    OBVIOUS
  <1>3. sent' = sent \/ (sent' = sent \cup {n} /\ row # NoLetter)
    OBVIOUS
  <1>4. library' = library
    OBVIOUS
  <1> QED
    BY <1>1, <1>2, <1>3, <1>4, RowStep, Zenon

LEMMA RowIsSound ==
  ASSUME LetterInv, NEW n \in Letters, Exists(n) PROVE SoundRow(letters[n])
  BY DEF LetterInv, LetterTypeOK, DraftsAreLive, Editable, UsedArticlesAreKept, SoundRow

\* Writing other articles, another segment or another link keeps a row sound.
LEMMA RowWritten ==
  ASSUME NEW r, SoundRow(r), NEW x
  PROVE  /\ DOMAIN x \subseteq Articles /\ (\A a \in DOMAIN x : library[a] > 0) =>
              SoundRow([r EXCEPT !.items = x])
         /\ SoundRow([r EXCEPT !.segment = x]) /\ SoundRow([r EXCEPT !.token = x])
         /\ x \in {"SCHEDULED", "CANCELED"} => SoundRow([r EXCEPT !.status = x])
  <1>1. r = Columns(r)
    BY DEF SoundRow
  <1>2. DOMAIN x \subseteq Articles /\ (\A a \in DOMAIN x : library[a] > 0) =>
              SoundRow([r EXCEPT !.items = x])
    BY <1>1, ColumnWritten DEF SoundRow, Columns
  <1>3. SoundRow([r EXCEPT !.segment = x])
    BY <1>1, ColumnWritten DEF SoundRow, Columns
  <1>4. SoundRow([r EXCEPT !.token = x])
    BY <1>1, ColumnWritten DEF SoundRow, Columns
  <1>5. x \in {"SCHEDULED", "CANCELED"} => SoundRow([r EXCEPT !.status = x])
    BY <1>1, ColumnWritten DEF SoundRow, Columns
  <1> QED
    BY <1>2, <1>3, <1>4, <1>5

LEMMA RowFrozen ==
  ASSUME NEW r, SoundRow(r), NEW d PROVE SoundRow([r EXCEPT !.status = "SCHEDULED", !.doc = d])
  <1> DEFINE w == [status |-> "SCHEDULED", items |-> r.items, segment |-> r.segment, doc |-> d, token |-> r.token]
  <1>1. [r EXCEPT !.status = "SCHEDULED", !.doc = d] = w
    BY ColumnsWritten DEF SoundRow
  <1>2. SoundRow(w)
    BY DEF SoundRow, Columns
  <1> QED
    BY <1>1, <1>2

LEMMA BlankIsSound ==
  /\ SoundRow(Blank)
  /\ \A x : DOMAIN x \subseteq Articles /\ (\A a \in DOMAIN x : library[a] > 0) =>
       SoundRow([Blank EXCEPT !.items = x])
  <1>1. SoundRow(Blank)
    BY DEF SoundRow, Blank, Columns
  <1> QED
    BY <1>1, RowWritten

LEMMA LetterInitInv == LetterInit => LetterInv
  <1> SUFFICES ASSUME LetterInit PROVE LetterInv
    OBVIOUS
  <1>1. PICK n \in Letters, s \in SetToSeqs(Articles) :
          letters = [m \in Letters |-> IF m # n THEN NoLetter
                        ELSE [Blank EXCEPT !.items = Placed(s, 1, [a \in Articles |-> 0])]]
    BY DEF LetterInit
  <1> DEFINE row == [Blank EXCEPT !.items = Placed(s, 1, [a \in Articles |-> 0])]
  <1>2. DOMAIN Placed(s, 1, [a \in Articles |-> 0]) = Articles
    BY PlacedKeeps
  <1>3. library = [a \in Articles |-> 1] /\ sent = {} /\ minted = {} /\ calls = 0
    BY DEF LetterInit
  <1>4. SoundRow(row)
    BY <1>2, <1>3, BlankIsSound
  <1>5. row.status = "DRAFT"
    BY DEF Blank
  <1>6. \A m \in Letters : letters[m] = row \/ letters[m] = NoLetter
    BY <1>1
  <1>7. letters = [m \in Letters |-> letters[m]]
    BY <1>1
  <1> HIDE DEF row
  <1>8. LetterTypeOK
    <2>1. \A m \in Letters : Exists(m) =>
            /\ letters[m] = Columns(letters[m])
            /\ letters[m].status \in {"DRAFT", "SCHEDULED", "CANCELED"}
            /\ DOMAIN letters[m].items \subseteq Articles
      BY <1>4, <1>6 DEF Exists, SoundRow
    <2>2. call = [e \in Editors |-> call[e]]
      BY DEF LetterInit
    <2>3. library \in [Articles -> Nat] /\ sent \subseteq Letters /\ minted \subseteq Tokens /\ calls \in Nat
      BY <1>3
    <2> QED
      BY <1>7, <2>1, <2>2, <2>3 DEF LetterTypeOK
  <1>9. CallsAreKnown
    BY RestIsKnown DEF LetterInit, CallsAreKnown
  <1>10. DraftsAreLive /\ UsedArticlesAreKept
    BY <1>4, <1>5, <1>6 DEF DraftsAreLive, UsedArticlesAreKept, Editable, Exists, SoundRow
  <1>11. HistoryIsKept
    BY <1>3 DEF HistoryIsKept
  <1> QED
    BY <1>8, <1>9, <1>10, <1>11 DEF LetterInv

\* Opening a form, giving one up and standing still.
LEMMA FormsInv ==
  ASSUME LetterInv,
         \/ UNCHANGED letterVars
         \/ \E e \in Editors, n \in Letters :
              \/ DeleteRead(e, n) \/ EnableRead(e, n) \/ SegmentRead(e, n, 1)
              \/ \E a \in Articles : \/ AddRead(e, n, a) \/ RemoveRead(e, n, a)
                                     \/ MoveRead(e, n, a, 1) \/ MoveRead(e, n, a, -1)
         \/ \E e \in Editors, a \in Articles : DeleteArticleRead(e, a)
  PROVE  LetterInv'
  <1>1. ASSUME NEW e \in Editors, NEW c, KnownCall(c), Begin(e, c), UNCHANGED <<letters, library, sent, minted>>
        PROVE  LetterInv'
    BY <1>1, CallMoves, FormStep
  <1>2. CASE UNCHANGED letterVars
    <2>1. CallsOK'
      BY <1>2 DEF LetterInv, LetterTypeOK, CallsOK, CallsAreKnown, letterVars
    <2> QED
      BY <1>2, <2>1, FormStep DEF letterVars
  <1>3. ASSUME NEW n \in Letters, NEW c, c.n = n, c.at \in {"move", "segment", "delete", "enable"}
        PROVE  KnownCall(c)
    BY <1>3 DEF KnownCall
  <1>4. ASSUME NEW n \in Letters, NEW a \in Articles, NEW c, c.n = n, c.a = a, c.at \in {"add", "remove"}
        PROVE  KnownCall(c)
    BY <1>4 DEF KnownCall
  <1>5. ASSUME NEW e \in Editors, NEW n \in Letters,
               DeleteRead(e, n) \/ EnableRead(e, n) \/ SegmentRead(e, n, 1)
        PROVE  LetterInv'
    <2>1. PICK c : /\ c \in {[at |-> "delete", n |-> n], [at |-> "enable", n |-> n],
                             [at |-> "segment", n |-> n, segment |-> 1]}
                   /\ Begin(e, c) /\ UNCHANGED <<letters, library, sent, minted>>
      BY <1>5 DEF DeleteRead, EnableRead, SegmentRead
    <2>2. c.n = n /\ c.at \in {"move", "segment", "delete", "enable"}
      BY <2>1
    <2> QED
      BY <1>1, <1>3, <2>1, <2>2
  <1>6. ASSUME NEW e \in Editors, NEW n \in Letters, NEW a \in Articles, AddRead(e, n, a) \/ RemoveRead(e, n, a)
        PROVE  LetterInv'
    <2>1. PICK c : /\ c \in {[at |-> "add", n |-> n, a |-> a], [at |-> "remove", n |-> n, a |-> a]}
                   /\ Begin(e, c) /\ UNCHANGED <<letters, library, sent, minted>>
      BY <1>6 DEF AddRead, RemoveRead
    <2>2. c.n = n /\ c.a = a /\ c.at \in {"add", "remove"}
      BY <2>1
    <2> QED
      BY <1>1, <1>4, <2>1, <2>2
  <1>7. ASSUME NEW e \in Editors, NEW n \in Letters, NEW a \in Articles, NEW step \in {1, -1}, MoveRead(e, n, a, step)
        PROVE  LetterInv'
    <2>1. PICK order : /\ Begin(e, [at |-> "move", n |-> n, order |-> order])
                       /\ UNCHANGED <<letters, library, sent, minted>>
      BY <1>7 DEF MoveRead
    <2> DEFINE c == [at |-> "move", n |-> n, order |-> order]
    <2>2. c.n = n /\ c.at \in {"move", "segment", "delete", "enable"}
      OBVIOUS
    <2> HIDE DEF c
    <2>3. Begin(e, c)
      BY <2>1 DEF c
    <2> QED
      BY <1>1, <1>3, <2>1, <2>2, <2>3
  <1>8. ASSUME NEW e \in Editors, NEW a \in Articles, DeleteArticleRead(e, a) PROVE LetterInv'
    <2> DEFINE c == [at |-> "bin", a |-> a]
    <2>1. KnownCall(c)
      BY DEF KnownCall
    <2>2. Begin(e, c) /\ UNCHANGED <<letters, library, sent, minted>>
      BY <1>8 DEF DeleteArticleRead
    <2> HIDE DEF c
    <2> QED
      BY <1>1, <2>1, <2>2
  <1> QED
    BY <1>2, <1>5, <1>6, <1>7, <1>8

\* A new newsletter, empty or with the articles chosen.
LEMMA NewLetterInv ==
  ASSUME LetterInv, NEW e \in Editors, NEW n \in Letters,
         Create(e, n) \/ \E a, b \in Articles : DraftFromContent(e, n, <<a, b>>)
  PROVE  LetterInv'
  <1>1. CallsOK' /\ UNCHANGED <<library, sent, minted>>
    BY CallMoves, RestIsKnown DEF Create, DraftFromContent, AtOnce
  <1>2. CASE Create(e, n)
    <2>1. Write(n, Blank)
      BY <1>2 DEF Create
    <2> QED
      BY <1>1, <2>1, BlankIsSound, RowSaved
  <1>3. ASSUME NEW a \in Articles, NEW b \in Articles, DraftFromContent(e, n, <<a, b>>) PROVE LetterInv'
    <2> DEFINE x == Placed(<<a, b>>, 0, [c \in ToSet(<<a, b>>) |-> 0])
    <2>1. ToSet(<<a, b>>) = {a, b}
      BY DEF ToSet
    <2>2. DOMAIN x = {a, b}
      BY <2>1, PlacedKeeps
    <2>3. library[a] > 0 /\ library[b] > 0
      <3>1. \A i \in {1, 2} : library[<<a, b>>[i]] > 0
        BY <1>3 DEF DraftFromContent
      <3> QED
        BY <3>1
    <2>4. Write(n, [Blank EXCEPT !.items = x])
      BY <1>3 DEF DraftFromContent
    <2> HIDE DEF x
    <2>5. SoundRow([Blank EXCEPT !.items = x])
      BY <2>2, <2>3, BlankIsSound
    <2> QED
      BY <1>1, <2>4, <2>5, RowSaved
  <1> QED
    BY <1>2, <1>3

\* One more article in a draft, which the library still has.
LEMMA ArticleAdded ==
  ASSUME LetterInv, NEW n \in Letters, Exists(n), NEW a \in Articles, library[a] > 0
  PROVE  SoundRow([letters[n] EXCEPT !.items =
            [b \in DOMAIN @ \cup {a} |-> IF b = a THEN LastPosition(@) + 1 ELSE @[b]]])
  <1> DEFINE old == letters[n].items
  <1> DEFINE x == [b \in DOMAIN old \cup {a} |-> IF b = a THEN LastPosition(old) + 1 ELSE old[b]]
  <1>1. SoundRow(letters[n])
    BY RowIsSound
  <1>2. DOMAIN x = DOMAIN old \cup {a}
    OBVIOUS
  <1>3. DOMAIN old \subseteq Articles /\ \A b \in DOMAIN old : library[b] > 0
    BY <1>1 DEF SoundRow
  <1> HIDE DEF x
  <1>4. DOMAIN x \subseteq Articles /\ \A b \in DOMAIN x : library[b] > 0
    BY <1>2, <1>3
  <1>5. SoundRow([letters[n] EXCEPT !.items = x])
    BY <1>1, <1>4, RowWritten
  <1> QED
    BY <1>5 DEF x

\* What a form writes is written under the lock of a draft.
LEMMA SavedInv ==
  ASSUME LetterInv, NEW e \in Editors,
         AddCommit(e) \/ RemoveCommit(e) \/ MoveCommit(e) \/ SegmentCommit(e)
  PROVE  LetterInv'
  <1>1. CallsOK' /\ UNCHANGED <<library, sent, minted>>
    BY CallMoves, RestIsKnown DEF AddCommit, RemoveCommit, MoveCommit, SegmentCommit, End
  <1> DEFINE t == call[e]
  <1>2. KnownCall(t)
    BY DEF LetterInv, CallsAreKnown
  <1>3. CASE UNCHANGED letters
    BY <1>1, <1>3, FormStep
  <1>4. ASSUME NEW n \in Letters, LockDraft(n), NEW x, DOMAIN x \subseteq DOMAIN letters[n].items,
               Write(n, [letters[n] EXCEPT !.items = x])
        PROVE  LetterInv'
    <2>1. SoundRow(letters[n])
      BY <1>4, RowIsSound DEF LockDraft, Editable
    <2>2. DOMAIN x \subseteq Articles /\ \A b \in DOMAIN x : library[b] > 0
      BY <1>4, <2>1 DEF SoundRow
    <2>3. SoundRow([letters[n] EXCEPT !.items = x])
      BY <2>1, <2>2, RowWritten
    <2> QED
      BY <1>1, <1>4, <2>3, RowSaved
  <1>5. ASSUME AddCommit(e), ~UNCHANGED letters PROVE LetterInv'
    <2>1. t.n \in Letters /\ t.a \in Articles
      BY <1>2, <1>5 DEF AddCommit, KnownCall
    <2>2. LockDraft(t.n) /\ library[t.a] > 0
      BY <1>5 DEF AddCommit
    <2>3. Write(t.n, [letters[t.n] EXCEPT !.items =
                [b \in DOMAIN @ \cup {t.a} |-> IF b = t.a THEN LastPosition(@) + 1 ELSE @[b]]])
      BY <1>5 DEF AddCommit
    <2>4. SoundRow([letters[t.n] EXCEPT !.items =
                [b \in DOMAIN @ \cup {t.a} |-> IF b = t.a THEN LastPosition(@) + 1 ELSE @[b]]])
      BY <2>1, <2>2, ArticleAdded DEF LockDraft, Editable
    <2> QED
      BY <1>1, <2>1, <2>3, <2>4, RowSaved
  <1>6. ASSUME RemoveCommit(e), ~UNCHANGED letters PROVE LetterInv'
    <2> DEFINE rest == Without(letters[t.n].items, t.a)
    <2>1. t.n \in Letters /\ LockDraft(t.n)
      BY <1>2, <1>6 DEF RemoveCommit, KnownCall
    <2>2. PICK order \in Orders(rest) :
             Write(t.n, [letters[t.n] EXCEPT !.items = Placed(order, 1, rest)])
      BY <1>6 DEF RemoveCommit
    <2>3. DOMAIN Placed(order, 1, rest) \subseteq DOMAIN letters[t.n].items
      BY PlacedKeeps DEF Without
    <2> QED
      BY <1>4, <2>1, <2>2, <2>3
  <1>7. ASSUME MoveCommit(e), ~UNCHANGED letters PROVE LetterInv'
    <2> DEFINE x == Placed(t.order, 1, letters[t.n].items)
    <2>1. t.n \in Letters /\ LockDraft(t.n)
      BY <1>2, <1>7 DEF MoveCommit, KnownCall
    <2>2. Write(t.n, [letters[t.n] EXCEPT !.items = x])
      BY <1>7 DEF MoveCommit
    <2>3. DOMAIN x \subseteq DOMAIN letters[t.n].items
      BY PlacedKeeps
    <2> HIDE DEF x
    <2> QED
      BY <1>4, <2>1, <2>2, <2>3
  <1>8. ASSUME SegmentCommit(e), ~UNCHANGED letters PROVE LetterInv'
    <2>1. t.n \in Letters /\ LockDraft(t.n)
      BY <1>2, <1>8 DEF SegmentCommit, KnownCall
    <2>2. Write(t.n, [letters[t.n] EXCEPT !.segment = t.segment])
      BY <1>8 DEF SegmentCommit
    <2>3. SoundRow(letters[t.n])
      BY <2>1, RowIsSound DEF LockDraft, Editable
    <2>4. SoundRow([letters[t.n] EXCEPT !.segment = t.segment])
      BY <2>3, RowWritten
    <2> QED
      BY <1>1, <2>1, <2>2, <2>4, RowSaved
  <1> QED
    BY <1>3, <1>5, <1>6, <1>7, <1>8

\* A copy is begun, and gets its articles one by one.
LEMMA CopiesInv ==
  ASSUME LetterInv, NEW e \in Editors,
         CopyNext(e) \/ \E n, copy \in Letters : Duplicate(e, n, copy)
  PROVE  LetterInv'
  <1>1. UNCHANGED <<library, sent, minted>>
    BY DEF CopyNext, Duplicate
  <1>2. ASSUME NEW n \in Letters, NEW copy \in Letters, Duplicate(e, n, copy) PROVE LetterInv'
    <2>1. PICK order \in Orders(letters[n].items) :
            Begin(e, IF order = <<>> THEN Resting ELSE [at |-> "copy", n |-> copy, rest |-> order])
      BY <1>2 DEF Duplicate
    <2>2. DOMAIN letters[n].items \subseteq Articles
      BY <1>2 DEF Duplicate, LetterInv, LetterTypeOK
    <2>3. order \in Seq(Articles)
      BY <2>1, <2>2, OrderIsSeq DEF Orders
    <2>4. CASE order = <<>>
      <3>1. CallsOK'
        BY <2>1, <2>4, CallMoves, RestIsKnown
      <3> QED
        BY <1>1, <1>2, <3>1, BlankIsSound, RowSaved DEF Duplicate
    <2>5. CASE order # <<>>
      <3> DEFINE c == [at |-> "copy", n |-> copy, rest |-> order]
      <3>1. KnownCall(c)
        BY <2>3, <2>5 DEF KnownCall
      <3>2. Begin(e, c)
        BY <2>1, <2>5
      <3> HIDE DEF c
      <3>3. CallsOK'
        BY <3>1, <3>2, CallMoves
      <3> QED
        BY <1>1, <1>2, <3>3, BlankIsSound, RowSaved DEF Duplicate
    <2> QED
      BY <2>4, <2>5
  <1>3. ASSUME CopyNext(e) PROVE LetterInv'
    <2> DEFINE t == call[e]
    <2> DEFINE a == Head(t.rest)
    <2>1. KnownCall(t) /\ t.at = "copy"
      BY <1>3 DEF CopyNext, LetterInv, CallsAreKnown
    <2>2. /\ t.n \in Letters /\ t = [at |-> "copy", n |-> t.n, rest |-> t.rest]
          /\ t.rest \in Seq(Articles) /\ t.rest # <<>>
      BY <2>1 DEF KnownCall
    <2>3. a \in Articles /\ Tail(t.rest) \in Seq(Articles)
      BY <2>2
    <2>4. CASE UNCHANGED letters /\ End(e)
      BY <1>1, <2>4, CallMoves, RestIsKnown, FormStep DEF End
    <2>5. CASE ~(UNCHANGED letters /\ End(e))
      <3>1. LockDraft(t.n) /\ library[a] > 0
        BY <1>3, <2>5 DEF CopyNext
      <3>2. /\ Write(t.n, [letters[t.n] EXCEPT !.items =
                    [b \in DOMAIN @ \cup {a} |-> IF b = a THEN LastPosition(@) + 1 ELSE @[b]]])
            /\ Continue(e, IF Tail(t.rest) = <<>> THEN Resting ELSE [t EXCEPT !.rest = Tail(@)])
        BY <1>3, <2>5 DEF CopyNext
      <3>3. [t EXCEPT !.rest = Tail(@)] = [at |-> "copy", n |-> t.n, rest |-> Tail(t.rest)]
        BY <2>2
      <3>4. PICK c : Continue(e, c) /\ KnownCall(c)
        <4>1. CASE Tail(t.rest) = <<>>
          BY <3>2, <4>1, RestIsKnown
        <4>2. CASE Tail(t.rest) # <<>>
          <5> DEFINE c == [at |-> "copy", n |-> t.n, rest |-> Tail(t.rest)]
          <5>1. KnownCall(c)
            BY <2>2, <2>3, <4>2 DEF KnownCall
          <5>2. Continue(e, c)
            BY <3>2, <3>3, <4>2
          <5> HIDE DEF c
          <5> QED
            BY <5>1, <5>2
        <4> QED
          BY <4>1, <4>2
      <3>5. CallsOK'
        BY <3>4, CallMoves
      <3>6. SoundRow([letters[t.n] EXCEPT !.items =
                    [b \in DOMAIN @ \cup {a} |-> IF b = a THEN LastPosition(@) + 1 ELSE @[b]]])
        BY <2>2, <2>3, <3>1, ArticleAdded DEF LockDraft, Editable
      <3> QED
        BY <1>1, <2>2, <3>2, <3>5, <3>6, RowSaved
    <2> QED
      BY <2>4, <2>5
  <1> QED
    BY <1>2, <1>3

\* Deleting a newsletter takes a draft with no record; links come and go.
LEMMA PagesInv ==
  ASSUME LetterInv, NEW e \in Editors,
         \/ DeleteCommit(e) \/ \E token \in Tokens : EnableCommit(e, token)
         \/ \E n \in Letters : DisablePage(e, n)
  PROVE  LetterInv'
  <1> DEFINE t == call[e]
  <1>1. KnownCall(t) /\ minted \subseteq Tokens
    BY DEF LetterInv, LetterTypeOK, CallsAreKnown
  <1>2. CallsOK' /\ UNCHANGED <<library, sent>>
    BY CallMoves, RestIsKnown DEF DeleteCommit, EnableCommit, DisablePage, End, AtOnce
  <1>3. CASE DeleteCommit(e)
    <2>1. t.n \in Letters /\ UNCHANGED minted
      BY <1>1, <1>3 DEF DeleteCommit, KnownCall
    <2>2. CASE LockDraft(t.n) /\ ~Restricted(t.n)
      <3>1. Write(t.n, NoLetter) /\ t.n \notin sent
        BY <1>3, <2>2 DEF DeleteCommit, Restricted
      <3> QED
        BY <1>1, <1>2, <2>1, <3>1, RowStep
    <2>3. CASE ~(LockDraft(t.n) /\ ~Restricted(t.n))
      <3>1. UNCHANGED letters
        BY <1>3, <2>3 DEF DeleteCommit
      <3> QED
        BY <1>2, <2>1, <3>1, FormStep
    <2> QED
      BY <2>2, <2>3
  <1>4. ASSUME NEW token \in Tokens, EnableCommit(e, token) PROVE LetterInv'
    <2>1. t.n \in Letters
      BY <1>1, <1>4 DEF EnableCommit, KnownCall
    <2>2. CASE Exists(t.n)
      <3>1. minted' \subseteq Tokens /\ Write(t.n, [letters[t.n] EXCEPT !.token = token])
        BY <1>1, <1>4, <2>2 DEF EnableCommit
      <3>2. SoundRow([letters[t.n] EXCEPT !.token = token])
        BY <2>1, <2>2, RowIsSound, RowWritten
      <3> QED
        BY <1>2, <2>1, <3>1, <3>2, RowStep
    <2>3. CASE ~Exists(t.n)
      BY <1>2, <1>4, <2>3, FormStep DEF EnableCommit
    <2> QED
      BY <2>2, <2>3
  <1>5. ASSUME NEW n \in Letters, DisablePage(e, n) PROVE LetterInv'
    <2>1. Exists(n) /\ Write(n, [letters[n] EXCEPT !.token = NoToken]) /\ UNCHANGED minted
      BY <1>5 DEF DisablePage
    <2>2. SoundRow([letters[n] EXCEPT !.token = NoToken])
      BY <2>1, RowIsSound, RowWritten
    <2> QED
      BY <1>2, <2>1, <2>2, RowSaved
  <1> QED
    BY <1>3, <1>4, <1>5

\* An article in use is edited but never deleted.
LEMMA LibraryInv ==
  ASSUME LetterInv, NEW e \in Editors,
         DeleteArticleCommit(e) \/ \E a \in Articles : EditArticle(e, a)
  PROVE  LetterInv'
  <1>1. LetterTypeOK /\ CallsAreKnown /\ DraftsAreLive /\ HistoryIsKept /\ UsedArticlesAreKept
    BY DEF LetterInv
  <1>2. CallsOK' /\ UNCHANGED <<letters, sent, minted>>
    BY CallMoves, RestIsKnown DEF DeleteArticleCommit, EditArticle, End, AtOnce
  <1>3. ASSUME library' \in [Articles -> Nat],
               \A n \in Letters : Exists(n) => \A a \in DOMAIN letters[n].items : library'[a] > 0
        PROVE  LetterInv'
    <2>1. LetterTypeOK'
      BY <1>1, <1>2, <1>3 DEF LetterTypeOK, Exists, CallsOK
    <2>2. UsedArticlesAreKept'
      BY <1>2, <1>3 DEF UsedArticlesAreKept, Exists
    <2>3. DraftsAreLive' /\ HistoryIsKept'
      BY <1>1, <1>2 DEF DraftsAreLive, HistoryIsKept, Editable, Exists
    <2> QED
      BY <1>2, <2>1, <2>2, <2>3 DEF LetterInv, CallsOK
  <1>4. library \in [Articles -> Nat] /\ \A n \in Letters : Exists(n) => DOMAIN letters[n].items \subseteq Articles
    BY <1>1 DEF LetterTypeOK
  <1>5. ASSUME NEW a \in Articles, EditArticle(e, a) PROVE LetterInv'
    <2>1. library' = [library EXCEPT ![a] = library[a] + 1]
      BY <1>5 DEF EditArticle
    <2>2. library' \in [Articles -> Nat] /\ \A b \in Articles : library[b] > 0 => library'[b] > 0
      BY <1>4, <2>1
    <2> QED
      BY <1>1, <1>3, <1>4, <2>2 DEF UsedArticlesAreKept
  <1>6. ASSUME DeleteArticleCommit(e) PROVE LetterInv'
    <2> DEFINE a == call[e].a
    <2>1. a \in Articles
      BY <1>1, <1>6 DEF DeleteArticleCommit, CallsAreKnown, KnownCall
    <2>2. CASE Using(a) = {}
      <3>1. library' = [library EXCEPT ![a] = 0]
        BY <1>6, <2>2 DEF DeleteArticleCommit
      <3>2. library' \in [Articles -> Nat] /\ \A b \in Articles : b # a => library'[b] = library[b]
        BY <1>4, <3>1
      <3>3. \A n \in Letters : Exists(n) => a \notin DOMAIN letters[n].items
        BY <2>2 DEF Using
      <3> QED
        BY <1>1, <1>3, <1>4, <3>2, <3>3 DEF UsedArticlesAreKept
    <2>3. CASE Using(a) # {}
      BY <1>1, <1>3, <1>4, <1>6, <2>3 DEF DeleteArticleCommit, UsedArticlesAreKept
    <2> QED
      BY <2>2, <2>3
  <1> QED
    BY <1>5, <1>6

\* A test send, the schedule and its cancellation.
LEMMA OutsideInv ==
  ASSUME LetterInv, NEW n \in Letters, TestSent(n) \/ Schedule(n) \/ Cancel(n)
  PROVE  LetterInv'
  <1>1. LetterTypeOK /\ CallsAreKnown /\ DraftsAreLive /\ HistoryIsKept /\ UsedArticlesAreKept
    BY DEF LetterInv
  <1>2. UNCHANGED <<library, minted, call, calls>>
    BY DEF TestSent, Schedule, Cancel
  <1>3. CallsOK'
    BY <1>1, <1>2 DEF CallsOK, CallsAreKnown, LetterTypeOK
  <1>4. Exists(n) /\ SoundRow(letters[n])
    BY RowIsSound DEF TestSent, Schedule, Cancel, Editable
  <1>5. minted' \subseteq Tokens
    BY <1>1, <1>2 DEF LetterTypeOK
  <1>6. CASE TestSent(n)
    <2>1. UNCHANGED letters /\ sent' = sent \cup {n}
      BY <1>6 DEF TestSent
    <2>2. LetterTypeOK' /\ DraftsAreLive' /\ UsedArticlesAreKept'
      BY <1>1, <1>2, <2>1 DEF LetterTypeOK, DraftsAreLive, UsedArticlesAreKept, Exists, Editable
    <2>3. HistoryIsKept'
      BY <1>1, <1>4, <2>1 DEF HistoryIsKept, Exists
    <2> QED
      BY <1>3, <2>2, <2>3 DEF LetterInv, CallsOK
  <1>7. CASE Schedule(n)
    <2>1. PICK d : Write(n, [letters[n] EXCEPT !.status = "SCHEDULED", !.doc = d])
      BY <1>7 DEF Schedule
    <2> DEFINE row == [letters[n] EXCEPT !.status = "SCHEDULED", !.doc = d]
    <2>2. SoundRow(row) /\ Write(n, row)
      BY <1>4, <2>1, RowFrozen
    <2>3. sent' = sent \cup {n} /\ library' = library
      BY <1>7 DEF Schedule
    <2> HIDE DEF row
    <2>4. row # NoLetter
      BY <2>2 DEF SoundRow, NoLetter
    <2> QED
      BY <1>3, <1>5, <2>2, <2>3, <2>4, RowStep
  <1>8. CASE Cancel(n)
    <2>1. Write(n, [letters[n] EXCEPT !.status = "CANCELED"]) /\ UNCHANGED sent
      BY <1>8 DEF Cancel
    <2>2. SoundRow([letters[n] EXCEPT !.status = "CANCELED"])
      BY <1>4, RowWritten
    <2> QED
      BY <1>2, <1>3, <2>1, <2>2, RowSaved
  <1> QED
    BY <1>6, <1>7, <1>8

LEMMA LetterStepInv == LetterInv /\ [LetterNext]_letterVars => LetterInv'
  BY FormsInv, NewLetterInv, SavedInv, CopiesInv, PagesInv, LibraryInv, OutsideInv DEF LetterNext, Compose

\* A newsletter that has left DRAFT changes its status or its link at most.
LEMMA LockedRowMoves ==
  ASSUME LetterInv, [LetterNext]_letterVars, NEW n \in Letters, Exists(n), ~Editable(n)
  PROVE  \/ letters'[n] = letters[n]
         \/ \E x : letters'[n] = [letters[n] EXCEPT !.token = x]
         \/ letters'[n] = [letters[n] EXCEPT !.status = "CANCELED"]
  <1>1. letters = [m \in Letters |-> letters[m]]
    BY DEF LetterInv, LetterTypeOK
  <1>2. ASSUME NEW m \in Letters, NEW row, Write(m, row)
        PROVE  letters'[n] = IF m = n THEN row ELSE letters[n]
    BY <1>1, <1>2 DEF Write
  <1>3. ASSUME NEW m, NEW row, Write(m, row), m # n
        PROVE  letters'[n] = letters[n]
    BY <1>1, <1>3 DEF Write
  <1>4. \A e \in Editors : KnownCall(call[e])
    BY DEF LetterInv, CallsAreKnown
  <1>5. ASSUME NEW e \in Editors, NEW m \in Letters,
               \/ Create(e, m) \/ \E k \in Letters : Duplicate(e, k, m)
               \/ \E a, b \in Articles : DraftFromContent(e, m, <<a, b>>)
        PROVE  letters'[n] = letters[n]
    <2>1. ~Exists(m) /\ \E row : Write(m, row)
      BY <1>5 DEF Create, Duplicate, DraftFromContent
    <2> QED
      BY <1>3, <2>1
  <1>6. ASSUME NEW e \in Editors,
               \/ AddCommit(e) \/ RemoveCommit(e) \/ MoveCommit(e) \/ SegmentCommit(e)
               \/ DeleteCommit(e) \/ CopyNext(e)
        PROVE  letters'[n] = letters[n]
    <2>1. \/ UNCHANGED letters
          \/ LockDraft(call[e].n) /\ \E row : Write(call[e].n, row)
      BY <1>6 DEF AddCommit, RemoveCommit, MoveCommit, SegmentCommit, DeleteCommit, CopyNext
    <2>2. LockDraft(call[e].n) => call[e].n # n
      BY DEF LockDraft
    <2> QED
      BY <1>3, <2>1, <2>2
  <1>7. ASSUME NEW e \in Editors, NEW token \in Tokens, EnableCommit(e, token)
        PROVE  letters'[n] = letters[n] \/ letters'[n] = [letters[n] EXCEPT !.token = token]
    <2>1. call[e].n \in Letters
      BY <1>4, <1>7 DEF EnableCommit, KnownCall
    <2>2. UNCHANGED letters \/ Write(call[e].n, [letters[call[e].n] EXCEPT !.token = token])
      BY <1>7 DEF EnableCommit
    <2> QED
      BY <1>2, <2>1, <2>2
  <1>8. ASSUME NEW e \in Editors, NEW m \in Letters, DisablePage(e, m)
        PROVE  letters'[n] = letters[n] \/ letters'[n] = [letters[n] EXCEPT !.token = NoToken]
    BY <1>2, <1>8 DEF DisablePage
  <1>9. ASSUME NEW m \in Letters, Schedule(m)
        PROVE  letters'[n] = letters[n]
    <2>1. Editable(m) /\ \E row : Write(m, row)
      BY <1>9 DEF Schedule
    <2> QED
      BY <1>3, <2>1
  <1>10. ASSUME NEW m \in Letters, Cancel(m)
         PROVE  letters'[n] = letters[n] \/ letters'[n] = [letters[n] EXCEPT !.status = "CANCELED"]
    BY <1>2, <1>10 DEF Cancel
  <1>11. ASSUME UNCHANGED letters PROVE letters'[n] = letters[n]
    BY <1>11
  <1>12. ASSUME NEW e \in Editors, NEW m \in Letters, NEW a \in Articles,
                \/ AddRead(e, m, a) \/ RemoveRead(e, m, a) \/ MoveRead(e, m, a, 1) \/ MoveRead(e, m, a, -1)
                \/ DeleteArticleRead(e, a) \/ EditArticle(e, a)
         PROVE  UNCHANGED letters
    BY <1>12 DEF AddRead, RemoveRead, MoveRead, DeleteArticleRead, EditArticle
  <1>13. ASSUME NEW e \in Editors, NEW m \in Letters,
                DeleteRead(e, m) \/ EnableRead(e, m) \/ SegmentRead(e, m, 1) \/ DeleteArticleCommit(e) \/ TestSent(m)
         PROVE  UNCHANGED letters
    BY <1>13 DEF DeleteRead, EnableRead, SegmentRead, DeleteArticleCommit, TestSent
  <1>14. CASE \E e \in Editors : Compose(e)
    <2> PICK e \in Editors : Compose(e)
      BY <1>14
    <2> QED
      BY <1>5, <1>6, <1>7, <1>8, <1>11, <1>12, <1>13 DEF Compose
  <1>15. CASE \E m \in Letters : TestSent(m) \/ Schedule(m) \/ Cancel(m)
    BY <1>9, <1>10, <1>11, <1>15 DEF TestSent
  <1>16. CASE UNCHANGED letterVars
    BY <1>16 DEF letterVars
  <1> QED
    BY <1>14, <1>15, <1>16 DEF LetterNext

\* So it keeps its articles, its audience and what was frozen of it.
LEMMA LockedStands ==
  ASSUME LetterInv, [LetterNext]_letterVars, NEW n \in Letters, Exists(n), ~Editable(n)
  PROVE  /\ Exists(n)'
         /\ letters'[n].items = letters[n].items /\ letters'[n].segment = letters[n].segment
         /\ letters'[n].doc = letters[n].doc
  <1>1. SoundRow(letters[n])
    BY RowIsSound
  <1>2. \E s, x : letters'[n] = [status |-> s, items |-> letters[n].items, segment |-> letters[n].segment,
                                 doc |-> letters[n].doc, token |-> x]
                  /\ s \in {"DRAFT", "SCHEDULED", "CANCELED"}
    <2>1. letters[n] = Columns(letters[n]) /\ letters[n].status \in {"DRAFT", "SCHEDULED", "CANCELED"}
      BY <1>1 DEF SoundRow
    <2>2. CASE letters'[n] = letters[n]
      BY <2>1, <2>2 DEF Columns
    <2>3. ASSUME NEW x, letters'[n] = [letters[n] EXCEPT !.token = x]
          PROVE  letters'[n] = [status |-> letters[n].status, items |-> letters[n].items,
                                segment |-> letters[n].segment, doc |-> letters[n].doc, token |-> x]
      BY <2>1, <2>3, ColumnWritten
    <2>4. ASSUME NEW s, letters'[n] = [letters[n] EXCEPT !.status = s]
          PROVE  letters'[n] = [status |-> s, items |-> letters[n].items,
                                segment |-> letters[n].segment, doc |-> letters[n].doc, token |-> letters[n].token]
      <3>1. [letters[n] EXCEPT !.status = s] =
               [status |-> s, items |-> letters[n].items,
                segment |-> letters[n].segment, doc |-> letters[n].doc, token |-> letters[n].token]
        BY <2>1, ColumnWritten
      <3> QED
        BY <2>4, <3>1
    <2> QED
      BY <2>1, <2>2, <2>3, <2>4, LockedRowMoves
  <1> QED
    BY <1>2 DEF Exists, NoLetter

(* Drafts are live, what they use is in the library and open forms know     *)
(* their newsletter: newsletterService.ts and campaignRepository.ts, for     *)
(* every number of editors, newsletters and articles.                        *)
THEOREM LettersInvariant == LetterSpec => []LetterInv
  BY LetterInitInv, LetterStepInv, PTL DEF LetterSpec

(* A newsletter that was scheduled or sent stands as it was, whatever staff *)
(* with older pages open compose, edit, copy or delete afterwards: the lock  *)
(* that looks at the status again, the frozen document, and the foreign keys *)
(* that refuse what the counts before them could no longer see.              *)
THEOREM LettersStand == LetterSpec => SentLettersStand
  <1>1. LetterInv => HistoryIsKept /\ UsedArticlesAreKept
    BY DEF LetterInv
  <1>2. LetterInv /\ [LetterNext]_letterVars =>
          [\A n \in Letters : Exists(n) /\ ~Editable(n) =>
              /\ Exists(n)'
              /\ letters'[n].items = letters[n].items /\ letters'[n].segment = letters[n].segment]_letterVars
    BY LockedStands
  <1>3. LetterInv /\ [LetterNext]_letterVars =>
          [\A n \in Letters : Exists(n) /\ letters[n].doc # NoDocument =>
              Documents(n)' = {letters[n].doc}]_letterVars
    <2> SUFFICES ASSUME LetterInv, [LetterNext]_letterVars, NEW n \in Letters,
                        Exists(n), letters[n].doc # NoDocument
                 PROVE  Documents(n)' = {letters[n].doc}
      OBVIOUS
    <2>1. ~Editable(n)
      BY DEF LetterInv, DraftsAreLive
    <2>2. letters'[n].doc = letters[n].doc
      BY <2>1, LockedStands
    <2> QED
      BY <2>2 DEF Documents
  <1>4. LetterSpec => [](HistoryIsKept /\ UsedArticlesAreKept)
    BY LettersInvariant, <1>1, PTL
  <1>5. LetterSpec => LockedIsComposedNoFurther
    BY LettersInvariant, <1>2, PTL DEF LetterSpec, LockedIsComposedNoFurther
  <1>6. LetterSpec => PageShowsWhatWasFrozen
    BY LettersInvariant, <1>3, PTL DEF LetterSpec, PageShowsWhatWasFrozen
  <1> QED
    BY <1>4, <1>5, <1>6 DEF SentLettersStand

(***************************************************************************)
(* Checks of feeds: what an address is.                                     *)
(***************************************************************************)
\* The sixteen bits a block is told by, and the eight and eight the code looks at.
LEMMA BlocksAreCovered ==
  ASSUME NEW a \in 0..255, NEW b \in 0..255,
         \E block \in ReservedBlocks : a * 256 + b \in block[1]..block[2]
  PROVE  isPrivateIpv4(<<a, b, 0, 0>>)
  <1>1. PICK block \in ReservedBlocks : block[1] <= a * 256 + b /\ a * 256 + b <= block[2]
    OBVIOUS
  <1>2. \/ a = 0 \/ a = 10 \/ a = 127 \/ a >= 224
        \/ a = 100 /\ b \in 64..127
        \/ a = 169 /\ b = 254
        \/ a = 172 /\ b \in 16..31
        \/ a = 192 /\ b = 168
    BY <1>1 DEF ReservedBlocks
  <1> QED
    BY <1>2 DEF isPrivateIpv4

LEMMA QuadIsPublic ==
  ASSUME NEW quad, quad[1] \in Bytes, quad[2] \in Bytes, ~isPrivateIpv4(quad)
  PROVE  \A block \in ReservedBlocks : quad[1] * 256 + quad[2] \notin block[1]..block[2]
  <1>1. ~isPrivateIpv4(<<quad[1], quad[2], 0, 0>>)
    BY DEF isPrivateIpv4
  <1> QED
    BY <1>1, BlocksAreCovered DEF Bytes

LEMMA LiteralIsPublic ==
  ASSUME NEW host, IsHost(host), host.form # "name", ~IsPrivateLiteral(host)
  PROVE  InPublic(host)
  <1>1. CASE host.form = "v6"
    BY <1>1 DEF IsHost, IsPrivateLiteral, isPrivateIpv6, InPublic
  <1>2. CASE host.form \in {"v4", "mapped"}
    <2>1. IsQuad(host.quad) /\ ~isPrivateIpv4(host.quad)
      BY <1>2 DEF IsHost, IsPrivateLiteral, isPrivateIpv6, QuadOf
    <2> QED
      BY <1>2, <2>1, QuadIsPublic DEF IsQuad, InPublic
  <1>3. CASE host.form = "groups"
    <2> DEFINE a == host.high \div 256
               b == host.high % 256
    <2>1. host.high \in Nat /\ host.high < 65536
      BY <1>3 DEF IsHost
    <2>2. a \in 0..255 /\ b \in 0..255 /\ host.high = a * 256 + b
      BY <2>1
    <2>3. ~isPrivateIpv4(<<a, b, host.low \div 256, host.low % 256>>)
      BY <1>3 DEF IsPrivateLiteral, isPrivateIpv6, QuadOf
    <2> HIDE DEF a, b
    <2>4. ~isPrivateIpv4(<<a, b, 0, 0>>)
      BY <2>3 DEF isPrivateIpv4
    <2> QED
      BY <1>3, <2>2, <2>4, BlocksAreCovered DEF InPublic
  <1> QED
    BY <1>1, <1>2, <1>3 DEF IsHost

LEMMA ValidUrlIsPublic ==
  ASSUME NEW url, url = NoUrl \/ IsHost(url.host), validateSourceUrl(url)
  PROVE  url # NoUrl /\ url.scheme \in {"http", "https"} /\ InPublic(url.host)
  <1>1. url # NoUrl /\ url.scheme \in {"http", "https"}
    <2>1. url.scheme \in {"http", "https"}
      BY Zenon DEF validateSourceUrl
    <2> QED
      BY <2>1 DEF NoUrl
  <1>2. IsHost(url.host) /\ ~IsPrivateLiteral(url.host)
    BY <1>1, Zenon DEF validateSourceUrl
  <1>n. ~IsMetadata(url.host) /\ ~IsLoopback(url.host) /\ ~isInternalHostname(url.host)
    BY Zenon DEF validateSourceUrl
  <1>3. ASSUME url.host.form = "name" PROVE InPublic(url.host)
    BY <1>2, <1>3, <1>n DEF IsHost, IsMetadata, IsLoopback, isInternalHostname, InPublic
  <1> QED
    BY <1>1, <1>2, <1>3, LiteralIsPublic

(***************************************************************************)
(* Checks of feeds: what a feed lists.                                      *)
(***************************************************************************)
LEMMA FirstIsOne ==
  ASSUME NEW set, set \subseteq Nat, set # {}
  PROVE  Min(set) \in set
  <1>1. PICK n \in set : \A m \in set : ~ (<<m, n>> \in OpToRel(<, Nat))
    BY WFMin, NatLessThanWellFounded, Zenon
  <1>2. \A m \in set : ~ (m < n)
    BY <1>1, Zenon DEF OpToRel
  <1>3. \A m \in set : n <= m
    BY <1>2
  <1> QED
    BY <1>3 DEF Min

LEMMA AtomLinkIsListed ==
  ASSUME NEW links, links \in Seq(Range(links)), atomLink(links) # NoUrl
  PROVE  \E l \in Range(links) : l.rel \notin {"self", "enclosure"} /\ atomLink(links) = l.href
  <1> DEFINE usable == {i \in DOMAIN links : links[i].href # NoUrl}
             article == {i \in usable : links[i].rel = "alternate"}
             other == {i \in usable : links[i].rel \notin {"alternate", "self", "enclosure"}}
  <1>1. DOMAIN links \subseteq Nat
    BY LenProperties
  <1>2. \A i \in DOMAIN links : links[i] \in Range(links)
    BY DEF Range
  <1>3. CASE article # {}
    <2>1. Min(article) \in article
      BY <1>1, <1>3, FirstIsOne
    <2>2. atomLink(links) = links[Min(article)].href
      BY <1>3 DEF atomLink
    <2> QED
      BY <1>2, <2>1, <2>2
  <1>4. CASE article = {} /\ other # {}
    <2>1. Min(other) \in other
      BY <1>1, <1>4, FirstIsOne
    <2>2. atomLink(links) = links[Min(other)].href
      BY <1>4 DEF atomLink
    <2> QED
      BY <1>2, <2>1, <2>2
  <1>5. CASE article = {} /\ other = {}
    BY <1>5 DEF atomLink
  <1> QED
    BY <1>3, <1>4, <1>5

LEMMA ParsedLinksAreArticles ==
  ASSUME NEW item \in Parsed
  PROVE  item.link \in ArticleLinks \cup {NoUrl}
  <1>1. PICK b \in ReadBodies : item \in Range(parseFeed(b))
    BY DEF Parsed
  <1>2. b \in Bodies /\ b.kind \in {"rss", "atom"}
    BY <1>1 DEF ReadBodies
  <1>3. CASE b.kind = "rss"
    <2>1. parseFeed(b) = [i \in DOMAIN b.entries |-> parseRss(b.entries[i])]
      BY <1>3 DEF parseFeed
    <2>2. PICK i \in DOMAIN b.entries : item = parseRss(b.entries[i])
      BY <1>1, <2>1 DEF Range
    <2>3. b.entries[i] \in EntriesOf("rss")
      BY <1>2, <1>3 DEF EntriesOf, Range
    <2> DEFINE e == b.entries[i]
    <2>4. item.link \in {e.link, e.place, NoUrl}
      BY <2>2 DEF parseRss
    <2> QED
      BY <2>3, <2>4 DEF ArticleLinks
  <1>4. CASE b.kind = "atom"
    <2>1. parseFeed(b) = [i \in DOMAIN b.entries |-> parseAtom(b.entries[i])]
      BY <1>4 DEF parseFeed
    <2>2. PICK i \in DOMAIN b.entries : item = parseAtom(b.entries[i])
      BY <1>1, <2>1 DEF Range
    <2>3. b.entries[i] \in EntriesOf("atom")
      BY <1>2, <1>4 DEF EntriesOf, Range
    <2> DEFINE e == b.entries[i]
    <2>4. item.link = atomLink(e.links) /\ e.links \in Seq(Range(e.links))
      BY <2>2, <2>3, BodiesAssumption DEF parseAtom
    <2>5. ASSUME item.link # NoUrl PROVE item.link \in ArticleLinks
      <3>1. PICK l \in Range(e.links) : l.rel \notin {"self", "enclosure"} /\ item.link = l.href
        BY <2>4, <2>5, AtomLinkIsListed
      <3>2. l \in AtomLinks
        BY <2>3, <3>1 DEF AtomLinks
      <3> QED
        BY <3>1, <3>2 DEF ArticleLinks
    <2> QED
      BY <2>5
  <1> QED
    BY <1>2, <1>3, <1>4

(***************************************************************************)
(* Checks of feeds: counting.                                               *)
(***************************************************************************)
LEMMA SummedFinite ==
  ASSUME NEW f \in [Checks -> Nat]
  PROVE  IsFiniteSet(Summed(f)) /\ Cardinality(Summed(f)) \in Nat
  <1> DEFINE parts == {{c} \X (1..f[c]) : c \in Checks}
             g == [c \in Checks |-> {c} \X (1..f[c])]
  <1>1. IsFiniteSet(parts)
    <2>1. g \in Surjection(Checks, parts)
      BY DEF Surjection
    <2> HIDE DEF g, parts
    <2> QED
      BY <2>1, ReadingAssumption, FS_Surjection
  <1>2. \A T \in parts : IsFiniteSet(T)
    <2>1. ASSUME NEW c \in Checks PROVE IsFiniteSet({c} \X (1..f[c]))
      <3>1. f[c] \in Int /\ 1 \in Int
        OBVIOUS
      <3>2. IsFiniteSet(1..f[c])
        BY <3>1, FS_Interval
      <3>3. IsFiniteSet({c})
        BY FS_Singleton
      <3> QED
        BY <3>2, <3>3, FS_Product
    <2> QED
      BY <2>1
  <1>3. Summed(f) = UNION parts
    BY DEF Summed
  <1> HIDE DEF parts
  <1> QED
    BY <1>1, <1>2, <1>3, FS_UNION, FS_CardinalityType

LEMMA SummedShrinks ==
  ASSUME NEW f \in [Checks -> Nat], NEW g \in [Checks -> Nat], \A c \in Checks : g[c] <= f[c]
  PROVE  Cardinality(Summed(g)) <= Cardinality(Summed(f))
  <1>1. ASSUME NEW x \in Summed(g) PROVE x \in Summed(f)
    <2>1. PICK c \in Checks : x \in {c} \X (1..g[c])
      BY DEF Summed
    <2>2. 1..g[c] \subseteq 1..f[c]
      BY <2>1
    <2>3. x \in {c} \X (1..f[c])
      BY <2>1, <2>2
    <2> QED
      BY <2>1, <2>3 DEF Summed
  <1>2. Summed(g) \subseteq Summed(f)
    BY <1>1
  <1> QED
    BY <1>2, SummedFinite, FS_Subset

LEMMA SummedGrows ==
  ASSUME NEW f \in [Checks -> Nat], NEW g \in [Checks -> Nat], NEW d \in Checks,
         g[d] <= f[d] + 1, \A c \in Checks \ {d} : g[c] <= f[c]
  PROVE  Cardinality(Summed(g)) <= Cardinality(Summed(f)) + 1
  <1> DEFINE new == <<d, f[d] + 1>>
  <1>1. ASSUME NEW x \in Summed(g) PROVE x \in Summed(f) \cup {new}
    <2>1. PICK c \in Checks : x \in {c} \X (1..g[c])
      BY DEF Summed
    <2>2. PICK n \in 1..g[c] : x = <<c, n>>
      BY <2>1
    <2>3. CASE n \in 1..f[c]
      <3>1. x \in {c} \X (1..f[c])
        BY <2>2, <2>3
      <3> QED
        BY <2>1, <3>1 DEF Summed
    <2>4. CASE n \notin 1..f[c]
      <3>1. c = d /\ n = f[d] + 1
        BY <2>2, <2>4
      <3> QED
        BY <2>2, <3>1
    <2> QED
      BY <2>3, <2>4
  <1> HIDE DEF new
  <1>2. Summed(g) \subseteq Summed(f) \cup {new}
    BY <1>1
  <1>3. IsFiniteSet(Summed(f)) /\ Cardinality(Summed(f)) \in Nat /\ Cardinality(Summed(g)) \in Nat
    BY SummedFinite
  <1>4. /\ IsFiniteSet(Summed(f) \cup {new})
        /\ \/ Cardinality(Summed(f) \cup {new}) = Cardinality(Summed(f))
           \/ Cardinality(Summed(f) \cup {new}) = Cardinality(Summed(f)) + 1
    BY <1>3, FS_AddElement
  <1>5. Cardinality(Summed(g)) <= Cardinality(Summed(f) \cup {new})
    BY <1>2, <1>4, FS_Subset
  <1> QED
    BY <1>3, <1>4, <1>5

(***************************************************************************)
(* Checks of feeds: the invariant.                                          *)
(***************************************************************************)
\* What a step of one check leaves to show.
ReadsOf(d, s) == d.at \in {"hop", "judged", "asked", "items", "store", "finish"} /\ Head(d.todo).id = s
CreditOf(d, s, claimed) ==
    IF ReadsOf(d, s) THEN IF d.at \in {"hop", "judged", "asked"} THEN 0 ELSE d.counts.created ELSE claimed
AskedInPublic(d) ==
    /\ InPublic(d.url.host)
    /\ d.url.host.form = "name" => \A a \in d.addresses : InPublic(a)

\* The clock goes on when a check takes its dates, and for nothing else.
Clocked(d) == IF d.at = "finish" THEN ticks' = ticks + 1 /\ d.date = ticks' ELSE ticks' = ticks

LEMMA CreditsAre ==
  ASSUME NEW c, NEW s
  PROVE  Credit(c, s) = CreditOf(reader[c], s, runs[c][s].created) /\ (Reading(c, s) <=> ReadsOf(reader[c], s))
  BY DEF Credit, CreditOf, Reading, ReadsOf, Current

LEMMA CreditsAreNext ==
  ASSUME NEW c \in Checks, NEW s \in Sources
  PROVE  /\ Credit(c, s)' = CreditOf(reader'[c], s, runs'[c][s].created)
         /\ Reading(c, s)' <=> ReadsOf(reader'[c], s)
  BY DEF Credit, CreditOf, Reading, ReadsOf, Current

LEMMA CreditsAreNumbers ==
  ASSUME ReadInv, NEW c \in Checks, NEW s \in Sources
  PROVE  Credit(c, s) \in Nat /\ runs[c][s].created \in Nat
  <1>1. Informed(reader[c]) /\ runs[c][s].created \in Nat
    BY DEF ReadInv, ReadTypeOK, ReadersAreInformed
  <1>2. reader[c].at \in {"items", "store", "finish"} => reader[c].counts.created \in Nat
    BY <1>1 DEF Informed, Tally
  <1> QED
    BY <1>1, <1>2 DEF Credit, Reading

LEMMA OtherReaders ==
  ASSUME ReadInv, NEW c \in Checks, NEW d, Does(c, d)
  PROVE  /\ reader' = [b \in Checks |-> reader'[b]]
         /\ reader'[c] = d /\ \A b \in Checks \ {c} : reader'[b] = reader[b]
  BY DEF ReadInv, ReadTypeOK, Does

LEMMA InformedStays ==
  ASSUME NEW d, Informed(d), \A s \in Sources : sources[s].there => sources'[s].there
  PROVE  Informed(d)'
  <1>1. ASSUME d.at \in {"next", "hop", "judged", "asked", "items", "store", "finish"}
        PROVE  d.todo \in Seq(Listing) /\ \A i \in DOMAIN d.todo : sources'[d.todo[i].id].there
    <2>1. d.todo \in Seq(Listing) /\ \A i \in DOMAIN d.todo : sources[d.todo[i].id].there
      BY <1>1, Zenon DEF Informed
    <2>2. ASSUME NEW i \in DOMAIN d.todo PROVE d.todo[i].id \in Sources
      <3>1. d.todo[i] \in Listing
        BY <2>1
      <3> QED
        BY <3>1 DEF Listing
    <2> QED
      BY <2>1, <2>2, Zenon
  <1> QED
    BY <1>1, Zenon DEF Informed

\* Others are where they were; the one that steps may give up its claims.
LEMMA ReadersStay ==
  ASSUME ReadInv, NEW c \in Checks, NEW d, Does(c, d), Informed(d),
         \A s \in Sources : sources[s].there => sources'[s].there
  PROVE  ReadersAreInformed'
  <1> SUFFICES ASSUME NEW b \in Checks PROVE Informed(reader[b])'
    BY Zenon DEF ReadersAreInformed
  <1>1. CASE b = c
    <2>1. reader'[b] = d
      BY <1>1, OtherReaders
    <2> QED
      BY <2>1, InformedStays DEF Informed
  <1>2. CASE b # c
    <2>1. reader'[b] = reader[b] /\ Informed(reader[b])
      BY <1>2, OtherReaders DEF ReadInv, ReadersAreInformed
    <2> QED
      BY <2>1, InformedStays DEF Informed
  <1> QED
    BY <1>1, <1>2

LEMMA AsksStay ==
  ASSUME ReadInv, NEW c \in Checks, NEW d, Does(c, d), d.at \in {"judged", "asked"} => AskedInPublic(d)
  PROVE  WhatIsAskedWasJudged'
  <1> SUFFICES ASSUME NEW b \in Checks, reader'[b].at \in {"judged", "asked"} PROVE AskedInPublic(reader'[b])
    BY Zenon DEF WhatIsAskedWasJudged, AskedInPublic
  <1>1. CASE b = c
    BY <1>1, OtherReaders
  <1>2. CASE b # c
    <2>1. reader'[b] = reader[b]
      BY <1>2, OtherReaders
    <2> QED
      BY <2>1 DEF ReadInv, WhatIsAskedWasJudged, AskedInPublic
  <1> QED
    BY <1>1, <1>2

LEMMA RowLater ==
  ASSUME NEW row, NEW latest \in Nat, NEW later \in Nat, latest <= later, RowOK(row, latest)
  PROVE  RowOK(row, later)
  <1>1. row.checked \in 0..later /\ row.succeeded \in 0..later
    BY DEF RowOK
  <1> QED
    BY <1>1, Zenon DEF RowOK

\* A date taken is new, and what a source shows as a success is what it showed,
\* or nothing, or the date of the check that commits.
LEMMA DatesStay ==
  ASSUME ReadInv, NEW c \in Checks, NEW d, Does(c, d), Clocked(d),
         \A s \in Sources : sources'[s].there =>
            \/ sources[s].there /\ sources'[s].succeeded = sources[s].succeeded
            \/ reader[c].at = "finish" /\ d.at # "finish" /\ sources'[s].succeeded = reader[c].date
  PROVE  DatesAreTheirOwn'
  <1> DEFINE Next(b) == reader'[b]
  <1>1. /\ ticks \in Nat /\ ticks <= ticks' /\ ticks' \in Nat
        /\ \A b \in Checks : reader[b].at = "finish" => OwnDate(b)
        /\ \A s \in Sources : sources[s].there => sources[s].succeeded \in 0..ticks
    BY DEF ReadInv, ReadTypeOK, DatesAreTheirOwn, RowOK, Clocked
  <1>2. reader'[c] = d /\ \A b \in Checks \ {c} : reader'[b] = reader[b]
    BY OtherReaders
  <1>3. ASSUME NEW b \in Checks, reader'[b].at = "finish"
        PROVE  /\ reader'[b].date \in 1..ticks'
               /\ \A s \in Sources : sources'[s].there => sources'[s].succeeded # reader'[b].date
               /\ \A e \in Checks \ {b} : reader'[e].at = "finish" => reader'[e].date # reader'[b].date
    <2>1. CASE b = c
      <3>1. d.at = "finish" /\ reader'[b].date = ticks + 1 /\ ticks' = ticks + 1
        BY <1>2, <1>3, <2>1 DEF Clocked
      <3>2. \A s \in Sources : sources'[s].there => sources'[s].succeeded \in 0..ticks
        BY <1>1, <3>1
      <3>3. \A e \in Checks \ {b} : reader'[e].at = "finish" => reader'[e].date \in 1..ticks
        BY <1>1, <1>2, <2>1 DEF OwnDate
      <3> QED
        BY <1>1, <3>1, <3>2, <3>3
    <2>2. CASE b # c
      <3>1. reader'[b] = reader[b] /\ OwnDate(b)
        BY <1>1, <1>2, <1>3, <2>2
      <3>2. reader'[b].date \in 1..ticks
        BY <3>1 DEF OwnDate
      <3>3. ASSUME NEW s \in Sources, sources'[s].there PROVE sources'[s].succeeded # reader'[b].date
        BY <2>2, <3>1, <3>3 DEF OwnDate
      <3>4. ASSUME NEW e \in Checks \ {b}, reader'[e].at = "finish" PROVE reader'[e].date # reader'[b].date
        <4>1. CASE e = c
          BY <1>1, <1>2, <3>2, <3>4, <4>1 DEF Clocked
        <4>2. CASE e # c
          BY <1>2, <3>1, <3>4, <4>2 DEF OwnDate
        <4> QED
          BY <4>1, <4>2
      <3> QED
        BY <1>1, <3>2, <3>3, <3>4
    <2> QED
      BY <2>1, <2>2
  <1> QED
    BY <1>3 DEF DatesAreTheirOwn, OwnDate

\* Without a step of a check, too.
LEMMA DatesKept ==
  ASSUME ReadInv, UNCHANGED <<reader, ticks>>,
         \A s \in Sources : sources'[s].there =>
            \/ sources[s].there /\ sources'[s].succeeded = sources[s].succeeded
            \/ sources'[s].succeeded = 0
  PROVE  DatesAreTheirOwn'
  <1> SUFFICES ASSUME NEW b \in Checks, reader[b].at = "finish"
               PROVE  /\ reader[b].date \in 1..ticks
                      /\ \A s \in Sources : sources'[s].there => sources'[s].succeeded # reader[b].date
                      /\ \A e \in Checks \ {b} : reader[e].at = "finish" => reader[e].date # reader[b].date
    BY DEF DatesAreTheirOwn, OwnDate
  <1>1. OwnDate(b) /\ ticks \in Nat
    BY DEF ReadInv, ReadTypeOK, DatesAreTheirOwn
  <1> QED
    BY <1>1 DEF OwnDate

LEMMA ClaimsStay ==
  ASSUME ReadInv, NEW c \in Checks, NEW d, Does(c, d),
         \A b \in Checks \ {c} : runs'[b] = runs[b],
         \A s \in Sources : ReadsOf(d, s) => runs'[c][s].created = 0
  PROVE  ClaimsComeLast'
  <1> SUFFICES ASSUME NEW b \in Checks, NEW s \in Sources, ReadsOf(reader'[b], s)
               PROVE  runs'[b][s].created = 0
    BY CreditsAreNext DEF ClaimsComeLast
  <1>1. CASE b = c
    BY <1>1, OtherReaders
  <1>2. CASE b # c
    <2>1. reader'[b] = reader[b] /\ runs'[b] = runs[b]
      BY <1>2, OtherReaders
    <2> QED
      BY <2>1, CreditsAre DEF ReadInv, ClaimsComeLast
  <1> QED
    BY <1>1, <1>2

\* Credits after a step, source by source.
LEMMA CreditsNext ==
  ASSUME ReadInv, NEW c \in Checks, NEW d, Does(c, d), NEW s \in Sources,
         \A b \in Checks \ {c} : runs'[b] = runs[b],
         CreditOf(d, s, runs'[c][s].created) \in Nat
  PROVE  \E f, g \in [Checks -> Nat] :
           /\ Credited(s) = Summed(f) /\ Credited(s)' = Summed(g)
           /\ \A b \in Checks \ {c} : g[b] = f[b]
           /\ f[c] = Credit(c, s) /\ g[c] = CreditOf(d, s, runs'[c][s].created)
  <1> DEFINE f == [b \in Checks |-> Credit(b, s)]
             g == [b \in Checks |-> CreditOf(reader'[b], s, runs'[b][s].created)]
  <1>1. f \in [Checks -> Nat]
    BY CreditsAreNumbers
  <1>2. reader'[c] = d /\ \A b \in Checks \ {c} : reader'[b] = reader[b] /\ runs'[b] = runs[b]
    BY OtherReaders
  <1>3. \A b \in Checks \ {c} : g[b] = f[b]
    BY <1>2, CreditsAre
  <1>4. f[c] = Credit(c, s) /\ g[c] = CreditOf(d, s, runs'[c][s].created)
    BY <1>2
  <1>5. g \in [Checks -> Nat]
    <2>1. ASSUME NEW b \in Checks PROVE g[b] \in Nat
      BY <1>1, <1>3, <1>4
    <2>2. g = [b \in Checks |-> g[b]]
      OBVIOUS
    <2> HIDE DEF g
    <2> QED
      BY <2>1, <2>2
  <1>6. Credited(s) = Summed(f)
    BY DEF Credited
  <1>7. Credited(s)' = Summed(g)
    <2>1. [b \in Checks |-> Credit(b, s)'] = g
      BY CreditsAreNext
    <2> HIDE DEF g
    <2> QED
      BY <2>1 DEF Credited, Summed
  <1> HIDE DEF f, g
  <1> QED
    BY <1>1, <1>3, <1>4, <1>5, <1>6, <1>7

LEMMA CreditsStay ==
  ASSUME ReadInv, NEW c \in Checks, NEW d, Does(c, d), UNCHANGED <<stocked, deleted>>,
         \A b \in Checks \ {c} : runs'[b] = runs[b],
         \A s \in Sources : /\ CreditOf(d, s, runs'[c][s].created) \in Nat
                            /\ CreditOf(d, s, runs'[c][s].created) <= Credit(c, s)
  PROVE  CreditsAreStored'
  <1> SUFFICES ASSUME NEW s \in Sources
               PROVE  Cardinality(Credited(s)') <= Cardinality(stocked[s]) + deleted[s]
    BY DEF CreditsAreStored
  <1>1. PICK f, g \in [Checks -> Nat] :
           /\ Credited(s) = Summed(f) /\ Credited(s)' = Summed(g)
           /\ \A b \in Checks \ {c} : g[b] = f[b]
           /\ f[c] = Credit(c, s) /\ g[c] = CreditOf(d, s, runs'[c][s].created)
    BY CreditsNext
  <1>2. \A b \in Checks : g[b] <= f[b]
    BY <1>1
  <1>3. Cardinality(Summed(g)) <= Cardinality(Summed(f))
    BY <1>2, SummedShrinks
  <1>4. Cardinality(Summed(f)) <= Cardinality(stocked[s]) + deleted[s]
    BY <1>1 DEF ReadInv, CreditsAreStored
  <1>5. Cardinality(Summed(f)) \in Nat /\ Cardinality(Summed(g)) \in Nat
    BY SummedFinite
  <1>6. Cardinality(stocked[s]) + deleted[s] \in Nat
    BY FS_CardinalityType DEF ReadInv, ReadTypeOK
  <1> QED
    BY <1>1, <1>3, <1>4, <1>5, <1>6

\* What a check has read of a source it is not reading is what its run says.
LEMMA NoCreditWithoutReading ==
  ASSUME ReadInv, NEW c \in Checks, NEW s \in Sources, NEW d, ~ReadsOf(d, s)
  PROVE  /\ CreditOf(d, s, runs[c][s].created) \in Nat
         /\ CreditOf(d, s, runs[c][s].created) <= Credit(c, s)
  <1>1. CreditOf(d, s, runs[c][s].created) = runs[c][s].created
    BY DEF CreditOf
  <1>2. Credit(c, s) \in Nat /\ runs[c][s].created \in Nat
    BY CreditsAreNumbers
  <1>3. runs[c][s].created = 0 \/ Credit(c, s) = runs[c][s].created
    BY DEF ReadInv, ClaimsComeLast, Credit
  <1> QED
    BY <1>1, <1>2, <1>3

\* A step of a check that writes nothing.
LEMMA QuietStep ==
  ASSUME ReadInv, NEW c \in Checks, NEW d, Does(c, d), Clocked(d),
         UNCHANGED <<sources, stocked, deleted, runs>>,
         Informed(d), d.at \in {"judged", "asked"} => AskedInPublic(d),
         \A s \in Sources : ReadsOf(d, s) =>
            /\ Reading(c, s)
            /\ CreditOf(d, s, runs[c][s].created) \in Nat
            /\ CreditOf(d, s, runs[c][s].created) <= Credit(c, s)
  PROVE  ReadInv'
  <1>1. ReadTypeOK'
    <2>1. ticks \in Nat /\ ticks' \in Nat /\ ticks <= ticks'
      BY DEF ReadInv, ReadTypeOK, Clocked
    <2>2. \A s \in Sources : sources[s].there => RowOK(sources[s], ticks')
      BY <2>1, RowLater DEF ReadInv, ReadTypeOK
    <2>3. reader' = [b \in Checks |-> reader'[b]]
      BY OtherReaders
    <2> QED
      BY <2>1, <2>2, <2>3 DEF ReadInv, ReadTypeOK
  <1>2. ReadersAreInformed'
    BY ReadersStay
  <1>7. DatesAreTheirOwn'
    BY DatesStay
  <1>3. ClaimsComeLast'
    BY ClaimsStay DEF ReadInv, ClaimsComeLast
  <1>4. \A s \in Sources : /\ CreditOf(d, s, runs'[c][s].created) \in Nat
                           /\ CreditOf(d, s, runs'[c][s].created) <= Credit(c, s)
    BY NoCreditWithoutReading
  <1>5. CreditsAreStored'
    BY <1>4, CreditsStay
  <1>6. StoredLinksAreArticles'
    BY DEF ReadInv, StoredLinksAreArticles
  <1> QED
    BY <1>1, <1>2, <1>3, <1>5, <1>6, <1>7, AsksStay DEF ReadInv

\* The same for a step that goes on reading: only what it has counted is to show.
LEMMA ReadOn ==
  ASSUME ReadInv, NEW c \in Checks, NEW d, Does(c, d), Clocked(d),
         UNCHANGED <<sources, stocked, deleted, runs>>,
         Informed(d), d.at \in {"judged", "asked"} => AskedInPublic(d),
         reader[c].at \in {"hop", "judged", "asked", "items", "store"}, d.todo = reader[c].todo,
         d.at \in {"hop", "judged", "asked"} => reader[c].at \in {"hop", "judged", "asked"},
         d.at \in {"items", "store", "finish"} =>
            d.counts.created = IF reader[c].at \in {"hop", "judged", "asked"} THEN 0 ELSE reader[c].counts.created
  PROVE  ReadInv'
  <1>1. ASSUME NEW s \in Sources, ReadsOf(d, s)
        PROVE  Reading(c, s) /\ CreditOf(d, s, runs[c][s].created) = Credit(c, s)
    <2>1. Reading(c, s)
      BY <1>1 DEF ReadsOf, Reading, Current
    <2>2. d.at \in {"hop", "judged", "asked", "items", "store", "finish"}
      BY <1>1 DEF ReadsOf
    <2> QED
      BY <1>1, <2>1, <2>2 DEF CreditOf, Credit
  <1> QED
    BY <1>1, CreditsAreNumbers, QuietStep

LEMMA DieKeeps ==
  ASSUME ReadInv, NEW c \in Checks, Die(c)
  PROVE  ReadInv'
  <1> DEFINE d == [at |-> "dead"]
  <1>1. Does(c, d) /\ Clocked(d) /\ UNCHANGED <<sources, stocked, deleted, runs>>
    BY DEF Die, Clocked
  <1>2. Informed(d) /\ d.at \notin {"judged", "asked", "finish"} /\ \A s \in Sources : ~ReadsOf(d, s)
    BY DEF Informed, ReadsOf
  <1> HIDE DEF d
  <1> QED
    BY <1>1, <1>2, QuietStep

LEMMA RefusedKeeps ==
  ASSUME ReadInv, NEW c \in Checks, NEW counts \in Tally, NEW status \in {"SUCCESS", "FAILED"}, ToFinish(c, status, counts),
         reader[c].at \in {"hop", "judged", "asked", "items"}, UNCHANGED <<sources, stocked, deleted, runs>>,
         counts.created = IF reader[c].at = "items" THEN reader[c].counts.created ELSE 0
  PROVE  ReadInv'
  <1> DEFINE d == [at |-> "finish", todo |-> reader[c].todo, lines |-> reader[c].lines,
                   status |-> status, counts |-> counts, date |-> ticks + 1]
  <1>1. Does(c, d) /\ Clocked(d)
    BY DEF ToFinish, Clocked
  <1>2. d.at = "finish" /\ d.todo = reader[c].todo /\ d.counts = counts /\ d.status = status
    OBVIOUS
  <1> HIDE DEF d
  <1>3. Informed(reader[c])
    BY DEF ReadInv, ReadersAreInformed
  <1>4. Informed(d)
    BY <1>2, <1>3 DEF Informed
  <1> QED
    BY <1>1, <1>2, <1>4, ReadOn

LEMMA LookUpKeeps ==
  ASSUME ReadInv, NEW c \in Checks, NEW addresses \in Lookups, LookUp(c, addresses)
  PROVE  ReadInv'
  <1>1. Informed(reader[c]) /\ reader[c].at = "hop" /\ UNCHANGED <<sources, stocked, deleted, runs>>
    BY DEF ReadInv, ReadersAreInformed, LookUp
  <1>2. CASE Hops(c) > MAX_REDIRECTS \/ ~Allowed(c, addresses)
    <2>1. Counts \in Tally /\ Counts.created = 0
      BY DEF Counts, Tally
    <2>2. ToFinish(c, "FAILED", Counts)
      BY <1>2 DEF LookUp
    <2> HIDE DEF Counts
    <2> QED
      BY <1>1, <2>1, <2>2, RefusedKeeps
  <1>3. CASE ~(Hops(c) > MAX_REDIRECTS \/ ~Allowed(c, addresses))
    <2> DEFINE d == [at |-> "judged", todo |-> reader[c].todo, lines |-> reader[c].lines,
                     url |-> reader[c].url, hop |-> Hops(c), addresses |-> addresses]
    <2>1. Does(c, d) /\ Clocked(d)
      BY <1>3 DEF LookUp, Clocked
    <2>2. d.at = "judged" /\ d.todo = reader[c].todo /\ d.url = reader[c].url /\ d.addresses = addresses
      OBVIOUS
    <2> HIDE DEF d
    <2>3. Informed(d)
      BY <1>1, <2>2 DEF Informed
    <2>4. validateSourceUrl(d.url) /\ resolvesPublicly(d.url.host, addresses)
      BY <1>3, <2>2 DEF Allowed
    <2>5. d.url = NoUrl \/ IsHost(d.url.host)
      BY <1>1, <2>2, HostsAssumption DEF Informed, Urls
    <2>6. InPublic(d.url.host)
      BY <2>4, <2>5, ValidUrlIsPublic
    <2>7. ASSUME d.url.host.form = "name", NEW a \in addresses PROVE InPublic(a)
      <3>1. isPermittedAddress(a)
        BY <2>4, <2>7 DEF resolvesPublicly
      <3>2. IsHost(a) /\ a.form # "name"
        BY HostsAssumption
      <3> QED
        BY <3>1, <3>2, LiteralIsPublic DEF isPermittedAddress
    <2>8. AskedInPublic(d)
      BY <2>2, <2>6, <2>7 DEF AskedInPublic
    <2> QED
      BY <1>1, <2>1, <2>2, <2>3, <2>8, ReadOn
  <1> QED
    BY <1>2, <1>3

LEMMA AskKeeps ==
  ASSUME ReadInv, NEW c \in Checks, Ask(c)
  PROVE  ReadInv'
  <1> DEFINE d == [at |-> "asked", todo |-> reader[c].todo, lines |-> reader[c].lines,
                   url |-> reader[c].url, hop |-> Hops(c), addresses |-> reader[c].addresses]
  <1>1. /\ Does(c, d) /\ Clocked(d) /\ reader[c].at = "judged"
        /\ UNCHANGED <<sources, stocked, deleted, runs>>
    BY DEF Ask, Clocked
  <1>2. /\ d.at = "asked" /\ d.todo = reader[c].todo /\ d.url = reader[c].url
        /\ d.addresses = reader[c].addresses
    OBVIOUS
  <1> HIDE DEF d
  <1>3. Informed(d) /\ AskedInPublic(d)
    BY <1>1, <1>2 DEF ReadInv, ReadersAreInformed, Informed, WhatIsAskedWasJudged, AskedInPublic
  <1> QED
    BY <1>1, <1>2, <1>3, ReadOn

LEMMA RedirectedKeeps ==
  ASSUME ReadInv, NEW c \in Checks, NEW location \in Locations, Redirected(c, location)
  PROVE  ReadInv'
  <1> DEFINE d == [at |-> "hop", todo |-> reader[c].todo, lines |-> reader[c].lines,
                   url |-> location, hop |-> reader[c].hop + 1]
  <1>1. Does(c, d) /\ Clocked(d) /\ reader[c].at = "asked" /\ UNCHANGED <<sources, stocked, deleted, runs>>
    BY DEF Redirected, Clocked
  <1>2. d.at = "hop" /\ d.todo = reader[c].todo /\ d.url \in Urls
    BY DEF Urls
  <1> HIDE DEF d
  <1>3. Informed(reader[c])
    BY DEF ReadInv, ReadersAreInformed
  <1>4. Informed(d)
    BY <1>1, <1>2, <1>3 DEF Informed
  <1> QED
    BY <1>1, <1>2, <1>4, ReadOn

LEMMA ParsedIsASequence ==
  ASSUME NEW b \in ReadBodies
  PROVE  parseFeed(b) \in Seq(Parsed) /\ Len(b.entries) \in Nat
  <1>1. b.kind \in {"rss", "atom"} /\ b.entries \in Seq(Range(b.entries))
    BY BodiesAssumption DEF ReadBodies
  <1>2. Len(b.entries) \in Nat /\ DOMAIN b.entries = 1..Len(b.entries)
    BY <1>1, LenProperties
  <1>3. \A i \in DOMAIN parseFeed(b) : parseFeed(b)[i] \in Parsed
    BY DEF Parsed, Range
  <1>4. parseFeed(b) = [i \in 1..Len(b.entries) |-> parseFeed(b)[i]]
    <2>1. CASE b.kind = "rss"
      BY <1>2, <2>1 DEF parseFeed
    <2>2. CASE b.kind = "atom"
      BY <1>2, <2>2 DEF parseFeed
    <2> QED
      BY <1>1, <2>1, <2>2
  <1> DEFINE n == Len(b.entries)
             q == parseFeed(b)
  <1> HIDE DEF n, q
  <1>5. n \in Nat /\ q = [i \in 1..n |-> q[i]] /\ \A i \in DOMAIN q : q[i] \in Parsed
    BY <1>2, <1>3, <1>4 DEF n, q
  <1>6. q \in Seq(Parsed)
    BY <1>5
  <1> QED
    BY <1>2, <1>6 DEF q

LEMMA AnsweredKeeps ==
  ASSUME ReadInv, NEW c \in Checks, NEW body \in Bodies, Answered(c, body)
  PROVE  ReadInv'
  <1>1. Informed(reader[c]) /\ reader[c].at = "asked" /\ UNCHANGED <<sources, stocked, deleted, runs>>
    BY DEF ReadInv, ReadersAreInformed, Answered
  <1>2. CASE body.kind \notin {"rss", "atom"}
    <2>1. Counts \in Tally /\ Counts.created = 0
      BY DEF Counts, Tally
    <2>2. ToFinish(c, "FAILED", Counts)
      BY <1>2 DEF Answered
    <2> HIDE DEF Counts
    <2> QED
      BY <1>1, <2>1, <2>2, RefusedKeeps
  <1>3. CASE body.kind \in {"rss", "atom"}
    <2> DEFINE counts == [Counts EXCEPT !.discovered = Len(body.entries)]
               d == Lists(c, "items", parseFeed(body), counts)
    <2>1. Does(c, d) /\ Clocked(d)
      BY <1>3 DEF Answered, Lists, Clocked
    <2>2. parseFeed(body) \in Seq(Parsed) /\ Len(body.entries) \in Nat
      BY <1>3, ParsedIsASequence DEF ReadBodies
    <2>3. counts \in Tally /\ counts.created = 0
      BY <2>2 DEF Counts, Tally
    <2> HIDE DEF counts
    <2>4. d.at = "items" /\ d.todo = reader[c].todo /\ d.items = parseFeed(body) /\ d.counts = counts
      BY DEF Lists
    <2> HIDE DEF d
    <2>5. Informed(d)
      BY <1>1, <2>2, <2>3, <2>4 DEF Informed
    <2> QED
      BY <1>1, <2>1, <2>3, <2>4, <2>5, ReadOn
  <1> QED
    BY <1>2, <1>3

LEMMA TalliedIsATally ==
  ASSUME NEW counts \in Tally, NEW field \in {"created", "duplicates", "skipped"}
  PROVE  /\ [counts EXCEPT ![field] = @ + 1] \in Tally
         /\ [counts EXCEPT ![field] = @ + 1].created = IF field = "created" THEN counts.created + 1 ELSE counts.created
  BY DEF Tally

LEMMA TalliedIsInformed ==
  ASSUME ReadInv, NEW c \in Checks, reader[c].at \in {"items", "store"}, reader[c].items # <<>>,
         NEW field \in {"created", "duplicates", "skipped"}
  PROVE  /\ Informed(Tallied(c, field))
         /\ Tallied(c, field).at = "items" /\ Tallied(c, field).todo = reader[c].todo
         /\ Tallied(c, field).counts.created =
               IF field = "created" THEN reader[c].counts.created + 1 ELSE reader[c].counts.created
         /\ reader[c].counts.created \in Nat
  <1> DEFINE counts == [reader[c].counts EXCEPT ![field] = @ + 1]
             d == Tallied(c, field)
  <1>1. Informed(reader[c])
    BY DEF ReadInv, ReadersAreInformed
  <1>2. reader[c].counts \in Tally /\ reader[c].items \in Seq(Parsed)
    BY <1>1 DEF Informed
  <1>3. counts \in Tally /\ counts.created = IF field = "created" THEN reader[c].counts.created + 1 ELSE reader[c].counts.created
    BY <1>2, TalliedIsATally
  <1>4. Tail(reader[c].items) \in Seq(Parsed)
    BY <1>2, HeadTailProperties
  <1> HIDE DEF counts
  <1>5. d.at = "items" /\ d.todo = reader[c].todo /\ d.items = Tail(reader[c].items) /\ d.counts = counts
    BY DEF Tallied, Lists, counts
  <1> HIDE DEF d
  <1>6. Informed(d)
    BY <1>1, <1>3, <1>4, <1>5 DEF Informed
  <1>7. reader[c].counts.created \in Nat
    BY <1>2 DEF Tally
  <1> QED
    BY <1>3, <1>5, <1>6, <1>7 DEF d

LEMMA LookKeeps ==
  ASSUME ReadInv, NEW c \in Checks, Look(c)
  PROVE  ReadInv'
  <1>1. /\ Informed(reader[c]) /\ reader[c].at = "items" /\ reader[c].items # <<>>
        /\ UNCHANGED <<sources, stocked, deleted, runs>>
    BY DEF ReadInv, ReadersAreInformed, Look
  <1>2. ASSUME NEW field \in {"skipped", "duplicates"}, Does(c, Tallied(c, field)) PROVE ReadInv'
    <2> DEFINE d == Tallied(c, field)
    <2>1. /\ Informed(d) /\ d.at = "items" /\ d.todo = reader[c].todo
          /\ d.counts.created = reader[c].counts.created
      BY <1>1, TalliedIsInformed
    <2>2. Does(c, d) /\ Clocked(d)
      BY <1>1, <1>2, <2>1 DEF Look, Clocked
    <2> HIDE DEF d
    <2> QED
      BY <1>1, <2>1, <2>2, ReadOn
  <1>3. ASSUME Storable(c, Item(c)), Does(c, Lists(c, "store", reader[c].items, reader[c].counts)) PROVE ReadInv'
    <2> DEFINE d == Lists(c, "store", reader[c].items, reader[c].counts)
    <2>1. Does(c, d) /\ Clocked(d)
      BY <1>3 DEF Look, Lists, Clocked
    <2>2. d.at = "store" /\ d.todo = reader[c].todo /\ d.items = reader[c].items /\ d.counts = reader[c].counts
      BY DEF Lists
    <2> HIDE DEF d
    <2>3. /\ isIdentifiable(articleIdentity(Head(d.items)))
          /\ Head(d.items).link # NoUrl => validateSourceUrl(Head(d.items).link)
      BY <1>3, <2>2 DEF Storable, Item
    <2>4. Informed(d)
      BY <1>1, <2>2, <2>3 DEF Informed
    <2> QED
      BY <1>1, <2>1, <2>2, <2>4, ReadOn
  <1> QED
    BY <1>2, <1>3 DEF Look

LEMMA AllReadKeeps ==
  ASSUME ReadInv, NEW c \in Checks, AllRead(c)
  PROVE  ReadInv'
  <1>1. Informed(reader[c])
    BY DEF ReadInv, ReadersAreInformed
  <1>2. reader[c].at = "items" /\ ToFinish(c, "SUCCESS", reader[c].counts) /\ UNCHANGED <<sources, stocked, deleted, runs>>
    BY DEF AllRead
  <1>3. reader[c].counts \in Tally
    BY <1>1, <1>2 DEF Informed
  <1> QED
    BY <1>2, <1>3, RefusedKeeps

LEMMA ListedSourcesAreThere ==
  ASSUME ReadInv, NEW ids \in SUBSET Sources, NEW listed \in listFetchableSources(ids)
  PROVE  listed \in Seq(Listing) /\ \A i \in DOMAIN listed : sources[listed[i].id].there
  <1> DEFINE set == Fetchable \cap ids
             n == Cardinality(set)
  <1>1. set \subseteq {s \in Sources : sources[s].there}
    BY DEF Fetchable
  <1>2. IsFiniteSet(set)
    BY <1>1, ReadingAssumption, FS_Subset
  <1>3. n \in Nat
    BY <1>2, FS_CardinalityType
  <1>4. PICK q \in InOrder(set) : listed = [i \in DOMAIN q |-> [id |-> q[i], url |-> sources[q[i]].url]]
    BY DEF listFetchableSources
  <1>5. q \in [1..n -> set]
    BY <1>4 DEF InOrder
  <1> HIDE DEF set, n
  <1>6. ASSUME NEW i \in 1..n PROVE listed[i] \in Listing /\ sources[listed[i].id].there
    <2>1. q[i] \in Sources /\ sources[q[i]].there
      BY <1>1, <1>5
    <2>2. sources[q[i]].url \in Typed \cup {NoUrl}
      BY <2>1 DEF ReadInv, ReadTypeOK, RowOK
    <2>3. listed[i] = [id |-> q[i], url |-> sources[q[i]].url]
      BY <1>4, <1>5
    <2> QED
      BY <2>1, <2>2, <2>3 DEF Listing
  <1>7. listed = [i \in 1..n |-> listed[i]]
    BY <1>4, <1>5
  <1>8. listed \in Seq(Listing) /\ DOMAIN listed = 1..n
    BY <1>3, <1>6, <1>7
  <1> QED
    BY <1>6, <1>8

LEMMA IngestionKeeps ==
  ASSUME ReadInv, NEW c \in Checks, NEW ids \in SUBSET Sources, runIngestion(c, ids)
  PROVE  ReadInv'
  <1>1. PICK listed \in listFetchableSources(ids) :
          Does(c, IF listed = <<>> THEN [at |-> "over", verdict |-> "NO_SOURCES", todo |-> <<>>, lines |-> <<>>]
                  ELSE [at |-> "next", todo |-> listed, lines |-> <<>>])
    BY DEF runIngestion
  <1> DEFINE d == IF listed = <<>> THEN [at |-> "over", verdict |-> "NO_SOURCES", todo |-> <<>>, lines |-> <<>>]
                  ELSE [at |-> "next", todo |-> listed, lines |-> <<>>]
  <1>2. Does(c, d) /\ Clocked(d) /\ UNCHANGED <<sources, stocked, deleted, runs>>
    BY <1>1 DEF runIngestion, Clocked
  <1>3. d.at = "over" \/ (d.at = "next" /\ d.todo = listed)
    OBVIOUS
  <1> HIDE DEF d
  <1>4. Informed(d)
    BY <1>3, ListedSourcesAreThere DEF Informed
  <1>5. d.at \notin {"judged", "asked", "finish"} /\ \A s \in Sources : ~ReadsOf(d, s)
    BY <1>3 DEF ReadsOf
  <1> QED
    BY <1>2, <1>4, <1>5, QuietStep

LEMMA CloseKeeps ==
  ASSUME ReadInv, NEW c \in Checks, CloseBatch(c)
  PROVE  ReadInv'
  <1> DEFINE d == [at |-> "over", verdict |-> Verdict(reader[c].lines), todo |-> <<>>, lines |-> reader[c].lines]
  <1>1. Does(c, d) /\ Clocked(d) /\ UNCHANGED <<sources, stocked, deleted, runs>>
    BY DEF CloseBatch, Clocked
  <1>2. d.at = "over"
    OBVIOUS
  <1> HIDE DEF d
  <1>3. Informed(d) /\ d.at \notin {"judged", "asked", "finish"} /\ \A s \in Sources : ~ReadsOf(d, s)
    BY <1>2 DEF Informed, ReadsOf
  <1> QED
    BY <1>1, <1>3, QuietStep

LEMMA CurrentIsThere ==
  ASSUME ReadInv, NEW c \in Checks, reader[c].at \in {"next", "hop", "judged", "asked", "items", "store", "finish"},
         reader[c].todo # <<>>
  PROVE  /\ Head(reader[c].todo) \in Listing /\ Current(c) \in Sources /\ sources[Current(c)].there
         /\ Tail(reader[c].todo) \in Seq(Listing)
         /\ \A i \in DOMAIN Tail(reader[c].todo) : sources[Tail(reader[c].todo)[i].id].there
  <1> DEFINE todo == reader[c].todo
  <1>1. todo \in Seq(Listing) /\ \A i \in DOMAIN todo : sources[todo[i].id].there
    BY Zenon DEF ReadInv, ReadersAreInformed, Informed
  <1> HIDE DEF todo
  <1>2. todo # <<>>
    BY DEF todo
  <1>3. /\ Head(todo) \in Listing /\ Head(todo) = todo[1] /\ 1 \in DOMAIN todo
        /\ Tail(todo) \in Seq(Listing) /\ \A i \in DOMAIN Tail(todo) : i + 1 \in DOMAIN todo /\ Tail(todo)[i] = todo[i + 1]
    BY <1>1, <1>2, HeadTailProperties
  <1>4. Head(todo).id \in Sources
    BY <1>3 DEF Listing
  <1>5. sources[Head(todo).id].there
    BY <1>1, <1>3
  <1>6. \A i \in DOMAIN Tail(todo) : sources[Tail(todo)[i].id].there
    BY <1>1, <1>3
  <1> QED
    BY <1>3, <1>4, <1>5, <1>6 DEF todo, Current

LEMMA OpenKeeps ==
  ASSUME ReadInv, NEW c \in Checks, OpenRun(c)
  PROVE  ReadInv'
  <1> DEFINE d == [at |-> "hop", todo |-> reader[c].todo, lines |-> reader[c].lines,
                   url |-> Head(reader[c].todo).url, hop |-> 0]
             h == Head(reader[c].todo).id
             fresh == [status |-> "RUNNING", created |-> 0]
  <1>1. /\ Does(c, d) /\ reader[c].at = "next" /\ reader[c].todo # <<>>
        /\ runs' = [runs EXCEPT ![c][h] = fresh] /\ UNCHANGED <<sources, stocked, deleted, ticks>>
        /\ Clocked(d)
    BY DEF OpenRun, Clocked
  <1>2. d.at = "hop" /\ d.todo = reader[c].todo /\ d.url = Head(reader[c].todo).url
    OBVIOUS
  <1> HIDE DEF d
  <1>3. Informed(reader[c])
    BY DEF ReadInv, ReadersAreInformed
  <1>4. Head(reader[c].todo) \in Listing /\ h \in Sources
    BY <1>1, CurrentIsThere DEF Current
  <1>5. d.url \in Urls
    BY <1>2, <1>4 DEF Listing, Urls
  <1>6. Informed(d)
    BY <1>1, <1>2, <1>3, <1>5 DEF Informed
  <1> DEFINE RunRows == [status : {"none", "RUNNING", "SUCCESS", "FAILED"}, created : Nat]
  <1>7. runs \in [Checks -> [Sources -> RunRows]] /\ fresh \in RunRows /\ fresh.created = 0
    BY DEF ReadInv, ReadTypeOK
  <1> HIDE DEF h, fresh, RunRows
  <1>8. /\ runs' \in [Checks -> [Sources -> RunRows]]
        /\ \A b \in Checks \ {c} : runs'[b] = runs[b]
        /\ runs'[c][h] = fresh /\ \A s \in Sources \ {h} : runs'[c][s] = runs[c][s]
    BY <1>1, <1>4, <1>7
  <1>9. ReadTypeOK'
    <2>1. runs' \in [Checks -> [Sources -> [status : {"none", "RUNNING", "SUCCESS", "FAILED"}, created : Nat]]]
      BY <1>8 DEF RunRows
    <2> QED
      BY <1>1, <2>1, OtherReaders DEF ReadInv, ReadTypeOK, RowOK
  <1>10. \A s \in Sources : ReadsOf(d, s) <=> s = h
    BY <1>2 DEF ReadsOf, h
  <1>11. ASSUME NEW s \in Sources
         PROVE  /\ CreditOf(d, s, runs'[c][s].created) \in Nat
                /\ CreditOf(d, s, runs'[c][s].created) <= Credit(c, s)
    <2>1. CASE s = h
      BY <1>2, <1>10, <2>1, CreditsAreNumbers DEF CreditOf
    <2>2. CASE s # h
      <3>1. runs'[c][s] = runs[c][s] /\ ~ReadsOf(d, s)
        BY <1>8, <1>10, <2>2
      <3> QED
        BY <3>1, NoCreditWithoutReading
    <2> QED
      BY <2>1, <2>2
  <1>12. CreditsAreStored'
    BY <1>1, <1>8, <1>11, CreditsStay
  <1>13. ClaimsComeLast'
    <2>1. \A s \in Sources : ReadsOf(d, s) => runs'[c][s].created = 0
      BY <1>7, <1>8, <1>10
    <2> QED
      BY <1>1, <1>8, <2>1, ClaimsStay
  <1>14. ReadersAreInformed'
    BY <1>1, <1>6, ReadersStay
  <1>15. WhatIsAskedWasJudged'
    BY <1>1, <1>2, AsksStay
  <1>16. StoredLinksAreArticles'
    BY <1>1 DEF ReadInv, StoredLinksAreArticles
  <1>17. DatesAreTheirOwn'
    BY <1>1, DatesStay
  <1> QED
    BY <1>9, <1>12, <1>13, <1>14, <1>15, <1>16, <1>17 DEF ReadInv

\* What is stored is new, and its link one that may be followed.
LEMMA FiledIsNew ==
  ASSUME ReadInv, NEW c \in Checks, reader[c].at = "store",
         ~Known(Current(c), articleIdentity(Item(c)))
  PROVE  /\ Filed(Item(c)) \notin stocked[Current(c)]
         /\ Filed(Item(c)).link # NoUrl =>
              /\ Filed(Item(c)).link.scheme \in {"http", "https"} /\ InPublic(Filed(Item(c)).link.host)
              /\ Filed(Item(c)).link \in ArticleLinks
  <1> DEFINE item == Item(c)
             y == Filed(item)
             identity == articleIdentity(item)
  <1>1. /\ reader[c].items \in Seq(Parsed) /\ reader[c].items # <<>>
        /\ item.link # NoUrl => validateSourceUrl(item.link)
        /\ isIdentifiable(identity)
    BY DEF ReadInv, ReadersAreInformed, Informed, Item
  <1>2. item \in Parsed
    BY <1>1, HeadTailProperties DEF Item
  <1>3. y.ext = identity.ext /\ y.norm = identity.norm /\ y.link = item.link
    BY DEF Filed, articleIdentity
  <1> HIDE DEF item, y, identity
  <1>4. SameArticle(identity, y)
    BY <1>1, <1>3 DEF SameArticle, isIdentifiable
  <1>5. y \notin stocked[Current(c)]
    BY <1>4 DEF Known, identity, item
  <1>6. ASSUME item.link # NoUrl
        PROVE  item.link.scheme \in {"http", "https"} /\ InPublic(item.link.host) /\ item.link \in ArticleLinks
    <2>1. item.link \in ArticleLinks
      BY <1>2, <1>6, ParsedLinksAreArticles
    <2>2. item.link = NoUrl \/ IsHost(item.link.host)
      BY <2>1, HostsAssumption
    <2> QED
      BY <1>1, <1>6, <2>1, <2>2, ValidUrlIsPublic
  <1> QED
    BY <1>3, <1>5, <1>6 DEF y, item

LEMMA StoreKeeps ==
  ASSUME ReadInv, NEW c \in Checks, Store(c)
  PROVE  ReadInv'
  <1> DEFINE known == Known(Current(c), articleIdentity(Item(c)))
             h == Current(c)
             y == Filed(Item(c))
  <1>1. reader[c].at = "store" /\ UNCHANGED <<sources, deleted, runs, ticks>> /\ Does(c, Tallied(c, Outcome(c)))
    BY DEF Store
  <1>2. Informed(reader[c]) /\ reader[c].items # <<>>
    BY <1>1 DEF ReadInv, ReadersAreInformed, Informed
  <1>3. CASE known
    <2> DEFINE d == Tallied(c, "duplicates")
    <2>1. Does(c, d) /\ UNCHANGED stocked
      BY <1>1, <1>3 DEF Store, Outcome
    <2>2. Informed(d) /\ d.at = "items" /\ d.todo = reader[c].todo /\ d.counts.created = reader[c].counts.created
      BY <1>1, <1>2, TalliedIsInformed
    <2> HIDE DEF d
    <2>3. Clocked(d)
      BY <1>1, <2>2 DEF Clocked
    <2> QED
      BY <1>1, <2>1, <2>2, <2>3, ReadOn
  <1>4. CASE ~known
    <2> DEFINE d == Tallied(c, "created")
    <2>1. Does(c, d) /\ stocked' = [stocked EXCEPT ![h] = @ \cup {y}]
      BY <1>1, <1>4 DEF Store, Outcome
    <2>2. /\ Informed(d) /\ d.at = "items" /\ d.todo = reader[c].todo
          /\ d.counts.created = reader[c].counts.created + 1 /\ reader[c].counts.created \in Nat
      BY <1>1, <1>2, TalliedIsInformed
    <2> HIDE DEF d
    <2>3. h \in Sources
      BY <1>1, <1>2, CurrentIsThere DEF Informed
    <2>4. /\ y \notin stocked[h]
          /\ y.link # NoUrl => /\ y.link.scheme \in {"http", "https"} /\ InPublic(y.link.host)
                               /\ y.link \in ArticleLinks
      BY <1>1, <1>4, FiledIsNew
    <2> HIDE DEF h, y, known
    <2>5. /\ stocked' = [s \in Sources |-> stocked'[s]]
          /\ stocked'[h] = stocked[h] \cup {y}
          /\ \A s \in Sources \ {h} : stocked'[s] = stocked[s]
      BY <2>1, <2>3 DEF ReadInv, ReadTypeOK
    <2>6. /\ \A s \in Sources : IsFiniteSet(stocked[s]) /\ Cardinality(stocked[s]) \in Nat
          /\ IsFiniteSet(stocked'[h]) /\ Cardinality(stocked'[h]) = Cardinality(stocked[h]) + 1
          /\ \A s \in Sources : deleted[s] \in Nat
      BY <2>3, <2>4, <2>5, FS_AddElement, FS_CardinalityType DEF ReadInv, ReadTypeOK
    <2>7. ReadTypeOK'
      <3>1. \A s \in Sources : IsFiniteSet(stocked'[s])
        BY <2>5, <2>6
      <3>2. reader' = [b \in Checks |-> reader'[b]]
        BY <2>1, OtherReaders
      <3> QED
        BY <1>1, <2>5, <3>1, <3>2 DEF ReadInv, ReadTypeOK, RowOK
    <2>8. StoredLinksAreArticles'
      <3> SUFFICES ASSUME NEW s \in Sources, NEW x \in stocked'[s], x.link # NoUrl
                   PROVE  /\ x.link.scheme \in {"http", "https"} /\ InPublic(x.link.host)
                          /\ x.link \in ArticleLinks
        BY DEF StoredLinksAreArticles
      <3>1. x = y \/ x \in stocked[s]
        BY <2>5
      <3> QED
        BY <2>4, <3>1 DEF ReadInv, StoredLinksAreArticles
    <2>9. \A s \in Sources : ReadsOf(d, s) <=> s = h
      BY <2>2 DEF ReadsOf, h, Current
    <2>10. Reading(c, h) /\ Credit(c, h) = reader[c].counts.created
      BY <1>1 DEF Reading, Credit, h
    <2>11. CreditOf(d, h, runs'[c][h].created) = Credit(c, h) + 1
      BY <2>2, <2>3, <2>9, <2>10 DEF CreditOf
    <2>12. CreditsAreStored'
      <3> SUFFICES ASSUME NEW s \in Sources PROVE Cardinality(Credited(s)') <= Cardinality(stocked'[s]) + deleted[s]
        BY <1>1 DEF CreditsAreStored
      <3>1. CASE s = h
        <4>1. CreditOf(d, s, runs'[c][s].created) \in Nat
          BY <2>2, <2>10, <2>11, <3>1
        <4>2. PICK f, g \in [Checks -> Nat] :
                 /\ Credited(s) = Summed(f) /\ Credited(s)' = Summed(g)
                 /\ \A b \in Checks \ {c} : g[b] = f[b]
                 /\ f[c] = Credit(c, s) /\ g[c] = CreditOf(d, s, runs'[c][s].created)
          BY <1>1, <2>1, <4>1, CreditsNext
        <4>3. g[c] <= f[c] + 1 /\ \A b \in Checks \ {c} : g[b] <= f[b]
          BY <2>11, <3>1, <4>2
        <4>4. Cardinality(Summed(g)) <= Cardinality(Summed(f)) + 1
          BY <4>3, SummedGrows
        <4>5. Cardinality(Summed(f)) <= Cardinality(stocked[s]) + deleted[s]
          BY <4>2 DEF ReadInv, CreditsAreStored
        <4>6. Cardinality(Summed(f)) \in Nat /\ Cardinality(Summed(g)) \in Nat
          BY SummedFinite
        <4> QED
            BY <2>6, <3>1, <4>2, <4>4, <4>5, <4>6
      <3>2. CASE s # h
        <4>1. ~ReadsOf(d, s) /\ runs'[c][s] = runs[c][s]
          BY <1>1, <2>9, <3>2
        <4>2. /\ CreditOf(d, s, runs'[c][s].created) \in Nat
              /\ CreditOf(d, s, runs'[c][s].created) <= Credit(c, s)
          BY <4>1, NoCreditWithoutReading
        <4>3. PICK f, g \in [Checks -> Nat] :
                 /\ Credited(s) = Summed(f) /\ Credited(s)' = Summed(g)
                 /\ \A b \in Checks \ {c} : g[b] = f[b]
                 /\ f[c] = Credit(c, s) /\ g[c] = CreditOf(d, s, runs'[c][s].created)
          BY <1>1, <2>1, <4>2, CreditsNext
        <4>4. \A b \in Checks : g[b] <= f[b]
          BY <4>2, <4>3
        <4>5. Cardinality(Summed(g)) <= Cardinality(Summed(f))
          BY <4>4, SummedShrinks
        <4>6. Cardinality(Summed(f)) <= Cardinality(stocked[s]) + deleted[s]
          BY <4>3 DEF ReadInv, CreditsAreStored
        <4>7. Cardinality(Summed(f)) \in Nat /\ Cardinality(Summed(g)) \in Nat
          BY SummedFinite
        <4>8. stocked'[s] = stocked[s]
          BY <2>5, <3>2
        <4> QED
          BY <2>6, <4>3, <4>5, <4>6, <4>7, <4>8
      <3> QED
        BY <3>1, <3>2
    <2>13. ClaimsComeLast'
      <3>1. \A s \in Sources : ReadsOf(d, s) => runs'[c][s].created = 0
        BY <1>1, <2>9, <2>10, <2>3 DEF ReadInv, ClaimsComeLast
      <3> QED
        BY <1>1, <2>1, <3>1, ClaimsStay
    <2>14. ReadersAreInformed'
      BY <1>1, <2>1, <2>2, ReadersStay
    <2>15. WhatIsAskedWasJudged'
      BY <2>1, <2>2, AsksStay
    <2>16. DatesAreTheirOwn'
      <3>1. Clocked(d)
        BY <1>1, <2>2 DEF Clocked
      <3> QED
        BY <1>1, <2>1, <3>1, DatesStay
    <2> QED
      BY <2>7, <2>8, <2>12, <2>13, <2>14, <2>15, <2>16 DEF ReadInv
  <1> QED
    BY <1>3, <1>4

\* The dates of a row say what the check met that it bears the date of.
LEMMA ToldRow ==
  ASSUME NEW row, NEW latest \in Nat, RowOK(row, latest), NEW status \in {"SUCCESS", "FAILED"},
         NEW date \in 1..latest, row.succeeded # date, NEW told, told = Told(row, status, date)
  PROVE  /\ RowOK(told, latest) /\ told.there = row.there
         /\ told.succeeded = row.succeeded \/ told.succeeded = date
  <1> DEFINE good == status = "SUCCESS"
  <1>1. row = RowFields(row) /\ row.checked \in 0..latest /\ row.succeeded \in 0..latest
        /\ row.url \in Typed \cup {NoUrl}
    BY DEF RowOK
  <1>2. CASE good
    <2>1. told = [there |-> row.there, kind |-> row.kind, url |-> row.url, on |-> row.on,
                  checked |-> date, succeeded |-> date, error |-> FALSE]
      BY <1>1, <1>2 DEF Told, RowFields
    <2>2. told = RowFields(told) /\ told.there = row.there
      BY <2>1 DEF RowFields
    <2>3. told.checked = date /\ told.succeeded = date /\ told.error = FALSE /\ told.url = row.url
      BY <2>1
    <2>4. /\ told.checked \in 0..latest /\ told.succeeded \in 0..latest
          /\ told.url \in Typed \cup {NoUrl}
          /\ told.error <=> told.succeeded # told.checked
      BY <1>1, <2>3
    <2> QED
      BY <2>2, <2>3, <2>4, Zenon DEF RowOK
  <1>3. CASE ~good
    <2>1. told = [there |-> row.there, kind |-> row.kind, url |-> row.url, on |-> row.on,
                  checked |-> date, succeeded |-> row.succeeded, error |-> TRUE]
      BY <1>1, <1>3 DEF Told, RowFields
    <2>2. told = RowFields(told) /\ told.there = row.there
      BY <2>1 DEF RowFields
    <2>3. told.checked = date /\ told.succeeded = row.succeeded /\ told.error = TRUE /\ told.url = row.url
      BY <2>1
    <2>4. /\ told.checked \in 0..latest /\ told.succeeded \in 0..latest
          /\ told.url \in Typed \cup {NoUrl}
          /\ told.error <=> told.succeeded # told.checked
      BY <1>1, <2>3
    <2> QED
      BY <2>2, <2>3, <2>4, Zenon DEF RowOK
  <1> QED
    BY <1>2, <1>3

\* Of the sources one row changes, and none goes away.
LEMMA RowsChange ==
  ASSUME ReadInv, NEW s \in Sources, NEW row, sources' = [sources EXCEPT ![s] = row], row.there, RowOK(row, ticks'),
         ticks' \in Nat, ticks <= ticks'
  PROVE  /\ sources' = [t \in Sources |-> sources'[t]]
         /\ \A t \in Sources : sources[t].there => sources'[t].there
         /\ \A t \in Sources : sources'[t].there => RowOK(sources'[t], ticks')
  <1>1. sources = [t \in Sources |-> sources[t]] /\ ticks \in Nat
    BY DEF ReadInv, ReadTypeOK
  <1>2. sources' = [t \in Sources |-> sources'[t]] /\ sources'[s] = row /\ \A t \in Sources \ {s} : sources'[t] = sources[t]
    BY <1>1
  <1>3. \A t \in Sources : sources[t].there => sources'[t].there
    BY <1>2, Zenon
  <1>4. ASSUME NEW t \in Sources, sources'[t].there PROVE RowOK(sources'[t], ticks')
    <2>1. CASE t = s
      BY <1>2, <2>1
    <2>2. CASE t # s
      <3>1. sources'[t] = sources[t]
        BY <1>2, <2>2
      <3>2. RowOK(sources[t], ticks)
        BY <1>4, <3>1, Zenon DEF ReadInv, ReadTypeOK
      <3> QED
        BY <1>1, <3>1, <3>2, RowLater
    <2> QED
      BY <2>1, <2>2
  <1> QED
    BY <1>2, <1>3, <1>4

LEMMA FinishKeeps ==
  ASSUME ReadInv, NEW c \in Checks, FinishRun(c)
  PROVE  ReadInv'
  <1> DEFINE h == Current(c)
             status == reader[c].status
             created == reader[c].counts.created
             row == [status |-> status, created |-> created]
             date == reader[c].date
             told == Told(sources[h], status, date)
             d == [at |-> "next", todo |-> Onwards(c), lines |-> Append(reader[c].lines, [id |-> h, status |-> status])]
             RunRows == [status : {"none", "RUNNING", "SUCCESS", "FAILED"}, created : Nat]
  <1>1. /\ reader[c].at = "finish" /\ Does(c, d) /\ UNCHANGED <<stocked, deleted, ticks>>
        /\ runs' = [runs EXCEPT ![c][h] = row] /\ sources' = [sources EXCEPT ![h] = told]
    BY DEF FinishRun
  <1>2. Informed(reader[c])
    BY DEF ReadInv, ReadersAreInformed
  <1>3. reader[c].todo # <<>> /\ status \in {"SUCCESS", "FAILED"} /\ reader[c].counts \in Tally
    BY <1>1, <1>2 DEF Informed
  <1>4. created \in Nat
    BY <1>3 DEF Tally
  <1>5. /\ h \in Sources /\ sources[h].there /\ Onwards(c) \in Seq(Listing)
        /\ \A i \in DOMAIN Onwards(c) : sources[Onwards(c)[i].id].there
    BY <1>1, <1>3, CurrentIsThere DEF Onwards
  <1>6. RowOK(sources[h], ticks) /\ ticks \in Nat /\ runs \in [Checks -> [Sources -> RunRows]] /\ row \in RunRows
    BY <1>3, <1>4, <1>5 DEF ReadInv, ReadTypeOK
  <1>7. row.created = created /\ d.at = "next" /\ d.todo = Onwards(c)
    OBVIOUS
  <1>20. date \in 1..ticks /\ sources[h].succeeded # date
    BY <1>1, <1>5 DEF ReadInv, DatesAreTheirOwn, OwnDate
  <1> HIDE DEF h, status, created, row, d, RunRows
  <1>8. /\ RowOK(told, ticks) /\ told.there = sources[h].there
        /\ told.succeeded = sources[h].succeeded \/ told.succeeded = date
    <2> HIDE DEF date
    <2> QED
      BY <1>3, <1>6, <1>20, ToldRow
  <1> HIDE DEF told
  <1>9. /\ sources' = [t \in Sources |-> sources'[t]]
        /\ \A t \in Sources : sources[t].there => sources'[t].there
        /\ \A t \in Sources : sources'[t].there => RowOK(sources'[t], ticks')
    <2>1. ticks' \in Nat /\ ticks <= ticks'
      BY <1>1, <1>6
    <2>2. told.there
      BY <1>5, <1>8, Zenon
    <2>3. sources' = [sources EXCEPT ![h] = told] /\ RowOK(told, ticks')
      BY <1>1, <1>8
    <2> QED
      BY <1>5, <2>1, <2>2, <2>3, RowsChange
  <1>10. /\ runs' \in [Checks -> [Sources -> RunRows]]
         /\ \A b \in Checks \ {c} : runs'[b] = runs[b]
         /\ runs'[c][h] = row /\ \A s \in Sources \ {h} : runs'[c][s] = runs[c][s]
    BY <1>1, <1>5, <1>6
  <1>11. ReadTypeOK'
    <2>1. runs' \in [Checks -> [Sources -> [status : {"none", "RUNNING", "SUCCESS", "FAILED"}, created : Nat]]]
      BY <1>10 DEF RunRows
    <2>2. reader' = [b \in Checks |-> reader'[b]] /\ ticks' \in Nat
      BY <1>1, <1>6, OtherReaders
    <2> QED
      BY <1>1, <1>9, <2>1, <2>2, Zenon DEF ReadInv, ReadTypeOK
  <1>12. Informed(d)
    BY <1>5, <1>7 DEF Informed
  <1>13. ReadersAreInformed'
    BY <1>1, <1>9, <1>12, ReadersStay
  <1>14. \A s \in Sources : ~ReadsOf(d, s)
    BY <1>7 DEF ReadsOf
  <1>15. ClaimsComeLast'
    BY <1>1, <1>10, <1>14, ClaimsStay
  <1>16. ASSUME NEW s \in Sources
         PROVE  /\ CreditOf(d, s, runs'[c][s].created) \in Nat
                /\ CreditOf(d, s, runs'[c][s].created) <= Credit(c, s)
    <2>1. CASE s = h
      <3>1. Credit(c, s) = created
        BY <1>1, <2>1 DEF Credit, Reading, created, h
      <3>2. CreditOf(d, s, runs'[c][s].created) = created
        BY <1>7, <1>10, <1>14, <2>1 DEF CreditOf
      <3> QED
        BY <1>4, <3>1, <3>2
    <2>2. CASE s # h
      <3>1. runs'[c][s] = runs[c][s]
        BY <1>10, <2>2
      <3> QED
        BY <1>14, <3>1, NoCreditWithoutReading
    <2> QED
      BY <2>1, <2>2
  <1>17. CreditsAreStored'
    BY <1>1, <1>10, <1>16, CreditsStay
  <1>18. WhatIsAskedWasJudged'
    BY <1>1, <1>7, AsksStay
  <1>19. StoredLinksAreArticles'
    BY <1>1 DEF ReadInv, StoredLinksAreArticles
  <1>21. DatesAreTheirOwn'
    <2>1. sources'[h] = told /\ \A t \in Sources \ {h} : sources'[t] = sources[t]
      BY <1>1, <1>5 DEF ReadInv, ReadTypeOK
    <2>2. \A s \in Sources : sources'[s].there =>
            \/ sources[s].there /\ sources'[s].succeeded = sources[s].succeeded
            \/ reader[c].at = "finish" /\ d.at # "finish" /\ sources'[s].succeeded = reader[c].date
      BY <1>1, <1>5, <1>7, <1>8, <2>1, Zenon
    <2>3. Clocked(d)
      BY <1>1, <1>7 DEF Clocked
    <2> QED
      BY <1>1, <2>2, <2>3, DatesStay
  <1> QED
    BY <1>11, <1>13, <1>15, <1>17, <1>18, <1>19, <1>21 DEF ReadInv

\* What the administrator does to one row leaves the checks where they were.
LEMMA EditKeeps ==
  ASSUME ReadInv, NEW s \in Sources, NEW row, Edit(s, row), row.there, RowOK(row, ticks),
         row.succeeded = 0 \/ (sources[s].there /\ row.succeeded = sources[s].succeeded)
  PROVE  ReadInv'
  <1>1. sources' = [sources EXCEPT ![s] = row] /\ UNCHANGED <<stocked, deleted, runs, reader, ticks>>
    BY DEF Edit
  <1>2. ticks \in Nat
    BY DEF ReadInv, ReadTypeOK
  <1>3. /\ sources' = [t \in Sources |-> sources'[t]]
        /\ \A t \in Sources : sources[t].there => sources'[t].there
        /\ \A t \in Sources : sources'[t].there => RowOK(sources'[t], ticks')
    <2>1. ticks' \in Nat /\ ticks <= ticks' /\ RowOK(row, ticks')
      BY <1>1, <1>2
    <2> QED
      BY <1>1, <2>1, RowsChange
  <1>4. ReadTypeOK'
    BY <1>1, <1>3, Zenon DEF ReadInv, ReadTypeOK
  <1>5. ReadersAreInformed'
    <2> SUFFICES ASSUME NEW c \in Checks PROVE Informed(reader[c])'
      BY Zenon DEF ReadersAreInformed
    <2>1. reader'[c] = reader[c] /\ Informed(reader[c])
      BY <1>1 DEF ReadInv, ReadersAreInformed
    <2> QED
      BY <1>3, <2>1, InformedStays DEF Informed
  <1>6. ClaimsComeLast' /\ CreditsAreStored' /\ WhatIsAskedWasJudged' /\ StoredLinksAreArticles'
    BY <1>1 DEF ReadInv, ClaimsComeLast, CreditsAreStored, Credited, Summed, Credit, Reading, Current,
                WhatIsAskedWasJudged, StoredLinksAreArticles
  <1>7. DatesAreTheirOwn'
    <2>1. sources'[s] = row /\ \A t \in Sources \ {s} : sources'[t] = sources[t]
      BY <1>1 DEF ReadInv, ReadTypeOK
    <2>2. \A t \in Sources : sources'[t].there =>
            \/ sources[t].there /\ sources'[t].succeeded = sources[t].succeeded
            \/ sources'[t].succeeded = 0
      BY <2>1, Zenon
    <2> QED
      BY <1>1, <2>2, DatesKept
  <1> QED
    BY <1>4, <1>5, <1>6, <1>7 DEF ReadInv

\* What staff delete a run may still claim: it was stored.
LEMMA DeleteKeeps ==
  ASSUME ReadInv, NEW s \in Sources, NEW y \in stocked[s], deleteContent(s, y)
  PROVE  ReadInv'
  <1>1. /\ stocked' = [stocked EXCEPT ![s] = @ \ {y}] /\ deleted' = [deleted EXCEPT ![s] = @ + 1]
        /\ UNCHANGED <<sources, runs, reader, ticks>>
    BY DEF deleteContent
  <1>2. /\ stocked = [t \in Sources |-> stocked[t]] /\ deleted \in [Sources -> Nat]
        /\ \A t \in Sources : IsFiniteSet(stocked[t])
    BY DEF ReadInv, ReadTypeOK
  <1>3. /\ stocked' = [t \in Sources |-> stocked'[t]] /\ deleted' \in [Sources -> Nat]
        /\ stocked'[s] = stocked[s] \ {y} /\ deleted'[s] = deleted[s] + 1
        /\ \A t \in Sources \ {s} : stocked'[t] = stocked[t] /\ deleted'[t] = deleted[t]
    BY <1>1, <1>2
  <1>4. /\ IsFiniteSet(stocked'[s]) /\ Cardinality(stocked'[s]) = Cardinality(stocked[s]) - 1
        /\ Cardinality(stocked[s]) \in Nat
    BY <1>2, <1>3, FS_RemoveElement, FS_CardinalityType
  <1>5. \A t \in Sources : /\ IsFiniteSet(stocked'[t])
                           /\ Cardinality(stocked'[t]) + deleted'[t] = Cardinality(stocked[t]) + deleted[t]
    <2> SUFFICES ASSUME NEW t \in Sources
                 PROVE  /\ IsFiniteSet(stocked'[t])
                        /\ Cardinality(stocked'[t]) + deleted'[t] = Cardinality(stocked[t]) + deleted[t]
      OBVIOUS
    <2>1. CASE t = s
      BY <1>2, <1>3, <1>4, <2>1
    <2>2. CASE t # s
      BY <1>2, <1>3, <2>2
    <2> QED
      BY <2>1, <2>2
  <1>6. ReadTypeOK'
    BY <1>1, <1>3, <1>5, Zenon DEF ReadInv, ReadTypeOK
  <1>7. ReadersAreInformed' /\ ClaimsComeLast' /\ WhatIsAskedWasJudged'
    BY <1>1 DEF ReadInv, ReadersAreInformed, Informed, ClaimsComeLast, Reading, Current, WhatIsAskedWasJudged
  <1>8. CreditsAreStored'
    <2>1. \A t \in Sources : Credited(t)' = Credited(t)
      BY <1>1 DEF Credited, Summed, Credit, Reading, Current
    <2> QED
      BY <1>5, <2>1 DEF ReadInv, CreditsAreStored
  <1>9. StoredLinksAreArticles'
    <2>1. \A t \in Sources : stocked'[t] \subseteq stocked[t]
      BY <1>3
    <2> QED
      BY <2>1 DEF ReadInv, StoredLinksAreArticles
  <1>10. DatesAreTheirOwn'
    BY <1>1, DatesKept
  <1> QED
    BY <1>6, <1>7, <1>8, <1>9, <1>10 DEF ReadInv

LEMMA CreateKeeps ==
  ASSUME ReadInv, NEW s \in Sources, NEW kind, NEW url \in Typed \cup {NoUrl}, createSource(s, kind, url)
  PROVE  ReadInv'
  <1> DEFINE row == [there |-> TRUE, kind |-> kind, url |-> url, on |-> TRUE,
                     checked |-> 0, succeeded |-> 0, error |-> FALSE]
  <1>1. Edit(s, row)
    BY DEF createSource
  <1>2. row = RowFields(row) /\ row.there /\ row.checked = 0 /\ row.succeeded = 0 /\ row.url \in Typed \cup {NoUrl}
    BY DEF RowFields
  <1> HIDE DEF row
  <1>3. ticks \in Nat
    BY DEF ReadInv, ReadTypeOK
  <1>4. RowOK(row, ticks)
    BY <1>2, <1>3 DEF RowOK
  <1> QED
    BY <1>1, <1>2, <1>4, EditKeeps

LEMMA RowMoved ==
  ASSUME NEW old, old = RowFields(old), NEW kind, NEW url
  PROVE  [old EXCEPT !.kind = kind, !.url = url] =
            [there |-> old.there, kind |-> kind, url |-> url, on |-> old.on,
             checked |-> old.checked, succeeded |-> old.succeeded, error |-> old.error]
  <1> DEFINE mid == [old EXCEPT !.kind = kind]
  <1>1. mid = [there |-> old.there, kind |-> kind, url |-> old.url, on |-> old.on,
               checked |-> old.checked, succeeded |-> old.succeeded, error |-> old.error]
    BY DEF RowFields
  <1>2. [old EXCEPT !.kind = kind, !.url = url] = [mid EXCEPT !.url = url]
    OBVIOUS
  <1> HIDE DEF mid
  <1>3. [mid EXCEPT !.url = url] =
            [there |-> old.there, kind |-> kind, url |-> url, on |-> old.on,
             checked |-> old.checked, succeeded |-> old.succeeded, error |-> old.error]
    BY <1>1
  <1> QED
    BY <1>2, <1>3

LEMMA UpdateKeeps ==
  ASSUME ReadInv, NEW s \in Sources, NEW kind, NEW url \in Typed \cup {NoUrl}, updateSource(s, kind, url)
  PROVE  ReadInv'
  <1> DEFINE old == sources[s]
             row == [old EXCEPT !.kind = kind, !.url = url]
  <1>1. Edit(s, row) /\ old.there
    BY DEF updateSource
  <1>2. RowOK(old, ticks)
    BY <1>1, Zenon DEF ReadInv, ReadTypeOK
  <1> HIDE DEF old
  <1>3. old = RowFields(old)
    BY <1>2 DEF RowOK
  <1>4. row = [there |-> old.there, kind |-> kind, url |-> url, on |-> old.on,
               checked |-> old.checked, succeeded |-> old.succeeded, error |-> old.error]
    BY <1>3, RowMoved
  <1>5. /\ row = RowFields(row) /\ row.there = old.there /\ row.checked = old.checked
        /\ row.succeeded = old.succeeded /\ row.error = old.error /\ row.url \in Typed \cup {NoUrl}
    BY <1>4 DEF RowFields
  <1> HIDE DEF row
  <1>6. RowOK(row, ticks)
    BY <1>2, <1>5, Zenon DEF RowOK
  <1>7. row.there
    BY <1>1, <1>5, Zenon
  <1>8. sources[s].there /\ row.succeeded = sources[s].succeeded
    BY <1>1, <1>5 DEF old
  <1> QED
    BY <1>1, <1>6, <1>7, <1>8, EditKeeps

LEMMA RowWith ==
  ASSUME NEW old, old = RowFields(old), NEW on
  PROVE  [old EXCEPT !.on = on] = [there |-> old.there, kind |-> old.kind, url |-> old.url, on |-> on,
                                   checked |-> old.checked, succeeded |-> old.succeeded, error |-> old.error]
  BY DEF RowFields

LEMMA EnableKeeps ==
  ASSUME ReadInv, NEW s \in Sources, NEW on \in BOOLEAN, setSourceEnabled(s, on)
  PROVE  ReadInv'
  <1> DEFINE old == sources[s]
             row == [old EXCEPT !.on = on]
  <1>1. Edit(s, row) /\ old.there
    BY DEF setSourceEnabled
  <1>2. RowOK(old, ticks)
    BY <1>1, Zenon DEF ReadInv, ReadTypeOK
  <1> HIDE DEF old
  <1>3. old = RowFields(old)
    BY <1>2 DEF RowOK
  <1>4. row = [there |-> old.there, kind |-> old.kind, url |-> old.url, on |-> on,
               checked |-> old.checked, succeeded |-> old.succeeded, error |-> old.error]
    BY <1>3, RowWith
  <1>5. /\ row = RowFields(row) /\ row.there = old.there /\ row.checked = old.checked
        /\ row.succeeded = old.succeeded /\ row.error = old.error /\ row.url = old.url
    BY <1>4 DEF RowFields
  <1> HIDE DEF row
  <1>6. RowOK(row, ticks)
    BY <1>2, <1>5, Zenon DEF RowOK
  <1>7. row.there
    BY <1>1, <1>5, Zenon
  <1>8. sources[s].there /\ row.succeeded = sources[s].succeeded
    BY <1>1, <1>5 DEF old
  <1> QED
    BY <1>1, <1>6, <1>7, <1>8, EditKeeps

LEMMA ReadInitInv == ReadInit => ReadInv
  <1> SUFFICES ASSUME ReadInit PROVE ReadInv
    OBVIOUS
  <1>1. \A c \in Checks : reader[c].at = "idle"
    BY DEF ReadInit, Idle
  <1>2. \A s \in Sources : ~sources[s].there /\ stocked[s] = {}
    BY DEF ReadInit, NoSource
  <1>3. \A c \in Checks, s \in Sources : runs[c][s].created = 0
    BY DEF ReadInit, NoRun
  <1>4. ReadTypeOK
    <2>1. NoRun \in [status : {"none", "RUNNING", "SUCCESS", "FAILED"}, created : Nat]
      BY DEF NoRun
    <2>2. runs \in [Checks -> [Sources -> [status : {"none", "RUNNING", "SUCCESS", "FAILED"}, created : Nat]]]
      BY <2>1 DEF ReadInit
    <2>3. \A s \in Sources : IsFiniteSet(stocked[s])
      BY <1>2, FS_EmptySet
    <2>4. /\ ticks \in Nat /\ deleted \in [Sources -> Nat] /\ reader = [c \in Checks |-> reader[c]] /\ sources = [s \in Sources |-> sources[s]]
          /\ stocked = [s \in Sources |-> stocked[s]]
      BY DEF ReadInit
    <2> QED
      BY <1>2, <2>2, <2>3, <2>4, Zenon DEF ReadTypeOK
  <1>5. ReadersAreInformed
    BY <1>1 DEF ReadersAreInformed, Informed
  <1>6. \A c \in Checks, s \in Sources : ~Reading(c, s) /\ Credit(c, s) = 0
    BY <1>1, <1>3 DEF Reading, Credit
  <1>7. CreditsAreStored
    <2> SUFFICES ASSUME NEW s \in Sources PROVE Cardinality(Credited(s)) <= Cardinality(stocked[s]) + deleted[s]
      BY DEF CreditsAreStored
    <2> DEFINE f == [c \in Checks |-> Credit(c, s)]
    <2>1. \A c \in Checks : {c} \X (1..f[c]) = {}
      BY <1>6
    <2>2. Summed(f) = {}
      BY <2>1 DEF Summed
    <2>3. Credited(s) = {}
      BY <2>2 DEF Credited
    <2>4. Cardinality(stocked[s]) = 0 /\ Cardinality(Credited(s)) = 0 /\ deleted[s] = 0
      BY <1>2, <2>3, FS_EmptySet DEF ReadInit
    <2> QED
      BY <2>4
  <1>8. ClaimsComeLast /\ WhatIsAskedWasJudged /\ StoredLinksAreArticles /\ DatesAreTheirOwn
    BY <1>1, <1>2, <1>6 DEF ClaimsComeLast, WhatIsAskedWasJudged, StoredLinksAreArticles, DatesAreTheirOwn
  <1> QED
    BY <1>4, <1>5, <1>7, <1>8 DEF ReadInv

LEMMA ReadNextKeeps == ReadInv /\ [ReadNext]_readVars => ReadInv'
  <1> SUFFICES ASSUME ReadInv, [ReadNext]_readVars PROVE ReadInv'
    OBVIOUS
  <1>1. ASSUME NEW s \in Sources, NEW kind \in {"FEED", "MANUAL_EXTERNAL"}, NEW url \in Typed \cup {NoUrl},
               createSource(s, kind, url) \/ updateSource(s, kind, url)
        PROVE  ReadInv'
    BY <1>1, CreateKeeps, UpdateKeeps
  <1>2. ASSUME NEW c \in Checks, ReadStep(c) PROVE ReadInv'
    <2>1. ASSUME Refused(c) PROVE ReadInv'
      <3>1. Counts \in Tally /\ Counts.created = 0
        BY DEF Counts, Tally
      <3>2. ToFinish(c, "FAILED", Counts) /\ reader[c].at = "asked" /\ UNCHANGED <<sources, stocked, deleted, runs>>
        BY <2>1 DEF Refused
      <3> HIDE DEF Counts
      <3> QED
        BY <3>1, <3>2, RefusedKeeps
    <2> QED
      BY <1>2, <2>1, OpenKeeps, LookUpKeeps, AskKeeps, RedirectedKeeps, AnsweredKeeps, LookKeeps, StoreKeeps,
         AllReadKeeps, FinishKeeps, CloseKeeps, Zenon DEF ReadStep
  <1>3. CASE UNCHANGED readVars
    BY <1>3 DEF readVars, ReadInv, ReadTypeOK, ReadersAreInformed, Informed, ClaimsComeLast, CreditsAreStored,
                Credited, Summed, Credit, Reading, Current, WhatIsAskedWasJudged, StoredLinksAreArticles,
                DatesAreTheirOwn, OwnDate
  <1> QED
    BY <1>1, <1>2, <1>3, EnableKeeps, DeleteKeeps, IngestionKeeps, DieKeeps, Zenon DEF ReadNext

(* The inductive invariant of a check: what it knows at each place is still *)
(* so, and what it will claim is credited to it as it stores (ingestOne).   *)
THEOREM ReadInvariant == ReadSpec => []ReadInv
  BY ReadInitInv, ReadNextKeeps, PTL DEF ReadSpec

(* For any sources, websites, redirects, lookups, checks and order of their *)
(* steps and commits, no request is made of an address not judged public    *)
(* before, stored links are those of articles, runs claim no more than was  *)
(* stored, and a source shows an error exactly when the check failed whose  *)
(* date it bears (fetchFeed, ingestOne, finish).                            *)
THEOREM ChecksHold == ReadSpec => []ChecksAreSafeAndTrue
  <1>1. ReadInv => ChecksAreSafeAndTrue
    <2> SUFFICES ASSUME ReadInv PROVE ChecksAreSafeAndTrue
      OBVIOUS
    <2>1. DatesTellOneCheck
      BY Zenon DEF ReadInv, ReadTypeOK, RowOK, DatesTellOneCheck
    <2>2. ASSUME NEW s \in Sources PROVE Cardinality(Claims(s)) <= Cardinality(stocked[s]) + deleted[s]
      <3> DEFINE f == [c \in Checks |-> Credit(c, s)]
                 g == [c \in Checks |-> runs[c][s].created]
      <3>1. \A c \in Checks : Credit(c, s) \in Nat /\ runs[c][s].created \in Nat
        BY CreditsAreNumbers
      <3>2. \A c \in Checks : runs[c][s].created <= Credit(c, s)
        BY <3>1 DEF ReadInv, ClaimsComeLast, Credit
      <3>3. f \in [Checks -> Nat] /\ g \in [Checks -> Nat] /\ \A c \in Checks : g[c] <= f[c]
        BY <3>1, <3>2
      <3>4. Claims(s) = Summed(g) /\ Credited(s) = Summed(f)
        BY DEF Claims, Credited
      <3> HIDE DEF f, g
      <3>5. Cardinality(Summed(g)) <= Cardinality(Summed(f))
        BY <3>3, SummedShrinks
      <3>6. Cardinality(Summed(f)) \in Nat /\ Cardinality(Summed(g)) \in Nat
        BY <3>3, SummedFinite
      <3>7. Cardinality(Summed(f)) <= Cardinality(stocked[s]) + deleted[s] /\ Cardinality(stocked[s]) + deleted[s] \in Nat
        BY <3>4, FS_CardinalityType DEF ReadInv, CreditsAreStored, ReadTypeOK
      <3> QED
        BY <3>4, <3>5, <3>6, <3>7
    <2> QED
      BY <2>1, <2>2 DEF ChecksAreSafeAndTrue, RunsClaimNoMoreThanStored, ReadInv
  <1> QED
    BY <1>1, ReadInvariant, PTL

(***************************************************************************)
(* The editorial desk: what a sequence keeps of a set.  Induction over the  *)
(* places of a sequence is stated of a set of numbers.                      *)
(***************************************************************************)
LEMMA Climb ==
  ASSUME NEW top \in Nat, NEW reached, 0 \in reached,
         \A n \in 0..top : n \in reached /\ n < top => n + 1 \in reached
  PROVE  \A n \in 0..top : n \in reached
  <1> DEFINE missed == {n \in 0..top : n \notin reached}
  <1> SUFFICES ASSUME missed # {} PROVE FALSE
    OBVIOUS
  <1>1. missed \subseteq Nat
    OBVIOUS
  <1>2. PICK n \in missed : \A m \in missed : ~ (<<m, n>> \in OpToRel(<, Nat))
    BY <1>1, WFMin, NatLessThanWellFounded, Zenon
  <1>3. \A m \in missed : m \in Nat /\ n \in Nat => ~ (m < n)
    BY <1>2, Zenon DEF OpToRel
  <1>4. n \in 0..top /\ n # 0 /\ n \notin reached
    OBVIOUS
  <1>5. n - 1 \in 0..top /\ n - 1 < n /\ n - 1 < top /\ n - 1 \in Nat /\ (n - 1) + 1 = n
    BY <1>4
  <1>6. n - 1 \in reached
    BY <1>3, <1>5, <1>4
  <1> QED
    BY <1>4, <1>5, <1>6

KeepStep(s, S, k, n) ==
    IF n = 0 THEN <<>> ELSE IF s[n] \in S THEN Append(k[n - 1], s[n]) ELSE k[n - 1]

LEMMA KeptExists ==
  ASSUME NEW s, Len(s) \in Nat, NEW S
  PROVE  \E k : k = [n \in 0..Len(s) |-> KeepStep(s, S, k, n)]
  <1> DEFINE top == Len(s)
             reached == {m \in 0..top : \E k : k = [n \in 0..m |-> KeepStep(s, S, k, n)]}
  <1>1. 0 \in reached
    <2> DEFINE k == [n \in 0..0 |-> <<>>]
    <2>1. k = [n \in 0..0 |-> KeepStep(s, S, k, n)]
      BY DEF KeepStep
    <2> QED
      BY <2>1
  <1>2. ASSUME NEW m \in 0..top, m \in reached, m < top PROVE m + 1 \in reached
    <2>1. PICK k : k = [n \in 0..m |-> KeepStep(s, S, k, n)]
      BY <1>2
    <2> DEFINE g == [n \in 0..(m + 1) |-> IF n = m + 1 THEN KeepStep(s, S, k, n) ELSE k[n]]
    <2>2. ASSUME NEW n \in 0..(m + 1) PROVE g[n] = KeepStep(s, S, g, n)
      <3>1. CASE n = 0
        <4>1. g[n] = k[0] /\ 0 \in 0..m
          BY <3>1, <1>2
        <4> QED
          BY <2>1, <3>1, <4>1 DEF KeepStep
      <3>2. CASE n # 0
        <4>1. n - 1 \in 0..m /\ n - 1 \in 0..(m + 1) /\ n - 1 # m + 1
          BY <3>2, <1>2
        <4>2. g[n - 1] = k[n - 1]
          BY <4>1
        <4>3. KeepStep(s, S, g, n) = KeepStep(s, S, k, n)
          BY <3>2, <4>2 DEF KeepStep
        <4>4. g[n] = KeepStep(s, S, k, n)
          <5>1. CASE n = m + 1
            BY <5>1
          <5>2. CASE n # m + 1
            <6>1. n \in 0..m /\ g[n] = k[n]
              BY <5>2, <1>2
            <6> QED
              BY <2>1, <6>1
          <5> QED
            BY <5>1, <5>2
        <4> QED
          BY <4>3, <4>4
      <3> QED
        BY <3>1, <3>2
    <2>3. g = [n \in 0..(m + 1) |-> g[n]]
      OBVIOUS
    <2> HIDE DEF g
    <2>4. g = [n \in 0..(m + 1) |-> KeepStep(s, S, g, n)]
      BY <2>2, <2>3
    <2>5. m + 1 \in 0..top
      BY <1>2
    <2> QED
      BY <2>4, <2>5
  <1> HIDE DEF reached
  <1>3. top \in reached
    <2>1. top \in 0..top
      OBVIOUS
    <2> QED
      BY <1>1, <1>2, <2>1, Climb
  <1> QED
    BY <1>3 DEF reached

LEMMA KeptSteps ==
  ASSUME NEW s, Len(s) \in Nat, NEW S
  PROVE  /\ KeptUpTo(s, S)[0] = <<>>
         /\ \A n \in 1..Len(s) : KeptUpTo(s, S)[n] = KeepStep(s, S, KeptUpTo(s, S), n)
  <1> DEFINE k == KeptUpTo(s, S)
  <1>1. k = [n \in 0..Len(s) |-> KeepStep(s, S, k, n)]
    <2>1. k = CHOOSE g : g = [n \in 0..Len(s) |-> KeepStep(s, S, g, n)]
      BY Zenon DEF KeptUpTo, KeepStep
    <2> HIDE DEF k
    <2> QED
      BY <2>1, KeptExists, Zenon
  <1> HIDE DEF k
  <1>2. \A n \in 0..Len(s) : k[n] = KeepStep(s, S, k, n)
    BY <1>1
  <1>3. k[0] = <<>>
    BY <1>2 DEF KeepStep
  <1> QED
    BY <1>2, <1>3 DEF k

FirstOf(s, n) == {s[j] : j \in 1..n}

\* A part keeps the members of the set that stand in it.
LEMMA KeptHold ==
  ASSUME NEW T, NEW s \in Seq(T), NEW S
  PROVE  \A n \in 0..Len(s) : /\ KeptUpTo(s, S)[n] \in Seq(T)
                              /\ Range(KeptUpTo(s, S)[n]) = FirstOf(s, n) \cap S
  <1> DEFINE k == KeptUpTo(s, S)
             top == Len(s)
             Agrees(n) == k[n] \in Seq(T) /\ Range(k[n]) = {s[j] : j \in 1..n} \cap S
             reached == {n \in 0..top : Agrees(n)}
  <1>1. top \in Nat /\ \A n \in 1..top : s[n] \in T
    BY LenProperties, ElementOfSeq
  <1>2. k[0] = <<>> /\ \A n \in 1..top : k[n] = KeepStep(s, S, k, n)
    BY <1>1, KeptSteps
  <1> HIDE DEF k
  <1>3. 0 \in reached
    <2>1. Range(<<>>) = {} /\ <<>> \in Seq(T) /\ {s[j] : j \in 1..0} = {}
      BY DEF Range
    <2>2. 0 \in 0..top
      BY <1>1
    <2>3. k[0] \in Seq(T) /\ Range(k[0]) = {}
      BY <1>2, <2>1, Zenon
    <2>4. Agrees(0)
      BY <2>1, <2>3, Zenon
    <2> QED
      BY <2>2, <2>4, Zenon
  <1>4. ASSUME NEW m \in 0..top, m \in reached, m < top PROVE m + 1 \in reached
    <2>1. Agrees(m) /\ m + 1 \in 1..top /\ m + 1 \in 0..top /\ (m + 1) - 1 = m /\ m + 1 # 0
      BY <1>1, <1>4
    <2>2. k[m + 1] = IF s[m + 1] \in S THEN Append(k[m], s[m + 1]) ELSE k[m]
      <3>1. k[m + 1] = KeepStep(s, S, k, m + 1)
        BY <1>2, <2>1
      <3> QED
        BY <2>1, <3>1 DEF KeepStep
    <2>3. {s[j] : j \in 1..(m + 1)} = {s[j] : j \in 1..m} \cup {s[m + 1]}
      <3>1. 1..(m + 1) = (1..m) \cup {m + 1}
        BY <2>1
      <3> QED
        BY <3>1
    <2>4. CASE s[m + 1] \in S
      <3>1. k[m + 1] = Append(k[m], s[m + 1])
        BY <2>2, <2>4
      <3>2. s[m + 1] \in T
        BY <1>1, <2>1
      <3>3. k[m + 1] \in Seq(T) /\ Range(k[m + 1]) = Range(k[m]) \cup {s[m + 1]}
        <4> DEFINE kept == k[m]  e == s[m + 1]
        <4>1. kept \in Seq(T) /\ e \in T
          BY <2>1, <3>2
        <4> HIDE DEF kept, e
        <4>2. Append(kept, e) \in Seq(T) /\ Append(kept, e) = kept \o <<e>> /\ <<e>> \in Seq(T)
          BY <4>1, AppendProperties, AppendIsConcat
        <4>3. Range(<<e>>) = {e}
          BY DEF Range
        <4>4. Range(kept \o <<e>>) = Range(kept) \cup Range(<<e>>)
          BY <4>1, <4>2, RangeConcatenation
        <4> QED
          BY <3>1, <4>2, <4>3, <4>4 DEF kept, e
      <3> QED
        BY <2>1, <2>3, <2>4, <3>3
    <2>5. CASE s[m + 1] \notin S
      BY <2>1, <2>2, <2>3, <2>5
    <2> QED
      BY <2>4, <2>5
  <1> HIDE DEF reached
  <1>5. \A n \in 0..top : n \in reached
    BY <1>1, <1>3, <1>4, Climb
  <1> QED
    BY <1>5 DEF reached, k, FirstOf

\* It depends on the set no further than the sequence reaches.
LEMMA KeptAgree ==
  ASSUME NEW T, NEW s \in Seq(T), NEW S, NEW S2, \A j \in 1..Len(s) : s[j] \in S <=> s[j] \in S2
  PROVE  Only(s, S) = Only(s, S2)
  <1> DEFINE k == KeptUpTo(s, S)
             k2 == KeptUpTo(s, S2)
             top == Len(s)
             reached == {n \in 0..top : k[n] = k2[n]}
  <1>1. top \in Nat
    BY LenProperties
  <1>2. k[0] = <<>> /\ \A n \in 1..top : k[n] = KeepStep(s, S, k, n)
    BY <1>1, KeptSteps
  <1>3. k2[0] = <<>> /\ \A n \in 1..top : k2[n] = KeepStep(s, S2, k2, n)
    BY <1>1, KeptSteps
  <1>e. Only(s, S) = k[top] /\ Only(s, S2) = k2[top]
    BY DEF Only
  <1> HIDE DEF k, k2
  <1>4. 0 \in reached
    BY <1>1, <1>2, <1>3
  <1>5. ASSUME NEW m \in 0..top, m \in reached, m < top PROVE m + 1 \in reached
    <2>1. k[m] = k2[m] /\ m + 1 \in 1..top /\ m + 1 \in 0..top /\ (m + 1) - 1 = m /\ m + 1 # 0
      BY <1>1, <1>5
    <2>2. KeepStep(s, S, k, m + 1) = KeepStep(s, S2, k2, m + 1)
      <3>1. s[m + 1] \in S <=> s[m + 1] \in S2
        BY <2>1
      <3> QED
        BY <2>1, <3>1 DEF KeepStep
    <2> QED
      BY <1>2, <1>3, <2>1, <2>2
  <1> HIDE DEF reached
  <1>6. top \in reached
    <2>1. top \in 0..top
      BY <1>1
    <2> QED
      BY <1>1, <1>4, <1>5, <2>1, Climb
  <1> QED
    BY <1>e, <1>6 DEF reached

LEMMA OnlyKeeps ==
  ASSUME NEW T, NEW s \in Seq(T), NEW S
  PROVE  /\ Only(s, S) \in Seq(T)
         /\ Range(Only(s, S)) = Range(s) \cap S
         /\ Only(s, Range(Only(s, S))) = Only(s, S)
  <1>1. Len(s) \in Nat /\ Len(s) \in 0..Len(s) /\ Range(s) = {s[j] : j \in 1..Len(s)}
    BY LenProperties, RangeEquality
  <1>2. Only(s, S) \in Seq(T) /\ Range(Only(s, S)) = Range(s) \cap S
    <2>1. /\ KeptUpTo(s, S)[Len(s)] \in Seq(T)
          /\ Range(KeptUpTo(s, S)[Len(s)]) = FirstOf(s, Len(s)) \cap S
      BY <1>1, KeptHold
    <2>2. FirstOf(s, Len(s)) = Range(s)
      BY <1>1 DEF FirstOf
    <2> QED
      BY <2>1, <2>2, Zenon DEF Only
  <1>3. \A j \in 1..Len(s) : s[j] \in Range(s) \cap S <=> s[j] \in S
    BY <1>1
  <1>4. Only(s, Range(s) \cap S) = Only(s, S)
    BY <1>3, KeptAgree
  <1> QED
    BY <1>2, <1>4

(***************************************************************************)
(* The editorial desk: pages.                                               *)
(***************************************************************************)
LEMMA ItemsStayApproved ==
  ASSUME \A a \in Items : shelf'[a].state = shelf[a].state
  PROVE  ApprovedNow' = ApprovedNow
  BY DEF ApprovedNow

LEMMA PageOpens ==
  ASSUME PagesHold, NEW e \in Reviewers, NEW page, Opens(e, page), ApprovedNow' = ApprovedNow,
         IsPage(page), Watches(page)
  PROVE  PagesHold'
  <1>1. screen' = [screen EXCEPT ![e] = page] /\ screen = [x \in Reviewers |-> screen[x]]
    BY DEF Opens, PagesHold
  <1>2. screen' = [x \in Reviewers |-> screen'[x]]
    BY <1>1
  <1>3. ASSUME NEW x \in Reviewers PROVE IsPage(screen'[x]) /\ Watches(screen[x])'
    <2>1. CASE x = e
      <3>1. screen'[x] = page
        BY <1>1, <2>1
      <3> QED
        BY <3>1 DEF Watches
    <2>2. CASE x # e
      <3>1. screen'[x] = screen[x]
        BY <1>1, <2>2
      <3> QED
        BY <3>1 DEF PagesHold, Watches
    <2> QED
      BY <2>1, <2>2
  <1> QED
    BY <1>2, <1>3 DEF PagesHold

LEMMA PagesStay ==
  ASSUME PagesHold, UNCHANGED screen, ApprovedNow' = ApprovedNow
  PROVE  PagesHold'
  BY DEF PagesHold, Watches

LEMMA PagesWatch ==
  ASSUME NEW d, \A x \in Reviewers : IsPage(d[x]), screen' = Watched(d)
  PROVE  PagesHold'
  <1> DEFINE current == ApprovedNow'
             told(p) == [p EXCEPT !.ever = @ \cup current, !.always = @ \cap current]
  <1>1. screen' = [x \in Reviewers |-> IF d[x].at = "building" THEN told(d[x]) ELSE d[x]]
    BY DEF Watched, ApprovedNow
  <1>2. ASSUME NEW x \in Reviewers PROVE IsPage(screen'[x]) /\ Watches(screen[x])'
    <2>1. CASE d[x].at = "building"
      <3> DEFINE p == d[x]
      <3>1. IsBuild(p)
        BY <2>1 DEF IsPage
      <3>2. p = [at |-> "building", requested |-> p.requested, ever |-> p.ever, always |-> p.always]
        BY <3>1 DEF IsBuild
      <3>3. screen'[x] = told(p)
        BY <1>1, <2>1
      <3> HIDE DEF p, current
      <3>4. told(p) = [at |-> "building", requested |-> p.requested, ever |-> p.ever \cup current, always |-> p.always \cap current]
        <4> DEFINE r == p.requested  v == p.ever  w == p.always
        <4>1. p = [at |-> "building", requested |-> r, ever |-> v, always |-> w]
          BY <3>2
        <4>2. told(p) = [p EXCEPT !.ever = v \cup current, !.always = w \cap current]
          BY <3>2
        <4> HIDE DEF r, v, w, told
        <4>3. [p EXCEPT !.ever = v \cup current, !.always = w \cap current]
                = [at |-> "building", requested |-> r, ever |-> v \cup current, always |-> w \cap current]
          <5> DEFINE p1 == [p EXCEPT !.ever = v \cup current]
          <5>1. p1 = [at |-> "building", requested |-> r, ever |-> v \cup current, always |-> w]
            BY <4>1
          <5>2. [p EXCEPT !.ever = v \cup current, !.always = w \cap current] = [p1 EXCEPT !.always = w \cap current]
            OBVIOUS
          <5> HIDE DEF p1
          <5> QED
            BY <5>1, <5>2
        <4> QED
          BY <4>2, <4>3 DEF r, v, w
      <3> DEFINE q == [at |-> "building", requested |-> p.requested, ever |-> p.ever \cup current, always |-> p.always \cap current]
      <3>5. q.at = "building" /\ q.requested = p.requested /\ q.ever = p.ever \cup current /\ q.always = p.always \cap current
        OBVIOUS
      <3>6. q = [at |-> "building", requested |-> q.requested, ever |-> q.ever, always |-> q.always]
        OBVIOUS
      <3>7. screen'[x] = q
        BY <3>3, <3>4
      <3> HIDE DEF q
      <3>8. IsPage(q)
        BY <3>1, <3>5, <3>6 DEF IsPage, IsBuild
      <3>9. current \subseteq q.ever /\ q.always \subseteq current
        BY <3>5
      <3> QED
        BY <3>7, <3>8, <3>9 DEF Watches, current
    <2>2. CASE d[x].at # "building"
      <3>1. screen'[x] = d[x]
        BY <1>1, <2>2
      <3> QED
        BY <2>2, <3>1 DEF Watches
    <2> QED
      BY <2>1, <2>2
  <1>3. screen' = [x \in Reviewers |-> screen'[x]]
    BY <1>1
  <1> QED
    BY <1>2, <1>3 DEF PagesHold

\* What a page of each kind is.
LEMMA PagesAre ==
  ASSUME PagesHold, NEW e \in Reviewers
  PROVE  LET p == screen[e] IN
         /\ p.at = "inbox" => IsInbox(p)
         /\ p.at = "review" => IsReview(p)
         /\ p.at = "form" => IsForm(p)
         /\ p.at = "fetching" => IsFetch(p)
         /\ p.at = "building" => IsBuild(p) /\ ApprovedNow \subseteq p.ever /\ p.always \subseteq ApprovedNow
         /\ p.at = "writing" => IsDraft(p)
  BY DEF PagesHold, IsPage, Watches

LEMMA OtherPages ==
  /\ IsPage(Away) /\ Watches(Away)
  /\ \A shown : \A ticked \in Seq(Items) :
       LET p == [at |-> "inbox", shown |-> shown, ticked |-> ticked] IN IsPage(p) /\ Watches(p)
  /\ \A a \in Items : \A own : LET p == [at |-> "review", of |-> a, own |-> own] IN IsPage(p) /\ Watches(p)
  /\ \A a \in Items : \A text, picture, state :
       LET p == [at |-> "form", of |-> a, text |-> text, picture |-> picture, state |-> state] IN IsPage(p) /\ Watches(p)
  /\ \A a \in Items : LET p == [at |-> "fetching", of |-> a] IN IsPage(p) /\ Watches(p)
  BY DEF IsPage, Watches, IsInbox, IsReview, IsForm, IsFetch, Away

(***************************************************************************)
(* The editorial desk: rows, and every action.                              *)
(***************************************************************************)
IsRow(r) == r = [state |-> r.state, text |-> r.text, picture |-> r.picture, own |-> r.own, by |-> r.by]

LEMMA RowChanges ==
  ASSUME RowsAreWhole, NEW a \in Items, NEW r, r = Gone \/ IsRow(r), shelf' = [shelf EXCEPT ![a] = r]
  PROVE  RowsAreWhole' /\ \A b \in Items : shelf'[b] = IF b = a THEN r ELSE shelf[b]
  BY DEF RowsAreWhole, IsRow

LEMMA RowIs ==
  ASSUME RowsAreWhole, NEW a \in Items, Kept(a)
  PROVE  IsRow(shelf[a])
  BY DEF RowsAreWhole, IsRow, Kept

LEMMA RowEdits ==
  ASSUME NEW r, IsRow(r), NEW v, NEW w
  PROVE  /\ IsRow([r EXCEPT !.state = v]) /\ [r EXCEPT !.state = v].state = v
         /\ IsRow([r EXCEPT !.own = v]) /\ [r EXCEPT !.own = v].state = r.state
         /\ IsRow([r EXCEPT !.text = v]) /\ [r EXCEPT !.text = v].state = r.state
         /\ IsRow([r EXCEPT !.by = v]) /\ [r EXCEPT !.by = v].state = r.state
         /\ IsRow([r EXCEPT !.picture = w]) /\ [r EXCEPT !.picture = w].state = r.state
  BY DEF IsRow

LEMMA ToggleHolds ==
  ASSUME PagesHold, NEW e \in Reviewers, NEW a \in Items, Toggle(e, a)
  PROVE  PagesHold'
  <1> DEFINE p == screen[e]
             t == IF a \in Range(p.ticked) THEN Only(p.ticked, Items \ {a}) ELSE Append(p.ticked, a)
  <1>1. p.at = "inbox" /\ Opens(e, [p EXCEPT !.ticked = t]) /\ UNCHANGED shelf
    BY DEF Toggle
  <1>2. p = [at |-> "inbox", shown |-> p.shown, ticked |-> p.ticked] /\ p.ticked \in Seq(Items)
    BY <1>1, PagesAre DEF IsInbox
  <1>3. t \in Seq(Items)
    <2>1. Only(p.ticked, Items \ {a}) \in Seq(Items)
      BY <1>2, OnlyKeeps
    <2>2. Append(p.ticked, a) \in Seq(Items)
      BY <1>2, AppendProperties
    <2> QED
      BY <2>1, <2>2
  <1> HIDE DEF t
  <1>4. [p EXCEPT !.ticked = t] = [at |-> "inbox", shown |-> p.shown, ticked |-> t]
    BY <1>2
  <1>5. IsPage([p EXCEPT !.ticked = t]) /\ Watches([p EXCEPT !.ticked = t])
    BY <1>3, <1>4, OtherPages
  <1>6. ApprovedNow' = ApprovedNow
    BY <1>1, ItemsStayApproved
  <1> QED
    BY <1>1, <1>5, <1>6, PageOpens

LEMMA PagesOpen ==
  ASSUME PagesHold, NEW e \in Reviewers, OpenInbox(e) \/ ClearTicks(e) \/ ClosePage(e) \/ \E a \in Items : OpenArticle(e, a) \/ OpenForm(e, a)
  PROVE  PagesHold'
  <1>1. ApprovedNow' = ApprovedNow
    <2>1. UNCHANGED shelf
      BY DEF OpenInbox, ClearTicks, ClosePage, OpenArticle, OpenForm
    <2> QED
      BY <2>1, ItemsStayApproved
  <1>2. CASE OpenInbox(e)
    <2> DEFINE shown == [a \in Items |-> shelf[a].state]
               page == [at |-> "inbox", shown |-> shown, ticked |-> <<>>]
    <2>1. Opens(e, page)
      BY <1>2 DEF OpenInbox
    <2>2. <<>> \in Seq(Items)
      BY EmptySeq
    <2> HIDE DEF shown
    <2>3. IsPage(page) /\ Watches(page)
      BY <2>2, OtherPages
    <2> QED
      BY <1>1, <2>1, <2>3, PageOpens
  <1>3. CASE ClearTicks(e)
    <2> DEFINE p == screen[e]
               page == [at |-> "inbox", shown |-> p.shown, ticked |-> <<>>]
    <2>1. p.at = "inbox" /\ Opens(e, [p EXCEPT !.ticked = <<>>])
      BY <1>3 DEF ClearTicks
    <2>2. <<>> \in Seq(Items)
      BY EmptySeq
    <2>3. [p EXCEPT !.ticked = <<>>] = page
      <3>1. p = [at |-> "inbox", shown |-> p.shown, ticked |-> p.ticked]
        BY <2>1, PagesAre DEF IsInbox
      <3> QED
        BY <3>1
    <2>4. IsPage(page) /\ Watches(page)
      BY <2>2, OtherPages
    <2> QED
      BY <1>1, <2>1, <2>3, <2>4, PageOpens
  <1>4. CASE ClosePage(e)
    <2>1. Opens(e, Away)
      BY <1>4 DEF ClosePage
    <2> QED
      BY <1>1, <2>1, OtherPages, PageOpens
  <1>5. ASSUME NEW a \in Items, OpenArticle(e, a) PROVE PagesHold'
    <2> DEFINE page == [at |-> "review", of |-> a, own |-> shelf[a].own]
    <2>1. Opens(e, page)
      BY <1>5 DEF OpenArticle
    <2>2. IsPage(page) /\ Watches(page)
      BY OtherPages
    <2> QED
      BY <1>1, <2>1, <2>2, PageOpens
  <1>6. ASSUME NEW a \in Items, OpenForm(e, a) PROVE PagesHold'
    <2> DEFINE page == [at |-> "form", of |-> a, text |-> shelf[a].text, picture |-> shelf[a].picture, state |-> shelf[a].state]
    <2>1. Opens(e, page)
      BY <1>6 DEF OpenForm
    <2>2. IsPage(page) /\ Watches(page)
      BY OtherPages
    <2> QED
      BY <1>1, <2>1, <2>2, PageOpens
  <1> QED
    BY <1>2, <1>3, <1>4, <1>5, <1>6

LEMMA JudgeHolds ==
  ASSUME RowsAreWhole, PagesHold, NEW e \in Reviewers, NEW a \in Items, NEW to, Judge(e, a, to)
  PROVE  RowsAreWhole' /\ PagesHold'
  <1> DEFINE p == screen[e]
             q == IF p.at = "inbox" THEN [p EXCEPT !.shown = [b \in Items |-> shelf'[b].state]] ELSE p
             r1 == [shelf[a] EXCEPT !.state = to]
             r == [r1 EXCEPT !.by = e]
             d == [screen EXCEPT ![e] = q]
  <1>1. Kept(a) /\ shelf' = [shelf EXCEPT ![a].state = to, ![a].by = e] /\ screen' = Watched(d)
    BY DEF Judge
  <1>2. RowsAreWhole'
    <2>1. IsRow(r)
      BY <1>1, RowIs, RowEdits
    <2>2. shelf' = [shelf EXCEPT ![a] = r]
      <3>1. shelf = [b \in Items |-> shelf[b]]
        BY DEF RowsAreWhole
      <3> QED
        BY <1>1, <3>1
    <2> QED
      BY <2>1, <2>2, RowChanges
  <1>3. IsPage(q)
    <2>1. CASE p.at = "inbox"
      <3> DEFINE shown == [b \in Items |-> shelf'[b].state]
      <3>1. p = [at |-> "inbox", shown |-> p.shown, ticked |-> p.ticked] /\ p.ticked \in Seq(Items)
        BY <2>1, PagesAre DEF IsInbox
      <3>2. q = [p EXCEPT !.shown = shown]
        BY <2>1
      <3> HIDE DEF shown, q
      <3>3. q = [at |-> "inbox", shown |-> shown, ticked |-> p.ticked]
        BY <3>1, <3>2
      <3> QED
        BY <3>1, <3>3, OtherPages
    <2>2. CASE p.at # "inbox"
      BY <2>2 DEF PagesHold
    <2> QED
      BY <2>1, <2>2
  <1> HIDE DEF q
  <1>4. \A x \in Reviewers : IsPage(d[x])
    BY <1>3 DEF PagesHold
  <1> HIDE DEF d
  <1> QED
    BY <1>1, <1>2, <1>4, PagesWatch

LEMMA SetStateHolds ==
  ASSUME RowsAreWhole, PagesHold, NEW e \in Reviewers, NEW a \in Items, NEW to, SetReviewState(e, a, to)
  PROVE  RowsAreWhole' /\ PagesHold'
  <1> DEFINE p == screen[e]
             q == IF p = Away THEN p ELSE [p EXCEPT !.state = to]
             r == [shelf[a] EXCEPT !.state = to]
             d == [screen EXCEPT ![e] = q]
  <1>1. /\ Kept(a) /\ shelf' = [shelf EXCEPT ![a].state = to]
        /\ screen' = Watched(IF p = Away THEN screen ELSE [screen EXCEPT ![e].state = to])
        /\ p = Away \/ p.at = "form"
    BY DEF SetReviewState
  <1>2. RowsAreWhole'
    <2>1. IsRow(r)
      BY <1>1, RowIs, RowEdits
    <2>2. shelf' = [shelf EXCEPT ![a] = r]
      BY <1>1
    <2> QED
      BY <2>1, <2>2, RowChanges
  <1>3. IsPage(q)
    <2>1. CASE p = Away
      BY <2>1 DEF PagesHold
    <2>2. CASE p # Away
      <3>1. p = [at |-> "form", of |-> p.of, text |-> p.text, picture |-> p.picture, state |-> p.state] /\ p.of \in Items
        BY <1>1, <2>2, PagesAre DEF IsForm
      <3>2. q = [p EXCEPT !.state = to]
        BY <2>2
      <3> HIDE DEF q
      <3>3. q = [at |-> "form", of |-> p.of, text |-> p.text, picture |-> p.picture, state |-> to]
        BY <3>1, <3>2
      <3> QED
        BY <3>1, <3>3, OtherPages
    <2> QED
      BY <2>1, <2>2
  <1>4. screen' = Watched(d)
    <2>1. screen = [x \in Reviewers |-> screen[x]]
      BY DEF PagesHold
    <2>2. (IF p = Away THEN screen ELSE [screen EXCEPT ![e].state = to]) = d
      BY <2>1
    <2> HIDE DEF d
    <2> QED
      BY <1>1, <2>2
  <1> HIDE DEF q
  <1>5. \A x \in Reviewers : IsPage(d[x])
    BY <1>3 DEF PagesHold
  <1> HIDE DEF d
  <1> QED
    BY <1>2, <1>4, <1>5, PagesWatch

\* Rows whose state stays: the articles approved are the same.
LEMMA StateStays ==
  ASSUME RowsAreWhole, NEW a \in Items, NEW r, IsRow(r), r.state = shelf[a].state, shelf' = [shelf EXCEPT ![a] = r]
  PROVE  RowsAreWhole' /\ ApprovedNow' = ApprovedNow
  <1>1. RowsAreWhole' /\ \A b \in Items : shelf'[b] = IF b = a THEN r ELSE shelf[b]
    BY RowChanges
  <1>2. \A b \in Items : shelf'[b].state = shelf[b].state
    BY <1>1
  <1> QED
    BY <1>1, <1>2, ItemsStayApproved

LEMMA SavesHold ==
  ASSUME RowsAreWhole, PagesHold, NEW e \in Reviewers,
         (\E w \in Words : SaveEditorial(e, w) \/ \E swap \in BOOLEAN : SaveForm(e, w, swap))
         \/ ImportImage(e) \/ \E usable \in BOOLEAN : StoreImage(e, usable)
  PROVE  RowsAreWhole' /\ PagesHold'
  <1> DEFINE p == screen[e]  a == p.of
  <1>1. ASSUME NEW w \in Words, SaveEditorial(e, w) PROVE RowsAreWhole' /\ PagesHold'
    <2> DEFINE r == [shelf[a] EXCEPT !.own = w]
               page == [at |-> "review", of |-> a, own |-> w]
    <2>1. p.at = "review" /\ Kept(a) /\ shelf' = [shelf EXCEPT ![a].own = w] /\ Opens(e, [p EXCEPT !.own = w])
      BY <1>1 DEF SaveEditorial
    <2>2. p = [at |-> "review", of |-> a, own |-> p.own] /\ a \in Items
      BY <2>1, PagesAre DEF IsReview
    <2>3. IsRow(r) /\ r.state = shelf[a].state /\ shelf' = [shelf EXCEPT ![a] = r]
      BY <2>1, <2>2, RowIs, RowEdits
    <2>4. RowsAreWhole' /\ ApprovedNow' = ApprovedNow
      BY <2>2, <2>3, StateStays
    <2>5. [p EXCEPT !.own = w] = page
      BY <2>2
    <2>6. IsPage(page) /\ Watches(page)
      BY <2>2, OtherPages
    <2> QED
      BY <2>1, <2>4, <2>5, <2>6, PageOpens
  <1>2. ASSUME NEW w \in Words, NEW swap \in BOOLEAN, SaveForm(e, w, swap) PROVE RowsAreWhole' /\ PagesHold'
    <2> DEFINE picture == IF swap THEN "uploaded" ELSE p.picture
               r1 == [shelf[a] EXCEPT !.text = w]
               r == [r1 EXCEPT !.picture = picture]
               page == [at |-> "form", of |-> a, text |-> w, picture |-> picture, state |-> p.state]
    <2>1. /\ p.at = "form" /\ Kept(a) /\ Opens(e, [p EXCEPT !.text = w, !.picture = picture])
          /\ shelf' = [shelf EXCEPT ![a].text = w, ![a].picture = picture]
      BY <1>2 DEF SaveForm
    <2>2. p = [at |-> "form", of |-> a, text |-> p.text, picture |-> p.picture, state |-> p.state] /\ a \in Items
      BY <2>1, PagesAre DEF IsForm
    <2> HIDE DEF picture
    <2>3. IsRow(r) /\ r.state = shelf[a].state
      <3>1. IsRow(shelf[a])
        BY <2>1, <2>2, RowIs
      <3>2. IsRow(r1) /\ r1.state = shelf[a].state
        BY <3>1, RowEdits
      <3> HIDE DEF r1
      <3> QED
        BY <3>2, RowEdits
    <2>4. shelf' = [shelf EXCEPT ![a] = r]
      <3>1. shelf = [b \in Items |-> shelf[b]]
        BY DEF RowsAreWhole
      <3> QED
        BY <2>1, <2>2, <3>1
    <2>5. RowsAreWhole' /\ ApprovedNow' = ApprovedNow
      BY <2>2, <2>3, <2>4, StateStays
    <2>6. [p EXCEPT !.text = w, !.picture = picture] = page
      <3> DEFINE t == p.text  v == p.picture  s == p.state  b == a
                 p1 == [p EXCEPT !.text = w]
      <3>1. p = [at |-> "form", of |-> b, text |-> t, picture |-> v, state |-> s]
        BY <2>2
      <3> HIDE DEF t, v, s, b
      <3>2. p1 = [at |-> "form", of |-> b, text |-> w, picture |-> v, state |-> s]
        BY <3>1
      <3>3. [p EXCEPT !.text = w, !.picture = picture] = [p1 EXCEPT !.picture = picture]
        OBVIOUS
      <3> HIDE DEF p1
      <3>4. [p1 EXCEPT !.picture = picture] = [at |-> "form", of |-> b, text |-> w, picture |-> picture, state |-> s]
        BY <3>2
      <3> QED
        BY <3>3, <3>4 DEF b, s
    <2>7. IsPage(page) /\ Watches(page)
      BY <2>2, OtherPages
    <2> QED
      BY <2>1, <2>5, <2>6, <2>7, PageOpens
  <1>3. CASE ImportImage(e)
    <2> DEFINE page == [at |-> "fetching", of |-> a]
    <2>1. p.at = "review" /\ Opens(e, page) /\ UNCHANGED shelf
      BY <1>3 DEF ImportImage
    <2>2. a \in Items
      BY <2>1, PagesAre DEF IsReview
    <2>3. IsPage(page) /\ Watches(page)
      BY <2>2, OtherPages
    <2>4. ApprovedNow' = ApprovedNow /\ RowsAreWhole'
      BY <2>1, ItemsStayApproved DEF RowsAreWhole
    <2> QED
      BY <2>1, <2>3, <2>4, PageOpens
  <1>4. ASSUME NEW usable \in BOOLEAN, StoreImage(e, usable) PROVE RowsAreWhole' /\ PagesHold'
    <2>1. /\ p.at = "fetching" /\ Opens(e, Away)
          /\ shelf' = IF usable /\ Kept(a) THEN [shelf EXCEPT ![a].picture = "copied"] ELSE shelf
      BY <1>4 DEF StoreImage
    <2>2. a \in Items
      BY <2>1, PagesAre DEF IsFetch
    <2>3. RowsAreWhole' /\ ApprovedNow' = ApprovedNow
      <3>1. CASE usable /\ Kept(a)
        <4> DEFINE r == [shelf[a] EXCEPT !.picture = "copied"]
        <4>1. IsRow(r) /\ r.state = shelf[a].state /\ shelf' = [shelf EXCEPT ![a] = r]
          BY <2>1, <2>2, <3>1, RowIs, RowEdits
        <4> QED
          BY <2>2, <4>1, StateStays
      <3>2. CASE ~ (usable /\ Kept(a))
        BY <2>1, <3>2, ItemsStayApproved DEF RowsAreWhole
      <3> QED
        BY <3>1, <3>2
    <2> QED
      BY <2>1, <2>3, OtherPages, PageOpens
  <1> QED
    BY <1>1, <1>2, <1>3, <1>4

LEMMA DeleteHolds ==
  ASSUME RowsAreWhole, PagesHold, NEW e \in Reviewers, Delete(e)
  PROVE  RowsAreWhole' /\ PagesHold'
  <1> DEFINE p == screen[e]
             d == [screen EXCEPT ![e] = Away]
  <1>1. p.at = "form" /\ shelf' = [shelf EXCEPT ![p.of] = Gone] /\ screen' = Watched(d)
    BY DEF Delete
  <1>2. p.of \in Items
    BY <1>1, PagesAre DEF IsForm
  <1>3. RowsAreWhole'
    BY <1>1, <1>2, RowChanges
  <1>4. \A x \in Reviewers : IsPage(d[x])
    BY OtherPages DEF PagesHold
  <1> HIDE DEF d
  <1> QED
    BY <1>1, <1>3, <1>4, PagesWatch

LEMMA FirstTicksAreTicks ==
  ASSUME NEW counted \in Seq(Items)
  PROVE  FirstTicks(counted) \in Seq(Items)
  <1>1. Len(counted) \in Nat /\ MAX_ITEMS_PER_DRAFT \in Nat \ {0}
    BY LenProperties, DeskAssumption
  <1>2. CASE Len(counted) > MAX_ITEMS_PER_DRAFT
    <2>1. 1 \in 1..(Len(counted) + 1) /\ MAX_ITEMS_PER_DRAFT \in 0..Len(counted)
      BY <1>1, <1>2
    <2>2. SubSeq(counted, 1, MAX_ITEMS_PER_DRAFT) \in Seq(Items)
      BY <1>1, <2>1, SubSeqProperties
    <2> QED
      BY <1>2, <2>2 DEF FirstTicks
  <1>3. CASE ~ (Len(counted) > MAX_ITEMS_PER_DRAFT)
    BY <1>3 DEF FirstTicks
  <1> QED
    BY <1>2, <1>3

\* What the press sends and what the server reads for it.
LEMMA PressHolds ==
  ASSUME PagesHold, NEW e \in Reviewers, PressCreate(e)
  PROVE  PagesHold'
  <1> DEFINE p == screen[e]
             page == [at |-> "building", requested |-> p.ticked, ever |-> ApprovedNow, always |-> ApprovedNow]
  <1>1. p.at = "inbox" /\ Opens(e, page) /\ UNCHANGED shelf
    BY DEF PressCreate
  <1>2. p.ticked \in Seq(Items)
    BY <1>1, PagesAre DEF IsInbox
  <1>3. IsPage(page) /\ Watches(page)
    BY <1>2 DEF IsPage, IsBuild, Watches
  <1>4. ApprovedNow' = ApprovedNow
    BY <1>1, ItemsStayApproved
  <1> QED
    BY <1>1, <1>3, <1>4, PageOpens

LEMMA ReadHolds ==
  ASSUME PagesHold, NEW e \in Reviewers, ReadApproved(e)
  PROVE  PagesHold'
  <1> DEFINE p == screen[e]
             counted == FirstTicks(p.requested)
             ordered == Only(counted, ApprovedNow)
             page == [at |-> "writing", ordered |-> ordered, requested |-> p.requested, ever |-> p.ever, always |-> p.always]
             letter == [articles |-> ordered, ticked |-> p.requested, ever |-> p.ever, always |-> p.always]
  <1>1. p.at = "building" /\ Opens(e, IF ordered = <<>> THEN Away ELSE page) /\ UNCHANGED shelf
    BY DEF ReadApproved, Ordered
  <1>2. p.requested \in Seq(Items) /\ ApprovedNow \subseteq p.ever /\ p.always \subseteq ApprovedNow
    BY <1>1, PagesAre DEF IsBuild
  <1>3. ApprovedNow' = ApprovedNow
    BY <1>1, ItemsStayApproved
  <1>4. CASE ordered = <<>>
    BY <1>1, <1>3, <1>4, OtherPages, PageOpens
  <1>5. CASE ordered # <<>>
    <2>1. counted \in Seq(Items)
      BY <1>2, FirstTicksAreTicks
    <2> HIDE DEF counted
    <2>2. Range(ordered) = Range(counted) \cap ApprovedNow /\ Only(counted, Range(ordered)) = ordered
      BY <2>1, OnlyKeeps
    <2> HIDE DEF ordered
    <2>3. p.always \cap Range(counted) \subseteq Range(ordered) /\ Range(ordered) \subseteq p.ever
      BY <1>2, <2>2
    <2>4. letter.articles = ordered /\ FirstTicks(letter.ticked) = counted /\ letter.ever = p.ever /\ letter.always = p.always
      BY DEF counted
    <2>5. DraftFollows(letter)
      BY <1>5, <2>2, <2>3, <2>4 DEF DraftFollows
    <2>6. page.at = "writing" /\ page.ordered = ordered /\ page.requested = p.requested /\ page.ever = p.ever /\ page.always = p.always
      OBVIOUS
    <2>7. IsDraft(page)
      BY <2>5, <2>6 DEF IsDraft
    <2>8. Opens(e, page)
      BY <1>1, <1>5
    <2> HIDE DEF page
    <2>9. IsPage(page) /\ Watches(page)
      BY <2>6, <2>7 DEF IsPage, Watches
    <2> QED
      BY <1>3, <2>8, <2>9, PageOpens
  <1> QED
    BY <1>4, <1>5

LEMMA WriteHolds ==
  ASSUME DeskInv, NEW e \in Reviewers, WriteDraft(e)
  PROVE  PagesHold' /\ DraftFollowsTheTicks'
  <1> DEFINE p == screen[e]
             letter == [articles |-> p.ordered, ticked |-> p.requested, ever |-> p.ever, always |-> p.always]
  <1>1. p.at = "writing" /\ Opens(e, Away) /\ UNCHANGED shelf /\ made' \subseteq made \cup {letter}
    BY DEF WriteDraft
  <1>2. DraftFollows(letter)
    BY <1>1, PagesAre DEF DeskInv, IsDraft
  <1> HIDE DEF letter
  <1>3. DraftFollowsTheTicks'
    BY <1>1, <1>2 DEF DeskInv, DraftFollowsTheTicks
  <1>4. ApprovedNow' = ApprovedNow
    BY <1>1, ItemsStayApproved
  <1> QED
    BY <1>1, <1>3, <1>4, OtherPages, PageOpens DEF DeskInv

LEMMA DeskStarts ==
  ASSUME DeskInit
  PROVE  DeskInv
  <1>1. PICK early \in SUBSET Items : shelf = [a \in Items |-> IF a \in early THEN [Fresh EXCEPT !.state = "APPROVED"] ELSE Fresh]
    BY DEF DeskInit
  <1>2. RowsAreWhole
    <2>1. [Fresh EXCEPT !.state = "APPROVED"] = [state |-> "APPROVED", text |-> "published", picture |-> "theirs", own |-> "none", by |-> NoOne]
      BY DEF Fresh
    <2>2. \A a \in Items : shelf[a] = [state |-> shelf[a].state, text |-> "published", picture |-> "theirs", own |-> "none", by |-> NoOne]
      BY <1>1, <2>1 DEF Fresh
    <2>3. shelf = [a \in Items |-> shelf[a]]
      BY <1>1
    <2> QED
      BY <2>2, <2>3 DEF RowsAreWhole
  <1>3. PagesHold
    BY OtherPages DEF DeskInit, PagesHold
  <1>4. DraftFollowsTheTicks
    BY DEF DeskInit, DraftFollowsTheTicks
  <1> QED
    BY <1>2, <1>3, <1>4 DEF DeskInv

LEMMA DeskSteps ==
  ASSUME DeskInv, [DeskNext]_deskVars
  PROVE  DeskInv'
  <1>0. RowsAreWhole /\ PagesHold /\ DraftFollowsTheTicks
    BY DEF DeskInv
  <1>1. ASSUME UNCHANGED deskVars PROVE DeskInv'
    <2>1. UNCHANGED <<shelf, screen, made>>
      BY <1>1 DEF deskVars
    <2>2. PagesHold'
      BY <1>0, <2>1, ItemsStayApproved, PagesStay
    <2>3. RowsAreWhole' /\ DraftFollowsTheTicks'
      BY <1>0, <2>1 DEF RowsAreWhole, DraftFollowsTheTicks
    <2> QED
      BY <2>2, <2>3 DEF DeskInv
  <1>2. ASSUME NEW e \in Reviewers, WriteDraft(e) PROVE DeskInv'
    <2>1. UNCHANGED shelf
      BY <1>2 DEF WriteDraft
    <2>2. RowsAreWhole'
      BY <1>0, <2>1 DEF RowsAreWhole
    <2> QED
      BY <1>2, <2>2, WriteHolds DEF DeskInv
  <1>3. ASSUME RowsAreWhole', PagesHold', UNCHANGED made PROVE DeskInv'
    <2>1. DraftFollowsTheTicks'
      BY <1>0, <1>3 DEF DraftFollowsTheTicks
    <2> QED
      BY <1>3, <2>1 DEF DeskInv
  <1>4. ASSUME NEW e \in Reviewers, OpenInbox(e) \/ ClearTicks(e) \/ ClosePage(e) \/ \E a \in Items : OpenArticle(e, a) \/ OpenForm(e, a)
        PROVE  DeskInv'
    <2>1. UNCHANGED <<shelf, made>>
      BY <1>4 DEF OpenInbox, ClearTicks, ClosePage, OpenArticle, OpenForm
    <2>2. RowsAreWhole'
      BY <1>0, <2>1 DEF RowsAreWhole
    <2>3. PagesHold'
      BY <1>0, <1>4, PagesOpen
    <2> QED
      BY <1>3, <2>1, <2>2, <2>3
  <1>5. ASSUME NEW e \in Reviewers, PressCreate(e) \/ ReadApproved(e) \/ \E a \in Items : Toggle(e, a)
        PROVE  DeskInv'
    <2>1. UNCHANGED <<shelf, made>>
      BY <1>5 DEF PressCreate, ReadApproved, Toggle
    <2>2. RowsAreWhole'
      BY <1>0, <2>1 DEF RowsAreWhole
    <2>3. PagesHold'
      BY <1>0, <1>5, PressHolds, ReadHolds, ToggleHolds
    <2> QED
      BY <1>3, <2>1, <2>2, <2>3
  <1>6. ASSUME NEW e \in Reviewers, NEW a \in Items, NEW to, Judge(e, a, to) \/ SetReviewState(e, a, to)
        PROVE  DeskInv'
    <2>1. UNCHANGED made
      BY <1>6 DEF Judge, SetReviewState
    <2>2. RowsAreWhole' /\ PagesHold'
      BY <1>0, <1>6, JudgeHolds, SetStateHolds
    <2> QED
      BY <1>3, <2>1, <2>2
  <1>7. ASSUME NEW e \in Reviewers,
               (\E w \in Words : SaveEditorial(e, w) \/ \E swap \in BOOLEAN : SaveForm(e, w, swap))
               \/ ImportImage(e) \/ \E usable \in BOOLEAN : StoreImage(e, usable)
        PROVE  DeskInv'
    <2>1. UNCHANGED made
      BY <1>7 DEF SaveEditorial, SaveForm, ImportImage, StoreImage
    <2>2. RowsAreWhole' /\ PagesHold'
      BY <1>0, <1>7, SavesHold
    <2> QED
      BY <1>3, <2>1, <2>2
  <1>8. ASSUME NEW e \in Reviewers, Delete(e) PROVE DeskInv'
    <2>1. UNCHANGED made
      BY <1>8 DEF Delete
    <2>2. RowsAreWhole' /\ PagesHold'
      BY <1>0, <1>8, DeleteHolds
    <2> QED
      BY <1>3, <2>1, <2>2
  <1> QED
    BY <1>1, <1>2, <1>4, <1>5, <1>6, <1>7, <1>8, Zenon DEF DeskNext

(* A row of the shelf is whole or gone; a page holds ticks that name         *)
(* articles; a draft being built knows everything approved since its press,  *)
(* and what it takes to have stayed approved is approved still.              *)
THEOREM DeskInvariant == DeskSpec => []DeskInv
  <1>1. DeskInit => DeskInv
    BY DeskStarts
  <1>2. DeskInv /\ [DeskNext]_deskVars => DeskInv'
    BY DeskSteps
  <1> QED
    BY <1>1, <1>2, PTL DEF DeskSpec

(* However articles are judged again, edited and deleted between the ticks,  *)
(* the press, the reading and the writing, a draft holds its ticks in their  *)
(* order, nothing that was never approved, and everything of the first       *)
(* MAX_ITEMS_PER_DRAFT ticks that stayed approved: for any number of         *)
(* colleagues, articles and ticks.                                           *)
THEOREM DraftsFollowTicks == DeskSpec => []DraftFollowsTheTicks
  <1>1. DeskInv => DraftFollowsTheTicks
    BY DEF DeskInv
  <1> QED
    BY <1>1, DeskInvariant, PTL
=============================================================================
