----------------------------- MODULE MCContent ------------------------------
(***************************************************************************)
(* Small instances of the modules about what a newsletter holds, for TLC,   *)
(* and of what is reported of it.  They share no state here: the scenario   *)
(* drawn at the start says which one moves, while the others rest in one    *)
(* initial state of theirs.                                                 *)
(***************************************************************************)
EXTENDS Newsletters, Translations, Automations, FeedReading, ArticleDesk,
        ProviderFeedback, JobQueue

CONSTANTS u1, u2, x1, x2, n1, n2, a1, f1, w1, e1, e2, e3, none, nojob, noone

VARIABLE scenario

\* Two occurrences of one automation, and a delivery.
MixedJobs     == {<<"AUTOMATION", "a", 1>>, <<"AUTOMATION", "a", 2>>, <<"DISPATCH", "c", 1>>}
MixedKind     == [j \in Jobs |-> j[1]]
MixedResource == [j \in Jobs |-> j[2]]

\* An entry a feed gave twice, once with its id and once without.
SomeEntries == {[feed |-> f1, ext |-> "x1", link |-> "l1"], [feed |-> f1, ext |-> None, link |-> "l1"]}

Url(host, path) == [scheme |-> "https", credentials |-> FALSE, port |-> "", host |-> host, path |-> path, tracked |-> FALSE]
Site == Named("public")
(* Inside reserved space, at the edges of its blocks, in every notation.    *)
Reserved == {<<10, 0, 0, 1>>, <<100, 64, 1, 1>>, <<100, 127, 1, 1>>, <<169, 254, 169, 254>>, <<172, 16, 0, 1>>,
             <<172, 31, 0, 1>>, <<192, 168, 0, 1>>, <<224, 0, 0, 1>>, <<127, 0, 0, 1>>, <<0, 0, 0, 0>>}
Written(q) == {V4(q), Mapped(q), Groups(q[1] * 256 + q[2], q[3] * 256 + q[4])}
SomeTyped == {Url(Site, "feed"), [Url(Site, "feed") EXCEPT !.credentials = TRUE]}
             \cup UNION {{Url(h, "feed") : h \in Written(q)} : q \in Reserved}
SomeLocations == {Url(Site, "moved"), Url(Named("metadata"), "latest"), Url(Groups(2560, 1), "x")}
SomeLookups == {{}, {V4(<<93, 184, 216, 34>>)}, {V4(<<93, 184, 216, 34>>), V4(<<10, 0, 0, 7>>)}}
Link(rel, href) == [rel |-> rel, href |-> href]
Article == Url(Site, "article")
SomeBodies ==
  {[kind |-> "doctype"],
   [kind |-> "rss", entries |-> <<[link |-> NoUrl, guid |-> "g1", permalink |-> TRUE, place |-> Article],
                                  [link |-> [Article EXCEPT !.scheme = "javascript"], guid |-> "g2",
                                   permalink |-> FALSE, place |-> NoUrl]>>],
   [kind |-> "atom", entries |-> <<[links |-> <<Link("self", Url(Site, "feed")),
                                                Link("alternate", [Article EXCEPT !.scheme = "http"])>>, id |-> "a1"],
                                   [links |-> <<>>, id |-> NoId]>>]}

\* A bounce reported twice, out of order, and an opt-out reported of a pilot.
SomeEvents ==
    e1 :> [name |-> "email.bounced", permanent |-> TRUE, mail |-> "ann", msg |-> "m1", at |-> 2] @@
    e2 :> [name |-> "email.bounced", permanent |-> TRUE, mail |-> "ann", msg |-> "m1", at |-> 1] @@
    e3 :> [name |-> "UNSUBSCRIBE", permanent |-> FALSE, mail |-> "ann", msg |-> "p", at |-> 3]
SomeMails    == [r \in Rows |-> "ann"]
SomeMessages == [r \in Rows |-> "m1"]
SomeHolders  == [t \in Secrets |-> "ann"]
SomePilots   == {[mail |-> "ann", msg |-> "p"]}

MCInit ==
    /\ scenario \in {"letters", "hebrew", "plans", "feeds", "inbox", "reports", "jobs"}
    /\ LetterInit /\ TranslateInit /\ PlanInit /\ ReadInit /\ FeedbackInit /\ Init
    /\ DeskInit /\ (signed = {} <=> scenario # "inbox") /\ Cardinality(signed) \in {0, Cardinality(Items)}

LettersStep == scenario = "letters" /\ LetterNext /\ UNCHANGED <<scenario, translateVars, planVars, readVars, deskVars, feedbackVars, queueVars>>
HebrewStep == scenario = "hebrew" /\ TranslateNext /\ UNCHANGED <<scenario, letterVars, planVars, readVars, deskVars, feedbackVars, queueVars>>
PlanStep == scenario = "plans" /\ PlanNext /\ UNCHANGED <<scenario, letterVars, translateVars, readVars, deskVars, feedbackVars, queueVars>>
FeedStep == scenario = "feeds" /\ ReadNext /\ UNCHANGED <<scenario, letterVars, translateVars, planVars, deskVars, feedbackVars, queueVars>>
InboxStep == scenario = "inbox" /\ DeskNext /\ UNCHANGED <<scenario, letterVars, translateVars, planVars, readVars, feedbackVars, queueVars>>
ReportStep == scenario = "reports" /\ FeedbackNext /\ UNCHANGED <<scenario, letterVars, translateVars, planVars, readVars, deskVars, queueVars>>
JobStep == scenario = "jobs" /\ Next /\ UNCHANGED <<scenario, letterVars, translateVars, planVars, readVars, deskVars, feedbackVars>>

MCNext == LettersStep \/ HebrewStep \/ PlanStep \/ FeedStep \/ InboxStep
          \/ ReportStep \/ JobStep

MCSpec == MCInit /\ [][MCNext]_<<scenario, letterVars, translateVars, planVars, readVars, deskVars, feedbackVars, queueVars>>

(* The staff are interchangeable, and so are articles, drafts and inboxes.  *)
Interchangeable == Permutations({u1, u2}) \cup Permutations({x1, x2}) \cup Permutations({n1, n2})

(* One draft at a time is ticked together, up to the first that is made.    *)
Drafting == {e \in Reviewers : \/ screen[e].at = "inbox" /\ screen[e].ticked # <<>>
                               \/ screen[e].at \in {"building", "writing"}}
OneDraft == Cardinality(Drafting) <= 1 /\ (made # {} => Drafting = {})
=============================================================================
