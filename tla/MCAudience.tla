----------------------------- MODULE MCAudience -----------------------------
(***************************************************************************)
(* Small instances for TLC of how a newsletter comes to its readers: the    *)
(* consent that staff record for addresses (book), the preparation and      *)
(* approval of a final audience, and the screen it is done on.              *)
(* They share no state here: the scenario drawn at the start says which one *)
(* moves, while the others rest in one initial state of their own.  Three   *)
(* scenarios are of the approval:                                           *)
(*   contents  the newsletter is edited, with one preparation and one       *)
(*             approval, or two preparations;                               *)
(*   keys      the document stays as it is, with three rows in any order;   *)
(*   again     only the rules change, to a second address, and the calls    *)
(*             follow each other: a scheduled newsletter is prepared and    *)
(*             approved again.                                              *)
(* and two are of the screen:                                               *)
(*   pages     from the start, up to the first approvals;                   *)
(*   approved  from a newsletter prepared and approved, with every page     *)
(*             opened again since: what follows is few presses away.        *)
(***************************************************************************)
EXTENDS ProductionApproval, AddressBook, MCReadinessScreen, TLC

CONSTANTS author, manager1, k1, k2, doc1, doc2, seg,
          c1, c2

VARIABLE scenario

\* What the CRM may say of an address, and whom the rules may select.
MCFacts == {[lang |-> "HE", ok |-> TRUE, granted |-> TRUE], [lang |-> "AR", ok |-> TRUE, granted |-> TRUE],
            [lang |-> "HE", ok |-> FALSE, granted |-> FALSE]}
MCCriteria == {{}, {"ann"}, {"ann", "bob"}}
Plain == [lang |-> "HE", ok |-> TRUE, granted |-> TRUE]

\* How the consent form may be filled in, and whom the CRM lists.
SomeDecisions ==
  {[status |-> "GRANTED", basis |-> "documented", note |-> FALSE, date |-> "past"],
   [status |-> "GRANTED", basis |-> "other", note |-> FALSE, date |-> "past"],
   [status |-> "GRANTED", basis |-> "other", note |-> TRUE, date |-> "future"],
   [status |-> "DENIED", basis |-> "other", note |-> TRUE, date |-> "past"]}
SomeRecords == {[kind |-> "COMPANY", mail |-> 1], [kind |-> "CONTACT", mail |-> 1], [kind |-> "CONTACT", mail |-> 2]}

\* A screen some way on; its counters start again.
CompletePage == [shows |-> "page", status |-> "DRAFT", confirmed |-> 0, list |-> 0,
                 was |-> [newest |-> 1, count |-> 2, current |-> TRUE, open |-> TRUE, valid |-> TRUE, complete |-> TRUE]]
ApprovedScreen ==
    /\ newsletter = [text |-> 0, status |-> "DRAFT", confirmed |-> 0, typed |-> 0, under |-> [n |-> 0, of |-> 0]]
    /\ crowd = "both" /\ frozen = <<[key |-> 1, crowd |-> "both"]>> /\ pressed = 1
    /\ approval = [n |-> 1, of |-> 1, text |-> 0, live |-> TRUE] /\ records = 0
    /\ page = [v \in Viewers |-> CompletePage]
    /\ form = [v \in Viewers |-> IF v = Composer THEN [NoForm EXCEPT !.token = 2, !.told = <<"frozen", 2>>]
                                 ELSE [NoForm EXCEPT !.token = 3, !.asked = TRUE]]
    /\ call = [v \in Viewers |-> NoCall]
    /\ presses = 0 /\ moves = 0 /\ tokens = 3

MCInit ==
    /\ scenario \in {"contents", "keys", "again", "book", "pages", "approved"}
    /\ Init /\ BookInit
    /\ IF scenario = "approved" THEN ApprovedScreen ELSE ScreenInit /\ crowd = "both"
    /\ facts["bob"] = Plain
    /\ scenario # "again" => rules[seg] # {"ann", "bob"}
    /\ scenario = "again" => facts["ann"] = Plain /\ rules[seg] # {}
    /\ scenario \in {"book", "pages", "approved"} => rules[seg] = {} /\ facts["ann"].lang = "AR"

ApprovalNext(A) == Next /\ A /\ UNCHANGED <<scenario, bookVars, screenVars>>
OneReader == facts'["bob"] = Plain /\ rules'[seg] # {"ann", "bob"}
ContentsStep == scenario = "contents" /\ ApprovalNext(OneReader /\ nextId' <= 3)
KeysStep ==
    /\ scenario = "keys"
    /\ ApprovalNext(/\ OneReader /\ nextId' <= 4
                    /\ campaign'.content = campaign.content
                    /\ \A p \in People : facts'[p].lang = "HE")
InTurns == \E s \in Staff : \A u \in Staff \ {s} : task[u] = Idle /\ task'[u] = Idle
AgainStep ==
    /\ scenario = "again"
    /\ ApprovalNext(/\ InTurns /\ UNCHANGED <<facts, manager>> /\ rules'[seg] # {}
                    /\ \A f \in {"language", "segment", "content"} : campaign'[f] = campaign[f])
BookStep == scenario = "book" /\ BookNext /\ UNCHANGED <<scenario, vars, screenVars>>
PagesStep == scenario = "pages" /\ ScreenNext /\ UNCHANGED <<scenario, vars, bookVars>>
ApprovedStep == scenario = "approved" /\ ScreenNext /\ presses' < MaxPresses /\ UNCHANGED <<scenario, vars, bookVars>>

MCNext == ContentsStep \/ KeysStep \/ AgainStep \/ BookStep \/ PagesStep \/ ApprovedStep
MCSpec == MCInit /\ [][MCNext]_<<scenario, vars, bookVars, screenVars>>

(* Forms of preparation, documents and clerks are interchangeable.          *)
Interchangeable == Permutations(Keys) \union Permutations(Contents) \union Permutations(Clerks)
=============================================================================
