---------------------------- MODULE ArticleDesk ----------------------------
(***************************************************************************)
(* Where people judge and word collected articles (contentReviewService.ts,*)
(* contentService.ts, newsletterDraftService.ts, InboxList.tsx,            *)
(* ContentForm.tsx and the pages around them).                             *)
(*                                                                         *)
(* Every colleague works from a page rendered earlier: the inbox keeps the *)
(* ticks in the browser while others approve, reject, edit and delete, the *)
(* article form sends the whole article back as it was opened, and copying *)
(* a picture fetches it between reading the article and storing it.        *)
(***************************************************************************)
EXTENDS Naturals, Sequences, SequencesExt, FiniteSets

CONSTANTS Reviewers, Items, NoOne, Words,
          MAX_ITEMS_PER_DRAFT,
          MaxRequests                 \* bound on the requests sent to the server

ASSUME DeskAssumption ==
    /\ NoOne \notin Reviewers
    /\ MAX_ITEMS_PER_DRAFT \in Nat \ {0} /\ MaxRequests \in Nat

VARIABLES
    shelf,     \* [Items -> ContentItem row]
    screen,      \* [Reviewers -> the page open, with what it was rendered from, or the call under way]
    signed,    \* audit rows of decisions
    made,   \* drafts made from the inbox
    requests

deskVars == <<shelf, screen, signed, made, requests>>

Away == [at |-> "away"]
Gone == [state |-> "DELETED"]
Fresh == [state |-> "PENDING_REVIEW", text |-> "published", picture |-> "theirs", own |-> "none", by |-> NoOne]
Kept(a) == shelf[a] # Gone
ApprovedNow == {a \in Items : shelf[a].state = "APPROVED"}

DeskInit ==
    /\ \E judged \in SUBSET Items :
          /\ shelf = [a \in Items |-> IF a \in judged THEN [Fresh EXCEPT !.state = "APPROVED"] ELSE Fresh]
          /\ signed = {[of |-> a, to |-> "APPROVED", by |-> NoOne] : a \in judged}
    /\ screen = [e \in Reviewers |-> Away] /\ made = {} /\ requests = 0

(* The members of S in a sequence, as they stand in it: those of its first n *)
(* places, and all of them.                                                  *)
KeptUpTo(s, S) ==
    LET upTo[n \in 0..Len(s)] ==
          IF n = 0 THEN <<>> ELSE IF s[n] \in S THEN Append(upTo[n - 1], s[n]) ELSE upTo[n - 1]
    IN  upTo
Only(s, S) == KeptUpTo(s, S)[Len(s)]

Opens(e, page) == screen' = [screen EXCEPT ![e] = page]
Called == requests < MaxRequests /\ requests' = requests + 1
(* Drafts being built learn what was approved while they were. *)
Watched(d) ==
    LET now == {a \in Items : shelf'[a].state = "APPROVED"} IN
    [e \in Reviewers |-> IF d[e].at = "building"
                       THEN [d[e] EXCEPT !.ever = @ \cup now, !.always = @ \cap now] ELSE d[e]]

-----------------------------------------------------------------------------
(* The pages.  An approved article has a tick box; a tick stays when the    *)
(* article is judged again, here or elsewhere, for the page is not remade.  *)
OpenInbox(e) ==
    /\ screen[e].at = "away"
    /\ Opens(e, [at |-> "inbox", shown |-> [a \in Items |-> shelf[a].state], ticked |-> <<>>])
    /\ UNCHANGED <<shelf, signed, made, requests>>
OpenArticle(e, a) ==
    /\ screen[e].at = "away" /\ Kept(a)
    /\ Opens(e, [at |-> "review", of |-> a, own |-> shelf[a].own])
    /\ UNCHANGED <<shelf, signed, made, requests>>
OpenForm(e, a) ==
    /\ screen[e].at = "away" /\ Kept(a)
    /\ Opens(e, [at |-> "form", of |-> a, text |-> shelf[a].text, picture |-> shelf[a].picture,
                 state |-> shelf[a].state])
    /\ UNCHANGED <<shelf, signed, made, requests>>
ClosePage(e) ==
    /\ screen[e].at \in {"inbox", "review", "form"} /\ Opens(e, Away)
    /\ UNCHANGED <<shelf, signed, made, requests>>
Toggle(e, a) ==
    LET p == screen[e] IN
    /\ p.at = "inbox" /\ p.shown[a] = "APPROVED"
    /\ Opens(e, [p EXCEPT !.ticked = IF a \in Range(@) THEN Only(@, Items \ {a}) ELSE Append(@, a)])
    /\ UNCHANGED <<shelf, signed, made, requests>>
ClearTicks(e) ==
    /\ screen[e].at = "inbox" /\ screen[e].ticked # <<>>
    /\ Opens(e, [screen[e] EXCEPT !.ticked = <<>>])
    /\ UNCHANGED <<shelf, signed, made, requests>>

(* approveContent, rejectContent, returnToInbox: from the list, which is     *)
(* rendered again with its ticks, or from the article's page.               *)
Judge(e, a, to) ==
    LET p == screen[e] IN
    /\ Called /\ Kept(a)
    /\ \/ p.at = "inbox" /\ p.shown[a] # "DELETED" /\ to # "PENDING_REVIEW" /\ p.shown[a] # to
       \/ p.at = "review" /\ p.of = a
    /\ shelf' = [shelf EXCEPT ![a].state = to, ![a].by = e]
    /\ signed' = IF to = "PENDING_REVIEW" THEN signed ELSE signed \cup {[of |-> a, to |-> to, by |-> e]}
    /\ screen' = Watched([screen EXCEPT ![e] =
                   IF p.at = "inbox" THEN [p EXCEPT !.shown = [b \in Items |-> shelf'[b].state]] ELSE p])
    /\ UNCHANGED made
(* contentService.setReviewState, from the content list, however old, and   *)
(* the edit page: neither the reviewer nor the decision is written down.    *)
SetReviewState(e, a, to) ==
    /\ Called /\ Kept(a) /\ to # "PENDING_REVIEW"
    /\ \/ screen[e] = Away
       \/ screen[e].at = "form" /\ screen[e].of = a /\ to = "APPROVED" /\ screen[e].state # "APPROVED"
    /\ shelf' = [shelf EXCEPT ![a].state = to]
    /\ screen' = Watched(IF screen[e] = Away THEN screen ELSE [screen EXCEPT ![e].state = to])
    /\ UNCHANGED <<signed, made>>
(* saveEditorial writes AXIS's own words and nothing else. *)
SaveEditorial(e, w) ==
    LET p == screen[e] IN
    /\ Called /\ p.at = "review" /\ Kept(p.of)
    /\ shelf' = [shelf EXCEPT ![p.of].own = w]
    /\ Opens(e, [p EXCEPT !.own = w])
    /\ UNCHANGED <<signed, made>>
(* updateContent: the form sends the text and the picture it was opened with. *)
SaveForm(e, w, swap) ==
    LET p == screen[e] picture == IF swap THEN "uploaded" ELSE p.picture IN
    /\ Called /\ p.at = "form" /\ Kept(p.of)
    /\ shelf' = [shelf EXCEPT ![p.of].text = w, ![p.of].picture = picture]
    /\ Opens(e, [p EXCEPT !.text = w, !.picture = picture])
    /\ UNCHANGED <<signed, made>>
(* deleteContent: an article of a draft is kept. *)
Delete(e) ==
    LET p == screen[e] IN
    /\ Called /\ p.at = "form" /\ Kept(p.of)
    /\ \A l \in made : p.of \notin Range(l.articles)
    /\ shelf' = [shelf EXCEPT ![p.of] = Gone]
    /\ screen' = Watched([screen EXCEPT ![e] = Away])
    /\ UNCHANGED <<signed, made>>

(* importArticleImage: read the address, fetch it, store the copy over      *)
(* whatever picture the article has by then.                                *)
ImportImage(e) ==
    /\ Called /\ screen[e].at = "review" /\ Kept(screen[e].of)
    /\ Opens(e, [at |-> "fetching", of |-> screen[e].of])
    /\ UNCHANGED <<shelf, signed, made>>
StoreImage(e, usable) ==
    LET p == screen[e] IN
    /\ p.at = "fetching"
    /\ shelf' = IF usable /\ Kept(p.of) THEN [shelf EXCEPT ![p.of].picture = "copied"] ELSE shelf
    /\ Opens(e, Away)
    /\ UNCHANGED <<signed, made, requests>>

-----------------------------------------------------------------------------
(* createDraftFromContent: the ticks go out with the press; the articles are *)
(* read when the server gets to it, and the draft is saved after that.      *)
PressCreate(e) ==
    LET p == screen[e] IN
    /\ Called /\ p.at = "inbox" /\ p.ticked # <<>>
    /\ Opens(e, [at |-> "building", requested |-> p.ticked, ever |-> ApprovedNow, always |-> ApprovedNow])
    /\ UNCHANGED <<shelf, signed, made>>
(* Mutant of Ordered: the articles in the order the query returns them. *)
AsFound(requested, found) == Only(SetToSeq(Items), Range(requested) \cap found)
(* The first ticks count, before anybody asks which are still approved. *)
FirstTicks(ticks) == IF Len(ticks) > MAX_ITEMS_PER_DRAFT THEN SubSeq(ticks, 1, MAX_ITEMS_PER_DRAFT) ELSE ticks
(* The approved ones, as ticked: the first is the hero. *)
Ordered(requested, found) == Only(requested, found)
ReadApproved(e) ==
    LET p == screen[e]
        ordered == Ordered(FirstTicks(p.requested), ApprovedNow)
    IN
    /\ p.at = "building"
    /\ Opens(e, IF ordered = <<>> THEN Away
                ELSE [at |-> "writing", ordered |-> ordered, requested |-> p.requested,
                      ever |-> p.ever, always |-> p.always])
    /\ UNCHANGED <<shelf, signed, made, requests>>
(* A link to an article deleted meanwhile fails, and the draft with it. *)
WriteDraft(e) ==
    LET p == screen[e] IN
    /\ p.at = "writing"
    /\ made' = IF \A a \in Range(p.ordered) : Kept(a)
                  THEN made \cup {[articles |-> p.ordered, ticked |-> p.requested,
                                      ever |-> p.ever, always |-> p.always]}
                  ELSE made
    /\ Opens(e, Away)
    /\ UNCHANGED <<shelf, signed, requests>>

DeskNext ==
    \E e \in Reviewers :
        \/ OpenInbox(e) \/ ClosePage(e) \/ ClearTicks(e)
        \/ \E a \in Items : OpenArticle(e, a) \/ OpenForm(e, a) \/ Toggle(e, a)
        \/ \E a \in Items, to \in {"APPROVED", "REJECTED", "PENDING_REVIEW"} :
              Judge(e, a, to) \/ SetReviewState(e, a, to)
        \/ \E w \in Words : SaveEditorial(e, w) \/ \E swap \in BOOLEAN : SaveForm(e, w, swap)
        \/ Delete(e) \/ ImportImage(e) \/ \E usable \in BOOLEAN : StoreImage(e, usable)
        \/ PressCreate(e) \/ ReadApproved(e) \/ WriteDraft(e)
DeskSpec == DeskInit /\ [][DeskNext]_deskVars

-----------------------------------------------------------------------------
(* However articles are judged again, edited and deleted while a colleague  *)
(* ticks and presses, a draft opens with the first tick that is still       *)
(* approved and keeps the order of the ticks; of those that count it leaves *)
(* out nothing that stayed approved, and it takes in nothing that was not   *)
(* approved meanwhile.                                                      *)
DraftFollows(l) ==
    LET in == Range(l.articles) ticks == FirstTicks(l.ticked) IN
    /\ l.articles = Only(ticks, in) /\ l.articles # <<>>
    /\ l.always \cap Range(ticks) \subseteq in /\ in \subseteq l.ever
DraftFollowsTheTicks == \A l \in made : DraftFollows(l)

(***************************************************************************)
(* The inductive invariant.                                                 *)
(***************************************************************************)
RowsAreWhole ==
    /\ shelf = [a \in Items |-> shelf[a]]
    /\ \A a \in Items : LET r == shelf[a] IN
         r = Gone \/ r = [state |-> r.state, text |-> r.text, picture |-> r.picture, own |-> r.own, by |-> r.by]
(* What a page is made of.                                                  *)
IsInbox(p) == p = [at |-> "inbox", shown |-> p.shown, ticked |-> p.ticked] /\ p.ticked \in Seq(Items)
IsReview(p) == p = [at |-> "review", of |-> p.of, own |-> p.own] /\ p.of \in Items
IsForm(p) ==
    p = [at |-> "form", of |-> p.of, text |-> p.text, picture |-> p.picture, state |-> p.state] /\ p.of \in Items
IsFetch(p) == p.of \in Items
IsBuild(p) ==
    /\ p = [at |-> "building", requested |-> p.requested, ever |-> p.ever, always |-> p.always]
    /\ p.requested \in Seq(Items)
IsDraft(p) ==
    DraftFollows([articles |-> p.ordered, ticked |-> p.requested, ever |-> p.ever, always |-> p.always])
IsPage(p) ==
    /\ p.at \in {"away", "inbox", "review", "form", "fetching", "building", "writing"}
    /\ p.at = "inbox" => IsInbox(p)
    /\ p.at = "review" => IsReview(p)
    /\ p.at = "form" => IsForm(p)
    /\ p.at = "fetching" => IsFetch(p)
    /\ p.at = "building" => IsBuild(p)
    /\ p.at = "writing" => IsDraft(p)
(* A draft being built knows everything approved since the press, and what  *)
(* it takes to have stayed approved still is.                               *)
Watches(p) == p.at = "building" => ApprovedNow \subseteq p.ever /\ p.always \subseteq ApprovedNow
PagesHold ==
    /\ screen = [e \in Reviewers |-> screen[e]]
    /\ \A e \in Reviewers : IsPage(screen[e]) /\ Watches(screen[e])
DeskInv == RowsAreWhole /\ PagesHold /\ DraftFollowsTheTicks
=============================================================================
