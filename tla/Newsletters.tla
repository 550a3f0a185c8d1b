----------------------------- MODULE Newsletters -----------------------------
(***************************************************************************)
(* Composing newsletters (newsletterService.ts, campaignRepository.ts,     *)
(* campaignAudienceService.ts, publicNewsletterService.ts).                *)
(*                                                                         *)
(* A service call reads the newsletter, decides, and then writes in a      *)
(* transaction that locks the row and looks at its status again; between   *)
(* the two another editor, a test send or the schedule may come first.     *)
(***************************************************************************)
EXTENDS Integers, FiniteSets, Sequences, SequencesExt

CONSTANTS Editors, Letters, Articles, Tokens,
          MaxCalls   \* bound: forms opened in all

ASSUME LetterAssumption == IsFiniteSet(Articles) /\ MaxCalls \in Nat

NoLetter == [status |-> "NONE"]
NoDocument == <<"not frozen">>
NoToken == "no token"
Resting == [at |-> "rest"]

VARIABLES
    letters,     \* [Letters -> a Campaign row with its ordered items, or NoLetter]
    library,     \* [Articles -> version of the text; 0 once deleted]
    sent,        \* newsletters with a test send, recipient or event row
    minted,      \* public tokens given out so far
    call,        \* what each editor has in flight
    calls        \* forms opened so far

letterVars == <<letters, library, sent, minted, call, calls>>

Exists(n) == letters[n] # NoLetter
Editable(n) == Exists(n) /\ letters[n].status = "DRAFT"

(* Mutant of LockDraft: the lock does not look at the status again. *)
LockExists(n) == Exists(n)
LockDraft(n) == Editable(n)

(* orderBy position: rows of equal position come in any order. *)
Orders(items) ==
    {s \in SetToSeqs(DOMAIN items) : \A i, j \in DOMAIN s : i < j => items[s[i]] <= items[s[j]]}
(* The place each of an order's articles takes; the others keep theirs. *)
Placed(order, first, items) ==
    [a \in DOMAIN items |-> IF \E i \in DOMAIN order : order[i] = a
                            THEN first - 1 + CHOOSE i \in DOMAIN order : order[i] = a
                            ELSE items[a]]
LastPosition(items) == IF DOMAIN items = {} THEN 0
                       ELSE CHOOSE p \in {items[a] : a \in DOMAIN items} :
                                \A a \in DOMAIN items : items[a] <= p
Without(items, a) == [b \in DOMAIN items \ {a} |-> items[b]]

(* Mutant of Documents: the frozen document is not consulted. *)
LiveDocuments(n) == {[i \in DOMAIN s |-> <<s[i], library[s[i]]>>] : s \in Orders(letters[n].items)}
(* What buildNewsletterDocument may return: the preview, the web page and  *)
(* every send render it, and getPublicNewsletter for whoever has the link.   *)
Documents(n) ==
    IF letters[n].doc # NoDocument THEN {letters[n].doc}
    ELSE {[i \in DOMAIN s |-> <<s[i], library[s[i]]>>] : s \in Orders(letters[n].items)}
Blank == [status |-> "DRAFT", items |-> <<>>, segment |-> 0, doc |-> NoDocument, token |-> NoToken]

(* One newsletter holds every article, in some order; the rest are to come. *)
LetterInit ==
    /\ \E n \in Letters, s \in SetToSeqs(Articles) :
          letters = [m \in Letters |-> IF m # n THEN NoLetter
                        ELSE [Blank EXCEPT !.items = Placed(s, 1, [a \in Articles |-> 0])]]
    /\ library = [a \in Articles |-> 1]
    /\ sent = {} /\ minted = {}
    /\ call = [e \in Editors |-> Resting] /\ calls = 0

Begin(e, c) == /\ call[e] = Resting /\ call' = [call EXCEPT ![e] = c]
               /\ calls < MaxCalls /\ calls' = calls + 1
Continue(e, c) == call' = [call EXCEPT ![e] = c] /\ UNCHANGED calls
AtOnce(e) == Begin(e, Resting)
End(e) == Continue(e, Resting)
Write(n, row) == letters' = [letters EXCEPT ![n] = row]

Create(e, n) ==
    /\ AtOnce(e) /\ ~Exists(n)
    /\ Write(n, Blank)
    /\ UNCHANGED <<library, sent, minted>>

(* createDraftFromContent: one transaction, in the order chosen, from zero. *)
DraftFromContent(e, n, order) ==
    /\ AtOnce(e) /\ ~Exists(n)
    /\ \A i \in DOMAIN order : library[order[i]] > 0
    /\ Write(n, [Blank EXCEPT !.items = Placed(order, 0, [a \in ToSet(order) |-> 0])])
    /\ UNCHANGED <<library, sent, minted>>

(* A form opened on a newsletter somebody may have moved on meanwhile. *)
AddRead(e, n, a) ==
    /\ Editable(n) /\ a \notin DOMAIN letters[n].items
    /\ Begin(e, [at |-> "add", n |-> n, a |-> a])
    /\ UNCHANGED <<letters, library, sent, minted>>
RemoveRead(e, n, a) ==
    /\ Editable(n)
    /\ Begin(e, [at |-> "remove", n |-> n, a |-> a])
    /\ UNCHANGED <<letters, library, sent, minted>>
Swapped(s, i, j) == [s EXCEPT ![i] = s[j], ![j] = s[i]]
MoveRead(e, n, a, step) ==
    /\ Editable(n)
    /\ \E s \in Orders(letters[n].items), i \in 1..Cardinality(Articles) :
          /\ i \in DOMAIN s /\ s[i] = a
          /\ i + step \in DOMAIN s
          /\ Begin(e, [at |-> "move", n |-> n, order |-> Swapped(s, i, i + step)])
    /\ UNCHANGED <<letters, library, sent, minted>>
SegmentRead(e, n, segment) ==
    /\ Editable(n)
    /\ Begin(e, [at |-> "segment", n |-> n, segment |-> segment])
    /\ UNCHANGED <<letters, library, sent, minted>>

(* Appends; the unique key and the foreign key refuse, and the call fails. *)
AddCommit(e) ==
    LET t == call[e] IN
    /\ t.at = "add"
    /\ IF LockDraft(t.n) /\ t.a \notin DOMAIN letters[t.n].items /\ library[t.a] > 0
       THEN Write(t.n, [letters[t.n] EXCEPT !.items =
                [b \in DOMAIN @ \cup {t.a} |-> IF b = t.a THEN LastPosition(@) + 1 ELSE @[b]]])
       ELSE UNCHANGED letters
    /\ End(e)
    /\ UNCHANGED <<library, sent, minted>>

(* Deletes the row and renumbers the rest 1..n. *)
RemoveCommit(e) ==
    LET t == call[e] IN
    /\ t.at = "remove"
    /\ IF LockDraft(t.n) /\ t.a \in DOMAIN letters[t.n].items
       THEN LET rest == Without(letters[t.n].items, t.a)
            IN \E order \in Orders(rest) :
                  Write(t.n, [letters[t.n] EXCEPT !.items = Placed(order, 1, rest)])
       ELSE UNCHANGED letters
    /\ End(e)
    /\ UNCHANGED <<library, sent, minted>>

(* reorderCampaignContent with the order read before the lock. *)
MoveCommit(e) ==
    LET t == call[e] IN
    /\ t.at = "move"
    /\ IF LockDraft(t.n)
       THEN Write(t.n, [letters[t.n] EXCEPT !.items = Placed(t.order, 1, @)])
       ELSE UNCHANGED letters
    /\ End(e)
    /\ UNCHANGED <<library, sent, minted>>

SegmentCommit(e) ==
    LET t == call[e] IN
    /\ t.at = "segment"
    /\ IF LockDraft(t.n) THEN Write(t.n, [letters[t.n] EXCEPT !.segment = t.segment])
                         ELSE UNCHANGED letters
    /\ End(e)
    /\ UNCHANGED <<library, sent, minted>>

(* deleteNewsletter: the history is counted first; the restricting foreign  *)
(* keys refuse a row that has gained one since.                             *)
DeleteRead(e, n) ==
    /\ Exists(n) /\ letters[n].status \in {"DRAFT", "REJECTED", "CANCELED"} /\ n \notin sent
    /\ Begin(e, [at |-> "delete", n |-> n])
    /\ UNCHANGED <<letters, library, sent, minted>>
Restricted(n) == n \in sent
DeleteCommit(e) ==
    LET t == call[e] IN
    /\ t.at = "delete"
    /\ IF LockDraft(t.n) /\ ~Restricted(t.n) THEN Write(t.n, NoLetter) ELSE UNCHANGED letters
    /\ End(e)
    /\ UNCHANGED <<library, sent, minted>>

(* duplicateNewsletter: a new draft, then its articles one transaction each. *)
Duplicate(e, n, copy) ==
    /\ Exists(n) /\ ~Exists(copy)
    /\ \E order \in Orders(letters[n].items) :
          Begin(e, IF order = <<>> THEN Resting ELSE [at |-> "copy", n |-> copy, rest |-> order])
    /\ Write(copy, Blank)
    /\ UNCHANGED <<library, sent, minted>>
CopyNext(e) ==
    LET t == call[e]
        a == Head(t.rest)
    IN
    /\ t.at = "copy"
    /\ IF LockDraft(t.n) /\ a \notin DOMAIN letters[t.n].items /\ library[a] > 0
       THEN /\ Write(t.n, [letters[t.n] EXCEPT !.items =
                    [b \in DOMAIN @ \cup {a} |-> IF b = a THEN LastPosition(@) + 1 ELSE @[b]]])
            /\ Continue(e, IF Tail(t.rest) = <<>> THEN Resting ELSE [t EXCEPT !.rest = Tail(@)])
       ELSE UNCHANGED letters /\ End(e)
    /\ UNCHANGED <<library, sent, minted>>

(* The web page's link: read, then written without a condition. *)
EnableRead(e, n) ==
    /\ Exists(n) /\ letters[n].token = NoToken
    /\ Begin(e, [at |-> "enable", n |-> n])
    /\ UNCHANGED <<letters, library, sent, minted>>
EnableCommit(e, token) ==
    LET t == call[e] IN
    /\ t.at = "enable"
    /\ IF Exists(t.n)
       THEN /\ token \in Tokens \ minted
            /\ minted' = minted \cup {token}
            /\ Write(t.n, [letters[t.n] EXCEPT !.token = token])
       ELSE UNCHANGED <<letters, minted>>
    /\ End(e)
    /\ UNCHANGED <<library, sent>>
DisablePage(e, n) ==
    /\ AtOnce(e) /\ Exists(n) /\ letters[n].token # NoToken
    /\ Write(n, [letters[n] EXCEPT !.token = NoToken])
    /\ UNCHANGED <<library, sent, minted>>

(* The library: an article changes, or goes if nothing is found to use it. *)
EditArticle(e, a) ==
    /\ AtOnce(e) /\ library[a] > 0
    /\ library' = [library EXCEPT ![a] = @ + 1]
    /\ UNCHANGED <<letters, sent, minted>>
Using(a) == {n \in Letters : Exists(n) /\ a \in DOMAIN letters[n].items}
DeleteArticleRead(e, a) ==
    /\ library[a] > 0 /\ Using(a) = {}
    /\ Begin(e, [at |-> "bin", a |-> a])
    /\ UNCHANGED <<letters, library, sent, minted>>
DeleteArticleCommit(e) ==
    LET t == call[e] IN
    /\ t.at = "bin"
    /\ library' = IF Using(t.a) = {} THEN [library EXCEPT ![t.a] = 0] ELSE library
    /\ End(e)
    /\ UNCHANGED <<letters, sent, minted>>

(* What the other parts do to a newsletter. *)
TestSent(n) ==
    /\ Exists(n) /\ n \notin sent
    /\ sent' = sent \cup {n}
    /\ UNCHANGED <<letters, library, minted, call, calls>>
Schedule(n) ==
    /\ Editable(n)
    /\ \E d \in Documents(n) :
          /\ d # <<>>
          /\ Write(n, [letters[n] EXCEPT !.status = "SCHEDULED", !.doc = d])
    /\ sent' = sent \cup {n}
    /\ UNCHANGED <<library, minted, call, calls>>
Cancel(n) ==
    /\ Exists(n) /\ letters[n].status = "SCHEDULED"
    /\ Write(n, [letters[n] EXCEPT !.status = "CANCELED"])
    /\ UNCHANGED <<library, sent, minted, call, calls>>

Compose(e) ==
    \/ \E n \in Letters : \/ Create(e, n) \/ DeleteRead(e, n) \/ EnableRead(e, n) \/ DisablePage(e, n)
                          \/ SegmentRead(e, n, 1)
                          \/ \E a \in Articles : \/ AddRead(e, n, a) \/ RemoveRead(e, n, a)
                                                 \/ MoveRead(e, n, a, 1) \/ MoveRead(e, n, a, -1)
                          \/ \E m \in Letters : Duplicate(e, n, m)
                          \/ \E a, b \in Articles : a # b /\ DraftFromContent(e, n, <<a, b>>)
    \/ AddCommit(e) \/ RemoveCommit(e) \/ MoveCommit(e) \/ SegmentCommit(e)
    \/ DeleteCommit(e) \/ CopyNext(e) \/ DeleteArticleCommit(e)
    \/ \E token \in Tokens : EnableCommit(e, token)
    \/ \E a \in Articles : DeleteArticleRead(e, a) \/ EditArticle(e, a)

LetterNext == \/ \E e \in Editors : Compose(e)
              \/ \E n \in Letters : TestSent(n) \/ Schedule(n) \/ Cancel(n)

LetterSpec == LetterInit /\ [][LetterNext]_letterVars

-----------------------------------------------------------------------------
(* A newsletter that has left DRAFT is composed no further, whoever had a   *)
(* form open on it; only its status and its web link still move.            *)
LockedIsComposedNoFurther ==
    [][\A n \in Letters : Exists(n) /\ ~Editable(n) =>
          /\ Exists(n)'
          /\ letters'[n].items = letters[n].items /\ letters'[n].segment = letters[n].segment]_letterVars

(* The web page of a newsletter that went out shows what went out, however  *)
(* its articles are edited in the library afterwards.                       *)
PageShowsWhatWasFrozen ==
    [][\A n \in Letters : Exists(n) /\ letters[n].doc # NoDocument =>
          Documents(n)' = {letters[n].doc}]_letterVars

(* What was sent is kept: a newsletter with a sending record never goes,    *)
(* even when the record came after the deletion had counted none.           *)
HistoryIsKept == \A n \in sent : Exists(n)

(* A newsletter never loses an article to a deletion in the library.        *)
UsedArticlesAreKept == \A n \in Letters : Exists(n) => \A a \in DOMAIN letters[n].items : library[a] > 0

(* A newsletter that was scheduled or sent stands as it was, whatever staff *)
(* with older pages open compose, edit, copy or delete afterwards.          *)
SentLettersStand ==
    /\ LockedIsComposedNoFurther /\ PageShowsWhatWasFrozen
    /\ [](HistoryIsKept /\ UsedArticlesAreKept)

(***************************************************************************)
(* The inductive invariant.  A row is told by its columns; positions of     *)
(* articles are whatever the renumbering makes them.                        *)
(***************************************************************************)
Columns(row) == [status |-> row.status, items |-> row.items, segment |-> row.segment,
                 doc |-> row.doc, token |-> row.token]
LetterTypeOK ==
    /\ letters = [n \in Letters |-> letters[n]]
    /\ \A n \in Letters : Exists(n) =>
         /\ letters[n] = Columns(letters[n])
         /\ letters[n].status \in {"DRAFT", "SCHEDULED", "CANCELED"}
         /\ DOMAIN letters[n].items \subseteq Articles
    /\ library \in [Articles -> Nat]
    /\ sent \subseteq Letters /\ minted \subseteq Tokens
    /\ call = [e \in Editors |-> call[e]]
    /\ calls \in Nat

(* What a form that is open will write to.                                   *)
KnownCall(t) ==
    /\ t.at \in {"rest", "add", "remove", "move", "segment", "delete", "copy", "enable", "bin"}
    /\ t.at \notin {"rest", "bin"} => t.n \in Letters
    /\ t.at \in {"add", "remove", "bin"} => t.a \in Articles
    /\ t.at = "copy" => /\ t = [at |-> "copy", n |-> t.n, rest |-> t.rest]
                        /\ t.rest \in Seq(Articles) /\ t.rest # <<>>
CallsAreKnown == \A e \in Editors : KnownCall(call[e])
(* A draft has no frozen document; it is frozen when it is scheduled.        *)
DraftsAreLive == \A n \in Letters : Editable(n) => letters[n].doc = NoDocument
LetterInv ==
    /\ LetterTypeOK /\ CallsAreKnown /\ DraftsAreLive /\ HistoryIsKept /\ UsedArticlesAreKept
=============================================================================
