---------------------------- MODULE Translations ----------------------------
(***************************************************************************)
(* Hebrew translations of collected articles (articleTranslationService.ts,*)
(* chatgptTranslationToken.ts).                                            *)
(*                                                                         *)
(* A translation is admitted in one transaction behind an advisory lock,   *)
(* waits for the provider outside any transaction, and is saved in another *)
(* that looks at everything again.  The process may die in between.  A     *)
(* ChatGPT reply, prepared up to a day before, is imported in one          *)
(* transaction under the same lock.                                        *)
(***************************************************************************)
EXTENDS Integers, FiniteSets

CONSTANTS Writers,              \* staff with MANAGE_CONTENT
          Originals, Drafts,    \* ids: collected articles, translations to come
          Timeout,              \* RUN_TIMEOUT_MS, in ticks
          Day, Minute,          \* limits are counted per day and per minute
          MaxRunning, MaxPerDay, MaxPersonal, MaxRecent,  \* the request limits
          LastTick, MaxText, MaxAttempts  \* bounds: the clock; texts of an article; attempts

ASSUME TranslateAssumption ==
    /\ Originals \cap Drafts = {} /\ {"none", "gone"} \cap Drafts = {}
    /\ Timeout \in Nat /\ Minute \in Nat \ {0} /\ Day \in Nat \ {0}
    /\ {MaxRunning, MaxPerDay, MaxPersonal, MaxRecent, LastTick, MaxText, MaxAttempts} \subseteq Nat

NoItem == [text |-> 0]   \* of an item only its text is told apart
NotWriting == [at |-> "desk"]

VARIABLES
    items,      \* [Originals \cup Drafts -> ContentItem row, or NoItem]
    translations,   \* ContentTranslation rows, by id
    active,     \* staff whose account still works
    now,        \* the clock of all processes
    writing        \* what each of the staff waits for

translateVars == <<items, translations, active, now, writing>>

TranslateInit ==
    /\ items = [a \in Originals \cup Drafts |->
                  IF a \in Originals THEN [text |-> 1] ELSE NoItem]
    /\ translations = {}
    /\ active = Writers
    /\ now = 0
    /\ writing = [s \in Writers |-> NotWriting]

Has(a) == items[a] # NoItem
fingerprint(a) == items[a].text
Translatable(a) == a \in Originals /\ Has(a)
Sit(s, d) == writing' = [writing EXCEPT ![s] = d]
Arrive(s, d) == s \in active /\ writing[s] = NotWriting /\ Sit(s, d)

UpdateContent(s, a) ==
    /\ s \in active /\ Has(a) /\ items[a].text < MaxText
    /\ items' = [items EXCEPT ![a].text = @ + 1]
    /\ UNCHANGED <<translations, active, now, writing>>

(* Deleting an original with translation history is refused; deleting a     *)
(* translation leaves its attempt without a result.                         *)
DeleteContent(s, a) ==
    /\ s \in active /\ Has(a)
    /\ ~\E t \in translations : t.src = a
    /\ items' = [items EXCEPT ![a] = NoItem]
    /\ translations' = {IF t.gen = a THEN [t EXCEPT !.gen = "gone"] ELSE t : t \in translations}
    /\ UNCHANGED <<active, now, writing>>

(***************************************************************************)
(* createHebrewArticleTranslation.                                         *)
(***************************************************************************)
Expired(t) == t.state = "RUNNING" /\ t.born < now - Timeout
(* Attempts nobody finished in time are failed by the next request. *)
Interrupt(all) == {IF Expired(t) THEN [t EXCEPT !.state = "FAILED"] ELSE t : t \in all}
Running(all) == {t \in all : t.state = "RUNNING"}
Ready(all, a, hash) == {t \in all : t.src = a /\ t.hash = hash /\ t.state = "READY" /\ t.gen \in Drafts}
Requested(all) == {t \in all : ~t.manual}

WithinLimits(s, all) ==
    LET today == {t \in Requested(all) : t.born >= now - (now % Day)} IN
    /\ Cardinality(Running(all)) < MaxRunning
    /\ Cardinality(today) < MaxPerDay
    /\ Cardinality({t \in today : t.by = s}) < MaxPersonal
    /\ Cardinality({t \in Requested(all) : t.by = s /\ t.born >= now - Minute}) < MaxRecent

FreshId(all) == Cardinality(all) + 1
Room == Cardinality(translations) < MaxAttempts

Request(s, a) ==
    /\ Translatable(a) /\ Room
    /\ Arrive(s, [at |-> "admission", a |-> a, hash |-> fingerprint(a)])
    /\ UNCHANGED <<items, translations, active, now>>

Admit(s) ==
    LET d == writing[s]
        all == Interrupt(translations)
        row == [id |-> FreshId(all), src |-> d.a, hash |-> d.hash, by |-> s, state |-> "RUNNING",
                born |-> now, gen |-> "none", manual |-> FALSE]
    IN
    /\ d.at = "admission" /\ Has(d.a) /\ Room
    /\ IF /\ Ready(all, d.a, d.hash) = {}
          /\ ~\E t \in Running(all) : t.src = d.a
          /\ WithinLimits(s, all)
       THEN translations' = all \cup {row} /\ Sit(s, [at |-> "provider", id |-> row.id, a |-> d.a, hash |-> d.hash])
       ELSE translations' = all /\ Sit(s, NotWriting)
    /\ UNCHANGED <<items, active, now>>

Attempt(id) == CHOOSE t \in translations : t.id = id
Change(id, f) == translations' = {IF t.id = id THEN f ELSE t : t \in translations}
NewDraft(g, a) == items' = [items EXCEPT ![g] = [text |-> fingerprint(a)]]

(* Mutant of StillWanted: an answer that comes too late is taken. *)
LateAccepted(s, d) ==
    Attempt(d.id).state = "RUNNING" /\ Has(d.a) /\ fingerprint(d.a) = d.hash /\ s \in active
StillWanted(s, d) ==
    /\ Attempt(d.id).state = "RUNNING"
    /\ now - Attempt(d.id).born <= Timeout
    /\ Has(d.a) /\ fingerprint(d.a) = d.hash
    /\ s \in active

(* The provider has answered: the draft and the READY row are one write, or *)
(* the attempt fails unless somebody has failed it already.                 *)
Complete(s, g, answered) ==
    LET d == writing[s] IN
    /\ d.at = "provider"
    /\ IF answered /\ StillWanted(s, d)
       THEN /\ g \in Drafts /\ ~Has(g)
            /\ NewDraft(g, d.a)
            /\ Change(d.id, [Attempt(d.id) EXCEPT !.state = "READY", !.gen = g])
       ELSE /\ UNCHANGED items
            /\ Change(d.id, [Attempt(d.id) EXCEPT !.state = IF @ = "RUNNING" THEN "FAILED" ELSE @])
    /\ Sit(s, NotWriting)
    /\ UNCHANGED <<active, now>>

(***************************************************************************)
(* The copy-and-paste path: a signed receipt, then one transaction.        *)
(***************************************************************************)
PrepareForChatgpt(s, a) ==
    /\ Translatable(a) /\ Room
    /\ Arrive(s, [at |-> "chatgpt", a |-> a, hash |-> fingerprint(a), expires |-> now + Day])
    /\ UNCHANGED <<items, translations, active, now>>
ImportAllowed(s, d) ==
    /\ d.expires > now
    /\ Translatable(d.a) /\ fingerprint(d.a) = d.hash
    /\ Ready(translations, d.a, d.hash) = {}
    /\ ~\E t \in Running(translations) : t.src = d.a /\ t.born >= now - Timeout
    /\ s \in active
SaveFromChatgpt(s, g) ==
    LET d == writing[s] IN
    /\ d.at = "chatgpt" /\ Room
    /\ IF ImportAllowed(s, d)
       THEN /\ g \in Drafts /\ ~Has(g)
            /\ NewDraft(g, d.a)
            /\ translations' = translations \cup {[id |-> FreshId(translations), src |-> d.a, hash |-> d.hash, by |-> s,
                               state |-> "READY", born |-> now, gen |-> g, manual |-> TRUE]}
       ELSE UNCHANGED <<items, translations>>
    /\ Sit(s, NotWriting)
    /\ UNCHANGED <<active, now>>

(* The process dies, or the tab is closed; the row stays as it is. *)
WalkAway(s) ==
    /\ writing[s] # NotWriting
    /\ Sit(s, NotWriting)
    /\ UNCHANGED <<items, translations, active, now>>
DisableOriginal(s) ==
    /\ active' = active \ {s} /\ s \in active
    /\ UNCHANGED <<items, translations, now, writing>>
MinutePasses ==
    /\ now < LastTick /\ now' = now + 1
    /\ UNCHANGED <<items, translations, active, writing>>

Translate(s) == \/ \E a \in Originals : Request(s, a) \/ PrepareForChatgpt(s, a) \/ UpdateContent(s, a)
                \/ \E a \in Originals \cup Drafts : DeleteContent(s, a)
                \/ Admit(s)
                \/ \E g \in Drafts, answered \in BOOLEAN : Complete(s, g, answered)
                \/ \E g \in Drafts : SaveFromChatgpt(s, g)
                \/ WalkAway(s) \/ DisableOriginal(s)

TranslateNext == MinutePasses \/ \E s \in Writers : Translate(s)

TranslateSpec == TranslateInit /\ [][TranslateNext]_translateVars

-----------------------------------------------------------------------------
(* One text of one article has at most one Hebrew version at a time, though *)
(* requests, imports, expiries and late answers of several people cross.    *)
OneHebrewPerText ==
    \A t, u \in translations :
        t.state = "READY" /\ u.state = "READY" /\ t.gen \in Drafts /\ u.gen \in Drafts
        /\ t.src = u.src /\ t.hash = u.hash => t = u

(* A Hebrew draft is made from the text its attempt was admitted for, by    *)
(* somebody whose account worked at that moment, and no step leaves two     *)
(* versions of one text.                                                    *)
OneTrueHebrew ==
    [][/\ OneHebrewPerText'
       /\ \A g \in Drafts : ~Has(g) /\ Has(g)' =>
            \E t \in translations' : /\ t.gen = g /\ t.state = "READY"
                                    /\ t.hash = items[t.src].text
                                    /\ t.by \in active]_translateVars

(***************************************************************************)
(* The inductive invariant.                                                 *)
(***************************************************************************)
AttemptRow == [id : Nat, src : Originals, hash : Nat, by : Writers, state : {"RUNNING", "READY", "FAILED"},
               born : Nat, gen : Drafts \cup {"none", "gone"}, manual : BOOLEAN]
WritingType ==
    [at : {"desk"}]
      \cup [at : {"admission"}, a : Originals, hash : Nat]
      \cup [at : {"provider"}, id : Nat, a : Originals, hash : Nat]
      \cup [at : {"chatgpt"}, a : Originals, hash : Nat, expires : Nat]
TranslateTypeOK ==
    /\ items \in [Originals \cup Drafts -> [text : Nat]]
    /\ translations \subseteq AttemptRow
    /\ active \subseteq Writers
    /\ now \in Nat
    /\ writing \in [Writers -> WritingType]

(* Attempts are numbered in the order they were admitted.                    *)
Numbered(all, n) == {t.id : t \in all} = 1..n /\ \A t, u \in all : t.id = u.id => t = u
AttemptsAreNumbered == /\ Cardinality(translations) \in Nat
                       /\ Numbered(translations, Cardinality(translations))
(* Who waits for the provider has an attempt of their own, of that text.     *)
AttemptsAreKept ==
    \A s \in Writers :
      writing[s].at = "provider" =>
        \E t \in translations : /\ t.id = writing[s].id /\ t.src = writing[s].a
                                /\ t.hash = writing[s].hash /\ t.by = s
(* An attempt that may still become a draft is alone with its text.          *)
Alive(t) == t.state = "RUNNING" /\ now - t.born <= Timeout
Hebrew(t) == t.state = "READY" /\ t.gen \in Drafts
AliveAreAlone ==
    \A t, u \in translations :
      Alive(t) /\ u.src = t.src => /\ Alive(u) => u = t
                                   /\ Hebrew(u) => u.hash # t.hash
TranslateInv ==
    /\ TranslateTypeOK /\ AttemptsAreNumbered /\ AttemptsAreKept /\ AliveAreAlone /\ OneHebrewPerText
=============================================================================
