---------------------------- MODULE AddressBook ----------------------------
(***************************************************************************)
(* Communication settings (CommunicationTable.tsx, communication/actions.ts,*)
(* communicationService.ts, consentAssignment.ts, languageAssignment.ts).   *)
(*                                                                         *)
(* Staff tick addresses in a table that stays on screen while filters and   *)
(* pages change under it, ask for a change, confirm it, and a server action *)
(* reads the rows, decides which of them move, and then writes them and     *)
(* their audit rows in one transaction.  Several staff do so at once.       *)
(***************************************************************************)
EXTENDS Integers, FiniteSets

CONSTANTS Clerks,          \* staff who may record language and consent
          LastAddress,     \* addresses are 1..LastAddress, in the order of the listing
          Decisions,       \* what the consent form can be filled in with
          Records,         \* CRM records that contribute an address: [kind, mail]
          MaxSelectAll,    \* MAX_SELECT_ALL
          MaxBulk,         \* MAX_BULK_ADDRESSES
          MaxClicks        \* bound: what staff do on the page, all together

Book == 1..LastAddress
LanguageChoices == {"UNKNOWN", "HE"}   \* ASSIGNABLE_LANGUAGES; AR behaves as HE
Statuses == {"UNKNOWN", "GRANTED", "DENIED"}

(* A filled-in form: the date is "none", "past" or "future"; a basis of     *)
(* "other" documents nothing without a note.                                *)
Decision == [status : Statuses, basis : {"none", "documented", "other"},
             note : BOOLEAN, date : {"none", "past", "future"}]
ASSUME BookAssumption ==
    /\ Decisions \subseteq Decision
    /\ LastAddress \in Nat \ {0} /\ {MaxSelectAll, MaxBulk, MaxClicks} \subseteq Nat
    /\ \A r \in Records : r.kind \in {"COMPANY", "CONTACT"} /\ r.mail \in Book

VARIABLES
    profile,   \* [Book -> CommunicationAddress: language, consent and its evidence]
    trail,     \* [Book -> fromState and toState of the last audit row, for language and for consent]
    refused,   \* addresses with an Unsubscribe or a Suppression
    table,     \* [Clerks -> what is on the screen of each]
    saving,    \* [Clerks -> the server action each waits for, or Unsaved]
    clicks

bookVars == <<profile, trail, refused, table, saving, clicks>>

Unsaved == [at |-> "page"]
NoQuestion == [kind |-> "none"]
BlankDecision == [status |-> "GRANTED", basis |-> "none", note |-> FALSE, date |-> "past"]
NoAudit == [from |-> "UNKNOWN", to |-> "UNKNOWN"]
NoConsent == [consent |-> "UNKNOWN", basis |-> "none", note |-> FALSE, date |-> "none"]

BookInit ==
    /\ profile = [a \in Book |-> [language |-> "UNKNOWN", evidence |-> NoConsent]]
    /\ trail = [a \in Book |-> [language |-> NoAudit, consent |-> NoAudit]]
    /\ refused = {}
    /\ table = [c \in Clerks |->
                  [filter |-> "ALL", picked |-> {}, language |-> "HE", decision |-> BlankDecision,
                   ticked |-> FALSE, asked |-> NoQuestion, sure |-> NoQuestion]]
    /\ saving = [c \in Clerks |-> Unsaved]
    /\ clicks = 0

(***************************************************************************)
(* The listing (buildWhere, crmEmailFilter).                                *)
(***************************************************************************)
CrmEmails(kind) == {r.mail : r \in {q \in Records : q.kind = kind}}
Shown(filter) ==
    CASE filter = "SENDABLE"            -> Book \ refused
      [] filter = "REFUSED"             -> refused
      [] filter \in {"COMPANY", "CONTACT"} -> CrmEmails(filter)
      [] OTHER                          -> Book
FirstOf(n, set) == {a \in set : Cardinality({b \in set : b < a}) < n}

(***************************************************************************)
(* The page.  "asked" is the consent question on screen and "sure" the      *)
(* language question: what was shown when the clerk pressed the button.     *)
(***************************************************************************)
Click(c, t) ==
    /\ clicks < MaxClicks /\ clicks' = clicks + 1
    /\ table' = [table EXCEPT ![c] = t]
AtPage(c, t) == saving[c] = Unsaved /\ Click(c, t) /\ UNCHANGED <<profile, trail, refused, saving>>

Navigate(c, f) ==
    /\ f # table[c].filter
    /\ AtPage(c, [table[c] EXCEPT !.filter = f])

(* Mutant of Picking: the pending confirmations survive a new selection. *)
PickingOnly(t, set) == [t EXCEPT !.picked = set]
Picking(t, set) == [t EXCEPT !.picked = set, !.asked = NoQuestion, !.sure = NoQuestion]
Pick(c, set) == AtPage(c, Picking(table[c], set))
Toggle(c, set) ==
    LET picked == table[c].picked IN
    Pick(c, IF set \subseteq picked THEN picked \ set ELSE picked \cup set)
ToggleRow(c, a) == a \in Shown(table[c].filter) /\ Toggle(c, {a})
TogglePage(c) == LET page == Shown(table[c].filter) IN page # {} /\ Toggle(c, page)
SelectAllMatching(c) == Pick(c, FirstOf(MaxSelectAll, Shown(table[c].filter)))
SelectOnly(c, a) == a \in Shown(table[c].filter) /\ Pick(c, {a})
Clear(c) == Pick(c, {})

ChooseLanguage(c, l) == AtPage(c, [table[c] EXCEPT !.language = l, !.sure = NoQuestion])
FillIn(c, d) == AtPage(c, [table[c] EXCEPT !.decision = d, !.asked = NoQuestion])
Tick(c) == AtPage(c, [table[c] EXCEPT !.ticked = ~@, !.asked = NoQuestion])

LanguageQuestion(t) == [kind |-> "language", set |-> t.picked, language |-> t.language]
ConsentQuestion(t) == [kind |-> "consent", set |-> t.picked, decision |-> t.decision]
consentReady(t) ==
    /\ t.picked # {} /\ t.ticked
    /\ t.decision.status = "GRANTED" =>
         /\ t.decision.basis # "none" /\ t.decision.date # "none"
         /\ t.decision.basis = "other" => t.decision.note
AskLanguage(c) ==
    /\ table[c].picked # {}
    /\ AtPage(c, [table[c] EXCEPT !.sure = LanguageQuestion(table[c])])
AskConsent(c) ==
    /\ consentReady(table[c])
    /\ AtPage(c, [table[c] EXCEPT !.asked = ConsentQuestion(table[c])])

(***************************************************************************)
(* The server actions.  A submission is parsed and the rows it names are    *)
(* read; the questions stay on the screen.                                  *)
(***************************************************************************)
Few(set) == set # {} /\ Cardinality(set) <= MaxBulk
Documented(d) ==
    d.status = "GRANTED" =>
      /\ d.basis # "none" /\ d.date = "past"
      /\ d.basis = "other" => d.note
(* Mutant of Evidence: a refusal keeps the basis still on the form. *)
EvidenceAsFilled(d) == [consent |-> d.status, basis |-> d.basis, note |-> d.note, date |-> d.date]
Evidence(d) ==
    [consent |-> d.status, note |-> d.note,
     basis   |-> IF d.status = "GRANTED" THEN d.basis ELSE "none",
     date    |-> IF d.status = "GRANTED" THEN d.date ELSE "none"]

Submit(c, work) ==
    /\ saving[c] = Unsaved /\ clicks < MaxClicks /\ clicks' = clicks + 1
    /\ saving' = [saving EXCEPT ![c] = work]
    /\ UNCHANGED <<profile, trail, refused, table>>
Held(kind, a) == IF kind = "language" THEN profile[a].language ELSE profile[a].evidence.consent
Reading(kind, set) == [a \in set |-> Held(kind, a)]
SetLanguage(c, set, l, question) ==
    /\ Few(set)
    /\ LET moving == {a \in set : profile[a].language # l} IN
       /\ moving # {}
       /\ Submit(c, [at |-> "language", rows |-> Reading("language", moving), overtaken |-> {},
                     language |-> l, question |-> question])
SubmitLanguage(c) ==
    /\ table[c].sure # NoQuestion
    /\ SetLanguage(c, table[c].picked, table[c].language, table[c].sure)
(* The selector inside a row saves that row at once. *)
SaveRow(c, a, l) ==
    /\ a \in Shown(table[c].filter)
    /\ SetLanguage(c, {a}, l, [kind |-> "language", set |-> {a}, language |-> l])
SubmitConsent(c) ==
    LET t == table[c] IN
    /\ t.asked # NoQuestion
    /\ t.ticked /\ Few(t.picked) /\ Documented(t.decision)
    /\ LET moving == {a \in t.picked : \/ t.decision.status = "GRANTED"
                                       \/ profile[a].evidence.consent # t.decision.status} IN
       /\ moving # {}
       /\ Submit(c, [at |-> "consent", rows |-> Reading("consent", moving), overtaken |-> {},
                     evidence |-> Evidence(t.decision), question |-> t.asked])

(* The update names its columns; what was read only feeds fromState of the  *)
(* audit row.                                                               *)
Written(w, a) ==
    IF w.at = "language" THEN [profile[a] EXCEPT !.language = w.language]
                         ELSE [profile[a] EXCEPT !.evidence = w.evidence]
Audited(w, a) ==
    IF w.at = "language" THEN [trail[a] EXCEPT !.language = [from |-> w.rows[a], to |-> w.language]]
                         ELSE [trail[a] EXCEPT !.consent = [from |-> w.rows[a], to |-> w.evidence.consent]]
(* What others read of these rows is old from now on. *)
Overtaken(w, by) ==
    IF w = Unsaved \/ w.at # by.at THEN w ELSE [w EXCEPT !.overtaken = @ \cup DOMAIN by.rows]
Save(c) ==
    LET w == saving[c] IN
    /\ w # Unsaved
    /\ profile' = [a \in Book |-> IF a \in DOMAIN w.rows THEN Written(w, a) ELSE profile[a]]
    /\ trail' = [a \in Book |-> IF a \in DOMAIN w.rows THEN Audited(w, a) ELSE trail[a]]
    /\ saving' = [d \in Clerks |-> IF d = c THEN Unsaved ELSE Overtaken(saving[d], w)]
    /\ UNCHANGED <<refused, table, clicks>>
(* The request fails before its transaction commits. *)
Lose(c) ==
    /\ saving[c] # Unsaved
    /\ saving' = [saving EXCEPT ![c] = Unsaved]
    /\ UNCHANGED <<profile, trail, refused, table, clicks>>
(* A recipient or the provider refuses mail to the address meanwhile. *)
Refuse(a) ==
    /\ a \notin refused /\ refused' = refused \cup {a}
    /\ UNCHANGED <<profile, trail, table, saving, clicks>>

BookNext ==
    \/ \E c \in Clerks :
         \/ \E f \in {"ALL", "SENDABLE", "REFUSED", "COMPANY", "CONTACT"} : Navigate(c, f)
         \/ \E a \in Book : ToggleRow(c, a) \/ SelectOnly(c, a) \/ \E l \in LanguageChoices : SaveRow(c, a, l)
         \/ \E l \in LanguageChoices : ChooseLanguage(c, l)
         \/ \E d \in Decisions : FillIn(c, d)
         \/ TogglePage(c) \/ SelectAllMatching(c) \/ Clear(c) \/ Tick(c) \/ AskLanguage(c) \/ AskConsent(c)
         \/ SubmitLanguage(c) \/ SubmitConsent(c) \/ Save(c) \/ Lose(c)
    \/ \E a \in Book : Refuse(a)

BookSpec == BookInit /\ [][BookNext]_bookVars

(***************************************************************************)
(* Properties.                                                              *)
(***************************************************************************)
(* consentAssignment.ts: an address is approved only with a basis and a     *)
(* date not in the future, "other" only with a note, and once approval is   *)
(* withdrawn nothing is left that documents it, whoever changed it last.    *)
ApprovalsAreDocumented ==
    \A a \in Book : LET e == profile[a].evidence IN
      IF e.consent = "GRANTED"
        THEN e.basis # "none" /\ e.date = "past" /\ (e.basis = "other" => e.note)
        ELSE e.basis = "none" /\ e.date = "none"

(* communicationService.ts setLanguage/setConsent: two staff who change     *)
(* language and consent of one address at the same time both get what they  *)
(* recorded: the profile is what the last audit row of each kind says.      *)
NoDecisionIsLost ==
    \A a \in Book : trail[a].language.to = Held("language", a) /\ trail[a].consent.to = Held("consent", a)

(* communicationService.ts: the before value a save is about to audit was   *)
(* read before its transaction; it is the value the save replaces, unless   *)
(* another save of the same kind reached that row in between.               *)
BeforeIsReplaced ==
    \A c \in Clerks : saving[c] # Unsaved =>
      LET w == saving[c] IN
      \A a \in DOMAIN w.rows \ w.overtaken : w.rows[a] = Held(w.at, a)

(* CommunicationTable.tsx: what a save changes is what its clerk was shown  *)
(* when the question was asked: those addresses, that language, that        *)
(* decision, whatever was clicked in between.                               *)
SavesAnswerTheirQuestion ==
    \A c \in Clerks : saving[c] # Unsaved =>
      LET w == saving[c] IN
      /\ DOMAIN w.rows \subseteq w.question.set /\ w.at = w.question.kind
      /\ w.at = "language" => w.language = w.question.language
      /\ w.at = "consent"  => w.evidence.consent = w.question.decision.status

(* A decision recorded for an address is one somebody made, as they were    *)
(* asked, with what documents it, and none of two made at once is lost.     *)
DecisionsAreAsMade ==
    ApprovalsAreDocumented /\ NoDecisionIsLost /\ SavesAnswerTheirQuestion /\ BeforeIsReplaced

(***************************************************************************)
(* The inductive invariant.                                                 *)
(***************************************************************************)
EvidenceType == [consent : Statuses, basis : {"none", "documented", "other"}, note : BOOLEAN,
                 date : {"none", "past", "future"}]
ProfileType == [language : LanguageChoices, evidence : EvidenceType]
LanguageAsked == [kind : {"language"}, set : SUBSET Book, language : LanguageChoices]
ConsentAsked == [kind : {"consent"}, set : SUBSET Book, decision : Decision]
TableType ==
    [filter : {"ALL", "SENDABLE", "REFUSED", "COMPANY", "CONTACT"}, picked : SUBSET Book,
     language : LanguageChoices, decision : Decision, ticked : BOOLEAN,
     asked : {NoQuestion} \cup ConsentAsked, sure : {NoQuestion} \cup LanguageAsked]
RowsRead == UNION {[read -> LanguageChoices \cup Statuses] : read \in SUBSET Book}
AuditType == [from : LanguageChoices \cup Statuses, to : LanguageChoices \cup Statuses]
SavingType ==
    {Unsaved}
      \cup [at : {"language"}, rows : RowsRead, overtaken : SUBSET Book, language : LanguageChoices, question : LanguageAsked]
      \cup [at : {"consent"}, rows : RowsRead, overtaken : SUBSET Book, evidence : EvidenceType, question : ConsentAsked]
BookTypeOK ==
    /\ profile \in [Book -> ProfileType]
    /\ trail \in [Book -> [language : AuditType, consent : AuditType]]
    /\ refused \subseteq Book /\ clicks \in Nat
    /\ table \in [Clerks -> TableType]
    /\ saving \in [Clerks -> SavingType]

(* What documents a decision: on the row, and in a save that is under way.   *)
DocumentedBy(e) ==
    IF e.consent = "GRANTED" THEN e.basis # "none" /\ e.date = "past" /\ (e.basis = "other" => e.note)
                             ELSE e.basis = "none" /\ e.date = "none"
SavesAreDocumented == \A c \in Clerks : saving[c].at = "consent" => DocumentedBy(saving[c].evidence)
(* A question on screen is about what is ticked and filled in now.           *)
QuestionsAreCurrent ==
    \A c \in Clerks :
      /\ table[c].sure # NoQuestion => table[c].sure = LanguageQuestion(table[c])
      /\ table[c].asked # NoQuestion => table[c].asked = ConsentQuestion(table[c])
BookInv == BookTypeOK /\ SavesAreDocumented /\ QuestionsAreCurrent /\ DecisionsAreAsMade
=============================================================================
