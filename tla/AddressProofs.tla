---------------------------- MODULE AddressProofs ----------------------------
(***************************************************************************)
(* What is recorded of an address, for any book, staff, rows, events and    *)
(* links: the decisions staff make of it (AddressBook), and what providers  *)
(* and recipients report of it (ProviderFeedback).                          *)
(***************************************************************************)
EXTENDS AddressBook, ProviderFeedback, TLAPS

(***************************************************************************)
(* Decisions of staff.                                                      *)
(***************************************************************************)
LEMMA BookInitInv == BookInit => BookInv
  <1> SUFFICES ASSUME BookInit PROVE BookInv
    OBVIOUS
  <1> DEFINE row == [filter |-> "ALL", picked |-> {}, language |-> "HE", decision |-> BlankDecision,
                     ticked |-> FALSE, asked |-> NoQuestion, sure |-> NoQuestion]
             start == [language |-> "UNKNOWN", evidence |-> NoConsent]
  <1>1. row \in TableType
    BY DEF TableType, BlankDecision, Decision, Statuses, LanguageChoices
  <1>2. start \in ProfileType
    BY DEF ProfileType, EvidenceType, NoConsent, Statuses, LanguageChoices
  <1>3. /\ profile = [a \in Book |-> start] /\ table = [c \in Clerks |-> row]
        /\ trail = [a \in Book |-> [language |-> NoAudit, consent |-> NoAudit]]
        /\ saving = [c \in Clerks |-> Unsaved] /\ refused = {} /\ clicks = 0
    BY DEF BookInit
  <1>4. BookTypeOK
    <2>1. NoAudit \in AuditType
      BY DEF NoAudit, AuditType, LanguageChoices, Statuses
    <2> QED
      BY <1>1, <1>2, <1>3, <2>1 DEF BookTypeOK, SavingType
  <1>5. SavesAreDocumented /\ SavesAnswerTheirQuestion /\ BeforeIsReplaced
    BY <1>3 DEF SavesAreDocumented, SavesAnswerTheirQuestion, BeforeIsReplaced, Unsaved
  <1>6. QuestionsAreCurrent
    BY <1>3 DEF QuestionsAreCurrent
  <1>7. ApprovalsAreDocumented /\ NoDecisionIsLost
    BY <1>3 DEF ApprovalsAreDocumented, NoDecisionIsLost, Held, NoAudit, NoConsent
  <1> QED
    BY <1>4, <1>5, <1>6, <1>7 DEF BookInv, DecisionsAreAsMade

\* A click on the page leaves the questions on it about what it shows.
LEMMA ClickInv ==
  ASSUME BookInv, NEW c \in Clerks, NEW t \in TableType, AtPage(c, t),
         t.sure # NoQuestion => t.sure = LanguageQuestion(t),
         t.asked # NoQuestion => t.asked = ConsentQuestion(t)
  PROVE  BookInv'
  <1>1. /\ table' = [table EXCEPT ![c] = t] /\ clicks' = clicks + 1
        /\ UNCHANGED <<profile, trail, refused, saving>>
    BY DEF AtPage, Click
  <1>2. BookTypeOK'
    BY <1>1 DEF BookInv, BookTypeOK
  <1>3. QuestionsAreCurrent'
    BY <1>1 DEF BookInv, BookTypeOK, QuestionsAreCurrent, LanguageQuestion, ConsentQuestion
  <1>4. SavesAreDocumented' /\ DecisionsAreAsMade'
    BY <1>1 DEF BookInv, SavesAreDocumented, DecisionsAreAsMade, ApprovalsAreDocumented, NoDecisionIsLost,
                SavesAnswerTheirQuestion, BeforeIsReplaced, Held
  <1> QED
    BY <1>2, <1>3, <1>4 DEF BookInv

LEMMA PickInv == ASSUME BookInv, NEW c \in Clerks, NEW set \in SUBSET Book, Pick(c, set) PROVE BookInv'
  <1> DEFINE t == Picking(table[c], set)
  <1>1. table[c] \in TableType
    BY DEF BookInv, BookTypeOK
  <1>2. t \in TableType /\ t.sure = NoQuestion /\ t.asked = NoQuestion
    BY <1>1 DEF Picking, TableType
  <1> QED
    BY <1>2, ClickInv DEF Pick

LEMMA PageInv ==
  ASSUME BookInv, NEW c \in Clerks,
         \/ \E f \in {"ALL", "SENDABLE", "REFUSED", "COMPANY", "CONTACT"} : Navigate(c, f)
         \/ \E a \in Book : ToggleRow(c, a) \/ SelectOnly(c, a)
         \/ \E l \in LanguageChoices : ChooseLanguage(c, l)
         \/ \E d \in Decisions : FillIn(c, d)
         \/ TogglePage(c) \/ SelectAllMatching(c) \/ Clear(c) \/ Tick(c) \/ AskLanguage(c) \/ AskConsent(c)
  PROVE  BookInv'
  <1> DEFINE t == table[c]
  <1>1. /\ t \in TableType
        /\ t.sure # NoQuestion => t.sure = LanguageQuestion(t)
        /\ t.asked # NoQuestion => t.asked = ConsentQuestion(t)
    BY DEF BookInv, BookTypeOK, QuestionsAreCurrent
  <1>2. \A f : Shown(f) \subseteq Book
    <2>1. refused \subseteq Book /\ \A kind : CrmEmails(kind) \subseteq Book
      BY BookAssumption DEF BookInv, BookTypeOK, CrmEmails
    <2> QED
      BY <2>1 DEF Shown
  <1>3. t.picked \subseteq Book
    BY <1>1 DEF TableType
  <1>4. ASSUME NEW f \in {"ALL", "SENDABLE", "REFUSED", "COMPANY", "CONTACT"}, Navigate(c, f) PROVE BookInv'
    <2> DEFINE n == [t EXCEPT !.filter = f]
    <2>1. /\ n \in TableType /\ n.sure = t.sure /\ n.asked = t.asked
          /\ LanguageQuestion(n) = LanguageQuestion(t) /\ ConsentQuestion(n) = ConsentQuestion(t)
      BY <1>1 DEF TableType, LanguageQuestion, ConsentQuestion
    <2>2. AtPage(c, n)
      BY <1>4 DEF Navigate
    <2> HIDE DEF n, t
    <2> QED
      BY <1>1, <2>1, <2>2, ClickInv
  <1>5. ASSUME NEW a \in Book, ToggleRow(c, a) \/ SelectOnly(c, a) PROVE BookInv'
    BY <1>3, <1>5, PickInv DEF ToggleRow, SelectOnly, Toggle
  <1>6. CASE TogglePage(c)
    BY <1>2, <1>3, <1>6, PickInv DEF TogglePage, Toggle
  <1>7. CASE SelectAllMatching(c) \/ Clear(c)
    BY <1>2, <1>7, PickInv DEF SelectAllMatching, Clear, FirstOf
  <1>8. ASSUME NEW l \in LanguageChoices, ChooseLanguage(c, l) PROVE BookInv'
    <2> DEFINE n == [t EXCEPT !.language = l, !.sure = NoQuestion]
    <2>1. n \in TableType /\ n.sure = NoQuestion /\ n.asked = t.asked /\ ConsentQuestion(n) = ConsentQuestion(t)
      BY <1>1 DEF TableType, ConsentQuestion
    <2>2. AtPage(c, n)
      BY <1>8 DEF ChooseLanguage
    <2> HIDE DEF n, t
    <2> QED
      BY <1>1, <2>1, <2>2, ClickInv
  <1>9. ASSUME NEW d \in Decisions, FillIn(c, d) PROVE BookInv'
    <2> DEFINE n == [t EXCEPT !.decision = d, !.asked = NoQuestion]
    <2>1. n \in TableType /\ n.asked = NoQuestion /\ n.sure = t.sure /\ LanguageQuestion(n) = LanguageQuestion(t)
      BY <1>1, BookAssumption DEF TableType, LanguageQuestion
    <2>2. AtPage(c, n)
      BY <1>9 DEF FillIn
    <2> HIDE DEF n, t
    <2> QED
      BY <1>1, <2>1, <2>2, ClickInv
  <1>10. CASE Tick(c)
    <2> DEFINE n == [t EXCEPT !.ticked = ~@, !.asked = NoQuestion]
    <2>1. n \in TableType /\ n.asked = NoQuestion /\ n.sure = t.sure /\ LanguageQuestion(n) = LanguageQuestion(t)
      BY <1>1 DEF TableType, LanguageQuestion
    <2>2. AtPage(c, n)
      BY <1>10 DEF Tick
    <2> HIDE DEF n, t
    <2> QED
      BY <1>1, <2>1, <2>2, ClickInv
  <1>11. CASE AskLanguage(c)
    <2> DEFINE n == [t EXCEPT !.sure = LanguageQuestion(t)]
    <2>1. LanguageQuestion(t) \in LanguageAsked
      BY <1>1 DEF TableType, LanguageQuestion, LanguageAsked
    <2>2. /\ n \in TableType /\ n.asked = t.asked /\ n.sure = LanguageQuestion(t)
          /\ LanguageQuestion(n) = LanguageQuestion(t) /\ ConsentQuestion(n) = ConsentQuestion(t)
      BY <1>1, <2>1 DEF TableType, LanguageQuestion, ConsentQuestion
    <2>3. AtPage(c, n)
      BY <1>11 DEF AskLanguage
    <2> HIDE DEF n, t
    <2> QED
      BY <1>1, <2>2, <2>3, ClickInv
  <1>12. CASE AskConsent(c)
    <2> DEFINE n == [t EXCEPT !.asked = ConsentQuestion(t)]
    <2>1. ConsentQuestion(t) \in ConsentAsked
      BY <1>1 DEF TableType, ConsentQuestion, ConsentAsked
    <2>2. /\ n \in TableType /\ n.sure = t.sure /\ n.asked = ConsentQuestion(t)
          /\ LanguageQuestion(n) = LanguageQuestion(t) /\ ConsentQuestion(n) = ConsentQuestion(t)
      BY <1>1, <2>1 DEF TableType, LanguageQuestion, ConsentQuestion
    <2>3. AtPage(c, n)
      BY <1>12 DEF AskConsent
    <2> HIDE DEF n, t
    <2> QED
      BY <1>1, <2>2, <2>3, ClickInv
  <1> QED
    BY <1>4, <1>5, <1>6, <1>7, <1>8, <1>9, <1>10, <1>11, <1>12, Zenon

\* A submission carries what its clerk was asked, and what documents it.
LEMMA SubmitInv ==
  ASSUME BookInv, NEW c \in Clerks, NEW work \in SavingType, Submit(c, work),
         work # Unsaved, DOMAIN work.rows \subseteq work.question.set, work.at = work.question.kind,
         \A a \in DOMAIN work.rows : work.rows[a] = Held(work.at, a),
         work.at = "language" => work.language = work.question.language,
         work.at = "consent" => /\ work.evidence.consent = work.question.decision.status
                                /\ DocumentedBy(work.evidence)
  PROVE  BookInv'
  <1>1. /\ saving' = [saving EXCEPT ![c] = work] /\ clicks' = clicks + 1
        /\ UNCHANGED <<profile, trail, refused, table>>
    BY DEF Submit
  <1>2. /\ saving' \in [Clerks -> SavingType] /\ saving'[c] = work
        /\ \A d \in Clerks \ {c} : saving'[d] = saving[d]
    BY <1>1 DEF BookInv, BookTypeOK
  <1>3. BookTypeOK'
    BY <1>1, <1>2 DEF BookInv, BookTypeOK
  <1>4. SavesAreDocumented'
    BY <1>2 DEF BookInv, SavesAreDocumented
  <1>5. SavesAnswerTheirQuestion'
    BY <1>2 DEF BookInv, DecisionsAreAsMade, SavesAnswerTheirQuestion
  <1>7. BeforeIsReplaced'
    BY <1>1, <1>2 DEF BookInv, DecisionsAreAsMade, BeforeIsReplaced, Held
  <1>6. QuestionsAreCurrent' /\ ApprovalsAreDocumented' /\ NoDecisionIsLost'
    BY <1>1 DEF BookInv, DecisionsAreAsMade, QuestionsAreCurrent, ApprovalsAreDocumented, NoDecisionIsLost,
                Held, LanguageQuestion, ConsentQuestion
  <1> QED
    BY <1>3, <1>4, <1>5, <1>6, <1>7 DEF BookInv, DecisionsAreAsMade

LEMMA SetLanguageInv ==
  ASSUME BookInv, NEW c \in Clerks, NEW set \in SUBSET Book, NEW l \in LanguageChoices,
         NEW question \in LanguageAsked, SetLanguage(c, set, l, question),
         question.set = set, question.language = l
  PROVE  BookInv'
  <1> DEFINE moving == {a \in set : profile[a].language # l}
             rows == Reading("language", moving)
             work == [at |-> "language", rows |-> rows, overtaken |-> {}, language |-> l, question |-> question]
  <1>1. Submit(c, work) /\ moving \in SUBSET Book /\ profile \in [Book -> ProfileType]
    BY DEF SetLanguage, BookInv, BookTypeOK
  <1>2. moving \subseteq set
    OBVIOUS
  <1> HIDE DEF moving
  <1>3. /\ rows \in RowsRead /\ DOMAIN rows = moving
        /\ \A a \in moving : rows[a] = Held("language", a)
    <2>1. /\ rows = [a \in moving |-> Held("language", a)]
          /\ \A a \in moving : Held("language", a) \in LanguageChoices \cup Statuses
      BY <1>1 DEF Reading, Held, ProfileType
    <2>2. rows \in [moving -> LanguageChoices \cup Statuses]
      BY <2>1
    <2> QED
      BY <1>1, <2>1, <2>2 DEF RowsRead
  <1>4. question.kind = "language"
    BY DEF LanguageAsked
  <1> HIDE DEF rows
  <1>5. work \in SavingType
    BY <1>3 DEF SavingType
  <1>6. /\ work.at = "language" /\ work.rows = rows /\ work.language = l /\ work.question = question
        /\ work # Unsaved
    BY DEF Unsaved
  <1> HIDE DEF work
  <1> QED
    BY <1>1, <1>2, <1>3, <1>4, <1>5, <1>6, SubmitInv

LEMMA SubmitsInv ==
  ASSUME BookInv, NEW c \in Clerks,
         \/ \E a \in Book, l \in LanguageChoices : SaveRow(c, a, l)
         \/ SubmitLanguage(c) \/ SubmitConsent(c)
  PROVE  BookInv'
  <1> DEFINE t == table[c]
  <1>1. /\ t \in TableType /\ profile \in [Book -> ProfileType]
        /\ t.sure # NoQuestion => t.sure = LanguageQuestion(t)
        /\ t.asked # NoQuestion => t.asked = ConsentQuestion(t)
    BY DEF BookInv, BookTypeOK, QuestionsAreCurrent
  <1>2. /\ t.picked \in SUBSET Book /\ t.language \in LanguageChoices /\ t.decision \in Decision
    BY <1>1 DEF TableType
  <1>3. ASSUME NEW a \in Book, NEW l \in LanguageChoices, SaveRow(c, a, l) PROVE BookInv'
    <2> DEFINE question == [kind |-> "language", set |-> {a}, language |-> l]
    <2>1. question \in LanguageAsked /\ question.set = {a} /\ question.language = l
      BY DEF LanguageAsked
    <2>2. SetLanguage(c, {a}, l, question)
      BY <1>3 DEF SaveRow
    <2> HIDE DEF question
    <2> QED
      BY <2>1, <2>2, SetLanguageInv
  <1>4. CASE SubmitLanguage(c)
    <2>1. SetLanguage(c, t.picked, t.language, t.sure) /\ t.sure = LanguageQuestion(t)
      BY <1>1, <1>4 DEF SubmitLanguage
    <2>2. t.sure \in LanguageAsked /\ t.sure.set = t.picked /\ t.sure.language = t.language
      BY <1>2, <2>1 DEF LanguageQuestion, LanguageAsked
    <2> QED
      BY <1>2, <2>1, <2>2, SetLanguageInv
  <1>5. CASE SubmitConsent(c)
    <2> DEFINE moving == {a \in t.picked : \/ t.decision.status = "GRANTED"
                                           \/ profile[a].evidence.consent # t.decision.status}
               rows == Reading("consent", moving)
               evidence == Evidence(t.decision)
               work == [at |-> "consent", rows |-> rows, overtaken |-> {}, evidence |-> evidence,
                        question |-> t.asked]
    <2>1. Submit(c, work) /\ t.asked # NoQuestion /\ Documented(t.decision)
      BY <1>5 DEF SubmitConsent
    <2>2. moving \subseteq t.picked /\ moving \in SUBSET Book
      BY <1>2
    <2>3. evidence \in EvidenceType /\ evidence.consent = t.decision.status /\ DocumentedBy(evidence)
      BY <1>2, <2>1 DEF Evidence, EvidenceType, Decision, Statuses, Documented, DocumentedBy
    <2>4. /\ t.asked \in ConsentAsked /\ t.asked.set = t.picked /\ t.asked.kind = "consent"
          /\ t.asked.decision = t.decision
      BY <1>1, <1>2, <2>1 DEF ConsentQuestion, ConsentAsked
    <2> HIDE DEF moving, evidence
    <2>5. /\ rows \in RowsRead /\ DOMAIN rows = moving
          /\ \A a \in moving : rows[a] = Held("consent", a)
      <3>1. /\ rows = [a \in moving |-> Held("consent", a)]
            /\ \A a \in moving : Held("consent", a) \in LanguageChoices \cup Statuses
        BY <1>1, <2>2 DEF Reading, Held, ProfileType, EvidenceType
      <3>2. rows \in [moving -> LanguageChoices \cup Statuses]
        BY <3>1
      <3> QED
        BY <2>2, <3>1, <3>2 DEF RowsRead
    <2> HIDE DEF rows
    <2>6. work \in SavingType
      BY <2>3, <2>4, <2>5 DEF SavingType
    <2>7. /\ work.at = "consent" /\ work.rows = rows /\ work.evidence = evidence /\ work.question = t.asked
          /\ work # Unsaved
      BY DEF Unsaved
    <2> HIDE DEF work, t
    <2> QED
      BY <2>1, <2>2, <2>3, <2>4, <2>5, <2>6, <2>7, SubmitInv
  <1> QED
    BY <1>3, <1>4, <1>5

\* A save writes the columns of its kind and the audit rows that tell of them,
\* and makes old what the other saves of its kind have read of its rows.
LEMMA SaveInv == ASSUME BookInv, NEW c \in Clerks, Save(c) PROVE BookInv'
  <1> DEFINE w == saving[c]
  <1>1. /\ w # Unsaved /\ w \in SavingType /\ profile \in [Book -> ProfileType]
        /\ trail \in [Book -> [language : AuditType, consent : AuditType]]
        /\ profile' = [a \in Book |-> IF a \in DOMAIN w.rows THEN Written(w, a) ELSE profile[a]]
        /\ trail' = [a \in Book |-> IF a \in DOMAIN w.rows THEN Audited(w, a) ELSE trail[a]]
        /\ saving' = [d \in Clerks |-> IF d = c THEN Unsaved ELSE Overtaken(saving[d], w)]
        /\ saving \in [Clerks -> SavingType] /\ UNCHANGED <<refused, table, clicks>>
    BY DEF Save, BookInv, BookTypeOK
  <1>2. \/ w.at = "language" /\ w.language \in LanguageChoices
        \/ w.at = "consent" /\ w.evidence \in EvidenceType /\ DocumentedBy(w.evidence)
    <2>1. w.at = "consent" => DocumentedBy(w.evidence)
      BY DEF BookInv, SavesAreDocumented
    <2> QED
      BY <1>1, <2>1 DEF SavingType
  <1>3. /\ DOMAIN w.rows \in SUBSET Book
        /\ \A a \in DOMAIN w.rows : w.rows[a] \in LanguageChoices \cup Statuses
    <2>1. w.rows \in RowsRead
      BY <1>1 DEF SavingType
    <2> QED
      BY <2>1 DEF RowsRead
  <1>4. ASSUME NEW a \in Book
        PROVE  /\ profile'[a] \in ProfileType
               /\ trail'[a] \in [language : AuditType, consent : AuditType]
               /\ trail'[a].language.to = profile'[a].language
               /\ trail'[a].consent.to = profile'[a].evidence.consent
               /\ DocumentedBy(profile'[a].evidence)
               /\ a \notin DOMAIN w.rows => profile'[a] = profile[a]
               /\ w.at = "language" => profile'[a].evidence = profile[a].evidence
               /\ w.at = "consent" => profile'[a].language = profile[a].language
    <2>1. /\ profile[a] \in ProfileType /\ DocumentedBy(profile[a].evidence)
          /\ trail[a] \in [language : AuditType, consent : AuditType]
          /\ trail[a].language.to = profile[a].language /\ trail[a].consent.to = profile[a].evidence.consent
      BY <1>1 DEF BookInv, DecisionsAreAsMade, ApprovalsAreDocumented, DocumentedBy, NoDecisionIsLost, Held
    <2>2. CASE a \notin DOMAIN w.rows
      BY <1>1, <2>1, <2>2
    <2>3. CASE a \in DOMAIN w.rows /\ w.at = "language" /\ w.language \in LanguageChoices
      <3> DEFINE told == [from |-> w.rows[a], to |-> w.language]
      <3>1. told \in AuditType /\ told.to = w.language
        BY <1>3, <2>3 DEF AuditType
      <3>2. trail'[a] = [trail[a] EXCEPT !.language = told]
        BY <1>1, <2>3 DEF Audited
      <3> HIDE DEF told
      <3>3. profile'[a] = [profile[a] EXCEPT !.language = w.language]
        BY <1>1, <2>3 DEF Written
      <3>4. w.at # "consent"
        BY <2>3
      <3> QED
        BY <2>1, <2>3, <3>1, <3>2, <3>3, <3>4 DEF ProfileType
    <2>4. CASE a \in DOMAIN w.rows /\ w.at = "consent" /\ w.evidence \in EvidenceType /\ DocumentedBy(w.evidence)
      <3> DEFINE told == [from |-> w.rows[a], to |-> w.evidence.consent]
      <3>1. told \in AuditType /\ told.to = w.evidence.consent
        BY <1>3, <2>4 DEF AuditType, EvidenceType
      <3>2. trail'[a] = [trail[a] EXCEPT !.consent = told]
        BY <1>1, <2>4 DEF Audited
      <3> HIDE DEF told
      <3>3. profile'[a] = [profile[a] EXCEPT !.evidence = w.evidence]
        BY <1>1, <2>4 DEF Written
      <3>4. w.at # "language"
        BY <2>4
      <3> QED
        BY <2>1, <2>4, <3>1, <3>2, <3>3, <3>4 DEF ProfileType
    <2> QED
      BY <1>2, <2>2, <2>3, <2>4
  <1>5. Unsaved \in SavingType /\ Unsaved.at = "page"
    BY DEF Unsaved, SavingType
  <1>6. ASSUME NEW d \in Clerks, saving'[d] # Unsaved
        PROVE  LET o == saving[d]  n == saving'[d] IN
               /\ o # Unsaved /\ n \in SavingType
               /\ n.at = o.at /\ n.rows = o.rows /\ n.question = o.question
               /\ n.at = "language" => n.language = o.language
               /\ n.at = "consent" => n.evidence = o.evidence
               /\ n.overtaken = IF o.at = w.at THEN o.overtaken \cup DOMAIN w.rows ELSE o.overtaken
    <2> DEFINE o == saving[d]  n == saving'[d]
    <2>1. o # Unsaved /\ o \in SavingType /\ n = Overtaken(o, w)
      BY <1>1, <1>6 DEF Overtaken
    <2>2. CASE o.at # w.at
      BY <2>1, <2>2 DEF Overtaken
    <2>3. CASE o.at = w.at
      <3> DEFINE old == o.overtaken \cup DOMAIN w.rows
      <3>1. n = [o EXCEPT !.overtaken = old]
        BY <2>1, <2>3 DEF Overtaken
      <3>2. old \in SUBSET Book
        BY <1>3, <2>1 DEF SavingType
      <3> HIDE DEF old
      <3>3. CASE o \in [at : {"language"}, rows : RowsRead, overtaken : SUBSET Book,
                        language : LanguageChoices, question : LanguageAsked]
        <4>1. n \in [at : {"language"}, rows : RowsRead, overtaken : SUBSET Book,
                      language : LanguageChoices, question : LanguageAsked]
          BY <3>1, <3>2, <3>3
        <4>2. n \in SavingType /\ o.at = "language"
          BY <3>3, <4>1 DEF SavingType
        <4>3. n.at = o.at /\ n.rows = o.rows /\ n.question = o.question /\ n.language = o.language /\ n.overtaken = old
          BY <3>1, <3>3
        <4> QED
          BY <2>1, <2>3, <4>2, <4>3 DEF old
      <3>4. CASE o \in [at : {"consent"}, rows : RowsRead, overtaken : SUBSET Book,
                        evidence : EvidenceType, question : ConsentAsked]
        <4>1. n \in [at : {"consent"}, rows : RowsRead, overtaken : SUBSET Book,
                      evidence : EvidenceType, question : ConsentAsked]
          BY <3>1, <3>2, <3>4
        <4>2. n \in SavingType /\ o.at = "consent"
          BY <3>4, <4>1 DEF SavingType
        <4>3. n.at = o.at /\ n.rows = o.rows /\ n.question = o.question /\ n.evidence = o.evidence /\ n.overtaken = old
          BY <3>1, <3>4
        <4> QED
          BY <2>1, <2>3, <4>2, <4>3 DEF old
      <3> QED
        BY <2>1, <3>3, <3>4 DEF SavingType
    <2> QED
      BY <2>2, <2>3, <2>1
  <1>7. BookTypeOK'
    <2>1. profile' \in [Book -> ProfileType] /\ trail' \in [Book -> [language : AuditType, consent : AuditType]]
      <3>1. profile' = [a \in Book |-> profile'[a]] /\ trail' = [a \in Book |-> trail'[a]]
        BY <1>1
      <3> QED
        BY <1>4, <3>1
    <2>2. saving' \in [Clerks -> SavingType]
      <3>1. saving' = [d \in Clerks |-> saving'[d]]
        BY <1>1
      <3>2. \A d \in Clerks : saving'[d] \in SavingType
        BY <1>5, <1>6
      <3> QED
        BY <3>1, <3>2
    <2> QED
      BY <1>1, <2>1, <2>2 DEF BookInv, BookTypeOK
  <1>8. ApprovalsAreDocumented' /\ NoDecisionIsLost'
    BY <1>4 DEF ApprovalsAreDocumented, NoDecisionIsLost, DocumentedBy, Held
  <1>9. SavesAreDocumented'
    <2> SUFFICES ASSUME NEW d \in Clerks, saving'[d].at = "consent" PROVE DocumentedBy(saving'[d].evidence)
      BY DEF SavesAreDocumented, DocumentedBy
    <2>1. saving'[d] # Unsaved
      BY <1>5
    <2> QED
      BY <1>6, <2>1 DEF BookInv, SavesAreDocumented
  <1>10. SavesAnswerTheirQuestion'
    <2> SUFFICES ASSUME NEW d \in Clerks, saving'[d] # Unsaved
                 PROVE  LET n == saving'[d] IN
                        /\ DOMAIN n.rows \subseteq n.question.set /\ n.at = n.question.kind
                        /\ n.at = "language" => n.language = n.question.language
                        /\ n.at = "consent"  => n.evidence.consent = n.question.decision.status
      BY DEF SavesAnswerTheirQuestion
    <2>1. LET o == saving[d] IN
          /\ DOMAIN o.rows \subseteq o.question.set /\ o.at = o.question.kind
          /\ o.at = "language" => o.language = o.question.language
          /\ o.at = "consent"  => o.evidence.consent = o.question.decision.status
      BY <1>6 DEF BookInv, DecisionsAreAsMade, SavesAnswerTheirQuestion
    <2> QED
      BY <1>6, <2>1
  <1>11. BeforeIsReplaced'
    <2> SUFFICES ASSUME NEW d \in Clerks, saving'[d] # Unsaved,
                        NEW a \in DOMAIN saving'[d].rows \ saving'[d].overtaken
                 PROVE  saving'[d].rows[a] = IF saving'[d].at = "language" THEN profile'[a].language
                                                                         ELSE profile'[a].evidence.consent
      BY DEF BeforeIsReplaced, Held
    <2> DEFINE o == saving[d]
    <2>1. /\ o # Unsaved /\ saving'[d].rows = o.rows /\ saving'[d].at = o.at /\ a \in DOMAIN o.rows
          /\ a \notin o.overtaken /\ (o.at = w.at => a \notin DOMAIN w.rows)
      BY <1>6
    <2>2. o.rows[a] = IF o.at = "language" THEN profile[a].language ELSE profile[a].evidence.consent
      BY <2>1 DEF BookInv, DecisionsAreAsMade, BeforeIsReplaced, Held
    <2>3. o \in SavingType /\ o.at \in {"language", "consent"} /\ a \in Book
      <3>1. o \in SavingType /\ o # Unsaved
        BY <1>1, <2>1
      <3>2. o.at \in {"language", "consent"} /\ o.rows \in RowsRead
        BY <3>1 DEF SavingType
      <3>3. DOMAIN o.rows \subseteq Book
        BY <3>2 DEF RowsRead
      <3> QED
        BY <2>1, <3>1, <3>2, <3>3
    <2> HIDE DEF o
    <2>4. CASE a \notin DOMAIN w.rows
      BY <1>4, <2>1, <2>2, <2>3, <2>4
    <2>5. CASE o.at # w.at
      <3>1. w.at \in {"language", "consent"}
        BY <1>2
      <3> QED
        BY <1>4, <2>1, <2>2, <2>3, <2>5, <3>1
    <2> QED
      BY <2>1, <2>4, <2>5
  <1>12. QuestionsAreCurrent'
    BY <1>1 DEF BookInv, QuestionsAreCurrent, LanguageQuestion, ConsentQuestion
  <1> QED
    BY <1>7, <1>8, <1>9, <1>10, <1>11, <1>12 DEF BookInv, DecisionsAreAsMade

LEMMA BookStepInv == BookInv /\ [BookNext]_bookVars => BookInv'
  <1> SUFFICES ASSUME BookInv, [BookNext]_bookVars PROVE BookInv'
    OBVIOUS
  <1>1. ASSUME NEW c \in Clerks, Lose(c) PROVE BookInv'
    <2>1. /\ Unsaved \in SavingType /\ Unsaved.at = "page"
          /\ saving' = [saving EXCEPT ![c] = Unsaved] /\ UNCHANGED <<profile, trail, refused, table, clicks>>
      BY <1>1 DEF Lose, Unsaved, SavingType
    <2>2. /\ saving' \in [Clerks -> SavingType] /\ saving'[c] = Unsaved
          /\ \A d \in Clerks \ {c} : saving'[d] = saving[d]
      BY <2>1 DEF BookInv, BookTypeOK
    <2> QED
      BY <2>1, <2>2 DEF BookInv, BookTypeOK, SavesAreDocumented, QuestionsAreCurrent, DecisionsAreAsMade,
                        ApprovalsAreDocumented, NoDecisionIsLost, SavesAnswerTheirQuestion, BeforeIsReplaced, Held,
                        LanguageQuestion, ConsentQuestion
  <1>2. ASSUME NEW a \in Book, Refuse(a) PROVE BookInv'
    BY <1>2 DEF Refuse, BookInv, BookTypeOK, SavesAreDocumented, QuestionsAreCurrent, DecisionsAreAsMade,
                ApprovalsAreDocumented, NoDecisionIsLost, SavesAnswerTheirQuestion, BeforeIsReplaced, Held,
                LanguageQuestion, ConsentQuestion
  <1>3. CASE UNCHANGED bookVars
    BY <1>3 DEF bookVars, BookInv, BookTypeOK, SavesAreDocumented, QuestionsAreCurrent, DecisionsAreAsMade,
                ApprovalsAreDocumented, NoDecisionIsLost, SavesAnswerTheirQuestion, BeforeIsReplaced, Held,
                LanguageQuestion, ConsentQuestion
  <1> QED
    BY <1>1, <1>2, <1>3, PageInv, SubmitsInv, SaveInv, Zenon DEF BookNext

\* The strengthening holds in every behaviour of the table and its saves.
THEOREM BookInvariant == BookSpec => []BookInv
  BY BookInitInv, BookStepInv, PTL DEF BookSpec

\* communicationService.ts, consentAssignment.ts: for any book and any staff, a
\* decision recorded for an address is one somebody made as they were asked,
\* with what documents it, and none of two made at once is lost.
THEOREM DecisionsAreKept == BookSpec => []DecisionsAreAsMade
  <1>1. BookInv => DecisionsAreAsMade
    BY DEF BookInv
  <1> QED
    BY <1>1, BookInvariant, PTL

(***************************************************************************)
(* Reports of providers and recipients.                                     *)
(***************************************************************************)
LEMMA FeedbackInitInv == FeedbackInit => FeedbackInv
  <1> SUFFICES ASSUME FeedbackInit PROVE FeedbackInv
    OBVIOUS
  <1> DEFINE row == [state |-> "SENDING", msg |-> "none", first |-> [f \in Facts |-> 0], events |-> {}]
  <1>1. row \in OutboxRow
    BY DEF OutboxRow, DeliveryState
  <1>2. /\ outbox = [r \in Rows |-> row] /\ receipt = [e \in Events |-> Unreceived]
        /\ ingested = [e \in Events |-> 0] /\ links = [t \in Secrets |-> Unissued]
        /\ hook = [h \in Hooks |-> Quiet] /\ visit = [v \in Visitors |-> Quiet]
        /\ optedOut = {} /\ suppressed = {} /\ invalid = {} /\ emitted = {} /\ answered = {} /\ deaths = 0
    BY DEF FeedbackInit
  <1>3. FeedbackTypeOK
    <2> HIDE DEF row
    <2>1. outbox \in [Rows -> OutboxRow]
      BY <1>1, <1>2
    <2> QED
      BY <1>2, <2>1 DEF FeedbackTypeOK, Unreceived, Unissued, Quiet
  <1>4. MessageIdsAreOwn
    BY <1>2 DEF MessageIdsAreOwn
  <1>5. LinksAreIssued
    BY <1>2 DEF LinksAreIssued, Unissued, Quiet
  <1>6. /\ \A r \in Rows : outbox[r].events = {} /\ \A f \in Facts : outbox[r].first[f] = 0
        /\ \A e \in Events : ~receipt[e].effects /\ ~receipt[e].processed /\ ingested[e] = 0
        /\ \A t \in Secrets : links[t] = -1
    BY <1>2 DEF Unreceived, Unissued
  <1>7. EffectsAreAppliedOnce
    BY <1>6 DEF EffectsAreAppliedOnce
  <1>8. EventsFindTheirDelivery
    BY <1>6 DEF EventsFindTheirDelivery
  <1>9. TimesAreTheEarliest
    BY <1>6 DEF TimesAreTheEarliest
  <1>10. OptOutsAreAsked
    BY <1>2, <1>6 DEF OptOutsAreAsked
  <1> QED
    BY <1>3, <1>4, <1>5, <1>7, <1>8, <1>9, <1>10 DEF FeedbackInv, ReportsCountOnce

\* A delivery that records one more event.
LEMMA RecordedRow ==
  ASSUME NEW row \in OutboxRow, NEW e \in Events, NEW new, new = EventRecorded(row, e)
  PROVE  /\ new \in OutboxRow /\ new.msg = row.msg /\ new.events = row.events \cup {e}
         /\ \A f \in Facts : new.first[f] = IF f = TypeOf(e) THEN Earlier(row.first[f], EventOf[e].at) ELSE row.first[f]
  <1> DEFINE type == TypeOf(e)
             to == ConsequenceOf(type).deliveryState
             state == IF to # "NONE" /\ CanTransition(row.state, to) THEN to ELSE row.state
             first == [f \in Facts |-> IF f = type THEN Earlier(row.first[f], EventOf[e].at) ELSE row.first[f]]
  <1>1. new = [row EXCEPT !.events = row.events \cup {e}, !.state = state, !.first = first]
    BY DEF EventRecorded
  <1>2. to \in DeliveryState \cup {"NONE"}
    BY DEF ConsequenceOf, DeliveryState
  <1> HIDE DEF to
  <1>3. state \in DeliveryState
    BY <1>2 DEF OutboxRow
  <1>4. EventOf[e].at \in Nat /\ row.first \in [Facts -> Nat]
    BY FeedbackAssumption DEF OutboxRow
  <1>5. /\ first \in [Facts -> Nat]
        /\ \A f \in Facts : first[f] = IF f = type THEN Earlier(row.first[f], EventOf[e].at) ELSE row.first[f]
    BY <1>4 DEF Earlier
  <1> HIDE DEF state, first, type
  <1>6. new \in OutboxRow /\ new.msg = row.msg /\ new.events = row.events \cup {e} /\ new.first = first
    <2>1. row.events \cup {e} \in SUBSET Events
      BY DEF OutboxRow
    <2> DEFINE events == row.events \cup {e}
    <2> HIDE DEF events
    <2>2. new = [row EXCEPT !.events = events, !.state = state, !.first = first] /\ events \in SUBSET Events
      BY <1>1, <2>1 DEF events
    <2>3. new \in OutboxRow /\ new.msg = row.msg /\ new.events = events /\ new.first = first
      BY <1>3, <1>5, <2>2 DEF OutboxRow
    <2> QED
      BY <2>3 DEF events
  <1> QED
    BY <1>5, <1>6 DEF type

\* Applying a receipt records it in the delivery of its message, and has its
\* effects unless it had them.
LEMMA ApplyReceiptInv ==
  ASSUME FeedbackInv, NEW e \in Events, ApplyReceipt(e), links' = links
  PROVE  /\ outbox' \in [Rows -> OutboxRow] /\ ingested' \in [Events -> Nat]
         /\ receipt' \in [Events -> [effects : BOOLEAN, processed : BOOLEAN, stored : BOOLEAN]]
         /\ optedOut' \subseteq Mails /\ invalid' \subseteq Mails
         /\ suppressed' \subseteq Mails \X {"HARD_BOUNCE", "COMPLAINT"}
         /\ MessageIdsAreOwn' /\ ReportsCountOnce'
  <1>1. /\ FeedbackTypeOK /\ MessageIdsAreOwn
        /\ EffectsAreAppliedOnce /\ EventsFindTheirDelivery /\ TimesAreTheEarliest /\ OptOutsAreAsked
    BY DEF FeedbackInv, ReportsCountOnce
  <1>2. CASE receipt[e].processed
    <2>1. UNCHANGED <<outbox, receipt, ingested, optedOut, suppressed, invalid, links>>
      BY <1>2 DEF ApplyReceipt
    <2>2. MessageIdsAreOwn' /\ EffectsAreAppliedOnce' /\ EventsFindTheirDelivery' /\ OptOutsAreAsked'
      BY <1>1, <2>1 DEF MessageIdsAreOwn, EffectsAreAppliedOnce, EventsFindTheirDelivery, OptOutsAreAsked
    <2>3. TimesAreTheEarliest'
      BY <1>1, <2>1 DEF TimesAreTheEarliest
    <2> QED
      BY <1>1, <2>1, <2>2, <2>3 DEF FeedbackTypeOK, ReportsCountOnce
  <1>3. CASE ~receipt[e].processed
    <2> DEFINE mail == EventOf[e].mail
               consequence == ConsequenceOf(TypeOf(e))
               due == ~receipt[e].effects
    <2>1. /\ outbox' = [r \in Rows |-> IF r \in Addressed(e) /\ e \notin outbox[r].events
                                         THEN EventRecorded(outbox[r], e) ELSE outbox[r]]
          /\ receipt' = [receipt EXCEPT ![e] = [receipt[e] EXCEPT !.effects = TRUE, !.processed = Explained(e)]]
          /\ suppressed' = IF due /\ consequence.suppression # "NONE"
                             THEN suppressed \cup {<<mail, consequence.suppression>>} ELSE suppressed
          /\ invalid' = IF due /\ consequence.markEmailInvalid THEN invalid \cup {mail} ELSE invalid
          /\ optedOut' = IF due /\ consequence.unsubscribe THEN optedOut \cup {mail} ELSE optedOut
          /\ ingested' = IF due THEN [ingested EXCEPT ![e] = ingested[e] + 1] ELSE ingested
      BY <1>3 DEF ApplyReceipt, Effects, EffectsDue
    <2>2. ASSUME NEW r \in Rows
          PROVE  /\ outbox'[r] \in OutboxRow /\ outbox'[r].msg = outbox[r].msg
                 /\ outbox'[r].events = IF r \in Addressed(e) THEN outbox[r].events \cup {e} ELSE outbox[r].events
                 /\ r \notin Addressed(e) \/ e \in outbox[r].events => outbox'[r] = outbox[r]
                 /\ r \in Addressed(e) /\ e \notin outbox[r].events =>
                      \A f \in Facts : outbox'[r].first[f] = IF f = TypeOf(e) THEN Earlier(outbox[r].first[f], EventOf[e].at)
                                                                              ELSE outbox[r].first[f]
      <3>1. outbox[r] \in OutboxRow
        BY <1>1 DEF FeedbackTypeOK
      <3>2. CASE r \in Addressed(e) /\ e \notin outbox[r].events
        <4>1. outbox'[r] = EventRecorded(outbox[r], e)
          BY <2>1, <3>2
        <4> QED
          BY <3>1, <3>2, <4>1, RecordedRow
      <3>3. CASE ~(r \in Addressed(e) /\ e \notin outbox[r].events)
        <4>1. outbox'[r] = outbox[r]
          BY <2>1, <3>3
        <4> QED
          BY <3>1, <3>3, <4>1
      <3> QED
        BY <3>2, <3>3
    <2>3. /\ receipt' \in [Events -> [effects : BOOLEAN, processed : BOOLEAN, stored : BOOLEAN]]
          /\ receipt'[e].effects /\ (receipt'[e].processed => Explained(e))
          /\ \A d \in Events \ {e} : receipt'[d] = receipt[d]
      <3>1. Explained(e) \in BOOLEAN
        BY DEF Explained, IsPilot
      <3>2. receipt \in [Events -> [effects : BOOLEAN, processed : BOOLEAN, stored : BOOLEAN]]
        BY <1>1 DEF FeedbackTypeOK
      <3> DEFINE done == Explained(e)
      <3> HIDE DEF done
      <3>3. receipt' = [receipt EXCEPT ![e] = [receipt[e] EXCEPT !.effects = TRUE, !.processed = done]]
        BY <2>1 DEF done
      <3>4. /\ receipt' \in [Events -> [effects : BOOLEAN, processed : BOOLEAN, stored : BOOLEAN]]
            /\ receipt'[e].effects = TRUE /\ receipt'[e].processed = done
            /\ \A d \in Events \ {e} : receipt'[d] = receipt[d]
        BY <3>1, <3>2, <3>3 DEF done
      <3> QED
        BY <3>4 DEF done
    <2>4. /\ mail \in Mails /\ consequence.suppression \in {"NONE", "HARD_BOUNCE", "COMPLAINT"}
          /\ ingested \in [Events -> Nat]
      BY <1>1 DEF Mails, ConsequenceOf, FeedbackTypeOK
    <2>5. /\ ingested' \in [Events -> Nat]
          /\ ingested'[e] = IF due THEN ingested[e] + 1 ELSE ingested[e]
          /\ \A d \in Events \ {e} : ingested'[d] = ingested[d]
      BY <2>1, <2>4
    <2>6. /\ optedOut' \subseteq Mails /\ invalid' \subseteq Mails
          /\ suppressed' \subseteq Mails \X {"HARD_BOUNCE", "COMPLAINT"}
      BY <1>1, <2>1, <2>4 DEF FeedbackTypeOK
    <2>7. MessageIdsAreOwn'
      BY <1>1, <2>2 DEF MessageIdsAreOwn
    <2>8. EffectsAreAppliedOnce'
      <3> SUFFICES ASSUME NEW d \in Events
                   PROVE  LET c == ConsequenceOf(TypeOf(d)) IN
                          /\ ingested'[d] = IF receipt'[d].effects THEN 1 ELSE 0
                          /\ receipt'[d].effects =>
                               /\ c.suppression # "NONE" => <<EventOf[d].mail, c.suppression>> \in suppressed'
                               /\ c.markEmailInvalid => EventOf[d].mail \in invalid'
                               /\ c.unsubscribe => EventOf[d].mail \in optedOut'
        BY DEF EffectsAreAppliedOnce
      <3>1. suppressed \subseteq suppressed' /\ invalid \subseteq invalid' /\ optedOut \subseteq optedOut'
        BY <2>1
      <3>2. CASE d # e
        BY <1>1, <2>3, <2>5, <3>1, <3>2 DEF EffectsAreAppliedOnce
      <3>3. CASE d = e /\ ~due
        BY <1>1, <2>3, <2>5, <3>1, <3>3 DEF EffectsAreAppliedOnce
      <3>4. CASE d = e /\ due
        <4>1. ingested[e] = 0
          BY <1>1, <3>4 DEF EffectsAreAppliedOnce
        <4> QED
          BY <2>1, <2>3, <2>5, <3>4, <4>1
      <3> QED
        BY <3>2, <3>3, <3>4
    <2>9. EventsFindTheirDelivery'
      <3> SUFFICES ASSUME NEW d \in Events, NEW r \in Rows
                   PROVE  LET own == EventOf[d].mail = MailOf[r] /\ EventOf[d].msg = MsgOf[r] IN
                          /\ d \in outbox'[r].events => own /\ outbox'[r].msg = MsgOf[r]
                          /\ receipt'[d].processed /\ own => d \in outbox'[r].events
        BY DEF EventsFindTheirDelivery
      <3>1. \A q \in Addressed(e) : q \in Rows /\ outbox[q].msg = MsgOf[q] /\ EventOf[e].msg = MsgOf[q] /\ EventOf[e].mail = MailOf[q]
        BY <1>1 DEF Addressed, Matches, MessageIdsAreOwn
      <3>2. CASE d # e
        <4>1. /\ d \in outbox'[r].events <=> d \in outbox[r].events
              /\ outbox'[r].msg = outbox[r].msg /\ receipt'[d] = receipt[d]
          <5>1. outbox'[r].msg = outbox[r].msg
            BY <2>2
          <5>2. outbox'[r].events = outbox[r].events \/ outbox'[r].events = outbox[r].events \cup {e}
            BY <2>2
          <5>3. receipt'[d] = receipt[d]
            BY <2>3, <3>2
          <5> QED
            BY <3>2, <5>1, <5>2, <5>3
        <4>2. /\ d \in outbox[r].events => /\ EventOf[d].mail = MailOf[r] /\ EventOf[d].msg = MsgOf[r]
                                           /\ outbox[r].msg = MsgOf[r]
              /\ receipt[d].processed /\ EventOf[d].mail = MailOf[r] /\ EventOf[d].msg = MsgOf[r]
                   => d \in outbox[r].events
          BY <1>1 DEF EventsFindTheirDelivery
        <4> QED
          BY <4>1, <4>2
      <3>3. CASE d = e
        <4>1. d \in outbox'[r].events => EventOf[d].mail = MailOf[r] /\ EventOf[d].msg = MsgOf[r] /\ outbox'[r].msg = MsgOf[r]
          BY <1>1, <2>2, <3>1, <3>3 DEF EventsFindTheirDelivery
        <4>2. ASSUME receipt'[e].processed, EventOf[e].mail = MailOf[r], EventOf[e].msg = MsgOf[r]
              PROVE  e \in outbox'[r].events
          <5>1. Explained(e) /\ EventOf[e].msg # "none"
            BY <2>3, <4>2, FeedbackAssumption
          <5>2. ~IsPilot(e)
            <6>1. \A p \in Pilots : p.msg # EventOf[e].msg
              BY <4>2, FeedbackAssumption
            <6> QED
              BY <6>1 DEF IsPilot
          <5>3. PICK q \in Rows : q \in Addressed(e)
            BY <5>1, <5>2 DEF Explained, Addressed
          <5>4. q = r
            BY <3>1, <4>2, <5>3, FeedbackAssumption
          <5> QED
            BY <2>2, <5>3, <5>4
        <4> QED
          BY <3>3, <4>1, <4>2
      <3> QED
        BY <3>2, <3>3
    <2>10. TimesAreTheEarliest'
      <3> SUFFICES ASSUME NEW r \in Rows, NEW f \in Facts
                   PROVE  LET seen == {EventOf[x].at : x \in {d \in outbox'[r].events : TypeOf(d) = f}}
                          IN  IF seen = {} THEN outbox'[r].first[f] = 0
                                           ELSE outbox'[r].first[f] \in seen /\ \A at \in seen : outbox'[r].first[f] <= at
        BY DEF TimesAreTheEarliest
      <3> DEFINE seen == {EventOf[x].at : x \in {d \in outbox[r].events : TypeOf(d) = f}}
                 seen2 == {EventOf[x].at : x \in {d \in outbox'[r].events : TypeOf(d) = f}}
                 at == EventOf[e].at
      <3>1. IF seen = {} THEN outbox[r].first[f] = 0
                         ELSE outbox[r].first[f] \in seen /\ \A t \in seen : outbox[r].first[f] <= t
        BY <1>1 DEF TimesAreTheEarliest
      <3>2. CASE r \notin Addressed(e) \/ e \in outbox[r].events
        BY <2>2, <3>1, <3>2
      <3>3. CASE r \in Addressed(e) /\ e \notin outbox[r].events
        <4>1. outbox'[r].events = outbox[r].events \cup {e}
          BY <2>2, <3>3
        <4>2. outbox'[r].first[f] = IF f = TypeOf(e) THEN Earlier(outbox[r].first[f], at) ELSE outbox[r].first[f]
          BY <2>2, <3>3
        <4>3. at \in Nat \ {0} /\ outbox[r].first[f] \in Nat /\ outbox[r].events \subseteq Events
          BY <1>1, FeedbackAssumption DEF FeedbackTypeOK, OutboxRow
        <4>4. seen \subseteq Nat \ {0}
          BY <4>3, FeedbackAssumption
        <4>5. seen2 = IF f = TypeOf(e) THEN seen \cup {at} ELSE seen
          BY <4>1
        <4> HIDE DEF seen, seen2, at
        <4>6. IF seen2 = {} THEN outbox'[r].first[f] = 0
                            ELSE outbox'[r].first[f] \in seen2 /\ \A t \in seen2 : outbox'[r].first[f] <= t
          <5>1. CASE f # TypeOf(e)
            BY <3>1, <4>2, <4>5, <5>1
          <5>2. CASE f = TypeOf(e) /\ seen = {}
            BY <3>1, <4>2, <4>3, <4>5, <5>2 DEF Earlier
          <5>3. CASE f = TypeOf(e) /\ seen # {}
            BY <3>1, <4>2, <4>3, <4>4, <4>5, <5>3 DEF Earlier
          <5> QED
            BY <5>1, <5>2, <5>3
        <4> QED
          BY <4>6 DEF seen2
      <3> QED
        BY <3>2, <3>3
    <2>11. OptOutsAreAsked'
      <3> SUFFICES ASSUME NEW m \in Mails
                   PROVE  m \in optedOut' <=> \/ \E t \in Secrets : HolderOf[t] = m /\ links[t] > 0
                                              \/ \E d \in Events : /\ EventOf[d].mail = m /\ receipt'[d].effects
                                                                   /\ TypeOf(d) = "UNSUBSCRIBE"
        BY DEF OptOutsAreAsked
      <3>1. m \in optedOut <=> \/ \E t \in Secrets : HolderOf[t] = m /\ links[t] > 0
                               \/ \E d \in Events : /\ EventOf[d].mail = m /\ receipt[d].effects
                                                    /\ TypeOf(d) = "UNSUBSCRIBE"
        BY <1>1 DEF OptOutsAreAsked
      <3>2. consequence.unsubscribe <=> TypeOf(e) = "UNSUBSCRIBE"
        BY Zenon DEF ConsequenceOf
      <3>3. m \in optedOut' <=> m \in optedOut \/ (due /\ TypeOf(e) = "UNSUBSCRIBE" /\ m = mail)
        BY <2>1, <3>2
      <3>4. \A d \in Events : receipt'[d].effects <=> receipt[d].effects \/ d = e
        BY <2>3
      <3> QED
        BY <3>1, <3>3, <3>4
    <2> QED
      BY <2>2, <2>3, <2>5, <2>6, <2>7, <2>8, <2>9, <2>10, <2>11, <2>1 DEF ReportsCountOnce
  <1> QED
    BY <1>2, <1>3

LEMMA RecordResponseInv ==
  ASSUME FeedbackInv, NEW r \in Rows, NEW state \in {"ACCEPTED", "UNCERTAIN"}, RecordResponse(r, state)
  PROVE  FeedbackInv'
  <1> DEFINE msg == IF state = "ACCEPTED" THEN MsgOf[r] ELSE outbox[r].msg
  <1>1. /\ FeedbackTypeOK /\ MessageIdsAreOwn /\ LinksAreIssued
        /\ EffectsAreAppliedOnce /\ EventsFindTheirDelivery /\ TimesAreTheEarliest /\ OptOutsAreAsked
    BY DEF FeedbackInv, ReportsCountOnce
  <1>2. /\ outbox' = [outbox EXCEPT ![r] = [outbox[r] EXCEPT !.state = state, !.msg = msg]]
        /\ UNCHANGED <<emitted, answered, receipt, ingested, optedOut, suppressed, invalid, links, hook, visit, deaths>>
    BY <1>1 DEF RecordResponse, FeedbackTypeOK, OutboxRow
  <1>3. msg \in {"none", MsgOf[r]} /\ (outbox[r].msg = MsgOf[r] => msg = MsgOf[r])
    BY <1>1 DEF MessageIdsAreOwn
  <1> HIDE DEF msg
  <1>4. /\ outbox' \in [Rows -> OutboxRow] /\ outbox'[r].msg = msg
        /\ \A q \in Rows : outbox'[q].events = outbox[q].events /\ outbox'[q].first = outbox[q].first
        /\ \A q \in Rows \ {r} : outbox'[q] = outbox[q]
    <2>1. [outbox[r] EXCEPT !.state = state, !.msg = msg] \in OutboxRow
      <3>1. outbox[r] \in OutboxRow /\ state \in DeliveryState /\ msg \in {"none"} \cup {MsgOf[q] : q \in Rows}
        BY <1>1, <1>3 DEF FeedbackTypeOK, DeliveryState
      <3> QED
        BY <3>1 DEF OutboxRow
    <2> QED
      BY <1>1, <1>2, <2>1 DEF FeedbackTypeOK, OutboxRow
  <1>5. FeedbackTypeOK'
    BY <1>1, <1>2, <1>4 DEF FeedbackTypeOK
  <1>6. MessageIdsAreOwn'
    BY <1>1, <1>3, <1>4 DEF MessageIdsAreOwn
  <1>7. EventsFindTheirDelivery'
    BY <1>1, <1>2, <1>3, <1>4 DEF EventsFindTheirDelivery
  <1>8. TimesAreTheEarliest'
    <2> SUFFICES ASSUME NEW q \in Rows, NEW f \in Facts
                 PROVE  LET seen == {EventOf[e].at : e \in {d \in outbox'[q].events : TypeOf(d) = f}}
                        IN  IF seen = {} THEN outbox'[q].first[f] = 0
                                         ELSE outbox'[q].first[f] \in seen /\ \A at \in seen : outbox'[q].first[f] <= at
      BY DEF TimesAreTheEarliest
    <2>1. outbox'[q].events = outbox[q].events /\ outbox'[q].first = outbox[q].first
      BY <1>4
    <2>2. LET seen == {EventOf[e].at : e \in {d \in outbox[q].events : TypeOf(d) = f}}
          IN  IF seen = {} THEN outbox[q].first[f] = 0
                           ELSE outbox[q].first[f] \in seen /\ \A at \in seen : outbox[q].first[f] <= at
      BY <1>1 DEF TimesAreTheEarliest
    <2> QED
      BY <2>1, <2>2, Zenon
  <1>9. EffectsAreAppliedOnce' /\ OptOutsAreAsked' /\ LinksAreIssued'
    BY <1>1, <1>2 DEF EffectsAreAppliedOnce, OptOutsAreAsked, LinksAreIssued
  <1> QED
    BY <1>5, <1>6, <1>7, <1>8, <1>9 DEF FeedbackInv, ReportsCountOnce

\* A step that leaves deliveries, links and all effects alone.
LEMMA QuietStepInv ==
  ASSUME FeedbackInv, FeedbackTypeOK',
         UNCHANGED <<outbox, ingested, optedOut, suppressed, invalid, links>>,
         \A e \in Events : receipt'[e].effects = receipt[e].effects /\ receipt'[e].processed = receipt[e].processed,
         \A v \in Visitors : visit'[v].at # "idle" => links[visit'[v].t] >= 0
  PROVE  FeedbackInv'
  <1>1. /\ MessageIdsAreOwn /\ LinksAreIssued
        /\ EffectsAreAppliedOnce /\ EventsFindTheirDelivery /\ TimesAreTheEarliest /\ OptOutsAreAsked
    BY DEF FeedbackInv, ReportsCountOnce
  <1>2. MessageIdsAreOwn' /\ LinksAreIssued'
    BY <1>1 DEF MessageIdsAreOwn, LinksAreIssued
  <1>3. EffectsAreAppliedOnce'
    BY <1>1 DEF EffectsAreAppliedOnce
  <1>4. EventsFindTheirDelivery'
    BY <1>1 DEF EventsFindTheirDelivery
  <1>5. TimesAreTheEarliest'
    BY <1>1 DEF TimesAreTheEarliest
  <1>6. OptOutsAreAsked'
    BY <1>1 DEF OptOutsAreAsked
  <1> QED
    BY <1>2, <1>3, <1>4, <1>5, <1>6 DEF FeedbackInv, ReportsCountOnce

LEMMA RequestsInv ==
  ASSUME FeedbackInv,
         \/ \E e \in Events : Emit(e) \/ \E h \in Hooks : Receive(h, e)
         \/ \E t \in Secrets, v \in Visitors : ConfirmVisit(v, t)
         \/ \E v \in Visitors : LookForUnsubscribe(v)
         \/ ProcessDies
         \/ UNCHANGED feedbackVars
  PROVE  FeedbackInv'
  <1>1. FeedbackTypeOK /\ LinksAreIssued
    BY DEF FeedbackInv
  <1>2. CASE UNCHANGED feedbackVars
    BY <1>1, <1>2, QuietStepInv DEF feedbackVars, FeedbackTypeOK, LinksAreIssued
  <1>3. ASSUME NEW e \in Events, Emit(e) PROVE FeedbackInv'
    BY <1>1, <1>3, QuietStepInv DEF Emit, FeedbackTypeOK, LinksAreIssued
  <1>4. ASSUME NEW e \in Events, NEW h \in Hooks, Receive(h, e) PROVE FeedbackInv'
    <2>1. /\ receipt' = [receipt EXCEPT ![e].stored = TRUE]
          /\ hook' = [hook EXCEPT ![h] = [at |-> "stored", e |-> e]]
          /\ UNCHANGED <<outbox, emitted, answered, ingested, optedOut, suppressed, invalid, links, visit, deaths>>
      BY <1>4 DEF Receive
    <2>2. /\ receipt' \in [Events -> [effects : BOOLEAN, processed : BOOLEAN, stored : BOOLEAN]]
          /\ \A d \in Events : receipt'[d].effects = receipt[d].effects /\ receipt'[d].processed = receipt[d].processed
      <3> DEFINE kept == [receipt[e] EXCEPT !.stored = TRUE]
      <3>1. receipt \in [Events -> [effects : BOOLEAN, processed : BOOLEAN, stored : BOOLEAN]]
        BY <1>1 DEF FeedbackTypeOK
      <3>2. receipt[e] \in [effects : BOOLEAN, processed : BOOLEAN, stored : BOOLEAN]
        BY <3>1
      <3>3. /\ kept \in [effects : BOOLEAN, processed : BOOLEAN, stored : BOOLEAN]
            /\ kept.effects = receipt[e].effects /\ kept.processed = receipt[e].processed
        BY <3>2
      <3>4. receipt' = [receipt EXCEPT ![e] = kept]
        BY <2>1, Zenon
      <3> HIDE DEF kept
      <3>5. receipt'[e] = kept /\ \A d \in Events \ {e} : receipt'[d] = receipt[d]
        BY <3>1, <3>4
      <3>6. receipt' \in [Events -> [effects : BOOLEAN, processed : BOOLEAN, stored : BOOLEAN]]
        BY <3>1, <3>3, <3>4
      <3>7. ASSUME NEW d \in Events
            PROVE  receipt'[d].effects = receipt[d].effects /\ receipt'[d].processed = receipt[d].processed
        <4>1. CASE d = e
          BY <4>1, <3>3, <3>5, Zenon
        <4>2. CASE d # e
          <5>1. receipt'[d] = receipt[d]
            BY <3>5, <4>2
          <5> QED
            BY <5>1, Zenon
        <4> QED
          BY <4>1, <4>2
      <3> QED
        BY <3>6, <3>7
    <2>3. hook' \in [Hooks -> [at : {"idle"}] \cup [at : {"stored"}, e : Events]]
      BY <1>1, <2>1 DEF FeedbackTypeOK
    <2>4. FeedbackTypeOK'
      BY <1>1, <2>1, <2>2, <2>3 DEF FeedbackTypeOK
    <2> QED
      BY <1>1, <2>1, <2>2, <2>4, QuietStepInv DEF LinksAreIssued
  <1>5. ASSUME NEW v \in Visitors, NEW w \in [at : {"token"}, t : Secrets] \cup [at : {"commit"}, t : Secrets, found : BOOLEAN],
               visit' = [visit EXCEPT ![v] = w], links[w.t] >= 0,
               UNCHANGED <<outbox, emitted, answered, receipt, ingested, optedOut, suppressed, invalid, links, hook, deaths>>
        PROVE  FeedbackInv'
    <2>1. FeedbackTypeOK'
      BY <1>1, <1>5 DEF FeedbackTypeOK
    <2>2. \A u \in Visitors : visit'[u].at # "idle" => links[visit'[u].t] >= 0
      BY <1>1, <1>5 DEF FeedbackTypeOK, LinksAreIssued
    <2> QED
      BY <1>5, <2>1, <2>2, QuietStepInv
  <1>6. ASSUME NEW t \in Secrets, NEW v \in Visitors, ConfirmVisit(v, t) PROVE FeedbackInv'
    <2> DEFINE w == [at |-> "token", t |-> t]
    <2>1. w \in [at : {"token"}, t : Secrets] /\ w.t = t /\ visit' = [visit EXCEPT ![v] = w]
      BY <1>6 DEF ConfirmVisit
    <2>2. links[t] >= 0 /\ UNCHANGED <<outbox, emitted, answered, receipt, ingested, optedOut, suppressed, invalid, links, hook, deaths>>
      BY <1>1, <1>6 DEF ConfirmVisit, FeedbackTypeOK, LinksAreIssued, Unissued
    <2> HIDE DEF w
    <2> QED
      BY <1>5, <2>1, <2>2
  <1>7. ASSUME NEW v \in Visitors, LookForUnsubscribe(v) PROVE FeedbackInv'
    <2> DEFINE w == [at |-> "commit", t |-> visit[v].t, found |-> HolderOf[visit[v].t] \in optedOut]
    <2>1. visit[v].t \in Secrets /\ links[visit[v].t] >= 0
      BY <1>1, <1>7 DEF LookForUnsubscribe, FeedbackTypeOK, LinksAreIssued
    <2>2. w \in [at : {"commit"}, t : Secrets, found : BOOLEAN] /\ w.t = visit[v].t
      BY <2>1
    <2>3. visit' = [visit EXCEPT ![v] = w] /\ UNCHANGED <<outbox, emitted, answered, receipt, ingested, optedOut, suppressed, invalid, links, hook, deaths>>
      BY <1>7 DEF LookForUnsubscribe
    <2> HIDE DEF w
    <2> QED
      BY <1>5, <2>1, <2>2, <2>3
  <1>8. CASE ProcessDies
    <2>1. /\ hook' = [h \in Hooks |-> Quiet] /\ visit' = [v \in Visitors |-> Quiet] /\ deaths' = deaths + 1
          /\ UNCHANGED <<outbox, emitted, answered, receipt, ingested, optedOut, suppressed, invalid, links>>
      BY <1>8 DEF ProcessDies
    <2>2. FeedbackTypeOK'
      BY <1>1, <2>1 DEF FeedbackTypeOK, Quiet
    <2> QED
      BY <2>1, <2>2, QuietStepInv DEF Quiet
  <1> QED
    BY <1>2, <1>3, <1>4, <1>6, <1>7, <1>8

LEMMA AppliesInv ==
  ASSUME FeedbackInv, NEW e \in Events, ApplyReceipt(e), UNCHANGED <<emitted, links, visit, deaths>>,
         answered' \subseteq Events, hook' \in [Hooks -> [at : {"idle"}] \cup [at : {"stored"}, e : Events]]
  PROVE  FeedbackInv'
  <1>1. FeedbackTypeOK' /\ MessageIdsAreOwn' /\ ReportsCountOnce'
    BY ApplyReceiptInv DEF FeedbackInv, FeedbackTypeOK
  <1>2. LinksAreIssued'
    BY DEF FeedbackInv, LinksAreIssued
  <1> QED
    BY <1>1, <1>2 DEF FeedbackInv

\* A confirmation opts its holder out and counts its visit, or changes
\* nothing: another was first.
LEMMA CommitUnsubscribeInv ==
  ASSUME FeedbackInv, NEW v \in Visitors, CommitUnsubscribe(v) PROVE FeedbackInv'
  <1> DEFINE t == visit[v].t
  <1>1. /\ FeedbackTypeOK /\ MessageIdsAreOwn /\ LinksAreIssued
        /\ EffectsAreAppliedOnce /\ EventsFindTheirDelivery /\ TimesAreTheEarliest /\ OptOutsAreAsked
    BY DEF FeedbackInv, ReportsCountOnce
  <1>2. /\ visit' = [visit EXCEPT ![v] = Quiet]
        /\ UNCHANGED <<outbox, emitted, answered, receipt, ingested, suppressed, invalid, hook, deaths>>
        /\ t \in Secrets /\ links[t] \in Nat /\ HolderOf[t] \in Mails
    BY <1>1, FeedbackAssumption DEF CommitUnsubscribe, FeedbackTypeOK, LinksAreIssued
  <1>3. \/ UNCHANGED <<optedOut, links>>
        \/ optedOut' = optedOut \cup {HolderOf[t]} /\ links' = [links EXCEPT ![t] = links[t] + 1]
    BY DEF CommitUnsubscribe
  <1> HIDE DEF t
  <1>4. /\ \A u \in Secrets : links'[u] >= links[u] /\ links'[u] \in Int
        /\ links' \in [Secrets -> Int] /\ optedOut \subseteq optedOut' /\ optedOut' \subseteq Mails
    BY <1>1, <1>2, <1>3 DEF FeedbackTypeOK
  <1>5. /\ visit'[v].at = "idle" /\ \A u \in Visitors \ {v} : visit'[u] = visit[u]
        /\ visit' \in [Visitors -> [at : {"idle"}] \cup [at : {"token"}, t : Secrets]
                                     \cup [at : {"commit"}, t : Secrets, found : BOOLEAN]]
    BY <1>1, <1>2 DEF FeedbackTypeOK, Quiet
  <1>6. FeedbackTypeOK'
    BY <1>1, <1>2, <1>4, <1>5 DEF FeedbackTypeOK
  <1>7. LinksAreIssued'
    <2>1. \A u \in Visitors \ {v} : visit[u].at # "idle" => visit[u].t \in Secrets /\ links[visit[u].t] >= 0
      BY <1>1 DEF FeedbackTypeOK, LinksAreIssued
    <2>2. \A u \in Secrets : links[u] \in Int /\ links[u] >= Unissued
      BY <1>1 DEF FeedbackTypeOK, LinksAreIssued
    <2> QED
      BY <1>4, <1>5, <2>1, <2>2 DEF LinksAreIssued, Unissued
  <1>8. EffectsAreAppliedOnce'
    BY <1>1, <1>2, <1>4 DEF EffectsAreAppliedOnce
  <1>9. MessageIdsAreOwn' /\ EventsFindTheirDelivery'
    BY <1>1, <1>2 DEF MessageIdsAreOwn, EventsFindTheirDelivery
  <1>10. TimesAreTheEarliest'
    BY <1>1, <1>2 DEF TimesAreTheEarliest
  <1>11. OptOutsAreAsked'
    <2>1. CASE UNCHANGED <<optedOut, links>>
      BY <1>1, <1>2, <2>1 DEF OptOutsAreAsked
    <2>2. CASE optedOut' = optedOut \cup {HolderOf[t]} /\ links' = [links EXCEPT ![t] = links[t] + 1]
      <3>1. \A u \in Secrets : links'[u] > 0 <=> links[u] > 0 \/ u = t
        BY <1>1, <1>2, <2>2 DEF FeedbackTypeOK
      <3>2. \A m : m \in optedOut' <=> m \in optedOut \/ m = HolderOf[t]
        BY <2>2
      <3> QED
        BY <1>1, <1>2, <3>1, <3>2 DEF OptOutsAreAsked
    <2> QED
      BY <1>3, <2>1, <2>2
  <1> QED
    BY <1>6, <1>7, <1>8, <1>9, <1>10, <1>11 DEF FeedbackInv, ReportsCountOnce

LEMMA IssueLinkInv == ASSUME FeedbackInv, NEW t \in Secrets, IssueLink(t) PROVE FeedbackInv'
  <1>1. /\ FeedbackTypeOK /\ MessageIdsAreOwn /\ LinksAreIssued
        /\ EffectsAreAppliedOnce /\ EventsFindTheirDelivery /\ TimesAreTheEarliest /\ OptOutsAreAsked
    BY DEF FeedbackInv, ReportsCountOnce
  <1>2. /\ links[t] = -1 /\ links' = [links EXCEPT ![t] = 0]
        /\ UNCHANGED <<outbox, emitted, answered, receipt, ingested, optedOut, suppressed, invalid, hook, visit, deaths>>
    BY DEF IssueLink, Unissued
  <1>3. links' \in [Secrets -> Int] /\ \A u \in Secrets : links'[u] >= links[u] /\ (links'[u] > 0 <=> links[u] > 0)
    BY <1>1, <1>2 DEF FeedbackTypeOK
  <1>4. FeedbackTypeOK'
    BY <1>1, <1>2, <1>3 DEF FeedbackTypeOK
  <1>5. LinksAreIssued'
    <2>1. \A u \in Visitors : visit[u].at # "idle" => visit[u].t \in Secrets /\ links[visit[u].t] >= 0
      BY <1>1 DEF FeedbackTypeOK, LinksAreIssued
    <2>2. \A u \in Secrets : links[u] \in Int /\ links[u] >= Unissued /\ links'[u] \in Int
      BY <1>1, <1>3 DEF FeedbackTypeOK, LinksAreIssued
    <2> QED
      BY <1>2, <1>3, <2>1, <2>2 DEF LinksAreIssued, Unissued
  <1>6. EffectsAreAppliedOnce' /\ MessageIdsAreOwn' /\ EventsFindTheirDelivery'
    BY <1>1, <1>2 DEF EffectsAreAppliedOnce, MessageIdsAreOwn, EventsFindTheirDelivery
  <1>7. TimesAreTheEarliest'
    BY <1>1, <1>2 DEF TimesAreTheEarliest
  <1>8. OptOutsAreAsked'
    BY <1>1, <1>2, <1>3 DEF OptOutsAreAsked
  <1> QED
    BY <1>4, <1>5, <1>6, <1>7, <1>8 DEF FeedbackInv, ReportsCountOnce

LEMMA FeedbackStepInv == FeedbackInv /\ [FeedbackNext]_feedbackVars => FeedbackInv'
  <1> SUFFICES ASSUME FeedbackInv, [FeedbackNext]_feedbackVars PROVE FeedbackInv'
    OBVIOUS
  <1>1. FeedbackTypeOK
    BY DEF FeedbackInv
  <1>2. ASSUME NEW h \in Hooks, Apply(h) PROVE FeedbackInv'
    <2>1. hook[h].e \in Events /\ ApplyReceipt(hook[h].e)
      BY <1>1, <1>2 DEF Apply, FeedbackTypeOK, Quiet
    <2>2. /\ answered' \subseteq Events /\ UNCHANGED <<emitted, links, visit, deaths>>
          /\ hook' \in [Hooks -> [at : {"idle"}] \cup [at : {"stored"}, e : Events]]
      BY <1>1, <1>2, <2>1 DEF Apply, FeedbackTypeOK, Quiet
    <2> QED
      BY <2>1, <2>2, AppliesInv
  <1>3. ASSUME NEW e \in Events, Reconcile(e) PROVE FeedbackInv'
    <2>1. /\ ApplyReceipt(e) /\ UNCHANGED <<emitted, links, visit, deaths>> /\ answered' \subseteq Events
          /\ hook' \in [Hooks -> [at : {"idle"}] \cup [at : {"stored"}, e : Events]]
      BY <1>1, <1>3 DEF Reconcile, FeedbackTypeOK
    <2> QED
      BY <2>1, AppliesInv
  <1> QED
    BY <1>2, <1>3, RequestsInv, RecordResponseInv, CommitUnsubscribeInv, IssueLinkInv, Zenon DEF FeedbackNext

\* The strengthening holds in every behaviour of webhooks, worker and visits.
THEOREM FeedbackInvariant == FeedbackSpec => []FeedbackInv
  BY FeedbackInitInv, FeedbackStepInv, PTL DEF FeedbackSpec

\* providerEventService.ts, unsubscribeService.ts: for any rows, events, links
\* and visitors, in whatever order and however often reports arrive, they
\* count once and where they belong, and an address is opted out exactly when
\* somebody asked for it.
THEOREM ReportsCount == FeedbackSpec => []ReportsCountOnce
  <1>1. FeedbackInv => ReportsCountOnce
    BY DEF FeedbackInv
  <1> QED
    BY <1>1, FeedbackInvariant, PTL
=============================================================================
