------------------------------ MODULE Segments ------------------------------
(***************************************************************************)
(* Segments and the audience of a newsletter (segmentService.ts,            *)
(* audienceRepository.ts, resolveAudience.ts, eligibility.ts,               *)
(* campaignAudienceService.ts, SegmentBuilder.tsx): the builder, the stored *)
(* rules, the choice of a segment for a newsletter, and the resolution that *)
(* the preview and the planning snapshot share.                             *)
(*                                                                         *)
(* A resolution reads companies, then contacts, then what is known of their *)
(* addresses; customers opt out and the CRM mirror changes in between.      *)
(***************************************************************************)
EXTENDS SegmentRules

CONSTANTS Analysts,           \* staff at work
          SegmentIds,
          Offered,            \* the conditions the builder is used for
          Companies, Contacts, Mails,
          Worlds,             \* [company, contact]: the CRM mirrors to start from
          Now,                \* today
          Openings,           \* the stored definitions to start from
          MaxDraft,           \* bound: conditions of a draft
          MaxSteps            \* bound: things staff and customers do, all together

ASSUME CrmAssumption ==
    IsFiniteSet(Companies) /\ IsFiniteSet(Contacts) /\ Companies \cap Contacts = {}
(* What a condition and a definition consist of. *)
IsCondition(c) == c = [field |-> c.field, operator |-> c.operator, accepts |-> c.accepts, day |-> c.day]
IsDefinition(d) == d = [conditions |-> d.conditions, groups |-> d.groups,
                        companyEmails |-> d.companyEmails, contactEmails |-> d.contactEmails]
ASSUME BuilderAssumption == (\A c \in Offered : IsCondition(c)) /\ \A d \in Openings : IsDefinition(d)

NoRules == [none |-> TRUE]
NoAudience == "no segment"
NoErrand == [op |-> "none"]
Blank == [field |-> "company.classification", operator |-> "IS", accepts |-> {}, day |-> NoDate]

VARIABLES
    draft,        \* the rules in the builder, readable or not
    segments,     \* [SegmentIds -> definition, or NoRules]
    letter,       \* Campaign: [segment, status]
    snapshots,    \* CampaignAudienceSnapshot rows of the letter: [at, of]
    crm,          \* [company, contact]
    profiles,     \* [Mails -> CommunicationAddress row: [row, language, consent]]
    unsubscribed, \* addresses with an Unsubscribe row
    errand,       \* [Analysts -> the request each waits for]
    steps         \* so far; also the clock of the snapshots

rulesVars == <<draft, segments, letter, snapshots, crm, profiles, unsubscribed, errand, steps>>

SegmentsInit ==
    /\ draft \in Openings \cup {emptySegmentDefinition}
    /\ \E s \in SegmentIds :
         /\ segments = [[t \in SegmentIds |-> NoRules] EXCEPT
                          ![s] = IF draft \in Openings THEN draft ELSE NoRules]
         /\ letter = [segment |-> IF draft \in Openings THEN s ELSE NoAudience, status |-> "DRAFT"]
    /\ snapshots = {}
    /\ crm \in Worlds
    /\ profiles = [m \in Mails |-> [row |-> FALSE, language |-> "UNKNOWN", consent |-> "UNKNOWN"]]
    /\ unsubscribed = {}
    /\ errand = [p \in Analysts |-> NoErrand]
    /\ steps = 0

Step == steps < MaxSteps /\ steps' = steps + 1

(***************************************************************************)
(* The builder.  A new condition is blank; one with an emptied group or a   *)
(* blank cannot be saved or previewed, but stays on the screen.             *)
(***************************************************************************)
Redraft(d) ==
    /\ Step /\ RuleCount(d) <= MaxDraft /\ draft' = d
    /\ UNCHANGED <<segments, letter, snapshots, crm, profiles, unsubscribed, errand>>
AddCondition == Redraft([draft EXCEPT !.conditions = @ \cup {Blank}])
ChangeCondition(c, e) ==
    c \in draft.conditions /\ Redraft([draft EXCEPT !.conditions = (@ \ {c}) \cup {e}])
RemoveCondition(c) == c \in draft.conditions /\ Redraft([draft EXCEPT !.conditions = @ \ {c}])
AddGroup == Redraft([draft EXCEPT !.groups = @ \cup {[match |-> "ANY", conditions |-> {Blank}]}])
ChangeGroup(g, h) == g \in draft.groups /\ Redraft([draft EXCEPT !.groups = (@ \ {g}) \cup {h}])
GroupEdits(g) ==
    {[g EXCEPT !.match = m] : m \in {"ANY", "ALL"}}
      \cup {[g EXCEPT !.conditions = @ \cup {Blank}]}
      \cup {[g EXCEPT !.conditions = @ \ {c}] : c \in g.conditions}
      \cup {[g EXCEPT !.conditions = (@ \ {c}) \cup {e}] : c \in g.conditions, e \in Offered}
RemoveGroup(g) == g \in draft.groups /\ Redraft([draft EXCEPT !.groups = @ \ {g}])
Include(companies, contacts) ==
    Redraft([draft EXCEPT !.companyEmails = companies, !.contactEmails = contacts])
Open(s) == segments[s] # NoRules /\ Redraft(segments[s])

(***************************************************************************)
(* Stored segments.                                                         *)
(***************************************************************************)
Store(s, d) ==
    /\ Step /\ segments' = [segments EXCEPT ![s] = d]
    /\ UNCHANGED <<draft, letter, snapshots, crm, profiles, unsubscribed, errand>>
createSegment(s) == parseSegmentDefinition(draft) /\ segments[s] = NoRules /\ Store(s, draft)
updateSegment(s) == parseSegmentDefinition(draft) /\ segments[s] # NoRules /\ Store(s, draft)
duplicateSegment(s, t) == segments[s] # NoRules /\ segments[t] = NoRules /\ Store(t, segments[s])

Await(p, e) == errand' = [errand EXCEPT ![p] = e]
(* Deletion counts the newsletters that use the segment, then deletes it;   *)
(* the relation of a newsletter that chose it meanwhile is set to null.     *)
deleteSegment(p, s) ==
    /\ errand[p] = NoErrand /\ segments[s] # NoRules /\ letter.segment # s
    /\ Step /\ Await(p, [op |-> "delete", segment |-> s])
    /\ UNCHANGED <<draft, segments, letter, snapshots, crm, profiles, unsubscribed>>
DeleteCommit(p) ==
    /\ errand[p].op = "delete" /\ Await(p, NoErrand)
    /\ LET s == errand[p].segment IN
       /\ segments' = [segments EXCEPT ![s] = NoRules]
       /\ letter' = IF letter.segment = s THEN [letter EXCEPT !.segment = NoAudience] ELSE letter
    /\ UNCHANGED <<draft, snapshots, crm, profiles, unsubscribed, steps>>

setCampaignSegment(p, s) ==
    /\ errand[p] = NoErrand /\ letter.status = "DRAFT"
    /\ s # NoAudience => segments[s] # NoRules
    /\ Step /\ Await(p, [op |-> "choose", segment |-> s])
    /\ UNCHANGED <<draft, segments, letter, snapshots, crm, profiles, unsubscribed>>
ChooseCommit(p) ==     \* the foreign key refuses a segment that is gone
    /\ errand[p].op = "choose" /\ Await(p, NoErrand)
    /\ LET s == errand[p].segment IN
       letter' = IF letter.status = "DRAFT" /\ (s = NoAudience \/ segments[s] # NoRules)
                   THEN [letter EXCEPT !.segment = s] ELSE letter
    /\ UNCHANGED <<draft, segments, snapshots, crm, profiles, unsubscribed, steps>>

(***************************************************************************)
(* The resolution.  A row is chosen when its rules match; a contact also    *)
(* needs one company that matches every company and product rule.           *)
(***************************************************************************)
ChosenCompanies(d) == {c \in Companies : buildCompanyWhere(d, crm.company[c], Now)}
ChosenContacts(d) ==
    {k \in Contacts :
       /\ buildContactWhere(d, crm.contact[k])
       /\ hasCompanyConstraint(d) => crm.contact[k].links \cap ChosenCompanies(d) # {}}

(* Mutant of loadAddressFacts: an address without a profile is unknown.     *)
FactsOfProfiles(m) ==
    [language |-> profiles[m].language, consent |-> profiles[m].consent,
     unsubscribed |-> profiles[m].row /\ m \in unsubscribed]
loadAddressFacts(m) ==
    [language |-> profiles[m].language, consent |-> profiles[m].consent,
     unsubscribed |-> m \in unsubscribed]

(* The first reason that applies, in this order, or "none".                 *)
evaluateEligibility(c, language) ==
    IF c.mail = Empty THEN "NO_EMAIL"
    ELSE IF c.archived THEN "ARCHIVED"
    ELSE IF c.inactive THEN "COMPANY_INACTIVE"
    ELSE LET facts == loadAddressFacts(c.mail) IN
         IF facts.unsubscribed THEN "UNSUBSCRIBED"
         ELSE IF facts.consent = "DENIED" THEN "CONSENT_DENIED"
         ELSE IF language \notin {"ANY", facts.language} THEN "LANGUAGE_UNKNOWN"
         ELSE "none"

CompanyCandidate(c) ==
    LET row == crm.company[c] IN
    [source |-> c, mail |-> row.mail, archived |-> row.archived, inactive |-> row.status = "INACTIVE"]
ContactCandidate(k) ==
    LET row == crm.contact[k] IN
    [source |-> k, mail |-> row.mail, archived |-> row.archived, inactive |-> FALSE]

(* The rules are those on the screen (preview) or those of the newsletter's *)
(* segment (snapshot), which are read after the newsletter.                 *)
previewAudience(p, language) ==
    /\ errand[p] = NoErrand /\ parseSegmentDefinition(draft)
    /\ Step /\ Await(p, [op |-> "companies", rules |-> draft, language |-> language,
                         letter |-> FALSE, at |-> steps, optedOut |-> unsubscribed])
    /\ UNCHANGED <<draft, segments, letter, snapshots, crm, profiles, unsubscribed>>
snapshotCampaignAudience(p) ==
    /\ errand[p] = NoErrand /\ letter.status = "DRAFT" /\ letter.segment # NoAudience
    /\ Step /\ Await(p, [op |-> "rules", segment |-> letter.segment])
    /\ UNCHANGED <<draft, segments, letter, snapshots, crm, profiles, unsubscribed>>
previewSegment(p) ==
    /\ errand[p].op = "rules"
    /\ LET rules == segments[errand[p].segment] IN
       Await(p, IF rules = NoRules THEN NoErrand
                ELSE [op |-> "companies", rules |-> rules, language |-> "HE",
                      letter |-> TRUE, at |-> steps, optedOut |-> unsubscribed])
    /\ UNCHANGED <<draft, segments, letter, snapshots, crm, profiles, unsubscribed, steps>>
(* The candidates read so far go along with the question.                   *)
Reads(e, op, read) ==
    [op |-> op, read |-> read, rules |-> e.rules, language |-> e.language,
     letter |-> e.letter, at |-> e.at, optedOut |-> e.optedOut]
ReadCompanies(p) ==
    /\ errand[p].op = "companies"
    /\ LET d == errand[p].rules
           read == IF d.companyEmails THEN {CompanyCandidate(c) : c \in ChosenCompanies(d)} ELSE {}
       IN  Await(p, Reads(errand[p], "contacts", read))
    /\ UNCHANGED <<draft, segments, letter, snapshots, crm, profiles, unsubscribed, steps>>
ReadContacts(p) ==
    /\ errand[p].op = "contacts"
    /\ LET d == errand[p].rules
           read == IF d.contactEmails THEN {ContactCandidate(k) : k \in ChosenContacts(d)} ELSE {}
       IN  Await(p, Reads(errand[p], "facts", errand[p].read \cup read))
    /\ UNCHANGED <<draft, segments, letter, snapshots, crm, profiles, unsubscribed, steps>>

(* A record whose address the e-mail rules do not match was never in the    *)
(* segment.  Of the rest each is a source of a recipient, or an exclusion.  *)
MatchingRecords(d, read) ==
    {c \in read : hasCommunicationConstraint(d) =>
                    c.mail # Empty /\ matchesCommunication(d, loadAddressFacts(c.mail))}
Recipients(kept, language) ==
    LET fit == {c \in kept : evaluateEligibility(c, language) = "none"} IN
    {[mail |-> m, sources |-> {c.source : c \in {x \in fit : x.mail = m}}] : m \in {c.mail : c \in fit}}
Excluded(kept, language) ==
    {[source |-> c.source, reason |-> evaluateEligibility(c, language)] :
       c \in {x \in kept : evaluateEligibility(x, language) # "none"}}
resolveAudience(p) ==
    /\ errand[p].op = "facts"
    /\ LET e == errand[p]
           kept == MatchingRecords(e.rules, e.read)
           recipients == Recipients(kept, e.language)
           sources == UNION {r.sources : r \in recipients}
       IN  Await(p, [op |-> IF e.letter THEN "clear" ELSE "shown", at |-> e.at, optedOut |-> e.optedOut,
                     kept |-> {c.source : c \in kept}, recipients |-> recipients,
                     excluded |-> Excluded(kept, e.language),
                     eligible |-> Cardinality(sources),
                     duplicates |-> Cardinality(sources) - Cardinality(recipients)])
    /\ UNCHANGED <<draft, segments, letter, snapshots, crm, profiles, unsubscribed, steps>>
Dismiss(p) ==
    /\ errand[p].op = "shown" /\ Await(p, NoErrand)
    /\ UNCHANGED <<draft, segments, letter, snapshots, crm, profiles, unsubscribed, steps>>

(* The transaction deletes the rows it sees, then stores its own.           *)
ClearSnapshots(p) ==
    /\ errand[p].op = "clear"
    /\ LET e == errand[p] IN
       Await(p, [op |-> "store", seen |-> snapshots, at |-> e.at, optedOut |-> e.optedOut,
                 kept |-> e.kept, recipients |-> e.recipients, excluded |-> e.excluded,
                 eligible |-> e.eligible, duplicates |-> e.duplicates])
    /\ UNCHANGED <<draft, segments, letter, snapshots, crm, profiles, unsubscribed, steps>>
StoreSnapshot(p) ==
    /\ errand[p].op = "store" /\ Await(p, NoErrand)
    /\ snapshots' = (snapshots \ errand[p].seen) \cup {[at |-> errand[p].at, eligible |-> errand[p].eligible]}
    /\ UNCHANGED <<draft, segments, letter, crm, profiles, unsubscribed, steps>>

(***************************************************************************)
(* The world: confirmed opt-outs, staff decisions about an address, the     *)
(* mirror, and a newsletter that is sent for approval and withdrawn.        *)
(***************************************************************************)
OptOut(m) ==
    /\ Step /\ unsubscribed' = unsubscribed \cup {m}
    /\ UNCHANGED <<draft, segments, letter, snapshots, crm, profiles, errand>>
DecideAddress(m, language, consent) ==
    /\ Step /\ profiles' = [profiles EXCEPT ![m] = [row |-> TRUE, language |-> language, consent |-> consent]]
    /\ UNCHANGED <<draft, segments, letter, snapshots, crm, unsubscribed, errand>>
MirrorChanges(w) ==
    /\ w \in Worlds \ {crm} /\ Step /\ crm' = w
    /\ UNCHANGED <<draft, segments, letter, snapshots, profiles, unsubscribed, errand>>
LetterMoves(status) ==
    /\ Step /\ letter' = [letter EXCEPT !.status = status]
    /\ UNCHANGED <<draft, segments, snapshots, crm, profiles, unsubscribed, errand>>

SegmentsNext ==
    \/ AddCondition \/ AddGroup
    \/ \E c \in draft.conditions : RemoveCondition(c) \/ \E e \in Offered : ChangeCondition(c, e)
    \/ \E g \in draft.groups : RemoveGroup(g) \/ \E h \in GroupEdits(g) : ChangeGroup(g, h)
    \/ \E companies, contacts \in BOOLEAN : Include(companies, contacts)
    \/ \E s \in SegmentIds : \/ Open(s) \/ createSegment(s) \/ updateSegment(s)
                             \/ \E t \in SegmentIds : duplicateSegment(s, t)
    \/ \E p \in Analysts :
         \/ \E s \in SegmentIds : deleteSegment(p, s)
         \/ \E s \in SegmentIds \cup {NoAudience} : setCampaignSegment(p, s)
         \/ \E language \in {"ANY", "HE"} : previewAudience(p, language)
         \/ DeleteCommit(p) \/ ChooseCommit(p)
         \/ snapshotCampaignAudience(p) \/ previewSegment(p)
         \/ ReadCompanies(p) \/ ReadContacts(p) \/ resolveAudience(p) \/ Dismiss(p)
         \/ ClearSnapshots(p) \/ StoreSnapshot(p)
    \/ \E m \in Mails : \/ OptOut(m)
                        \/ \E language \in {"HE", "UNKNOWN"}, consent \in {"UNKNOWN", "DENIED"} :
                             DecideAddress(m, language, consent)
    \/ \E w \in Worlds : MirrorChanges(w)
    \/ \E status \in {"DRAFT", "SCHEDULED"} : LetterMoves(status)

SegmentsSpec == SegmentsInit /\ [][SegmentsNext]_rulesVars

(***************************************************************************)
(* Properties.                                                              *)
(***************************************************************************)
Answered == {p \in Analysts : errand[p].op \in {"shown", "clear", "store"}}

(* Whoever opted out before the audience was asked for is in no answer,     *)
(* also when no staff member ever made a profile of the address, and        *)
(* whatever changed while the answer was computed.                          *)
OptOutsAreInNoAudience ==
    \A p \in Answered : \A r \in errand[p].recipients : r.mail \notin errand[p].optedOut

(* "An audience must never lose people silently": every record the rules    *)
(* selected is a source of one recipient or an exclusion with its reason,   *)
(* and the numbers of the answer add up.                                    *)
NobodyIsLostSilently ==
    \A p \in Answered :
      LET e == errand[p]
          sources == UNION {r.sources : r \in e.recipients}
          out == {x.source : x \in e.excluded}
      IN  /\ sources \cup out = e.kept /\ sources \cap out = {}
          /\ e.eligible + Cardinality(e.excluded) = Cardinality(e.kept)
          /\ e.duplicates + Cardinality(e.recipients) = e.eligible

(* A rule more never selects a record more: of the screen's rules, leaving  *)
(* out one condition or one group keeps everyone.                           *)
MoreRulesSelectFewer ==
    parseSegmentDefinition(draft) =>
      \A d \in {[draft EXCEPT !.conditions = @ \ {c}] : c \in draft.conditions}
                 \cup {[draft EXCEPT !.groups = @ \ {g}] : g \in draft.groups} :
        ChosenCompanies(draft) \subseteq ChosenCompanies(d) /\ ChosenContacts(draft) \subseteq ChosenContacts(d)

(* "A Trimble subscription expiring soon, not a Trimble plus some other     *)
(* product expiring soon": of the conditions that all must hold, those that *)
(* ask for a product are about one product, also for the contacts.          *)
OneProductAnswersAll ==
    parseSegmentDefinition(draft) =>
      LET asked == {c \in About(draft.conditions, "PRODUCT") : ~Negates(c)}
          Owner(c) == \E p \in crm.company[c].owned : \A r \in asked : ownedProductFilter(r, p, Now)
      IN  asked # {} => /\ \A c \in ChosenCompanies(draft) : Owner(c)
                        /\ \A k \in ChosenContacts(draft) : \E c \in crm.contact[k].links : Owner(c)

(* A contact comes with its company: where any rule is about companies or   *)
(* their products, one company of the contact satisfies all of those rules. *)
ContactsComeWithTheirCompany ==
    parseSegmentDefinition(draft) =>
      \A k \in ChosenContacts(draft) :
        \/ \A c \in Companies : buildCompanyWhere(draft, crm.company[c], Now)
        \/ \E c \in crm.contact[k].links : buildCompanyWhere(draft, crm.company[c], Now)

(* "is" and "is not" divide the companies: a company whose classification   *)
(* is empty is not left out by both.                                        *)
OppositesDivide ==
    \A c \in Offered : parseCondition(c) /\ c.operator = "IS" /\ ScopeOf(c) = "COMPANY" =>
      \A row \in {crm.company[x] : x \in Companies} :
        companyClause(c, row) # companyClause([c EXCEPT !.operator = "IS_NOT"], row)

(* The rules mean what the screen says of them.                             *)
RulesMeanWhatTheySay ==
    MoreRulesSelectFewer /\ OneProductAnswersAll /\ ContactsComeWithTheirCompany /\ OppositesDivide

(* Every answer accounts for everyone the rules chose, and for no opt-out.  *)
AnswersAccountForAll == OptOutsAreInNoAudience /\ NobodyIsLostSilently

(***************************************************************************)
(* The inductive invariant.                                                 *)
(***************************************************************************)
Resolving == {p \in Analysts : errand[p].op \in {"companies", "contacts", "facts"}}
(* Opt-outs are never taken back, so those known at first are known still.  *)
OptOutsStay == \A p \in Resolving : errand[p].optedOut \subseteq unsubscribed
(* Every record was read once, in whatever state it was then.               *)
OnceEach(read, mirrored) ==
    /\ {c.source : c \in read} \subseteq mirrored
    /\ \A b, c \in read : b.source = c.source => b = c
ReadOnce ==
    \A p \in Analysts :
      /\ errand[p].op = "contacts" => OnceEach(errand[p].read, Companies)
      /\ errand[p].op = "facts" => OnceEach(errand[p].read, Companies \cup Contacts)
RulesAreWhole ==
    /\ IsDefinition(draft)
    /\ segments = [s \in SegmentIds |-> segments[s]]
    /\ \A s \in SegmentIds : segments[s] = NoRules \/ IsDefinition(segments[s])
AudienceInv ==
    /\ errand = [p \in Analysts |-> errand[p]]
    /\ OptOutsStay /\ ReadOnce /\ AnswersAccountForAll
=============================================================================
