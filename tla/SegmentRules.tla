---------------------------- MODULE SegmentRules ----------------------------
(***************************************************************************)
(* What the rules of a segment mean (segmentFields.ts, segmentDefinition.ts,*)
(* segmentQuery.ts).  A condition asks one field of a company, of a product *)
(* it owns, of a contact or of an e-mail address.  A definition holds       *)
(* conditions that must all hold, groups of which all or any must, and the  *)
(* kinds of address to include.                                             *)
(*                                                                         *)
(* A text, lookup or list operator is IS with the set of values it accepts  *)
(* ("contains Trimble" accepts the names that contain it), DOES_NOT_OWN is  *)
(* the IS_NOT of product.name, and a field stands for those of its shape:   *)
(* category, industry and name are asked like classification, catalogue     *)
(* number and owned status like product.name, the other expiry dates like   *)
(* subscriptionUntil, the contact's name like jobTitle, the e-mail check    *)
(* like consent, and "blocked" like unsubscribed.                           *)
(***************************************************************************)
EXTENDS Integers, FiniteSets

Empty  == "empty"     \* NULL, or the empty string a CRM export leaves
NoDate == -99

SEGMENT_FIELDS ==
    {[key |-> "company.classification", scope |-> "COMPANY", operators |-> {"IS", "IS_NOT", "IS_EMPTY", "IS_NOT_EMPTY"}],
     [key |-> "company.status", scope |-> "COMPANY", operators |-> {"IS", "IS_NOT"}],
     [key |-> "company.email", scope |-> "COMPANY", operators |-> {"IS_EMPTY", "IS_NOT_EMPTY"}],
     [key |-> "company.archived", scope |-> "COMPANY", operators |-> {"IS_YES", "IS_NO"}],
     [key |-> "product.any", scope |-> "PRODUCT", operators |-> {"IS_YES", "IS_NO"}],
     [key |-> "product.name", scope |-> "PRODUCT", operators |-> {"IS", "IS_NOT"}],
     [key |-> "product.type", scope |-> "PRODUCT", operators |-> {"IS", "IS_NOT"}],
     [key |-> "subscriptionUntil", scope |-> "PRODUCT",
      operators |-> {"BEFORE", "AFTER", "WITHIN_NEXT_DAYS", "EXPIRED", "NOT_EXPIRED"}],
     [key |-> "contact.jobTitle", scope |-> "CONTACT", operators |-> {"IS", "IS_EMPTY", "IS_NOT_EMPTY"}],
     [key |-> "contact.email", scope |-> "CONTACT", operators |-> {"IS_EMPTY", "IS_NOT_EMPTY"}],
     [key |-> "contact.hasCompany", scope |-> "CONTACT", operators |-> {"IS_YES", "IS_NO"}],
     [key |-> "contact.companyName", scope |-> "CONTACT", operators |-> {"IS"}],
     [key |-> "contact.archived", scope |-> "CONTACT", operators |-> {"IS_YES", "IS_NO"}],
     [key |-> "communication.language", scope |-> "COMMUNICATION", operators |-> {"IS", "IS_NOT"}],
     [key |-> "communication.consent", scope |-> "COMMUNICATION", operators |-> {"IS", "IS_NOT"}],
     [key |-> "communication.unsubscribed", scope |-> "COMMUNICATION", operators |-> {"IS_YES", "IS_NO"}]}

Keys == {f.key : f \in SEGMENT_FIELDS}
findField == [key \in Keys |-> CHOOSE f \in SEGMENT_FIELDS : f.key = key]
ScopeOf(c) == findField[c.field].scope

(***************************************************************************)
(* Which definitions are accepted: the server reads every condition again,  *)
(* whatever the builder sent.                                               *)
(***************************************************************************)
CONSTANTS MAX_CONDITIONS, MAX_GROUPS, MAX_GROUP_CONDITIONS, MAX_DAYS

NeedsNoValue(o) == o \in {"IS_EMPTY", "IS_NOT_EMPTY", "EXPIRED", "NOT_EXPIRED", "IS_YES", "IS_NO"}
parseCondition(c) ==
    /\ c.field \in Keys /\ c.operator \in findField[c.field].operators
    /\ \/ NeedsNoValue(c.operator)
       \/ c.operator = "WITHIN_NEXT_DAYS" /\ c.day \in 1..MAX_DAYS
       \/ c.operator \in {"BEFORE", "AFTER"} /\ c.day # NoDate
       \/ c.operator \in {"IS", "IS_NOT"} /\ c.accepts # {}
parseGroup(g) ==
    /\ g.match \in {"ANY", "ALL"}
    /\ g.conditions # {} /\ Cardinality(g.conditions) <= MAX_GROUP_CONDITIONS
    /\ \A c \in g.conditions : parseCondition(c)
    /\ \A b, c \in g.conditions : ScopeOf(b) = ScopeOf(c)
RuleCount(d) == LET all == UNION {{<<g, c>> : c \in g.conditions} : g \in d.groups}
           IN  Cardinality(d.conditions) + Cardinality(all)
parseSegmentDefinition(d) ==
    /\ \A c \in d.conditions : parseCondition(c)
    /\ Cardinality(d.groups) <= MAX_GROUPS /\ \A g \in d.groups : parseGroup(g)
    /\ RuleCount(d) <= MAX_CONDITIONS
    /\ d.companyEmails \/ d.contactEmails
emptySegmentDefinition == [conditions |-> {}, groups |-> {}, companyEmails |-> TRUE, contactEmails |-> TRUE]

(***************************************************************************)
(* One condition.                                                           *)
(***************************************************************************)
(* Mutant of Answers: "is not" leaves out the rows that hold no value.      *)
AnswersIfSet(c, value) ==
    \/ c.operator = "IS" /\ value \in c.accepts
    \/ c.operator = "IS_NOT" /\ value \notin c.accepts /\ value # Empty
    \/ c.operator = "IS_EMPTY" /\ value = Empty
    \/ c.operator = "IS_NOT_EMPTY" /\ value # Empty
Answers(c, value) ==
    \/ c.operator = "IS" /\ value \in c.accepts
    \/ c.operator = "IS_NOT" /\ value \notin c.accepts
    \/ c.operator = "IS_EMPTY" /\ value = Empty
    \/ c.operator = "IS_NOT_EMPTY" /\ value # Empty
YesNo(c, fact) == (c.operator = "IS_YES") <=> fact
(* A date is the midnight its day begins with; now is an instant after the  *)
(* midnight of day "now", so what ends today has already expired.           *)
dateFilter(c, date, now) ==
    /\ date # NoDate
    /\ \/ c.operator = "BEFORE" /\ date < c.day
       \/ c.operator = "AFTER" /\ date > c.day
       \/ c.operator = "WITHIN_NEXT_DAYS" /\ date \in (now + 1) .. (now + c.day)
       \/ c.operator = "EXPIRED" /\ date <= now
       \/ c.operator = "NOT_EXPIRED" /\ date > now

companyClause(c, row) ==
    \/ c.field = "company.classification" /\ Answers(c, row.label)
    \/ c.field = "company.status" /\ Answers(c, row.status)
    \/ c.field = "company.email" /\ Answers(c, row.mail)
    \/ c.field = "company.archived" /\ YesNo(c, row.archived)

(* Whether the condition is about owning none, and what one product answers.*)
Negates(c) ==
    \/ c.field \in {"product.name", "product.type"} /\ c.operator = "IS_NOT"
    \/ c.field = "product.any" /\ c.operator = "IS_NO"
ownedProductFilter(c, p, now) ==
    \/ c.field = "product.any"
    \/ c.field = "product.name" /\ p.name \in c.accepts
    \/ c.field = "product.type" /\ p.type \in c.accepts
    \/ c.field = "subscriptionUntil" /\ dateFilter(c, p.until, now)

(* Mutant of productClauseAll: each condition finds a product of its own... *)
productClauseEach(cs, owned, now) ==
    \A c \in cs : Negates(c) # (\E p \in owned : ownedProductFilter(c, p, now))
(* ... and: one product that answers any of them will do.                   *)
productClauseSome(cs, owned, now) ==
    LET positives == {c \in cs : ~Negates(c)} IN
    /\ positives # {} => \E p \in owned : \E c \in positives : ownedProductFilter(c, p, now)
    /\ \A c \in cs \ positives : ~\E p \in owned : ownedProductFilter(c, p, now)
productClauseAll(cs, owned, now) ==
    LET positives == {c \in cs : ~Negates(c)} IN
    /\ positives # {} => \E p \in owned : \A c \in positives : ownedProductFilter(c, p, now)
    /\ \A c \in cs \ positives : ~\E p \in owned : ownedProductFilter(c, p, now)
productClauseAny(cs, owned, now) ==
    \E c \in cs : Negates(c) # (\E p \in owned : ownedProductFilter(c, p, now))

contactClause(c, row) ==
    \/ c.field = "contact.jobTitle" /\ Answers(c, row.title)
    \/ c.field = "contact.email" /\ Answers(c, row.mail)
    \/ c.field = "contact.hasCompany" /\ YesNo(c, row.links # {})
    \/ c.field = "contact.companyName" /\ row.links \cap c.accepts # {}
    \/ c.field = "contact.archived" /\ YesNo(c, row.archived)

matchesCommunicationCondition(c, facts) ==
    \/ c.field = "communication.language" /\ Answers(c, facts.language)
    \/ c.field = "communication.consent" /\ Answers(c, facts.consent)
    \/ c.field = "communication.unsubscribed" /\ YesNo(c, facts.unsubscribed)

(***************************************************************************)
(* A whole definition.                                                      *)
(***************************************************************************)
About(cs, scope) == {c \in cs : ScopeOf(c) = scope}
groupScope(g) == ScopeOf(CHOOSE c \in g.conditions : TRUE)
GroupsAbout(d, scope) == {g \in d.groups : groupScope(g) = scope}

buildCompanyWhere(d, row, now) ==
    /\ \A c \in About(d.conditions, "COMPANY") : companyClause(c, row)
    /\ productClauseAll(About(d.conditions, "PRODUCT"), row.owned, now)
    /\ \A g \in GroupsAbout(d, "COMPANY") :
         \/ g.match = "ALL" /\ \A c \in g.conditions : companyClause(c, row)
         \/ g.match = "ANY" /\ \E c \in g.conditions : companyClause(c, row)
    /\ \A g \in GroupsAbout(d, "PRODUCT") :
         \/ g.match = "ALL" /\ productClauseAll(g.conditions, row.owned, now)
         \/ g.match = "ANY" /\ productClauseAny(g.conditions, row.owned, now)
buildContactWhere(d, row) ==
    /\ \A c \in About(d.conditions, "CONTACT") : contactClause(c, row)
    /\ \A g \in GroupsAbout(d, "CONTACT") :
         \/ g.match = "ALL" /\ \A c \in g.conditions : contactClause(c, row)
         \/ g.match = "ANY" /\ \E c \in g.conditions : contactClause(c, row)

hasCompanyConstraint(d) ==
    \/ \E c \in d.conditions : ScopeOf(c) \in {"COMPANY", "PRODUCT"}
    \/ \E g \in d.groups : groupScope(g) \in {"COMPANY", "PRODUCT"}

matchesCommunication(d, facts) ==
    /\ \A c \in About(d.conditions, "COMMUNICATION") : matchesCommunicationCondition(c, facts)
    /\ \A g \in GroupsAbout(d, "COMMUNICATION") :
         \/ g.match = "ALL" /\ \A c \in g.conditions : matchesCommunicationCondition(c, facts)
         \/ g.match = "ANY" /\ \E c \in g.conditions : matchesCommunicationCondition(c, facts)
hasCommunicationConstraint(d) ==
    About(d.conditions, "COMMUNICATION") # {} \/ GroupsAbout(d, "COMMUNICATION") # {}
=============================================================================
