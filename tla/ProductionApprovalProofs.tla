---------------------- MODULE ProductionApprovalProofs ----------------------
(***************************************************************************)
(* What preparation, approval and scheduling guarantee for any number of    *)
(* people, addresses, documents, rules and submissions.                     *)
(***************************************************************************)
EXTENDS ProductionApproval, WellFoundedInduction, TLAPS

\* A set of rows with bounded ids has a newest one.
LEMMA NewestExists ==
  ASSUME NEW rows, rows # {}, NEW bound \in Nat,
         \A r \in rows : r.id \in Nat /\ r.id < bound
  PROVE  Newest(rows) \in rows /\ \A o \in rows : o.id <= Newest(rows).id
  <1> DEFINE T == {n \in Nat : \E r \in rows : r.id = bound - n}
  <1>1. T # {}
    <2>1. PICK r \in rows : TRUE
      OBVIOUS
    <2>2. bound - r.id \in Nat /\ r.id = bound - (bound - r.id)
      BY <2>1
    <2> QED
      BY <2>2
  <1>2. PICK n \in T : \A m \in T : ~ (<<m, n>> \in OpToRel(<, Nat))
    <2> HIDE DEF T
    <2>1. T \subseteq Nat
      BY DEF T
    <2> QED
      BY <1>1, <2>1, WFMin, NatLessThanWellFounded, Zenon
  <1>3. \A m \in T : n <= m
    <2>1. \A m \in T : ~ (m < n)
      BY <1>2, Zenon DEF OpToRel
    <2> QED
      BY <2>1
  <1>4. PICK r \in rows : r.id = bound - n
    OBVIOUS
  <1>5. \A o \in rows : o.id <= r.id
    <2> SUFFICES ASSUME NEW o \in rows PROVE o.id <= r.id
      OBVIOUS
    <2>1. bound - o.id \in T
      OBVIOUS
    <2>2. n <= bound - o.id
      BY <1>3, <2>1
    <2> QED
      BY <1>4, <2>2
  <1>6. \E x \in rows : \A o \in rows : o.id <= x.id
    BY <1>5
  <1> QED
    <2> HIDE DEF T
    <2> QED
      BY <1>6, Zenon DEF Newest

LEMMA NewestAudience ==
  ASSUME ApprovalTypeOK, IdsAreUnique
  PROVE  /\ audiences = {} => Newest(audiences) = NoRow
         /\ audiences # {} => /\ Newest(audiences) \in audiences
                              /\ \A f \in audiences : f.id <= Newest(audiences).id
  <1>1. nextId \in Nat /\ \A f \in audiences : f.id \in Nat /\ f.id < nextId
    BY DEF ApprovalTypeOK, IdsAreUnique, Audiences
  <1> QED
    BY <1>1, NewestExists DEF Newest

LEMMA NewestApproval ==
  ASSUME ApprovalTypeOK, IdsAreUnique
  PROVE  /\ approvals = {} => Newest(approvals) = NoRow
         /\ approvals # {} => /\ Newest(approvals) \in approvals
                              /\ \A a \in approvals : a.id <= Newest(approvals).id
  <1>1. nextId \in Nat /\ \A a \in approvals : a.id \in Nat /\ a.id < nextId
    BY DEF ApprovalTypeOK, IdsAreUnique, Approvals
  <1> QED
    BY <1>1, NewestExists DEF Newest

\* Revoking changes nothing but the mark.
LEMMA RevokedRows ==
  ASSUME approvals \subseteq Approvals, NEW ids
  PROVE  /\ Revoked(ids) \subseteq Approvals
         /\ \A x \in Revoked(ids) : \E a \in approvals :
              /\ x.id = a.id /\ x.audience = a.audience /\ x.by = a.by
              /\ x.content = a.content /\ x.language = a.language /\ x.hash = a.hash
              /\ x.revoked <=> (a.revoked \/ a.id \in ids)
         /\ \A a \in approvals : \E x \in Revoked(ids) :
              /\ x.id = a.id /\ x.audience = a.audience /\ x.by = a.by
              /\ x.content = a.content /\ x.language = a.language /\ x.hash = a.hash
              /\ x.revoked <=> (a.revoked \/ a.id \in ids)
  <1> DEFINE R(a) == IF a.id \in ids THEN [a EXCEPT !.revoked = TRUE] ELSE a
             Same(x, a) == /\ x.id = a.id /\ x.audience = a.audience /\ x.by = a.by
                           /\ x.content = a.content /\ x.language = a.language
                           /\ x.hash = a.hash
                           /\ x.revoked <=> (a.revoked \/ a.id \in ids)
  <1>1. \A a \in approvals : R(a) \in Approvals /\ Same(R(a), a)
    BY DEF Approvals
  <1>2. Revoked(ids) = {R(a) : a \in approvals}
    BY DEF Revoked
  <1> HIDE DEF R
  <1> QED
    BY <1>1, <1>2

\* What a member of staff has in flight, by where it stands.
LEMMA TaskShape ==
  ASSUME ApprovalTypeOK, NEW s \in Staff
  PROVE  LET t == task[s] IN
         /\ t \in Tasks
         /\ t.at = "resolve" => t \in [at : {"resolve"}, key : Keys, seen : Nat, segment : Segments,
                                       criteria : Criteria, language : Languages]
         /\ t.at = "mark" => t \in [at : {"mark"}, key : Keys, seen : Nat, matter : Matters]
         /\ t.at = "open" => t \in [at : {"open"}, key : Keys, seen : Nat, matter : Matters, mark : Nat]
         /\ t.at = "commit" => t \in [at : {"commit"}, revokes : SUBSET Nat, row : Audiences]
         /\ t.at = "review" => t \in [at : {"review"}, content : Contents, language : Languages]
         /\ t.at = "approve" => t \in [at : {"approve"}, content : Contents, language : Languages,
                                       audience : Audiences]
         /\ t.at = "sign" => t \in [at : {"sign"}, revokes : SUBSET Nat, row : Approvals]
         /\ t.at \in {"ledger", "freeze"} => t \in [at : {"ledger", "freeze"}, approval : Nat, audience : Nat]
         /\ t.at = "schedule" => t \in [at : {"schedule"}, approval : Nat, audience : Nat,
                                        content : Contents, mark : Nat]
  <1>1. task[s] \in Tasks
    BY DEF ApprovalTypeOK
  <1> QED
    BY <1>1 DEF Tasks, Idle

\* Who else works is not disturbed.
LEMMA TaskMoves ==
  ASSUME ApprovalTypeOK, NEW s \in Staff, NEW STATE t, task' = [task EXCEPT ![s] = t]
  PROVE  \A u \in Staff : task'[u] = IF u = s THEN t ELSE task[u]
  BY DEF ApprovalTypeOK

LEMMA ResolvedIsMatter ==
  ASSUME NEW seg \in Segments, NEW c \in Criteria, NEW l \in Languages,
         facts \in [People -> Facts]
  PROVE  Resolve(seg, c, l) \in Matters
  <1>1. c \subseteq People
    BY ApprovalAssumption
  <1>2. [p \in c |-> facts[p]] \in [c -> Facts]
    BY <1>1
  <1>3. Resolve(seg, c, l) \in [segment : Segments, criteria : {c}, language : Languages,
                               facts : [c -> Facts]]
    BY <1>2 DEF Resolve
  <1> QED
    BY <1>3 DEF Matters

LEMMA DestinationsAreFacts ==
  ASSUME NEW m \in Matters
  PROVE  Destinations(m) \subseteq People /\ DOMAIN m.facts \subseteq People
  BY ApprovalAssumption DEF Matters, Destinations

LEMMA RenderedContent ==
  ASSUME ApprovalTypeOK PROVE Rendered(campaign) \in Contents
  BY DEF ApprovalTypeOK, Rendered

\* What a step of a call can be, by what it writes.
LEMMA ApprovalCases ==
  ASSUME Next
  PROVE  \/ \E p \in People, f \in Facts : PersonChanges(p, f)
         \/ \E seg \in Segments, c \in Criteria : SegmentEdited(seg, c)
         \/ \E l \in {"HE", "AR"}, c \in Contents : EditDetails(l, c)
         \/ \E seg \in Segments \cup {NoSegment} : SetCampaignSegment(seg)
         \/ \E c \in Contents : ArticleEdited(c)
         \/ \E s \in Staff : RoleChanges(s)
         \/ \E s \in Staff, key \in Keys : PrepareStart(s, key)
         \/ \E s \in Staff : \/ PrepareResolve(s) \/ PrepareMark(s) \/ PrepareOpen(s)
                             \/ PrepareCommit(s) \/ ApproveRead(s) \/ ApproveReview(s)
                             \/ ApproveOpen(s) \/ ApproveCommit(s) \/ RevokeApproval(s)
                             \/ ScheduleRead(s) \/ ScheduleLedger(s)
                             \/ ScheduleFreeze(s) \/ ScheduleCommit(s)
  BY DEF Next, World, Work

LEMMA ApprovalTypeStep ==
  ApprovalTypeOK /\ IdsAreUnique /\ [Next]_vars => ApprovalTypeOK'
  <1> SUFFICES ASSUME ApprovalTypeOK, IdsAreUnique, [Next]_vars
               PROVE  ApprovalTypeOK'
    OBVIOUS
  <1> DEFINE Moved(s, t) == task' = [task EXCEPT ![s] = t]
  <1>1. ASSUME NEW s \in Staff, NEW t, t \in Tasks, Moved(s, t) PROVE task' \in [Staff -> Tasks]
    BY <1>1 DEF ApprovalTypeOK
  <1>2. \A ids : Revoked(ids) \subseteq Approvals
    BY RevokedRows DEF ApprovalTypeOK
  <1>3. ASSUME NEW p \in People, NEW f \in Facts, PersonChanges(p, f) PROVE ApprovalTypeOK'
    BY <1>3 DEF PersonChanges, Bump, ApprovalTypeOK
  <1>4. ASSUME NEW seg \in Segments, NEW c \in Criteria, SegmentEdited(seg, c)
        PROVE  ApprovalTypeOK'
    BY <1>4 DEF SegmentEdited, Bump, ApprovalTypeOK
  <1>5. ASSUME NEW l \in {"HE", "AR"}, NEW c \in Contents, EditDetails(l, c)
        PROVE  ApprovalTypeOK'
    <2>1. /\ campaign' = [campaign EXCEPT !.language = l, !.content = c]
          /\ stamp' = stamp + 1
          /\ UNCHANGED <<rules, facts, audiences, approvals, nextId, manager, ledger, task>>
      BY <1>5 DEF EditDetails, Bump
    <2>2. l \in Languages
      BY DEF Languages
    <2>3. campaign' \in [status : {"DRAFT", "SCHEDULED"}, language : Languages,
                        segment : Segments \union {NoSegment}, content : Contents,
                        frozen : Contents \union {NoContent}, approval : Nat]
      BY <2>1, <2>2 DEF ApprovalTypeOK
    <2> HIDE DEF Languages
    <2> QED
      BY <2>1, <2>3 DEF ApprovalTypeOK
  <1>6. ASSUME NEW seg \in Segments \cup {NoSegment}, SetCampaignSegment(seg)
        PROVE  ApprovalTypeOK'
    BY <1>6 DEF SetCampaignSegment, Bump, ApprovalTypeOK
  <1>7. ASSUME NEW c \in Contents, ArticleEdited(c) PROVE ApprovalTypeOK'
    BY <1>7 DEF ArticleEdited, ApprovalTypeOK
  <1>8. ASSUME NEW s \in Staff, RoleChanges(s) PROVE ApprovalTypeOK'
    BY <1>8 DEF RoleChanges, ApprovalTypeOK
  <1>9. ASSUME NEW s \in Staff, NEW key \in Keys, PrepareStart(s, key) PROVE ApprovalTypeOK'
    <2> DEFINE t == [at |-> "resolve", key |-> key, seen |-> stamp,
                     segment |-> campaign.segment,
                     criteria |-> rules[campaign.segment], language |-> campaign.language]
    <2>1. t \in Tasks
      BY <1>9 DEF PrepareStart, ApprovalTypeOK, Tasks
    <2>2. Moved(s, t)
      BY <1>9 DEF PrepareStart, Start
    <2> QED
      BY <1>1, <1>9, <2>1, <2>2 DEF PrepareStart, ApprovalTypeOK
  <1>10. ASSUME NEW s \in Staff, PrepareResolve(s) PROVE ApprovalTypeOK'
    <2> DEFINE m == Resolve(task[s].segment, task[s].criteria, task[s].language)
               t == [at |-> "mark", key |-> task[s].key, seen |-> task[s].seen, matter |-> m]
    <2>1. m \in Matters
      BY <1>10, TaskShape, ResolvedIsMatter DEF PrepareResolve, ApprovalTypeOK
    <2>2. t \in [at : {"mark"}, key : Keys, seen : Nat, matter : Matters]
      BY <1>10, <2>1, TaskShape DEF PrepareResolve
    <2>3. t \in Tasks /\ Moved(s, t)
      BY <1>10, <2>2 DEF PrepareResolve, Goto, Tasks
    <2> QED
      BY <1>1, <1>10, <2>3 DEF PrepareResolve, ApprovalTypeOK
  <1>11. ASSUME NEW s \in Staff, PrepareMark(s) PROVE ApprovalTypeOK'
    <2> DEFINE t == [at |-> "open", key |-> task[s].key, seen |-> task[s].seen,
                     matter |-> task[s].matter, mark |-> Watermark]
    <2>1. t \in [at : {"open"}, key : Keys, seen : Nat, matter : Matters, mark : Nat]
      BY <1>11, TaskShape DEF PrepareMark, ApprovalTypeOK, Watermark
    <2>2. t \in Tasks /\ Moved(s, t)
      BY <1>11, <2>1 DEF PrepareMark, Goto, Tasks
    <2> QED
      BY <1>1, <1>11, <2>2 DEF PrepareMark, ApprovalTypeOK
  <1>12. ASSUME NEW s \in Staff, PrepareOpen(s) PROVE ApprovalTypeOK'
    <2> DEFINE r == [id |-> nextId, key |-> task[s].key, seen |-> task[s].seen,
                     mark |-> task[s].mark, matter |-> task[s].matter]
               t == [at |-> "commit", revokes |-> Unrevoked, row |-> r]
    <2>1. r \in Audiences
      BY <1>12, TaskShape DEF PrepareOpen, ApprovalTypeOK, Audiences
    <2>2. Unrevoked \subseteq Nat
      BY DEF Unrevoked, ApprovalTypeOK, Approvals
    <2>3. t \in [at : {"commit"}, revokes : SUBSET Nat, row : Audiences]
      BY <2>1, <2>2
    <2>4. t \in Tasks /\ Moved(s, t)
      BY <1>12, <2>3 DEF PrepareOpen, Goto, Tasks
    <2> QED
      BY <1>1, <1>12, <2>4 DEF PrepareOpen, ApprovalTypeOK
  <1>13. ASSUME NEW s \in Staff, PrepareCommit(s) PROVE ApprovalTypeOK'
    <2>1. task[s].row \in Audiences
      BY <1>13, TaskShape DEF PrepareCommit
    <2>2. Idle \in Tasks /\ Moved(s, Idle)
      BY <1>13 DEF PrepareCommit, Finish, Goto, Tasks
    <2> QED
      BY <1>1, <1>2, <1>13, <2>1, <2>2 DEF PrepareCommit, ApprovalTypeOK
  <1>14. ASSUME NEW s \in Staff, ApproveRead(s) PROVE ApprovalTypeOK'
    <2> DEFINE t == [at |-> "review", content |-> Rendered(campaign),
                     language |-> campaign.language]
    <2>1. t \in [at : {"review"}, content : Contents, language : Languages]
      BY RenderedContent DEF ApprovalTypeOK
    <2>2. t \in Tasks /\ Moved(s, t)
      BY <1>14, <2>1 DEF ApproveRead, Start, Tasks
    <2> QED
      BY <1>1, <1>14, <2>2 DEF ApproveRead, ApprovalTypeOK
  <1>15. ASSUME NEW s \in Staff, ApproveReview(s) PROVE ApprovalTypeOK'
    <2> DEFINE f == Newest(audiences)
               t == [at |-> "approve", content |-> task[s].content,
                     language |-> task[s].language, audience |-> f]
    <2>1. Moved(s, Idle) \/ (Moved(s, t) /\ f # NoRow)
      BY <1>15 DEF ApproveReview, Goto, Readiness
    <2>2. f # NoRow => f \in Audiences
      BY NewestAudience DEF ApprovalTypeOK
    <2>3. f # NoRow => t \in [at : {"approve"}, content : Contents, language : Languages,
                            audience : Audiences]
      BY <1>15, <2>2, TaskShape DEF ApproveReview
    <2>4. Idle \in Tasks /\ (f # NoRow => t \in Tasks)
      BY <2>3 DEF Tasks
    <2> QED
      BY <1>1, <1>15, <2>1, <2>4 DEF ApproveReview, ApprovalTypeOK
  <1>16. ASSUME NEW s \in Staff, ApproveOpen(s) PROVE ApprovalTypeOK'
    <2> DEFINE f == task[s].audience
               h == ContentHash(task[s].content, task[s].language, f)
               r == [id |-> nextId, audience |-> f.id, by |-> s, revoked |-> FALSE,
                     content |-> task[s].content, language |-> task[s].language, hash |-> h]
               t == [at |-> "sign", revokes |-> Unrevoked, row |-> r]
    <2>1. /\ task[s].content \in Contents /\ task[s].language \in Languages
          /\ f \in Audiences
      BY <1>16, TaskShape DEF ApproveOpen
    <2>2. h \in Hashes
      BY <2>1 DEF ContentHash, AudienceHash, Hashes, Audiences
    <2>3. r \in Approvals
      BY <2>1, <2>2 DEF Approvals, Audiences, ApprovalTypeOK
    <2>4. Unrevoked \subseteq Nat
      BY DEF Unrevoked, ApprovalTypeOK, Approvals
    <2>5. t \in [at : {"sign"}, revokes : SUBSET Nat, row : Approvals]
      BY <2>3, <2>4
    <2>6. t \in Tasks /\ Moved(s, t)
      BY <1>16, <2>5 DEF ApproveOpen, Goto, Tasks
    <2> QED
      BY <1>1, <1>16, <2>6 DEF ApproveOpen, ApprovalTypeOK
  <1>17. ASSUME NEW s \in Staff, ApproveCommit(s) PROVE ApprovalTypeOK'
    <2>1. task[s].row \in Approvals
      BY <1>17, TaskShape DEF ApproveCommit
    <2>2. Idle \in Tasks /\ Moved(s, Idle)
      BY <1>17 DEF ApproveCommit, Finish, Goto, Tasks
    <2> QED
      BY <1>1, <1>2, <1>17, <2>1, <2>2 DEF ApproveCommit, ApprovalTypeOK
  <1>18. ASSUME NEW s \in Staff, RevokeApproval(s) PROVE ApprovalTypeOK'
    BY <1>2, <1>18 DEF RevokeApproval, ApprovalTypeOK
  <1>19. ASSUME NEW s \in Staff, ScheduleRead(s) PROVE ApprovalTypeOK'
    <2> DEFINE a == Newest(approvals)
               f == Newest(audiences)
               t == [at |-> "ledger", approval |-> a.id, audience |-> f.id]
    <2>1. Moved(s, t) /\ a # NoRow /\ f # NoRow
      BY <1>19 DEF ScheduleRead, Start, Readiness, CheckApproval
    <2>2. a \in Approvals /\ f \in Audiences
      BY <2>1, NewestAudience, NewestApproval DEF ApprovalTypeOK
    <2>3. t \in [at : {"ledger", "freeze"}, approval : Nat, audience : Nat]
      BY <2>2 DEF Approvals, Audiences
    <2>4. t \in Tasks
      BY <2>3 DEF Tasks
    <2> QED
      BY <1>1, <1>19, <2>1, <2>4 DEF ScheduleRead, ApprovalTypeOK
  <1>20. ASSUME NEW s \in Staff, ScheduleLedger(s) PROVE ApprovalTypeOK'
    <2> DEFINE t == [at |-> "freeze", approval |-> task[s].approval,
                     audience |-> task[s].audience]
               fit == Readiness.valid /\ FourEyes(Readiness.approval.by)
               f == Newest(audiences)
    <2>1. t \in [at : {"ledger", "freeze"}, approval : Nat, audience : Nat]
      BY <1>20, TaskShape DEF ScheduleLedger
    <2>2. t \in Tasks /\ Idle \in Tasks
      BY <2>1 DEF Tasks
    <2>3. Moved(s, t) \/ Moved(s, Idle)
      BY <1>20 DEF ScheduleLedger, Goto
    <2>4. fit => f.id \in Nat
      BY NewestAudience DEF Readiness, CheckApproval, ApprovalTypeOK, Audiences
    <2>5. Readiness.frozen = f
      BY DEF Readiness
    <2>6. ledger' = [p \in People |-> IF fit /\ p \in Destinations(f.matter) /\ ledger[p] = 0
                                     THEN f.id ELSE ledger[p]]
      BY <1>20, <2>5 DEF ScheduleLedger
    <2>7. ledger' \in [People -> Nat]
      <3> HIDE DEF fit, f
      <3> QED
        BY <2>4, <2>6 DEF ApprovalTypeOK
    <2> QED
      BY <1>1, <1>20, <2>2, <2>3, <2>7 DEF ScheduleLedger, ApprovalTypeOK
  <1>21. ASSUME NEW s \in Staff, ScheduleFreeze(s) PROVE ApprovalTypeOK'
    <2> DEFINE t == [at |-> "schedule", approval |-> task[s].approval,
                     audience |-> task[s].audience, content |-> Rendered(campaign),
                     mark |-> Watermark]
    <2>1. t \in [at : {"schedule"}, approval : Nat, audience : Nat, content : Contents, mark : Nat]
      BY <1>21, TaskShape, RenderedContent DEF ScheduleFreeze, ApprovalTypeOK, Watermark
    <2>2. t \in Tasks /\ Idle \in Tasks
      BY <2>1 DEF Tasks
    <2>3. Moved(s, t) \/ Moved(s, Idle)
      BY <1>21 DEF ScheduleFreeze, Goto
    <2> QED
      BY <1>1, <1>21, <2>2, <2>3 DEF ScheduleFreeze, ApprovalTypeOK
  <1>22. ASSUME NEW s \in Staff, ScheduleCommit(s) PROVE ApprovalTypeOK'
    <2>1. task[s].content \in Contents /\ task[s].approval \in Nat
      BY <1>22, TaskShape DEF ScheduleCommit
    <2>2. campaign' \in [status : {"DRAFT", "SCHEDULED"}, language : Languages,
                        segment : Segments \union {NoSegment}, content : Contents,
                        frozen : Contents \union {NoContent}, approval : Nat]
      <3>1. campaign' = campaign \/
            campaign' = [campaign EXCEPT !.status = "SCHEDULED", !.frozen = task[s].content,
                                         !.approval = task[s].approval]
        BY <1>22 DEF ScheduleCommit
      <3> QED
        BY <2>1, <3>1 DEF ApprovalTypeOK
    <2>3. Idle \in Tasks /\ Moved(s, Idle)
      BY <1>22 DEF ScheduleCommit, Finish, Goto, Tasks
    <2> QED
      BY <1>1, <1>22, <2>2, <2>3 DEF ScheduleCommit, ApprovalTypeOK
  <1>23. CASE UNCHANGED vars
    BY <1>23 DEF vars, ApprovalTypeOK
  <1> QED
    BY <1>3, <1>4, <1>5, <1>6, <1>7, <1>8, <1>9, <1>10, <1>11, <1>12, <1>13, <1>14, <1>15,
       <1>16, <1>17, <1>18, <1>19, <1>20, <1>21, <1>22, <1>23, ApprovalCases, Zenon

\* Steps that write no row and open no transaction.
NoRowMoves ==
    /\ UNCHANGED <<audiences, approvals, nextId>>
    /\ \E s \in Staff, t \in Tasks :
         /\ task' = [task EXCEPT ![s] = t]
         /\ t.at \notin {"commit", "sign"}
         /\ t.at = "approve" => t.audience \in audiences

LEMMA RowFrames ==
  ASSUME ApprovalTypeOK, ApprovalTypeOK', IdsAreUnique, [Next]_vars
  PROVE  \/ UNCHANGED <<audiences, approvals, nextId, task>>
         \/ NoRowMoves
         \/ \E s \in Staff : \/ PrepareOpen(s) \/ PrepareCommit(s) \/ ApproveOpen(s)
                             \/ ApproveCommit(s) \/ RevokeApproval(s)
  <1>1. ASSUME NEW s \in Staff, NEW t, task' = [task EXCEPT ![s] = t],
               t.at \notin {"commit", "sign"}, UNCHANGED <<audiences, approvals, nextId>>,
               t.at = "approve" => t.audience \in audiences
        PROVE  NoRowMoves
    <2>1. task'[s] = t /\ task'[s] \in Tasks
      BY <1>1 DEF ApprovalTypeOK
    <2> QED
      BY <1>1, <2>1 DEF NoRowMoves
  <1>2. CASE \/ \E p \in People, f \in Facts : PersonChanges(p, f)
             \/ \E seg \in Segments, c \in Criteria : SegmentEdited(seg, c)
             \/ \E l \in {"HE", "AR"}, c \in Contents : EditDetails(l, c)
             \/ \E seg \in Segments \cup {NoSegment} : SetCampaignSegment(seg)
             \/ \E c \in Contents : ArticleEdited(c)
             \/ \E s \in Staff : RoleChanges(s)
    BY <1>2 DEF PersonChanges, SegmentEdited, EditDetails, SetCampaignSegment, ArticleEdited,
                RoleChanges
  <1>3. ASSUME NEW s \in Staff, NEW key \in Keys, PrepareStart(s, key) PROVE NoRowMoves
    BY <1>1, <1>3 DEF PrepareStart, Start
  <1>4. ASSUME NEW s \in Staff, PrepareResolve(s) PROVE NoRowMoves
    BY <1>1, <1>4 DEF PrepareResolve, Goto
  <1>5. ASSUME NEW s \in Staff, PrepareMark(s) PROVE NoRowMoves
    BY <1>1, <1>5 DEF PrepareMark, Goto
  <1>6. ASSUME NEW s \in Staff, ApproveRead(s) PROVE NoRowMoves
    BY <1>1, <1>6 DEF ApproveRead, Start
  <1>7. ASSUME NEW s \in Staff, ApproveReview(s) PROVE NoRowMoves
    <2> DEFINE f == Newest(audiences)
               t == [at |-> "approve", content |-> task[s].content,
                     language |-> task[s].language, audience |-> f]
    <2>1. task' = [task EXCEPT ![s] = Idle] \/ (task' = [task EXCEPT ![s] = t] /\ f # NoRow)
      BY <1>7 DEF ApproveReview, Goto, Readiness
    <2>2. f # NoRow => t.audience \in audiences
      BY NewestAudience
    <2>3. UNCHANGED <<audiences, approvals, nextId>>
      BY <1>7 DEF ApproveReview
    <2> QED
      BY <1>1, <2>1, <2>2, <2>3 DEF Idle
  <1>8. ASSUME NEW s \in Staff, ScheduleRead(s) PROVE NoRowMoves
    BY <1>1, <1>8 DEF ScheduleRead, Start
  <1>9. ASSUME NEW s \in Staff, ScheduleLedger(s) PROVE NoRowMoves
    BY <1>1, <1>9 DEF ScheduleLedger, Goto, Idle
  <1>10. ASSUME NEW s \in Staff, ScheduleFreeze(s) PROVE NoRowMoves
    BY <1>1, <1>10 DEF ScheduleFreeze, Goto, Idle
  <1>11. ASSUME NEW s \in Staff, ScheduleCommit(s) PROVE NoRowMoves
    BY <1>1, <1>11 DEF ScheduleCommit, Finish, Goto, Idle
  <1>12. CASE UNCHANGED vars
    BY <1>12 DEF vars
  <1> QED
    <2> HIDE DEF NoRowMoves
    <2>1. CASE Next
      BY <1>2, <1>3, <1>4, <1>5, <1>6, <1>7, <1>8, <1>9, <1>10, <1>11, <2>1, ApprovalCases, Zenon
    <2> QED
      BY <1>12, <2>1

LEMMA IdsStep ==
  ApprovalTypeOK /\ IdsAreUnique /\ [Next]_vars => IdsAreUnique'
  <1> SUFFICES ASSUME ApprovalTypeOK, IdsAreUnique, [Next]_vars PROVE IdsAreUnique'
    OBVIOUS
  <1>1. ApprovalTypeOK'
    BY ApprovalTypeStep
  <1>2. CASE UNCHANGED <<audiences, approvals, nextId, task>>
    BY <1>2 DEF IdsAreUnique, Pending
  <1>3. CASE NoRowMoves
    <2>1. PICK s \in Staff, t \in Tasks : /\ UNCHANGED <<audiences, approvals, nextId>>
                                          /\ task' = [task EXCEPT ![s] = t]
                                          /\ t.at \notin {"commit", "sign"}
      BY <1>3 DEF NoRowMoves
    <2>2. \A u \in Staff : Pending(u)' => u # s /\ Pending(u) /\ task'[u] = task[u]
      <3>1. \A u \in Staff : task'[u] = IF u = s THEN t ELSE task[u]
        BY <2>1, TaskMoves
      <3> QED
        BY <2>1, <3>1 DEF Pending
    <2> QED
      BY <2>1, <2>2 DEF IdsAreUnique
  <1>4. ASSUME NEW s \in Staff, PrepareOpen(s) \/ ApproveOpen(s) PROVE IdsAreUnique'
    <2>1. PICK t : /\ task' = [task EXCEPT ![s] = t] /\ t.row.id = nextId
      <3>1. CASE PrepareOpen(s)
        <4> DEFINE x == [at |-> "commit", revokes |-> Unrevoked,
                         row |-> [id |-> nextId, key |-> task[s].key, seen |-> task[s].seen,
                                  mark |-> task[s].mark, matter |-> task[s].matter]]
        <4>1. task' = [task EXCEPT ![s] = x] /\ x.row.id = nextId
          BY <3>1 DEF PrepareOpen, Goto
        <4> QED
          BY <4>1
      <3>2. CASE ApproveOpen(s)
        <4> DEFINE x == [at |-> "sign", revokes |-> Unrevoked,
                         row |-> [id |-> nextId, audience |-> task[s].audience.id, by |-> s,
                                  revoked |-> FALSE, content |-> task[s].content,
                                  language |-> task[s].language,
                                  hash |-> ContentHash(task[s].content, task[s].language,
                                                       task[s].audience)]]
        <4>1. task' = [task EXCEPT ![s] = x] /\ x.row.id = nextId
          BY <3>2 DEF ApproveOpen, Goto
        <4> QED
          BY <4>1
      <3> QED
        BY <1>4, <3>1, <3>2
    <2>2. UNCHANGED <<audiences, approvals>> /\ nextId' = nextId + 1 /\ nextId \in Nat
      BY <1>4 DEF PrepareOpen, ApproveOpen, ApprovalTypeOK
    <2>3. \A u \in Staff : task'[u] = IF u = s THEN t ELSE task[u]
      BY <2>1, TaskMoves
    <2>4. \A r \in audiences \union approvals : r.id \in Nat
      BY DEF ApprovalTypeOK, Audiences, Approvals
    <2>5. \A u \in Staff : Pending(u) => task[u].row.id \in Nat
      BY TaskShape DEF Pending, Audiences, Approvals
    <2> QED
      BY <2>1, <2>2, <2>3, <2>4, <2>5 DEF IdsAreUnique, Pending
  <1>5. ASSUME NEW s \in Staff, PrepareCommit(s) \/ ApproveCommit(s) \/ RevokeApproval(s)
        PROVE  IdsAreUnique'
    <2>1. /\ nextId' = nextId
          /\ \A u \in Staff : Pending(u)' => Pending(u) /\ task'[u] = task[u]
      <3>1. CASE RevokeApproval(s)
        BY <3>1 DEF RevokeApproval, Pending
      <3>2. CASE PrepareCommit(s) \/ ApproveCommit(s)
        <4>1. task' = [task EXCEPT ![s] = Idle] /\ nextId' = nextId
          BY <3>2 DEF PrepareCommit, ApproveCommit, Finish, Goto
        <4> QED
          BY <4>1, TaskMoves DEF Pending, Idle
      <3> QED
        BY <1>5, <3>1, <3>2
    <2>2. /\ approvals \subseteq Approvals
          /\ task[s].at = "commit" => Pending(s)
          /\ task[s].at = "sign" => Pending(s)
      BY DEF ApprovalTypeOK, Pending
    <2> DEFINE New == {task[s].row}
    <2>3. \/ audiences' = audiences
          \/ /\ task[s].at = "commit" /\ audiences' = audiences \union New
             /\ \A a \in approvals' : \E b \in approvals : a.id = b.id
      <3>1. \A ids : \A x \in Revoked(ids) : \E a \in approvals : x.id = a.id
        BY <2>2, RevokedRows
      <3> QED
        BY <1>5, <3>1 DEF PrepareCommit, ApproveCommit, RevokeApproval
    <2>4. \/ \E ids : approvals' = Revoked(ids)
          \/ approvals' = approvals
          \/ /\ task[s].at = "sign" /\ audiences' = audiences
             /\ \E ids : approvals' = Revoked(ids) \union New
      BY <1>5 DEF PrepareCommit, ApproveCommit, RevokeApproval
    <2>5. \A ids : \A x, y \in Revoked(ids) : x.id = y.id => x = y
      <3> SUFFICES ASSUME NEW ids, NEW x \in Revoked(ids), NEW y \in Revoked(ids),
                          x.id = y.id
                   PROVE  x = y
        OBVIOUS
      <3> DEFINE R(a) == IF a.id \in ids THEN [a EXCEPT !.revoked = TRUE] ELSE a
      <3>1. PICK a \in approvals, b \in approvals : x = R(a) /\ y = R(b)
        BY DEF Revoked
      <3>2. R(a).id = a.id /\ R(b).id = b.id
        BY <2>2 DEF Approvals
      <3>3. a = b
        BY <3>1, <3>2 DEF IdsAreUnique
      <3> QED
        BY <3>1, <3>3
    <2>6. \A ids : \A x \in Revoked(ids) : \E a \in approvals : x.id = a.id
      BY <2>2, RevokedRows
    <2>7. Pending(s)' => RevokeApproval(s)
      <3>1. ASSUME PrepareCommit(s) \/ ApproveCommit(s) PROVE ~Pending(s)'
        <4>1. task'[s] = Idle
          BY <3>1, TaskMoves DEF PrepareCommit, ApproveCommit, Finish, Goto
        <4> QED
          BY <4>1 DEF Pending, Idle
      <3> QED
        BY <1>5, <3>1
    <2>8. /\ \A r \in (audiences \union approvals)' : r.id < nextId'
          /\ \A f, g \in audiences' : f.id = g.id => f = g
          /\ \A a, b \in approvals' : a.id = b.id => a = b
          /\ \A f \in audiences', a \in approvals' : f.id # a.id
      BY <2>1, <2>2, <2>3, <2>4, <2>5, <2>6 DEF IdsAreUnique
    <2>9. \A u \in Staff : Pending(u)' =>
             /\ task'[u].row.id < nextId'
             /\ \A r \in (audiences \union approvals)' : r.id # task'[u].row.id
             /\ \A v \in Staff \ {u} : Pending(v)' => task'[v].row.id # task'[u].row.id
      <3> SUFFICES ASSUME NEW u \in Staff, Pending(u)'
                   PROVE  /\ task'[u].row.id < nextId'
                          /\ \A r \in (audiences \union approvals)' : r.id # task'[u].row.id
                          /\ \A v \in Staff \ {u} : Pending(v)' =>
                               task'[v].row.id # task'[u].row.id
        OBVIOUS
      <3>1. Pending(u) /\ task'[u] = task[u]
        BY <2>1
      <3>2. \A r \in audiences \union approvals : r.id # task[u].row.id
        BY <3>1 DEF IdsAreUnique
      <3>3. u # s \/ RevokeApproval(s)
        BY <2>7
      <3>4. u # s /\ Pending(s) => task[s].row.id # task[u].row.id
        BY <3>1 DEF IdsAreUnique
      <3>5. CASE RevokeApproval(s)
        <4>1. audiences' = audiences /\ approvals' = Revoked(Unrevoked)
          BY <3>5 DEF RevokeApproval
        <4>2. \A r \in (audiences \union approvals)' : r.id # task'[u].row.id
          BY <2>6, <3>1, <3>2, <4>1
        <4> QED
          BY <2>1, <3>1, <4>2 DEF IdsAreUnique
      <3>6. CASE u # s
        <4>1. \A r \in (audiences \union approvals)' : r.id # task'[u].row.id
          BY <2>2, <2>3, <2>4, <2>6, <3>1, <3>2, <3>4, <3>6
        <4> QED
          BY <2>1, <3>1, <4>1 DEF IdsAreUnique
      <3> QED
        BY <3>3, <3>5, <3>6
    <2> QED
      BY <2>8, <2>9 DEF IdsAreUnique
  <1> QED
    BY <1>1, <1>2, <1>3, <1>4, <1>5, RowFrames

LEMMA SignedStep ==
  ApprovalTypeOK /\ IdsAreUnique /\ ApprovalsAreSigned /\ [Next]_vars => ApprovalsAreSigned'
  <1> SUFFICES ASSUME ApprovalTypeOK, IdsAreUnique, ApprovalsAreSigned, [Next]_vars
               PROVE  ApprovalsAreSigned'
    OBVIOUS
  <1>1. ApprovalTypeOK'
    BY ApprovalTypeStep
  <1>2. CASE UNCHANGED <<audiences, approvals, nextId, task>>
    BY <1>2 DEF ApprovalsAreSigned, Signed
  <1>3. CASE NoRowMoves
    <2>1. PICK s \in Staff, t \in Tasks : /\ UNCHANGED <<audiences, approvals, nextId>>
                                          /\ task' = [task EXCEPT ![s] = t]
                                          /\ t.at \notin {"commit", "sign"}
                                          /\ t.at = "approve" => t.audience \in audiences
      BY <1>3 DEF NoRowMoves
    <2>2. \A u \in Staff : task'[u] = IF u = s THEN t ELSE task[u]
      BY <2>1, TaskMoves, Zenon
    <2> QED
      <3>1. \A x : Signed(x) => Signed(x)'
        BY <2>1 DEF Signed
      <3> HIDE DEF Signed
      <3>2. \A u \in Staff : /\ task'[u].at = "approve" => task'[u].audience \in audiences
                             /\ task'[u].at = "sign" => Signed(task'[u].row)
        BY <2>1, <2>2 DEF ApprovalsAreSigned
      <3> QED
        BY <2>1, <3>2 DEF ApprovalsAreSigned, Signed
  <1>4. ASSUME NEW s \in Staff, PrepareOpen(s) PROVE ApprovalsAreSigned'
    <2>1. UNCHANGED <<audiences, approvals>>
      BY <1>4 DEF PrepareOpen
    <2>2. task'[s].at = "commit" /\ \A u \in Staff \ {s} : task'[u] = task[u]
      BY <1>4 DEF PrepareOpen, Goto, ApprovalTypeOK
    <2> QED
      BY <2>1, <2>2 DEF ApprovalsAreSigned, Signed
  <1>5. ASSUME NEW s \in Staff, ApproveOpen(s) PROVE ApprovalsAreSigned'
    <2> DEFINE f == task[s].audience
               r == [id |-> nextId, audience |-> f.id, by |-> s, revoked |-> FALSE,
                     content |-> task[s].content, language |-> task[s].language,
                     hash |-> ContentHash(task[s].content, task[s].language, f)]
               t == [at |-> "sign", revokes |-> Unrevoked, row |-> r]
    <2>1. task' = [task EXCEPT ![s] = t] /\ UNCHANGED <<audiences, approvals>>
      BY <1>5 DEF ApproveOpen, Goto
    <2>2. \A u \in Staff : task'[u] = IF u = s THEN t ELSE task[u]
      BY <2>1, TaskMoves, Zenon
    <2>3. f \in audiences
      BY <1>5 DEF ApproveOpen, ApprovalsAreSigned
    <2>4. Signed(r)
      BY <2>3 DEF Signed
    <2> QED
      BY <2>1, <2>2, <2>4 DEF ApprovalsAreSigned, Signed
  <1>6. ASSUME NEW s \in Staff, PrepareCommit(s) \/ ApproveCommit(s) \/ RevokeApproval(s)
        PROVE  ApprovalsAreSigned'
    <2>1. audiences \subseteq audiences'
      BY <1>6 DEF PrepareCommit, ApproveCommit, RevokeApproval
    <2>2. \A u \in Staff : task'[u] = task[u] \/ task'[u] = Idle
      BY <1>6, TaskMoves DEF PrepareCommit, ApproveCommit, RevokeApproval, Finish, Goto
    <2>3. \A ids, x : x \in Revoked(ids) => Signed(x)
      <3>1. approvals \subseteq Approvals
        BY DEF ApprovalTypeOK
      <3> QED
        BY <3>1, RevokedRows DEF ApprovalsAreSigned, Signed
    <2>4. \A x \in approvals' : Signed(x)
      BY <1>6, <2>3 DEF PrepareCommit, ApproveCommit, RevokeApproval, ApprovalsAreSigned
    <2>5. \A x : Signed(x) => Signed(x)'
      BY <2>1 DEF Signed
    <2>6. \A x \in approvals' : \E f \in audiences' : /\ f.id = x.audience
                                                      /\ x.hash = ContentHash(x.content, x.language, f)
      BY <2>1, <2>4 DEF Signed
    <2>7. \A u \in Staff : /\ task'[u].at = "approve" => task'[u].audience \in audiences'
                           /\ task'[u].at = "sign" =>
                                \E f \in audiences' :
                                  /\ f.id = task'[u].row.audience
                                  /\ task'[u].row.hash =
                                       ContentHash(task'[u].row.content, task'[u].row.language, f)
      BY <2>1, <2>2 DEF ApprovalsAreSigned, Signed, Idle
    <2> QED
      BY <2>6, <2>7, Zenon DEF ApprovalsAreSigned, Signed
  <1> QED
    BY <1>1, <1>2, <1>3, <1>4, <1>5, <1>6, RowFrames

\* What the watermark fingerprints moves with it only.
LEMMA CurrentMoves ==
  ASSUME ApprovalTypeOK, Next
  PROVE  \/ /\ stamp' = stamp + 1 /\ UNCHANGED <<audiences, approvals, task>>
         \/ /\ stamp' = stamp /\ UNCHANGED <<rules, facts>>
            /\ campaign'.segment = campaign.segment /\ campaign'.language = campaign.language
  <1>1. ASSUME \/ \E p \in People, f \in Facts : PersonChanges(p, f)
               \/ \E seg \in Segments, c \in Criteria : SegmentEdited(seg, c)
               \/ \E l \in {"HE", "AR"}, c \in Contents : EditDetails(l, c)
               \/ \E seg \in Segments \cup {NoSegment} : SetCampaignSegment(seg)
        PROVE  stamp' = stamp + 1 /\ UNCHANGED <<audiences, approvals, task>>
    BY <1>1 DEF PersonChanges, SegmentEdited, EditDetails, SetCampaignSegment, Bump
  <1> DEFINE Still == /\ stamp' = stamp /\ UNCHANGED <<rules, facts>>
                      /\ campaign'.segment = campaign.segment
                      /\ campaign'.language = campaign.language
  <1>2. ASSUME NEW c \in Contents, ArticleEdited(c) PROVE Still
    BY <1>2 DEF ArticleEdited, ApprovalTypeOK
  <1>3. ASSUME NEW s \in Staff, ScheduleCommit(s) PROVE Still
    <2>1. campaign' = campaign \/
          campaign' = [campaign EXCEPT !.status = "SCHEDULED", !.frozen = task[s].content,
                                       !.approval = task[s].approval]
      BY <1>3 DEF ScheduleCommit
    <2> QED
      BY <1>3, <2>1 DEF ScheduleCommit, ApprovalTypeOK
  <1>4. ASSUME \/ \E s \in Staff : RoleChanges(s)
               \/ \E s \in Staff, key \in Keys : PrepareStart(s, key)
        PROVE  Still
    BY <1>4 DEF RoleChanges, PrepareStart
  <1>5. ASSUME NEW s \in Staff,
               \/ PrepareResolve(s) \/ PrepareMark(s) \/ PrepareOpen(s) \/ PrepareCommit(s)
               \/ ApproveRead(s) \/ ApproveReview(s) \/ ApproveOpen(s)
        PROVE  Still
    BY <1>5 DEF PrepareResolve, PrepareMark, PrepareOpen, PrepareCommit, ApproveRead,
                ApproveReview, ApproveOpen
  <1>6. ASSUME NEW s \in Staff,
               \/ ApproveCommit(s) \/ RevokeApproval(s) \/ ScheduleRead(s)
               \/ ScheduleLedger(s) \/ ScheduleFreeze(s)
        PROVE  Still
    BY <1>6 DEF ApproveCommit, RevokeApproval, ScheduleRead, ScheduleLedger, ScheduleFreeze
  <1> HIDE DEF Still
  <1>7. (stamp' = stamp + 1 /\ UNCHANGED <<audiences, approvals, task>>) \/ Still
    BY <1>1, <1>2, <1>3, <1>4, <1>5, <1>6, ApprovalCases, Zenon
  <1> QED
    BY <1>7 DEF Still

\* What is claimed of one call in flight.
FreshTask(t) ==
    /\ t.at \in {"resolve", "mark", "open"} => t.seen <= stamp
    /\ t.at = "resolve" /\ t.seen = stamp =>
         /\ campaign.segment = t.segment /\ rules[t.segment] = t.criteria
         /\ campaign.language = t.language
    /\ t.at = "mark" /\ t.seen = stamp => t.matter = Current
    /\ t.at = "open" => FreshAs(t)
    /\ t.at = "commit" => FreshAs(t.row)

\* A call that begins or goes on while the watermark stands still.
LEMMA FreshMoves ==
  ASSUME ApprovalTypeOK, PreparationsAreFresh, Next, stamp' = stamp, Current' = Current
  PROVE  \/ /\ UNCHANGED <<audiences, task>>
         \/ \E s \in Staff :
              /\ \A u \in Staff \ {s} : task'[u] = task[u]
              /\ FreshTask(task'[s])
              /\ audiences' = audiences \/ /\ task[s].at = "commit"
                                           /\ audiences' = audiences \union {task[s].row}
  <1> DEFINE On(s) == /\ \A u \in Staff \ {s} : task'[u] = task[u]
                      /\ FreshTask(task'[s])
                      /\ audiences' = audiences \/ /\ task[s].at = "commit"
                                                   /\ audiences' = audiences \union {task[s].row}
  <1>1. \A s \in Staff : FreshTask(task[s])
    BY DEF PreparationsAreFresh, FreshTask
  <1>2. ASSUME \/ \E p \in People, f \in Facts : PersonChanges(p, f)
               \/ \E seg \in Segments, c \in Criteria : SegmentEdited(seg, c)
               \/ \E l \in {"HE", "AR"}, c \in Contents : EditDetails(l, c)
               \/ \E seg \in Segments \cup {NoSegment} : SetCampaignSegment(seg)
               \/ \E c \in Contents : ArticleEdited(c)
               \/ \E s \in Staff : RoleChanges(s)
        PROVE  UNCHANGED <<audiences, task>>
    BY <1>2 DEF PersonChanges, SegmentEdited, EditDetails, SetCampaignSegment, ArticleEdited,
                RoleChanges
  <1>3. ASSUME NEW s \in Staff, NEW key \in Keys, PrepareStart(s, key) PROVE On(s)
    <2>1. /\ task'[s] = [at |-> "resolve", key |-> key, seen |-> stamp,
                         segment |-> campaign.segment,
                         criteria |-> rules[campaign.segment], language |-> campaign.language]
          /\ \A u \in Staff \ {s} : task'[u] = task[u]
      BY <1>3 DEF PrepareStart, Start, ApprovalTypeOK
    <2>2. stamp \in Nat /\ audiences' = audiences
      BY <1>3 DEF PrepareStart, ApprovalTypeOK
    <2>3. FreshTask(task'[s])
      BY <2>1, <2>2 DEF FreshTask
    <2> QED
      BY <2>1, <2>2, <2>3
  <1>4. ASSUME NEW s \in Staff, PrepareResolve(s) PROVE On(s)
    <2> DEFINE m == Resolve(task[s].segment, task[s].criteria, task[s].language)
    <2>1. /\ task'[s] = [at |-> "mark", key |-> task[s].key, seen |-> task[s].seen, matter |-> m]
          /\ \A u \in Staff \ {s} : task'[u] = task[u]
          /\ task[s].at = "resolve" /\ audiences' = audiences
      BY <1>4 DEF PrepareResolve, Goto, ApprovalTypeOK
    <2>2. task[s].seen <= stamp
      BY <1>1, <2>1 DEF FreshTask
    <2>3. task[s].seen = stamp => m = Current
      <3>1. task[s].segment \in Segments
        BY <2>1, TaskShape
      <3> QED
        BY <1>1, <2>1, <3>1, ApprovalAssumption DEF FreshTask, Current
    <2>4. FreshTask(task'[s])
      <3> HIDE DEF m
      <3> QED
        BY <2>1, <2>2, <2>3 DEF FreshTask
    <2> QED
      BY <2>1, <2>4
  <1>5. ASSUME NEW s \in Staff, PrepareMark(s) PROVE On(s)
    <2>1. /\ task'[s] = [at |-> "open", key |-> task[s].key, seen |-> task[s].seen,
                         matter |-> task[s].matter, mark |-> stamp]
          /\ \A u \in Staff \ {s} : task'[u] = task[u]
          /\ task[s].at = "mark" /\ audiences' = audiences
      BY <1>5 DEF PrepareMark, Goto, ApprovalTypeOK, Watermark
    <2>2. task[s].seen <= stamp /\ (task[s].seen = stamp => task[s].matter = Current)
      BY <1>1, <2>1 DEF FreshTask
    <2>3. FreshTask(task'[s])
      BY <2>1, <2>2 DEF FreshTask, FreshAs, ApprovalTypeOK
    <2> QED
      BY <2>1, <2>3
  <1>6. ASSUME NEW s \in Staff, PrepareOpen(s) PROVE On(s)
    <2> DEFINE r == [id |-> nextId, key |-> task[s].key, seen |-> task[s].seen,
                     mark |-> task[s].mark, matter |-> task[s].matter]
    <2>1. /\ task'[s] = [at |-> "commit", revokes |-> Unrevoked, row |-> r]
          /\ \A u \in Staff \ {s} : task'[u] = task[u]
          /\ task[s].at = "open" /\ audiences' = audiences
      BY <1>6 DEF PrepareOpen, Goto, ApprovalTypeOK
    <2>2. FreshAs(task[s])
      BY <1>1, <2>1 DEF FreshTask
    <2>3. FreshAs(r)
      BY <2>2 DEF FreshAs
    <2>4. FreshTask(task'[s])
      <3> HIDE DEF r
      <3> QED
        BY <2>1, <2>3 DEF FreshTask
    <2> QED
      BY <2>1, <2>4
  <1>7. ASSUME NEW s \in Staff, PrepareCommit(s) PROVE On(s)
    <2>1. task'[s] = Idle /\ \A u \in Staff \ {s} : task'[u] = task[u]
      BY <1>7 DEF PrepareCommit, Finish, Goto, ApprovalTypeOK
    <2>2. audiences' = audiences \/ /\ task[s].at = "commit"
                                    /\ audiences' = audiences \union {task[s].row}
      BY <1>7 DEF PrepareCommit
    <2> QED
      BY <2>1, <2>2 DEF FreshTask, Idle
  <1> DEFINE Apart(s) == /\ \A u \in Staff \ {s} : task'[u] = task[u]
                         /\ task'[s].at \notin {"resolve", "mark", "open", "commit"}
                         /\ audiences' = audiences
  <1>8. \A s \in Staff : Apart(s) => On(s)
    BY DEF FreshTask
  <1>9. ASSUME NEW s \in Staff, ApproveRead(s) \/ ApproveOpen(s) PROVE Apart(s)
    BY <1>9 DEF ApproveRead, ApproveOpen, Start, Goto, ApprovalTypeOK
  <1>10. ASSUME NEW s \in Staff, ApproveReview(s) PROVE Apart(s)
    <2>1. audiences' = audiences /\ \A u \in Staff \ {s} : task'[u] = task[u]
      BY <1>10 DEF ApproveReview, Goto, ApprovalTypeOK
    <2>2. task'[s].at \in {"idle", "approve"}
      BY <1>10 DEF ApproveReview, Goto, ApprovalTypeOK, Idle
    <2> QED
      BY <2>1, <2>2
  <1>11. ASSUME NEW s \in Staff, ApproveCommit(s) \/ ScheduleRead(s) PROVE Apart(s)
    BY <1>11 DEF ApproveCommit, ScheduleRead, Finish, Start, Goto, Idle, ApprovalTypeOK
  <1>12. ASSUME NEW s \in Staff, ScheduleLedger(s) PROVE Apart(s)
    BY <1>12 DEF ScheduleLedger, Goto, Idle, ApprovalTypeOK
  <1>13. ASSUME NEW s \in Staff, ScheduleFreeze(s) \/ ScheduleCommit(s) PROVE Apart(s)
    BY <1>13 DEF ScheduleFreeze, ScheduleCommit, Goto, Finish, Idle, ApprovalTypeOK
  <1>14. ASSUME NEW s \in Staff, RevokeApproval(s) PROVE UNCHANGED <<audiences, task>>
    BY <1>14 DEF RevokeApproval
  <1> HIDE DEF On, Apart
  <1>15. UNCHANGED <<audiences, task>> \/ \E s \in Staff : On(s)
    BY <1>2, <1>3, <1>4, <1>5, <1>6, <1>7, <1>8, <1>9, <1>10, <1>11, <1>12, <1>13, <1>14,
       ApprovalCases, Zenon
  <1> QED
    BY <1>15 DEF On

LEMMA FreshStep ==
  ApprovalTypeOK /\ PreparationsAreFresh /\ [Next]_vars => PreparationsAreFresh'
  <1> SUFFICES ASSUME ApprovalTypeOK, PreparationsAreFresh, [Next]_vars
               PROVE  PreparationsAreFresh'
    OBVIOUS
  <1>1. /\ \A f \in audiences : FreshAs(f)
        /\ \A s \in Staff : FreshTask(task[s])
    BY DEF PreparationsAreFresh, FreshTask
  <1>2. SUFFICES /\ \A f \in audiences' : FreshAs(f)'
                 /\ \A s \in Staff : FreshTask(task[s])'
    BY DEF PreparationsAreFresh, FreshTask
  <1>3. CASE stamp' = stamp + 1 /\ UNCHANGED <<audiences, task>>
    <2>1. stamp \in Nat /\ \A f \in audiences : f.seen \in Nat /\ f.mark \in Nat
      BY DEF ApprovalTypeOK, Audiences
    <2>2. \A f : FreshAs(f) /\ f.seen \in Nat /\ f.mark \in Nat => FreshAs(f)'
      BY <1>3, <2>1 DEF FreshAs
    <2>3. ASSUME NEW s \in Staff PROVE FreshTask(task[s])'
      <3>1. /\ task[s].at \in {"resolve", "mark", "open"} => task[s].seen \in Nat
            /\ task[s].at = "open" => task[s].mark \in Nat
            /\ task[s].at = "commit" => task[s].row.seen \in Nat /\ task[s].row.mark \in Nat
        BY TaskShape DEF Audiences
      <3>2. FreshTask(task[s])
        BY <1>1
      <3>3. task'[s] = task[s]
        BY <1>3
      <3> QED
        BY <1>3, <2>1, <2>2, <3>1, <3>2, <3>3 DEF FreshTask
    <2> QED
      BY <1>1, <1>3, <2>1, <2>2, <2>3
  <1>4. CASE UNCHANGED <<stamp, rules, campaign.segment, campaign.language, facts>> /\ Next
    <2>1. Current' = Current
      BY <1>4 DEF Current, Resolve
    <2>2. /\ \A f : FreshAs(f)' <=> FreshAs(f)
          /\ \A t : FreshTask(t)' <=> FreshTask(t)
      BY <1>4, <2>1 DEF FreshAs, FreshTask
    <2>3. \A s \in Staff : task[s].at = "commit" => FreshAs(task[s].row)
      BY <1>1 DEF FreshTask
    <2>4. CASE UNCHANGED <<audiences, task>>
      BY <1>1, <2>2, <2>4
    <2>5. ASSUME NEW s \in Staff,
                 \A u \in Staff \ {s} : task'[u] = task[u],
                 FreshTask(task'[s]),
                 audiences' = audiences \/ /\ task[s].at = "commit"
                                           /\ audiences' = audiences \union {task[s].row}
          PROVE  /\ \A f \in audiences' : FreshAs(f)'
                 /\ \A u \in Staff : FreshTask(task[u])'
      <3>1. \A f \in audiences' : FreshAs(f)
        BY <1>1, <2>3, <2>5
      <3>2. \A u \in Staff : FreshTask(task'[u])
        BY <1>1, <2>5
      <3> QED
        BY <2>2, <3>1, <3>2
    <2> QED
      BY <1>4, <2>1, <2>4, <2>5, FreshMoves
  <1>5. CASE UNCHANGED vars
    BY <1>1, <1>5 DEF vars, FreshAs, FreshTask, Current, Resolve
  <1> QED
    BY <1>3, <1>4, <1>5, CurrentMoves

\* An approval goes on as it was signed, or is revoked.
Kept(a, b) == /\ b.id = a.id /\ b.audience = a.audience /\ b.by = a.by
              /\ b.content = a.content /\ b.language = a.language /\ b.hash = a.hash
              /\ a.revoked => b.revoked

\* Rows of audiences and approvals stay.
LEMMA RowsStay ==
  ASSUME ApprovalTypeOK, [Next]_vars
  PROVE  /\ audiences \subseteq audiences'
         /\ \A a \in approvals : \E b \in approvals' : Kept(a, b)
  <1>1. \A ids : \A a \in approvals : \E b \in Revoked(ids) : Kept(a, b)
    BY RevokedRows DEF Kept, ApprovalTypeOK
  <1>2. \A a \in approvals : \E b \in approvals : Kept(a, b)
    BY DEF Kept
  <1> DEFINE Stay == /\ audiences \subseteq audiences'
                     /\ \A a \in approvals : \E b \in approvals' : Kept(a, b)
  <1>3. ASSUME UNCHANGED <<audiences, approvals>> PROVE Stay
    BY <1>2, <1>3
  <1> HIDE DEF Kept
  <1>4. ASSUME NEW s \in Staff, PrepareCommit(s) PROVE Stay
    <2>1. CASE UNCHANGED <<audiences, approvals>>
      BY <1>3, <2>1
    <2>2. CASE audiences' = audiences \union {task[s].row} /\ approvals' = Revoked(task[s].revokes)
      BY <1>1, <2>2
    <2> QED
      BY <1>4, <2>1, <2>2 DEF PrepareCommit
  <1>5. ASSUME NEW s \in Staff, ApproveCommit(s) PROVE Stay
    <2>1. audiences' = audiences /\ approvals' = Revoked(task[s].revokes) \union {task[s].row}
      BY <1>5 DEF ApproveCommit
    <2>2. \A a \in approvals : \E b \in Revoked(task[s].revokes) : Kept(a, b)
      BY <1>1
    <2> QED
      BY <2>1, <2>2
  <1>6. ASSUME NEW s \in Staff, RevokeApproval(s) PROVE Stay
    <2>1. audiences' = audiences /\ approvals' = Revoked(Unrevoked)
      BY <1>6 DEF RevokeApproval
    <2> QED
      BY <1>1, <2>1
  <1>7. ASSUME \/ \E p \in People, f \in Facts : PersonChanges(p, f)
               \/ \E seg \in Segments, c \in Criteria : SegmentEdited(seg, c)
               \/ \E l \in {"HE", "AR"}, c \in Contents : EditDetails(l, c)
               \/ \E seg \in Segments \cup {NoSegment} : SetCampaignSegment(seg)
               \/ \E c \in Contents : ArticleEdited(c)
               \/ \E s \in Staff : RoleChanges(s)
               \/ \E s \in Staff, key \in Keys : PrepareStart(s, key)
        PROVE  UNCHANGED <<audiences, approvals>>
    BY <1>7 DEF PersonChanges, SegmentEdited, EditDetails, SetCampaignSegment, ArticleEdited,
                RoleChanges, PrepareStart
  <1>8. ASSUME NEW s \in Staff,
               \/ PrepareResolve(s) \/ PrepareMark(s) \/ PrepareOpen(s)
               \/ ApproveRead(s) \/ ApproveReview(s) \/ ApproveOpen(s)
               \/ ScheduleRead(s) \/ ScheduleLedger(s) \/ ScheduleFreeze(s) \/ ScheduleCommit(s)
        PROVE  UNCHANGED <<audiences, approvals>>
    BY <1>8 DEF PrepareResolve, PrepareMark, PrepareOpen, ApproveRead, ApproveReview,
                ApproveOpen, ScheduleRead, ScheduleLedger, ScheduleFreeze, ScheduleCommit
  <1>9. ASSUME UNCHANGED vars PROVE UNCHANGED <<audiences, approvals>>
    BY <1>9 DEF vars
  <1> HIDE DEF Stay
  <1>10. Stay
    BY <1>3, <1>4, <1>5, <1>6, <1>7, <1>8, <1>9, ApprovalCases, Zenon
  <1> QED
    BY <1>10 DEF Stay

Scheduling == {"ledger", "freeze", "schedule"}

\* Only a scheduling call writes the ledger, or moves a call to a scheduling step.
LEMMA ScheduleFrames ==
  ASSUME ApprovalTypeOK, [Next]_vars
  PROVE  \/ /\ ledger' = ledger
            /\ \A u \in Staff : task'[u] = task[u] \/ task'[u].at \notin Scheduling
         \/ \E s \in Staff : ScheduleRead(s) \/ ScheduleLedger(s) \/ ScheduleFreeze(s)
  <1> DEFINE Aside == /\ ledger' = ledger
                      /\ \A u \in Staff : task'[u] = task[u] \/ task'[u].at \notin Scheduling
  <1>1. ASSUME \/ \E p \in People, f \in Facts : PersonChanges(p, f)
               \/ \E seg \in Segments, c \in Criteria : SegmentEdited(seg, c)
               \/ \E l \in {"HE", "AR"}, c \in Contents : EditDetails(l, c)
               \/ \E seg \in Segments \cup {NoSegment} : SetCampaignSegment(seg)
               \/ \E c \in Contents : ArticleEdited(c)
               \/ \E s \in Staff : RoleChanges(s)
        PROVE  Aside
    BY <1>1 DEF PersonChanges, SegmentEdited, EditDetails, SetCampaignSegment, ArticleEdited,
                RoleChanges
  <1>2. ASSUME NEW s \in Staff, NEW key \in Keys, PrepareStart(s, key) PROVE Aside
    BY <1>2 DEF PrepareStart, Start, Scheduling, ApprovalTypeOK
  <1>3. ASSUME NEW s \in Staff, PrepareResolve(s) \/ PrepareMark(s) \/ PrepareOpen(s) PROVE Aside
    BY <1>3 DEF PrepareResolve, PrepareMark, PrepareOpen, Goto, Scheduling, ApprovalTypeOK
  <1>4. ASSUME NEW s \in Staff, ApproveRead(s) \/ ApproveOpen(s) PROVE Aside
    BY <1>4 DEF ApproveRead, ApproveOpen, Start, Goto, Scheduling, ApprovalTypeOK
  <1>5. ASSUME NEW s \in Staff, ApproveReview(s) PROVE Aside
    <2>1. ledger' = ledger /\ \A u \in Staff \ {s} : task'[u] = task[u]
      BY <1>5 DEF ApproveReview, Goto, ApprovalTypeOK
    <2>2. task'[s].at \in {"idle", "approve"}
      BY <1>5 DEF ApproveReview, Goto, ApprovalTypeOK, Idle
    <2> QED
      BY <2>1, <2>2 DEF Scheduling
  <1>6. ASSUME NEW s \in Staff,
               PrepareCommit(s) \/ ApproveCommit(s) \/ RevokeApproval(s) \/ ScheduleCommit(s)
        PROVE  Aside
    <2>1. ledger' = ledger /\ (task' = task \/ task' = [task EXCEPT ![s] = Idle])
      BY <1>6 DEF PrepareCommit, ApproveCommit, RevokeApproval, ScheduleCommit, Finish, Goto
    <2> QED
      BY <2>1 DEF Scheduling, Idle, ApprovalTypeOK
  <1>7. ASSUME UNCHANGED vars PROVE Aside
    BY <1>7 DEF vars
  <1> HIDE DEF Aside
  <1>8. Aside \/ \E s \in Staff : ScheduleRead(s) \/ ScheduleLedger(s) \/ ScheduleFreeze(s)
    BY <1>1, <1>2, <1>3, <1>4, <1>5, <1>6, <1>7, ApprovalCases, Zenon
  <1> QED
    BY <1>8 DEF Aside

\* What is claimed of one scheduling in flight, and of one address in the ledger.
CheckedTask(t) ==
    t.at \in Scheduling =>
      \E a \in approvals, f \in audiences :
        /\ a.id = t.approval /\ f.id = t.audience /\ Checked(a, f)
        /\ t.at # "ledger" =>
             \/ \A p \in Destinations(f.matter) : ledger[p] # 0
             \/ \E g \in audiences : g.id > f.id
InAudience(p) == \E f \in audiences : f.id = ledger[p] /\ p \in Destinations(f.matter)

\* A valid approval: what Readiness says of the newest rows.
LEMMA ValidRows ==
  ASSUME ApprovalTypeOK, IdsAreUnique, ApprovalsAreSigned, Readiness.valid
  PROVE  LET a == Readiness.approval
             f == Readiness.frozen
         IN /\ a \in approvals /\ f \in audiences
            /\ \A g \in audiences : g.id <= f.id
            /\ a.audience = f.id /\ ~a.revoked /\ ~Stale(f)
            /\ a.content = Rendered(campaign) /\ a.language = campaign.language
  <1> DEFINE a == Newest(approvals)
             f == Newest(audiences)
  <1>1. Readiness.approval = a /\ Readiness.frozen = f
    BY DEF Readiness
  <1>2. CheckApproval(a, f) /\ ~Stale(f)
    BY DEF Readiness
  <1>3. /\ a # NoRow /\ f # NoRow /\ ~a.revoked /\ a.audience = f.id
        /\ a.hash = ContentHash(Rendered(campaign), campaign.language, f)
    BY <1>2 DEF CheckApproval
  <1>4. a \in approvals /\ f \in audiences /\ \A g \in audiences : g.id <= f.id
    BY <1>3, NewestAudience, NewestApproval
  <1>5. PICK g \in audiences : a.hash = ContentHash(a.content, a.language, g)
    BY <1>4 DEF ApprovalsAreSigned, Signed
  <1>6. a.content = Rendered(campaign) /\ a.language = campaign.language
    <2> HIDE DEF a, f
    <2> QED
      BY <1>3, <1>5 DEF ContentHash
  <1> HIDE DEF a, f
  <1> QED
    BY <1>1, <1>2, <1>3, <1>4, <1>6

\* The audience a valid approval stands for was resolved in its language.
LEMMA ValidLanguage ==
  ASSUME ApprovalTypeOK, IdsAreUnique, ApprovalsAreSigned, PreparationsAreFresh,
         Readiness.valid, campaign.segment # NoSegment
  PROVE  \/ Readiness.frozen.matter.language = campaign.language
         \/ Readiness.frozen.seen # Readiness.frozen.mark
  <1> DEFINE f == Readiness.frozen
  <1>1. f \in audiences /\ ~Stale(f) /\ f # NoRow
    <2>1. f \in audiences /\ ~Stale(f)
      BY ValidRows
    <2>2. f # NoRow
      BY <2>1 DEF NoRow, ApprovalTypeOK, Audiences
    <2> QED
      BY <2>1, <2>2
  <1>2. Current.language = campaign.language
    BY DEF Current, Resolve
  <1>3. f.mark # stamp => f.matter.language = Current.language
    BY <1>1 DEF Stale, Watermark
  <1>4. f.mark = stamp /\ f.seen = f.mark => f.matter = Current
    BY <1>1 DEF PreparationsAreFresh, FreshAs
  <1> HIDE DEF f
  <1>5. f.matter.language = campaign.language \/ f.seen # f.mark
    BY <1>2, <1>3, <1>4
  <1> QED
    BY <1>5 DEF f

LEMMA CheckedStep ==
  ASSUME ApprovalTypeOK, IdsAreUnique, ApprovalsAreSigned, PreparationsAreFresh,
         SchedulingsAreChecked, [Next]_vars
  PROVE  SchedulingsAreChecked'
  <1>1. /\ \A p \in People : ledger[p] # 0 => InAudience(p)
        /\ \A s \in Staff : CheckedTask(task[s])
    BY DEF SchedulingsAreChecked, InAudience, CheckedTask, Scheduling
  <1>2. SUFFICES /\ \A p \in People : ledger'[p] # 0 => InAudience(p)'
                 /\ \A s \in Staff : CheckedTask(task[s])'
    BY DEF SchedulingsAreChecked, InAudience, CheckedTask, Scheduling
  <1>3. /\ audiences \subseteq audiences'
        /\ \A a \in approvals : \E b \in approvals' : Kept(a, b)
    BY RowsStay
  <1>4. ASSUME NEW t, CheckedTask(t), \A p \in People : ledger[p] # 0 => ledger'[p] # 0
        PROVE  CheckedTask(t)'
    <2>1. SUFFICES ASSUME t.at \in Scheduling PROVE CheckedTask(t)'
      BY DEF CheckedTask
    <2>2. PICK a \in approvals, f \in audiences :
            /\ a.id = t.approval /\ f.id = t.audience /\ Checked(a, f)
            /\ t.at # "ledger" =>
                 \/ \A p \in Destinations(f.matter) : ledger[p] # 0
                 \/ \E g \in audiences : g.id > f.id
      BY <1>4, <2>1 DEF CheckedTask
    <2>3. PICK b \in approvals' : Kept(a, b)
      BY <1>3
    <2>4. f \in audiences' /\ b.id = t.approval /\ Checked(b, f)
      BY <1>3, <2>2, <2>3 DEF Kept, Checked
    <2>5. Destinations(f.matter) \subseteq People
      BY DestinationsAreFacts DEF ApprovalTypeOK, Audiences
    <2>6. t.at # "ledger" => \/ \A p \in Destinations(f.matter) : ledger'[p] # 0
                             \/ \E g \in audiences' : g.id > f.id
      BY <1>3, <1>4, <2>2, <2>5
    <2> QED
      BY <2>2, <2>4, <2>6 DEF CheckedTask, Checked
  <1>5. CASE /\ ledger' = ledger
             /\ \A u \in Staff : task'[u] = task[u] \/ task'[u].at \notin Scheduling
    <2>1. \A p \in People : ledger'[p] # 0 => InAudience(p)'
      BY <1>1, <1>3, <1>5 DEF InAudience
    <2>2. ASSUME NEW u \in Staff PROVE CheckedTask(task[u])'
      <3>1. CASE task'[u] = task[u]
        <4>1. CheckedTask(task[u])
          BY <1>1
        <4> DEFINE t == task[u]
        <4> HIDE DEF t
        <4> QED
          BY <1>4, <1>5, <3>1, <4>1 DEF t, CheckedTask
      <3>2. CASE task'[u].at \notin Scheduling
        BY <3>2 DEF CheckedTask, Scheduling
      <3> QED
        BY <1>5, <3>1, <3>2
    <2> QED
      BY <2>1, <2>2
  <1>6. ASSUME NEW s \in Staff, ScheduleRead(s)
        PROVE  /\ \A p \in People : ledger'[p] # 0 => InAudience(p)'
               /\ \A u \in Staff : CheckedTask(task[u])'
    <2> DEFINE a == Readiness.approval
               f == Readiness.frozen
    <2>1. /\ Readiness.valid /\ Readiness.complete
          /\ \A p \in Destinations(f.matter) : f.matter.facts[p].granted
          /\ UNCHANGED <<campaign, audiences, approvals, ledger>>
      BY <1>6 DEF ScheduleRead
    <2>2. /\ task'[s] = [at |-> "ledger", approval |-> a.id, audience |-> f.id]
          /\ \A u \in Staff \ {s} : task'[u] = task[u]
      BY <1>6 DEF ScheduleRead, Start, ApprovalTypeOK
    <2>3. campaign.segment # NoSegment /\ Destinations(f.matter) # {}
      BY <2>1 DEF Readiness, PreparationComplete, AudienceBlocked
    <2>4. /\ a \in approvals /\ f \in audiences /\ a.audience = f.id
          /\ a.language = campaign.language
      BY <2>1, ValidRows
    <2>5. f.matter.language = campaign.language \/ f.seen # f.mark
      BY <2>1, <2>3, ValidLanguage
    <2> HIDE DEF a, f
    <2>6. Checked(a, f)
      BY <2>1, <2>3, <2>4, <2>5 DEF Checked
    <2>7. CheckedTask(task'[s])
      BY <2>2, <2>4, <2>6 DEF CheckedTask, Scheduling
    <2>8. \A u \in Staff : CheckedTask(task'[u])
      BY <1>1, <2>2, <2>7
    <2> QED
      BY <1>1, <2>1, <2>8 DEF CheckedTask, InAudience
  <1>7. ASSUME NEW s \in Staff, ScheduleFreeze(s)
        PROVE  /\ \A p \in People : ledger'[p] # 0 => InAudience(p)'
               /\ \A u \in Staff : CheckedTask(task[u])'
    <2>1. /\ task[s].at = "freeze" /\ UNCHANGED <<audiences, approvals, ledger>>
          /\ \A u \in Staff \ {s} : task'[u] = task[u]
      BY <1>7 DEF ScheduleFreeze, Goto, ApprovalTypeOK
    <2>2. \/ task'[s] = Idle
          \/ task'[s] = [at |-> "schedule", approval |-> task[s].approval,
                         audience |-> task[s].audience,
                         content |-> Rendered(campaign), mark |-> Watermark]
      BY <1>7 DEF ScheduleFreeze, Goto, ApprovalTypeOK
    <2>3. CheckedTask(task[s])
      BY <1>1
    <2>4. CheckedTask(task'[s])
      BY <2>1, <2>2, <2>3 DEF CheckedTask, Scheduling, Idle
    <2>5. \A u \in Staff : CheckedTask(task'[u])
      BY <1>1, <2>1, <2>4
    <2> QED
      BY <1>1, <2>1, <2>5 DEF CheckedTask, InAudience
  <1>8. ASSUME NEW s \in Staff, ScheduleLedger(s)
        PROVE  /\ \A p \in People : ledger'[p] # 0 => InAudience(p)'
               /\ \A u \in Staff : CheckedTask(task[u])'
    <2> DEFINE f == Readiness.frozen
               fit == Readiness.valid /\ FourEyes(Readiness.approval.by)
    <2>1. /\ task[s].at = "ledger" /\ UNCHANGED <<audiences, approvals>>
          /\ ledger' = [p \in People |-> IF fit /\ p \in Destinations(f.matter) /\ ledger[p] = 0
                                         THEN f.id ELSE ledger[p]]
      BY <1>8 DEF ScheduleLedger
    <2>2. /\ \A u \in Staff \ {s} : task'[u] = task[u]
          /\ \/ task'[s] = Idle
             \/ fit /\ task'[s] = [at |-> "freeze", approval |-> task[s].approval,
                                  audience |-> task[s].audience]
      BY <1>8 DEF ScheduleLedger, Goto, ApprovalTypeOK
    <2>3. fit => f \in audiences /\ f.id # 0 /\ \A g \in audiences : g.id <= f.id
      <3>1. fit => f \in audiences /\ \A g \in audiences : g.id <= f.id
        BY ValidRows
      <3> QED
        BY <3>1 DEF ApprovalTypeOK, Audiences
    <2> HIDE DEF f, fit
    <2>4. \A p \in People : ledger[p] # 0 => ledger'[p] = ledger[p]
      BY <2>1
    <2>5. ASSUME NEW p \in People, ledger'[p] # 0 PROVE InAudience(p)'
      <3>1. CASE ledger[p] # 0
        <4>1. PICK g \in audiences : g.id = ledger[p] /\ p \in Destinations(g.matter)
          BY <1>1, <3>1 DEF InAudience
        <4>2. g \in audiences' /\ g.id = ledger'[p] /\ p \in Destinations(g.matter)
          BY <2>1, <2>4, <3>1, <4>1
        <4> QED
          BY <4>2 DEF InAudience
      <3>2. CASE ledger[p] = 0
        <4>1. fit /\ p \in Destinations(f.matter) /\ ledger'[p] = f.id
          BY <2>1, <2>5, <3>2
        <4> QED
          BY <2>1, <2>3, <4>1 DEF InAudience
      <3> QED
        BY <3>1, <3>2
    <2>6. ASSUME NEW u \in Staff, u # s PROVE CheckedTask(task[u])'
      <3>1. CheckedTask(task[u]) /\ task'[u] = task[u]
        BY <1>1, <2>2, <2>6
      <3> DEFINE t == task[u]
      <3> HIDE DEF t
      <3> QED
        BY <1>4, <2>4, <3>1 DEF t, CheckedTask
    <2>7. CheckedTask(task[s])'
      <3>1. CASE task'[s] = Idle
        BY <3>1 DEF CheckedTask, Scheduling, Idle
      <3>2. CASE fit /\ task'[s] = [at |-> "freeze", approval |-> task[s].approval,
                                   audience |-> task[s].audience]
        <4>1. PICK a \in approvals, g \in audiences :
                a.id = task[s].approval /\ g.id = task[s].audience /\ Checked(a, g)
          BY <1>1, <2>1 DEF CheckedTask, Scheduling
        <4>2. g.id <= f.id /\ f \in audiences /\ f.id # 0
          BY <2>3, <3>2
        <4>3. g.id = f.id => g = f
          BY <4>2 DEF IdsAreUnique
        <4>4. Destinations(g.matter) \subseteq People
          BY DestinationsAreFacts DEF ApprovalTypeOK, Audiences
        <4>5. g = f => \A p \in Destinations(g.matter) : ledger'[p] # 0
          BY <2>1, <3>2, <4>2, <4>4
        <4>6. g # f => f.id > g.id
          BY <4>2, <4>3 DEF ApprovalTypeOK, Audiences
        <4>7. \/ \A p \in Destinations(g.matter) : ledger'[p] # 0
              \/ \E h \in audiences : h.id > g.id
          BY <4>2, <4>5, <4>6
        <4>8. /\ a.id = task'[s].approval /\ g.id = task'[s].audience
              /\ a \in approvals' /\ g \in audiences' /\ Checked(a, g)'
          BY <2>1, <3>2, <4>1 DEF Checked
        <4>9. \/ \A p \in Destinations(g.matter) : ledger'[p] # 0
              \/ \E h \in audiences' : h.id > g.id
          BY <2>1, <4>7
        <4> HIDE DEF Checked
        <4> QED
          BY <4>8, <4>9 DEF CheckedTask
      <3> QED
        BY <2>2, <3>1, <3>2
    <2> QED
      BY <2>5, <2>6, <2>7
  <1> QED
    BY <1>5, <1>6, <1>7, <1>8, ScheduleFrames

\* No approval of a later audience stands, or can be committed, beside this one.
Standing(a) ==
    /\ \A b \in approvals : Superseded(a, b, {})
    /\ \A s \in Staff : task[s].at = "sign" => Superseded(a, task[s].row, task[s].revokes)

\* What a schedule says of the approval and the audience it was made from.
Stands(a, f) ==
    /\ a.id = campaign.approval /\ Checked(a, f)
    /\ a.content = campaign.frozen /\ a.language = campaign.language
    /\ a.by # Creator
    /\ \A p \in Destinations(f.matter) : ledger[p] = f.id
    /\ a.revoked \/ \A p \in People : ledger[p] \in {0, f.id}
    /\ Standing(a)

LEMMA StandingStays ==
  ASSUME ApprovalTypeOK, [Next]_vars, NEW a \in approvals, Standing(a)
  PROVE  \E b \in approvals' : Kept(a, b) /\ Standing(b)'
  <1> DEFINE Stays == \E b \in approvals' : Kept(a, b) /\ Standing(b)'
  <1>1. /\ \A b \in approvals : b.audience > a.audience => a.revoked
        /\ \A s \in Staff : task[s].at = "sign" /\ task[s].row.audience > a.audience =>
             a.revoked \/ a.id \in task[s].revokes
    BY DEF Standing, Superseded
  <1>2. ASSUME NEW b \in approvals', Kept(a, b),
               \A c \in approvals' : c.audience > a.audience => b.revoked,
               \A s \in Staff : task'[s].at = "sign" /\ task'[s].row.audience > a.audience =>
                 b.revoked \/ a.id \in task'[s].revokes
        PROVE  Standing(b)'
    <2>1. b.audience = a.audience /\ b.id = a.id
      BY <1>2 DEF Kept
    <2> QED
      BY <1>2, <2>1 DEF Standing, Superseded
  <1>3. Kept(a, a)
    BY DEF Kept
  \* Revoking keeps what stands: ids are those a transaction has seen unrevoked.
  <1>4. \A ids : \E b \in Revoked(ids) : Kept(a, b) /\ (b.revoked <=> (a.revoked \/ a.id \in ids))
    BY RevokedRows DEF Kept, ApprovalTypeOK
  <1>5. \A ids : \A c \in Revoked(ids) : \E d \in approvals : c.audience = d.audience
    BY RevokedRows DEF ApprovalTypeOK
  <1>6. ASSUME approvals' = approvals,
               \A s \in Staff : task'[s] = task[s] \/ task'[s].at # "sign"
        PROVE  Stays
    <2>1. Standing(a)'
      BY <1>1, <1>2, <1>3, <1>6
    <2> QED
      BY <1>3, <1>6, <2>1
  <1>7. ASSUME NEW s \in Staff, ApproveOpen(s) PROVE Stays
    <2>1. /\ approvals' = approvals
          /\ task'[s].revokes = Unrevoked
          /\ \A u \in Staff \ {s} : task'[u] = task[u]
      BY <1>7 DEF ApproveOpen, Goto, ApprovalTypeOK
    <2>2. a.revoked \/ a.id \in Unrevoked
      BY DEF Unrevoked
    <2>3. Standing(a)'
      BY <1>1, <1>2, <1>3, <2>1, <2>2
    <2> QED
      BY <1>3, <2>1, <2>3
  <1>8. ASSUME NEW s \in Staff, ApproveCommit(s) PROVE Stays
    <2>1. /\ task[s].at = "sign"
          /\ approvals' = Revoked(task[s].revokes) \union {task[s].row}
          /\ task'[s] = Idle /\ \A u \in Staff \ {s} : task'[u] = task[u]
      BY <1>8 DEF ApproveCommit, Finish, Goto, ApprovalTypeOK
    <2>2. PICK b \in Revoked(task[s].revokes) :
            Kept(a, b) /\ (b.revoked <=> (a.revoked \/ a.id \in task[s].revokes))
      BY <1>4
    <2>3. b \in approvals' /\ \A c \in approvals' : c.audience > a.audience => b.revoked
      BY <1>1, <1>5, <2>1, <2>2
    <2>4. \A u \in Staff : task'[u].at = "sign" /\ task'[u].row.audience > a.audience =>
            b.revoked \/ a.id \in task'[u].revokes
      BY <1>1, <2>1, <2>2 DEF Idle
    <2>5. Standing(b)'
      BY <1>2, <2>2, <2>3, <2>4
    <2> QED
      BY <2>2, <2>3, <2>5
  <1>9. ASSUME NEW s \in Staff, NEW ids, approvals' = Revoked(ids),
               task' = task \/ task' = [task EXCEPT ![s] = Idle]
        PROVE  Stays
    <2>1. PICK b \in Revoked(ids) : Kept(a, b) /\ (b.revoked <=> (a.revoked \/ a.id \in ids))
      BY <1>4
    <2>2. b \in approvals' /\ \A c \in approvals' : c.audience > a.audience => b.revoked
      BY <1>1, <1>5, <1>9, <2>1
    <2>3. \A u \in Staff : task'[u] = task[u] \/ task'[u].at # "sign"
      BY <1>9 DEF Idle, ApprovalTypeOK
    <2>4. \A u \in Staff : task'[u].at = "sign" /\ task'[u].row.audience > a.audience =>
            b.revoked \/ a.id \in task'[u].revokes
      BY <1>1, <2>1, <2>3
    <2>5. Standing(b)'
      BY <1>2, <2>1, <2>2, <2>4
    <2> QED
      BY <2>1, <2>2, <2>5
  <1>10. ASSUME NEW s \in Staff, PrepareCommit(s) PROVE Stays
    <2>1. task' = [task EXCEPT ![s] = Idle] /\
            (approvals' = approvals \/ approvals' = Revoked(task[s].revokes))
      BY <1>10 DEF PrepareCommit, Finish, Goto
    <2>2. \A u \in Staff : task'[u] = task[u] \/ task'[u].at # "sign"
      BY <2>1 DEF Idle, ApprovalTypeOK
    <2> HIDE DEF Stays
    <2> QED
      BY <1>6, <1>9, <2>1, <2>2
  <1>11. ASSUME NEW s \in Staff, RevokeApproval(s) PROVE Stays
    <2>1. task' = task /\ approvals' = Revoked(Unrevoked)
      BY <1>11 DEF RevokeApproval
    <2> HIDE DEF Stays
    <2> QED
      BY <1>9, <2>1
  <1> HIDE DEF Stays
  <1>12. ASSUME \/ \E p \in People, f \in Facts : PersonChanges(p, f)
                \/ \E seg \in Segments, c \in Criteria : SegmentEdited(seg, c)
                \/ \E l \in {"HE", "AR"}, c \in Contents : EditDetails(l, c)
                \/ \E seg \in Segments \cup {NoSegment} : SetCampaignSegment(seg)
                \/ \E c \in Contents : ArticleEdited(c)
                \/ \E s \in Staff : RoleChanges(s)
         PROVE  Stays
    <2>1. UNCHANGED <<approvals, task>>
      BY <1>12 DEF PersonChanges, SegmentEdited, EditDetails, SetCampaignSegment, ArticleEdited,
                   RoleChanges
    <2> QED
      BY <1>6, <2>1
  <1>13. ASSUME NEW s \in Staff, NEW key \in Keys, PrepareStart(s, key) PROVE Stays
    <2>1. approvals' = approvals /\ \A u \in Staff : task'[u] = task[u] \/ task'[u].at # "sign"
      BY <1>13 DEF PrepareStart, Start, ApprovalTypeOK
    <2> QED
      BY <1>6, <2>1
  <1>14. ASSUME NEW s \in Staff, PrepareResolve(s) \/ PrepareMark(s) \/ PrepareOpen(s) PROVE Stays
    <2>1. approvals' = approvals /\ \A u \in Staff : task'[u] = task[u] \/ task'[u].at # "sign"
      BY <1>14 DEF PrepareResolve, PrepareMark, PrepareOpen, Goto, ApprovalTypeOK
    <2> QED
      BY <1>6, <2>1
  <1>15. ASSUME NEW s \in Staff, ApproveRead(s) \/ ApproveReview(s) PROVE Stays
    <2>1. approvals' = approvals /\ \A u \in Staff \ {s} : task'[u] = task[u]
      BY <1>15 DEF ApproveRead, ApproveReview, Start, Goto, ApprovalTypeOK
    <2>2. task'[s].at # "sign"
      BY <1>15 DEF ApproveRead, ApproveReview, Start, Goto, Idle, ApprovalTypeOK
    <2> QED
      BY <1>6, <2>1, <2>2
  <1>16. ASSUME NEW s \in Staff, ScheduleRead(s) \/ ScheduleLedger(s) PROVE Stays
    <2>1. approvals' = approvals /\ \A u \in Staff \ {s} : task'[u] = task[u]
      BY <1>16 DEF ScheduleRead, ScheduleLedger, Start, Goto, ApprovalTypeOK
    <2>2. task'[s].at # "sign"
      BY <1>16 DEF ScheduleRead, ScheduleLedger, Start, Goto, Idle, ApprovalTypeOK
    <2> QED
      BY <1>6, <2>1, <2>2
  <1>17. ASSUME NEW s \in Staff, ScheduleFreeze(s) \/ ScheduleCommit(s) PROVE Stays
    <2>1. approvals' = approvals /\ \A u \in Staff \ {s} : task'[u] = task[u]
      BY <1>17 DEF ScheduleFreeze, ScheduleCommit, Finish, Goto, ApprovalTypeOK
    <2>2. task'[s].at # "sign"
      BY <1>17 DEF ScheduleFreeze, ScheduleCommit, Finish, Goto, Idle, ApprovalTypeOK
    <2> QED
      BY <1>6, <2>1, <2>2
  <1>18. ASSUME UNCHANGED vars PROVE Stays
    BY <1>6, <1>18 DEF vars
  <1>19. Stays
    BY <1>7, <1>8, <1>10, <1>11, <1>12, <1>13, <1>14, <1>15, <1>16, <1>17, <1>18,
       ApprovalCases, Zenon
  <1> QED
    BY <1>19 DEF Stays

\* A newsletter is scheduled by one step only, and then its schedule holds still.
LEMMA ScheduledMoves ==
  ASSUME ApprovalTypeOK, [Next]_vars, campaign'.status = "SCHEDULED"
  PROVE  \/ /\ campaign.status = "SCHEDULED"
            /\ campaign'.frozen = campaign.frozen /\ campaign'.approval = campaign.approval
            /\ campaign'.language = campaign.language /\ campaign'.segment = campaign.segment
         \/ \E s \in Staff :
              /\ ScheduleCommit(s) /\ StillAsFrozen(task[s])
              /\ campaign' = [campaign EXCEPT !.status = "SCHEDULED", !.frozen = task[s].content,
                                              !.approval = task[s].approval]
  <1> DEFINE Still == /\ campaign.status = "SCHEDULED"
                      /\ campaign'.frozen = campaign.frozen
                      /\ campaign'.approval = campaign.approval
                      /\ campaign'.language = campaign.language
                      /\ campaign'.segment = campaign.segment
             Made(s) == /\ ScheduleCommit(s) /\ StillAsFrozen(task[s])
                        /\ campaign' = [campaign EXCEPT !.status = "SCHEDULED",
                                                        !.frozen = task[s].content,
                                                        !.approval = task[s].approval]
  <1>1. ASSUME campaign' = campaign PROVE Still
    BY <1>1
  <1>2. ASSUME NEW c \in Contents, ArticleEdited(c) PROVE Still
    BY <1>2 DEF ArticleEdited, ApprovalTypeOK
  <1>3. ASSUME \/ \E l \in {"HE", "AR"}, c \in Contents : EditDetails(l, c)
               \/ \E seg \in Segments \cup {NoSegment} : SetCampaignSegment(seg)
        PROVE  FALSE
    BY <1>3 DEF EditDetails, SetCampaignSegment, ApprovalTypeOK
  <1>4. ASSUME NEW s \in Staff, ScheduleCommit(s) PROVE Still \/ Made(s)
    <2>1. CASE StillAsFrozen(task[s])
      BY <1>4, <2>1 DEF ScheduleCommit
    <2>2. CASE ~StillAsFrozen(task[s])
      BY <1>1, <1>4, <2>2 DEF ScheduleCommit
    <2> QED
      BY <2>1, <2>2
  <1>5. ASSUME \/ \E p \in People, f \in Facts : PersonChanges(p, f)
               \/ \E seg \in Segments, c \in Criteria : SegmentEdited(seg, c)
               \/ \E s \in Staff : RoleChanges(s)
               \/ \E s \in Staff, key \in Keys : PrepareStart(s, key)
        PROVE  Still
    BY <1>1, <1>5 DEF PersonChanges, SegmentEdited, RoleChanges, PrepareStart
  <1>6. ASSUME NEW s \in Staff,
               \/ PrepareResolve(s) \/ PrepareMark(s) \/ PrepareOpen(s) \/ PrepareCommit(s)
               \/ ApproveRead(s) \/ ApproveReview(s) \/ ApproveOpen(s)
        PROVE  Still
    BY <1>1, <1>6 DEF PrepareResolve, PrepareMark, PrepareOpen, PrepareCommit, ApproveRead,
                      ApproveReview, ApproveOpen
  <1>7. ASSUME NEW s \in Staff,
               \/ ApproveCommit(s) \/ RevokeApproval(s) \/ ScheduleRead(s)
               \/ ScheduleLedger(s) \/ ScheduleFreeze(s)
        PROVE  Still
    BY <1>1, <1>7 DEF ApproveCommit, RevokeApproval, ScheduleRead, ScheduleLedger, ScheduleFreeze
  <1>8. ASSUME UNCHANGED vars PROVE Still
    BY <1>1, <1>8 DEF vars
  <1> HIDE DEF Still, Made
  <1>9. Still \/ \E s \in Staff : Made(s)
    BY <1>2, <1>3, <1>4, <1>5, <1>6, <1>7, <1>8, ApprovalCases, Zenon
  <1> QED
    BY <1>9 DEF Still, Made

\* The ledger gains rows of the newest audience only, under an approval of it.
LEMMA LedgerMoves ==
  ASSUME ApprovalTypeOK, IdsAreUnique, ApprovalsAreSigned, [Next]_vars,
         NEW f \in audiences, NEW a \in approvals, a.audience = f.id, Standing(a),
         a.revoked \/ \A p \in People : ledger[p] \in {0, f.id}
  PROVE  /\ \A p \in People : ledger[p] # 0 => ledger'[p] = ledger[p]
         /\ a.revoked \/ \A p \in People : ledger'[p] \in {0, f.id}
  <1>1. CASE ledger' = ledger
    BY <1>1
  <1>2. ASSUME NEW s \in Staff, ScheduleLedger(s)
        PROVE  /\ \A p \in People : ledger[p] # 0 => ledger'[p] = ledger[p]
               /\ a.revoked \/ \A p \in People : ledger'[p] \in {0, f.id}
    <2> DEFINE g == Readiness.frozen
               b == Readiness.approval
               fit == Readiness.valid /\ FourEyes(b.by)
    <2>1. ledger' = [p \in People |-> IF fit /\ p \in Destinations(g.matter) /\ ledger[p] = 0
                                      THEN g.id ELSE ledger[p]]
      BY <1>2 DEF ScheduleLedger
    <2>2. fit => /\ g \in audiences /\ f.id <= g.id
                 /\ b \in approvals /\ b.audience = g.id
      BY ValidRows
    <2> HIDE DEF g, b, fit
    <2>3. fit /\ g.id # f.id => a.revoked
      <3>1. fit /\ g.id # f.id => g.id > f.id
        BY <2>2 DEF ApprovalTypeOK, Audiences
      <3>2. b \in approvals /\ b.audience > a.audience => a.revoked
        BY DEF Standing, Superseded
      <3> QED
        BY <2>2, <3>1, <3>2
    <2> QED
      BY <2>1, <2>3
  <1>3. ASSUME NEW s \in Staff, ScheduleRead(s) \/ ScheduleFreeze(s) PROVE ledger' = ledger
    BY <1>3 DEF ScheduleRead, ScheduleFreeze
  <1> QED
    BY <1>1, <1>2, <1>3, ScheduleFrames

LEMMA StandsStep ==
  ASSUME ApprovalTypeOK, IdsAreUnique, ApprovalsAreSigned, SchedulingsAreChecked,
         ScheduleStands, [Next]_vars
  PROVE  ScheduleStands'
  <1>1. SUFFICES ASSUME campaign'.status = "SCHEDULED"
                 PROVE  /\ campaign'.frozen # NoContent
                        /\ \E b \in approvals', f \in audiences' : Stands(b, f)'
    BY DEF ScheduleStands, Stands, Standing
  <1>2. CASE /\ campaign.status = "SCHEDULED"
             /\ campaign'.frozen = campaign.frozen /\ campaign'.approval = campaign.approval
             /\ campaign'.language = campaign.language
    <2>1. PICK a \in approvals, f \in audiences : Stands(a, f)
      BY <1>2 DEF ScheduleStands, Stands, Standing
    <2>2. Standing(a) /\ Checked(a, f)
      BY <2>1 DEF Stands
    <2>3. PICK b \in approvals' : Kept(a, b) /\ Standing(b)'
      BY <2>2, StandingStays
    <2>4. f \in audiences' /\ f.id # 0 /\ Destinations(f.matter) \subseteq People
      BY RowsStay, DestinationsAreFacts DEF ApprovalTypeOK, Audiences
    <2>5. /\ \A p \in People : ledger[p] # 0 => ledger'[p] = ledger[p]
          /\ a.revoked \/ \A p \in People : ledger'[p] \in {0, f.id}
      <3>1. a.audience = f.id
        BY <2>2 DEF Checked
      <3>2. a.revoked \/ \A p \in People : ledger[p] \in {0, f.id}
        BY <2>1 DEF Stands
      <3> QED
        BY <2>2, <3>1, <3>2, LedgerMoves
    <2>6. \A p \in Destinations(f.matter) : ledger'[p] = f.id
      <3>1. \A p \in Destinations(f.matter) : ledger[p] = f.id
        BY <2>1 DEF Stands
      <3> QED
        BY <2>4, <2>5, <3>1
    <2>7. Checked(b, f)
      BY <2>2, <2>3 DEF Checked, Kept
    <2>8. /\ b.id = campaign'.approval /\ b.content = campaign'.frozen
          /\ b.language = campaign'.language /\ b.by # Creator
          /\ b.revoked \/ \A p \in People : ledger'[p] \in {0, f.id}
      <3>1. /\ a.id = campaign.approval /\ a.content = campaign.frozen
            /\ a.language = campaign.language /\ a.by # Creator
        BY <2>1 DEF Stands
      <3> QED
        BY <1>2, <2>3, <2>5, <3>1 DEF Kept
    <2>9. Stands(b, f)'
      BY <2>3, <2>6, <2>7, <2>8 DEF Stands, Checked
    <2>10. campaign'.frozen # NoContent
      BY <1>2 DEF ScheduleStands
    <2> QED
      BY <2>4, <2>9, <2>10
  <1>3. ASSUME NEW s \in Staff, ScheduleCommit(s), StillAsFrozen(task[s]),
               campaign' = [campaign EXCEPT !.status = "SCHEDULED", !.frozen = task[s].content,
                                            !.approval = task[s].approval]
        PROVE  /\ campaign'.frozen # NoContent
               /\ \E b \in approvals', f \in audiences' : Stands(b, f)'
    <2> DEFINE t == task[s]
               n == Newest(audiences)
    <2>1. /\ t.at = "schedule" /\ UNCHANGED <<audiences, approvals, ledger>>
          /\ \A u \in Staff : task'[u] = task[u] \/ task'[u] = Idle
      BY <1>3 DEF ScheduleCommit, Finish, Goto, ApprovalTypeOK
    <2>2. t.content \in Contents
      BY <2>1, TaskShape
    <2>3. PICK a \in approvals, f \in audiences :
            /\ a.id = t.approval /\ f.id = t.audience /\ Checked(a, f)
            /\ \/ \A p \in Destinations(f.matter) : ledger[p] # 0
               \/ \E g \in audiences : g.id > f.id
      BY <2>1 DEF SchedulingsAreChecked
    <2>4. /\ n.id = t.audience /\ Rendered(campaign) = t.content
          /\ \A p \in People : ledger[p] \in {0, t.audience}
      BY <1>3 DEF StillAsFrozen
    <2>5. PICK b \in approvals : /\ b.id = t.approval /\ FourEyes(b.by)
                                 /\ b.hash = ContentHash(t.content, campaign.language, n)
      BY <1>3 DEF StillAsFrozen
    <2>6. a = b
      BY <2>3, <2>5 DEF IdsAreUnique
    <2>7. n \in audiences /\ \A g \in audiences : g.id <= n.id
      BY NewestAudience
    <2>8. n = f
      BY <2>3, <2>4, <2>7 DEF IdsAreUnique
    <2>9. a.content = t.content /\ a.language = campaign.language
      <3>1. PICK g \in audiences : a.hash = ContentHash(a.content, a.language, g)
        BY DEF ApprovalsAreSigned, Signed
      <3> QED
        BY <2>5, <2>6, <3>1 DEF ContentHash
    <2> HIDE DEF n, t
    <2>10. \A g \in audiences : ~(g.id > f.id)
      BY <2>7, <2>8 DEF ApprovalTypeOK, Audiences
    <2>11. \A p \in Destinations(f.matter) : ledger[p] = f.id
      <3>1. Destinations(f.matter) \subseteq People
        BY DestinationsAreFacts DEF ApprovalTypeOK, Audiences
      <3> QED
        BY <2>3, <2>4, <2>10, <3>1
    <2>12. a.by # Creator /\ a.audience = f.id
      BY <2>3, <2>5, <2>6 DEF FourEyes, Checked
    <2>13. \A x : Signed(x) => ~(x.audience > a.audience)
      BY <2>10, <2>12 DEF Signed
    <2>14. /\ \A c \in approvals' : Signed(c)
           /\ \A u \in Staff : task'[u].at = "sign" => Signed(task'[u].row)
      BY <2>1 DEF ApprovalsAreSigned, Idle
    <2>15. Standing(a)'
      BY <2>13, <2>14 DEF Standing, Superseded
    <2>16. /\ campaign'.approval = t.approval /\ campaign'.frozen = t.content
           /\ campaign'.language = campaign.language
      BY <1>3 DEF t, ApprovalTypeOK
    <2>17. a \in approvals' /\ f \in audiences' /\ ledger' = ledger
      BY <2>1
    <2>18. Stands(a, f)'
      BY <2>3, <2>4, <2>9, <2>11, <2>12, <2>15, <2>16, <2>17 DEF Stands, Checked
    <2> QED
      BY <2>2, <2>16, <2>17, <2>18, ApprovalAssumption
  <1> QED
    BY <1>1, <1>2, <1>3, ScheduledMoves

LEMMA ApprovalInitially == Init => ApprovalInv
  <1> SUFFICES ASSUME Init PROVE ApprovalInv
    OBVIOUS
  <1>1. ApprovalTypeOK
    <2>1. (CHOOSE x \in Segments : TRUE) \in Segments
      BY ApprovalAssumption, Zenon
    <2>2. campaign \in [status : {"DRAFT", "SCHEDULED"}, language : Languages,
                       segment : Segments \union {NoSegment}, content : Contents,
                       frozen : Contents \union {NoContent}, approval : Nat]
      BY <2>1 DEF Init, Languages
    <2>3. task \in [Staff -> Tasks]
      BY DEF Init, Tasks
    <2> QED
      BY <2>2, <2>3 DEF Init, ApprovalTypeOK
  <1>2. \A s \in Staff : task[s] = Idle
    BY DEF Init
  <1>3. IdsAreUnique
    BY <1>2 DEF Init, IdsAreUnique, Pending, Idle
  <1>4. ApprovalsAreSigned
    BY <1>2 DEF Init, ApprovalsAreSigned, Idle
  <1>5. PreparationsAreFresh
    BY <1>2 DEF Init, PreparationsAreFresh, Idle
  <1>6. SchedulingsAreChecked
    BY <1>2 DEF Init, SchedulingsAreChecked, Idle
  <1>7. ScheduleStands
    BY DEF Init, ScheduleStands
  <1> QED
    BY <1>1, <1>3, <1>4, <1>5, <1>6, <1>7 DEF ApprovalInv

LEMMA ApprovalInvStep == ApprovalInv /\ [Next]_vars => ApprovalInv'
  <1> SUFFICES ASSUME ApprovalInv, [Next]_vars PROVE ApprovalInv'
    OBVIOUS
  <1>1. /\ ApprovalTypeOK /\ IdsAreUnique /\ ApprovalsAreSigned /\ PreparationsAreFresh
        /\ SchedulingsAreChecked /\ ScheduleStands
    BY DEF ApprovalInv
  <1>2. ApprovalTypeOK' /\ IdsAreUnique' /\ ApprovalsAreSigned' /\ PreparationsAreFresh'
    BY <1>1, ApprovalTypeStep, IdsStep, SignedStep, FreshStep
  <1>3. SchedulingsAreChecked' /\ ScheduleStands'
    BY <1>1, CheckedStep, StandsStep
  <1> QED
    BY <1>2, <1>3 DEF ApprovalInv

(* Rows are unique and signed, preparations that saw no change are current,  *)
(* schedulings rest on checked rows, and a schedule stands by its approval.  *)
THEOREM ApprovalInvariant == Spec => []ApprovalInv
  <1>1. Init => ApprovalInv
    BY ApprovalInitially
  <1>2. ApprovalInv /\ [Next]_vars => ApprovalInv'
    BY ApprovalInvStep
  <1> QED
    BY <1>1, <1>2, PTL DEF Spec

(* Whatever the people, the addresses and the order of their calls, what is  *)
(* scheduled is the one document and the one audience two people agreed on.  *)
THEOREM WhatIsScheduledWasApproved == Spec => []ScheduledAsApproved
  <1>1. ApprovalInv => ScheduledAsApproved
    <2> SUFFICES ASSUME ApprovalInv, campaign.status = "SCHEDULED"
                 PROVE  ScheduledAsApproved
      BY DEF ScheduledAsApproved
    <2>1. /\ ApprovalTypeOK /\ IdsAreUnique /\ SchedulingsAreChecked /\ ScheduleStands
      BY DEF ApprovalInv
    <2>2. PICK a \in approvals, f \in audiences : Stands(a, f)
      BY <2>1 DEF ScheduleStands, Stands, Standing
    <2>3. /\ a.id = campaign.approval /\ Checked(a, f)
          /\ a.content = campaign.frozen /\ a.language = campaign.language
          /\ a.by # Creator
          /\ \A p \in Destinations(f.matter) : ledger[p] = f.id
          /\ a.revoked \/ \A p \in People : ledger[p] \in {0, f.id}
      BY <2>2 DEF Stands
    <2>4. f.id # 0 /\ Destinations(f.matter) \subseteq People
      BY <2>1, DestinationsAreFacts DEF ApprovalTypeOK, Audiences
    <2>5. ASSUME NEW p \in People, ledger[p] = f.id PROVE p \in Destinations(f.matter)
      <3>1. PICK g \in audiences : g.id = ledger[p] /\ p \in Destinations(g.matter)
        BY <2>1, <2>4, <2>5 DEF SchedulingsAreChecked
      <3>2. g = f
        BY <2>1, <2>5, <3>1 DEF IdsAreUnique
      <3> QED
        BY <3>1, <3>2
    <2>6. {p \in People : ledger[p] = f.id} = Destinations(f.matter)
      BY <2>3, <2>4, <2>5
    <2>7. /\ f.id = a.audience /\ Destinations(f.matter) # {}
          /\ \A p \in Destinations(f.matter) : f.matter.facts[p].granted
          /\ f.matter.language = campaign.language \/ f.seen # f.mark
      BY <2>3 DEF Checked
    <2> QED
      BY <2>3, <2>6, <2>7 DEF ScheduledAsApproved
  <1> QED
    BY <1>1, ApprovalInvariant, PTL

(* A newsletter shown as approved would go to exactly the people its segment *)
(* selects now, unless something changed inside the preparation itself.      *)
THEOREM ApprovedIsCurrent == Spec => []ApprovedAudienceIsCurrent
  <1>1. ApprovalInv => ApprovedAudienceIsCurrent
    <2> SUFFICES ASSUME ApprovalInv, Readiness.valid
                 PROVE  \/ Readiness.frozen.matter = Current
                        \/ Readiness.frozen.seen # Readiness.frozen.mark
      BY DEF ApprovedAudienceIsCurrent
    <2> DEFINE f == Readiness.frozen
    <2>1. /\ ApprovalTypeOK /\ IdsAreUnique /\ ApprovalsAreSigned /\ PreparationsAreFresh
      BY DEF ApprovalInv
    <2>2. f \in audiences /\ ~Stale(f)
      BY <2>1, ValidRows
    <2>3. f # NoRow
      BY <2>1, <2>2 DEF NoRow, ApprovalTypeOK, Audiences
    <2>4. f.mark = stamp \/ f.matter = Current
      BY <2>2, <2>3 DEF Stale, Watermark, AudienceHash
    <2>5. f.mark = stamp /\ f.seen = f.mark => f.matter = Current
      BY <2>1, <2>2 DEF PreparationsAreFresh, FreshAs
    <2> QED
      BY <2>4, <2>5
  <1> QED
    BY <1>1, ApprovalInvariant, PTL

-----------------------------------------------------------------------------
\* One key, one audience: the unique key of the table.
LEMMA KeysStep == OneAudiencePerKey /\ [Next]_vars => OneAudiencePerKey'
  <1> SUFFICES ASSUME OneAudiencePerKey, [Next]_vars PROVE OneAudiencePerKey'
    OBVIOUS
  <1>1. ASSUME audiences' = audiences PROVE OneAudiencePerKey'
    BY <1>1 DEF OneAudiencePerKey
  <1>2. ASSUME NEW s \in Staff, PrepareCommit(s) PROVE OneAudiencePerKey'
    BY <1>2 DEF PrepareCommit, OneAudiencePerKey
  <1>3. ASSUME \/ \E p \in People, f \in Facts : PersonChanges(p, f)
               \/ \E seg \in Segments, c \in Criteria : SegmentEdited(seg, c)
               \/ \E l \in {"HE", "AR"}, c \in Contents : EditDetails(l, c)
               \/ \E seg \in Segments \cup {NoSegment} : SetCampaignSegment(seg)
               \/ \E c \in Contents : ArticleEdited(c)
               \/ \E s \in Staff : RoleChanges(s)
               \/ \E s \in Staff, key \in Keys : PrepareStart(s, key)
        PROVE  audiences' = audiences
    BY <1>3 DEF PersonChanges, SegmentEdited, EditDetails, SetCampaignSegment, ArticleEdited,
                RoleChanges, PrepareStart
  <1>4. ASSUME NEW s \in Staff,
               \/ PrepareResolve(s) \/ PrepareMark(s) \/ PrepareOpen(s)
               \/ ApproveRead(s) \/ ApproveReview(s) \/ ApproveOpen(s)
        PROVE  audiences' = audiences
    BY <1>4 DEF PrepareResolve, PrepareMark, PrepareOpen, ApproveRead, ApproveReview, ApproveOpen
  <1>5. ASSUME NEW s \in Staff,
               \/ ApproveCommit(s) \/ RevokeApproval(s)
               \/ ScheduleRead(s) \/ ScheduleLedger(s) \/ ScheduleFreeze(s) \/ ScheduleCommit(s)
        PROVE  audiences' = audiences
    BY <1>5 DEF ApproveCommit, RevokeApproval, ScheduleRead, ScheduleLedger, ScheduleFreeze,
                ScheduleCommit
  <1>6. ASSUME UNCHANGED vars PROVE audiences' = audiences
    BY <1>6 DEF vars
  <1> HIDE DEF OneAudiencePerKey
  <1> QED
    BY <1>1, <1>2, <1>3, <1>4, <1>5, <1>6, ApprovalCases, Zenon

\* What a valid readiness says of the rows, as a state formula of its own.
ValidNow == Readiness.valid => /\ Newest(approvals) \in approvals
                               /\ Newest(audiences) \in audiences
                               /\ \A g \in audiences : g.id <= Newest(audiences).id
                               /\ Newest(approvals).audience = Newest(audiences).id

LEMMA ValidIsNewest == ApprovalInv => ValidNow
  <1>1. Readiness.approval = Newest(approvals) /\ Readiness.frozen = Newest(audiences)
    BY DEF Readiness
  <1> QED
    BY <1>1, ValidRows DEF ApprovalInv, ValidNow

LEMMA ReplacedStep ==
  ASSUME ApprovalInv, ApprovalInv', ValidNow', [Next]_vars,
         NEW a \in approvals, a.audience # Newest(audiences).id
  PROVE  ~(Newest(approvals').id = a.id /\ Readiness'.valid)
  <1> SUFFICES ASSUME Newest(approvals').id = a.id, Readiness'.valid PROVE FALSE
    OBVIOUS
  <1> DEFINE n == Newest(approvals')
             g == Newest(audiences')
             f == Newest(audiences)
  <1>1. /\ n \in approvals' /\ g \in audiences' /\ \A h \in audiences' : h.id <= g.id
        /\ n.audience = g.id
    BY DEF ValidNow
  <1>2. PICK b \in approvals' : Kept(a, b)
    BY RowsStay DEF ApprovalInv
  <1>3. n = b
    BY <1>1, <1>2 DEF Kept, ApprovalInv, IdsAreUnique
  <1>4. a.audience = g.id
    BY <1>1, <1>2, <1>3 DEF Kept
  <1>5. PICK h \in audiences : h.id = a.audience
    BY DEF ApprovalInv, ApprovalsAreSigned, Signed
  <1>6. f \in audiences /\ h.id <= f.id
    BY <1>5, NewestAudience DEF ApprovalInv
  <1>7. f \in audiences'
    BY <1>6, RowsStay DEF ApprovalInv
  <1>8. f.id \in Nat /\ g.id \in Nat
    BY <1>1, <1>6 DEF ApprovalInv, ApprovalTypeOK, Audiences
  <1> HIDE DEF n, g, f
  <1>9. f.id <= g.id
    BY <1>1, <1>7
  <1>10. f.id = a.audience
    BY <1>4, <1>5, <1>6, <1>8, <1>9
  <1> QED
    BY <1>10 DEF f

LEMMA RevokedStep ==
  ASSUME ApprovalInv, [Next]_vars, NEW a \in approvals, ~a.revoked, a.id \notin Unrevoked'
  PROVE  \/ audiences' # audiences
         \/ {x.id : x \in approvals'} # {x.id : x \in approvals}
         \/ \E s \in Staff : RevokeApproval(s)
  <1> DEFINE Reason == \/ audiences' # audiences
                       \/ {x.id : x \in approvals'} # {x.id : x \in approvals}
                       \/ \E s \in Staff : RevokeApproval(s)
  <1>1. approvals' # approvals
    BY DEF Unrevoked
  <1>2. ASSUME NEW s \in Staff, PrepareCommit(s) PROVE Reason
    BY <1>1, <1>2 DEF PrepareCommit
  <1>3. ASSUME NEW s \in Staff, ApproveCommit(s) PROVE Reason
    <2>1. Pending(s) /\ task[s].row \in approvals'
      BY <1>3 DEF ApproveCommit, Pending
    <2>2. \A x \in approvals : x.id # task[s].row.id
      BY <2>1 DEF ApprovalInv, IdsAreUnique
    <2>3. task[s].row.id \in {x.id : x \in approvals'} \ {x.id : x \in approvals}
      BY <2>1, <2>2
    <2> QED
      BY <2>3
  <1>4. ASSUME NEW s \in Staff, RevokeApproval(s) PROVE Reason
    BY <1>4
  <1>5. ASSUME \/ \E p \in People, f \in Facts : PersonChanges(p, f)
               \/ \E seg \in Segments, c \in Criteria : SegmentEdited(seg, c)
               \/ \E l \in {"HE", "AR"}, c \in Contents : EditDetails(l, c)
               \/ \E seg \in Segments \cup {NoSegment} : SetCampaignSegment(seg)
               \/ \E c \in Contents : ArticleEdited(c)
               \/ \E s \in Staff : RoleChanges(s)
               \/ \E s \in Staff, key \in Keys : PrepareStart(s, key)
        PROVE  FALSE
    BY <1>1, <1>5 DEF PersonChanges, SegmentEdited, EditDetails, SetCampaignSegment,
                      ArticleEdited, RoleChanges, PrepareStart
  <1>6. ASSUME NEW s \in Staff,
               \/ PrepareResolve(s) \/ PrepareMark(s) \/ PrepareOpen(s)
               \/ ApproveRead(s) \/ ApproveReview(s) \/ ApproveOpen(s)
               \/ ScheduleRead(s) \/ ScheduleLedger(s) \/ ScheduleFreeze(s) \/ ScheduleCommit(s)
        PROVE  FALSE
    BY <1>1, <1>6 DEF PrepareResolve, PrepareMark, PrepareOpen, ApproveRead, ApproveReview,
                      ApproveOpen, ScheduleRead, ScheduleLedger, ScheduleFreeze, ScheduleCommit
  <1>7. ASSUME UNCHANGED vars PROVE FALSE
    BY <1>1, <1>7 DEF vars
  <1> HIDE DEF Reason
  <1>8. Reason
    BY <1>2, <1>3, <1>4, <1>5, <1>6, <1>7, ApprovalCases, Zenon
  <1> QED
    BY <1>8 DEF Reason

LEMMA FreezeStep ==
  ASSUME ApprovalInv, [Next]_vars, campaign.status = "SCHEDULED"
  PROVE  /\ campaign'.language = campaign.language
         /\ campaign'.segment = campaign.segment
         /\ Rendered(campaign') = campaign.frozen
  <1>1. campaign'.status = "SCHEDULED"
    <2>1. ASSUME NEW c \in Contents, ArticleEdited(c) PROVE campaign'.status = "SCHEDULED"
      BY <2>1 DEF ArticleEdited, ApprovalInv, ApprovalTypeOK
    <2>2. ASSUME NEW s \in Staff, ScheduleCommit(s) PROVE campaign'.status = "SCHEDULED"
      BY <2>2 DEF ScheduleCommit, StillAsFrozen
    <2>3. ASSUME \/ \E p \in People, f \in Facts : PersonChanges(p, f)
                 \/ \E seg \in Segments, c \in Criteria : SegmentEdited(seg, c)
                 \/ \E l \in {"HE", "AR"}, c \in Contents : EditDetails(l, c)
                 \/ \E seg \in Segments \cup {NoSegment} : SetCampaignSegment(seg)
                 \/ \E s \in Staff : RoleChanges(s)
                 \/ \E s \in Staff, key \in Keys : PrepareStart(s, key)
          PROVE  campaign'.status = "SCHEDULED"
      BY <2>3 DEF PersonChanges, SegmentEdited, EditDetails, SetCampaignSegment, RoleChanges,
                  PrepareStart
    <2>4. ASSUME NEW s \in Staff,
                 \/ PrepareResolve(s) \/ PrepareMark(s) \/ PrepareOpen(s) \/ PrepareCommit(s)
                 \/ ApproveRead(s) \/ ApproveReview(s) \/ ApproveOpen(s)
          PROVE  campaign'.status = "SCHEDULED"
      BY <2>4 DEF PrepareResolve, PrepareMark, PrepareOpen, PrepareCommit, ApproveRead,
                  ApproveReview, ApproveOpen
    <2>5. ASSUME NEW s \in Staff,
                 \/ ApproveCommit(s) \/ RevokeApproval(s) \/ ScheduleRead(s)
                 \/ ScheduleLedger(s) \/ ScheduleFreeze(s)
          PROVE  campaign'.status = "SCHEDULED"
      BY <2>5 DEF ApproveCommit, RevokeApproval, ScheduleRead, ScheduleLedger, ScheduleFreeze
    <2>6. ASSUME UNCHANGED vars PROVE campaign'.status = "SCHEDULED"
      BY <2>6 DEF vars
    <2> QED
      BY <2>1, <2>2, <2>3, <2>4, <2>5, <2>6, ApprovalCases, Zenon
  <1>2. \A s \in Staff : ~StillAsFrozen(task[s])
    BY DEF StillAsFrozen
  <1>3. /\ campaign'.frozen = campaign.frozen
        /\ campaign'.language = campaign.language /\ campaign'.segment = campaign.segment
    BY <1>1, <1>2, ScheduledMoves DEF ApprovalInv
  <1>4. campaign.frozen # NoContent
    BY DEF ApprovalInv, ScheduleStands
  <1> QED
    BY <1>3, <1>4 DEF Rendered

(* A form submitted twice freezes once; an approval ends for a reason and,   *)
(* its audience replaced, for good; a schedule holds still.                  *)
THEOREM DecisionsHold == Spec => DecisionsStand
  <1>1. Init => OneAudiencePerKey
    BY DEF Init, OneAudiencePerKey
  <1>2. OneAudiencePerKey /\ [Next]_vars => OneAudiencePerKey'
    BY KeysStep
  <1>3. ApprovalInv => ValidNow
    BY ValidIsNewest
  <1>4. ApprovalInv /\ ApprovalInv' /\ ValidNow' /\ [Next]_vars =>
          [\A a \in approvals : a.audience # Newest(audiences).id =>
             ~(Newest(approvals').id = a.id /\ Readiness'.valid)]_vars
    BY ReplacedStep
  <1>5. ApprovalInv /\ [Next]_vars =>
          [(\E a \in approvals : ~a.revoked /\ a.id \notin Unrevoked') =>
             \/ audiences' # audiences
             \/ {a.id : a \in approvals'} # {a.id : a \in approvals}
             \/ \E s \in Staff : RevokeApproval(s)]_vars
    BY RevokedStep
  <1>6. ApprovalInv /\ [Next]_vars =>
          [campaign.status = "SCHEDULED" =>
             /\ campaign'.language = campaign.language
             /\ campaign'.segment = campaign.segment
             /\ Rendered(campaign') = campaign.frozen]_vars
    BY FreezeStep
  <1> QED
    BY <1>1, <1>2, <1>3, <1>4, <1>5, <1>6, ApprovalInvariant, PTL
       DEF Spec, DecisionsStand, ReplacedNeverValidAgain, RevokedForAReason, ScheduleFreezes
=============================================================================
