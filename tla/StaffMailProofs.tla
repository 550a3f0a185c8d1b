-------------------------- MODULE StaffMailProofs --------------------------
(***************************************************************************)
(* Mail to staff: what one approval of a SAFE TEST or of a provider pilot   *)
(* authorizes, and the caps of internal QA mail, for any staff, any number  *)
(* of approvals, runs and messages.                                         *)
(***************************************************************************)
EXTENDS ApprovedSends, QaMail, FiniteSetTheorems, SequenceTheorems, WellFoundedInduction, TLAPS

\* Of rows in the order they were made there is a last one.
LEMMA LastOfRows ==
  ASSUME NEW bound \in Nat, NEW rows \in SUBSET (1..bound), rows # {}
  PROVE  \E i \in rows : \A j \in rows : j <= i
  <1> DEFINE T == {n \in Nat : bound - n \in rows}
  <1>1. T # {}
    <2>1. PICK i \in rows : TRUE
      OBVIOUS
    <2>2. bound - i \in Nat /\ bound - (bound - i) = i
      BY <2>1
    <2> QED
      BY <2>1, <2>2
  <1>2. PICK n \in T : \A m \in T : ~ (<<m, n>> \in OpToRel(<, Nat))
    <2> HIDE DEF T
    <2>1. T \subseteq Nat
      BY DEF T
    <2> QED
      BY <1>1, <2>1, WFMin, NatLessThanWellFounded, Zenon
  <1>3. \A m \in T : n <= m
    <2>1. \A m \in T : ~ (m < n)
      BY <1>2, Zenon DEF OpToRel
    <2> QED
      BY <2>1
  <1>4. \A j \in rows : j <= bound - n
    <2> SUFFICES ASSUME NEW j \in rows PROVE j <= bound - n
      OBVIOUS
    <2>1. bound - j \in Nat /\ bound - (bound - j) = j
      OBVIOUS
    <2>2. n <= bound - j
      BY <1>3, <2>1
    <2> QED
      BY <2>2
  <1> QED
    BY <1>4

(***************************************************************************)
(* One message per approval.                                                *)
(***************************************************************************)
\* A channel that has approvals has a latest one.
LEMMA LatestIsThere ==
  ASSUME approvals \in Seq(ApprovalRow), NEW ch, OfChannel(ch) # {}
  PROVE  latestApproval(ch) \in OfChannel(ch)
  <1>1. Len(approvals) \in Nat /\ OfChannel(ch) \in SUBSET (1..Len(approvals))
    BY DEF OfChannel
  <1>2. \E i \in OfChannel(ch) : \A j \in OfChannel(ch) : j <= i
    BY <1>1, LastOfRows
  <1> QED
    BY <1>2, Zenon DEF latestApproval

\* Withdrawing approvals changes nothing else of them.
LEMMA RevokedRows ==
  ASSUME approvals \in Seq(ApprovalRow), NEW set
  PROVE  /\ Revoked(set) \in Seq(ApprovalRow) /\ Len(Revoked(set)) = Len(approvals)
         /\ \A i \in DOMAIN approvals :
              /\ Revoked(set)[i].hash = approvals[i].hash
              /\ Revoked(set)[i].used = approvals[i].used
              /\ i \notin set => Revoked(set)[i] = approvals[i]
  <1>1. DOMAIN approvals = 1..Len(approvals) /\ Len(approvals) \in Nat
    OBVIOUS
  <1>2. \A i \in DOMAIN approvals : approvals[i] \in ApprovalRow
    OBVIOUS
  <1>3. Revoked(set) \in [1..Len(approvals) -> ApprovalRow]
    BY <1>1, <1>2 DEF Revoked, ApprovalRow
  <1>4. Revoked(set) \in Seq(ApprovalRow)
    BY <1>1, <1>3, SeqDef
  <1>5. Len(Revoked(set)) = Len(approvals)
    BY <1>1, <1>3, <1>4
  <1> QED
    BY <1>1, <1>2, <1>4, <1>5 DEF Revoked, ApprovalRow

LEMMA SendsInitInv == SendsInit => SendsInv
  <1> SUFFICES ASSUME SendsInit PROVE SendsInv
    OBVIOUS
  <1>1. /\ approvals = <<>> /\ handed = <<>> /\ DOMAIN approvals = {}
        /\ \A s \in Testers : work[s] = NoWork /\ work[s].at = "desk"
    BY DEF SendsInit, NoWork
  <1>2. SendsTypeOK
    <2>1. NoWork \in WorkType
      BY DEF NoWork, WorkType
    <2>2. work \in [Testers -> WorkType]
      BY <2>1 DEF SendsInit
    <2>3. content \in Nat /\ verified \in BOOLEAN
      BY DEF SendsInit
    <2>4. approvals \in Seq(ApprovalRow) /\ handed \in Seq(Nat) /\ Len(handed) = Len(approvals)
      BY <1>1
    <2> QED
      BY <2>2, <2>3, <2>4 DEF SendsTypeOK
  <1> QED
    BY <1>1, <1>2 DEF SendsInv, SendsAreApproved, ClaimsAreAlone, LocksAreUnused, Submitting,
                      OneApprovedMessageEach, WithdrawnIsNotUsed

\* A step of one request that leaves the approvals and the ledger alone, and
\* is not about to submit anything afterwards.
LEMMA Elsewhere ==
  ASSUME SendsInv, NEW s \in Testers, NEW w \in WorkType, Doing(s, w), w.at # "submit",
         UNCHANGED <<approvals, handed>>, content' \in Nat, verified' \in BOOLEAN,
         w.at \in {"claim", "answer"} => /\ w.id \in DOMAIN approvals
                                         /\ w.message = approvals[w.id].hash
                                         /\ w.at = "answer" => approvals[w.id].used,
         w.at = "approving" => w.locks \subseteq {i \in DOMAIN approvals : ~approvals[i].used}
  PROVE  SendsInv'
  <1>1. work' \in [Testers -> WorkType] /\ work'[s] = w /\ \A t \in Testers \ {s} : work'[t] = work[t]
    BY DEF Doing, SendsInv, SendsTypeOK
  <1>2. SendsTypeOK'
    BY <1>1 DEF SendsInv, SendsTypeOK
  <1>3. SendsAreApproved'
    BY <1>1 DEF SendsInv, SendsAreApproved, WorkType
  <1>4. ClaimsAreAlone'
    BY <1>1 DEF SendsInv, ClaimsAreAlone, Submitting
  <1>5. LocksAreUnused'
    BY <1>1 DEF SendsInv, LocksAreUnused
  <1>6. OneApprovedMessageEach'
    BY <1>1 DEF SendsInv, OneApprovedMessageEach, WithdrawnIsNotUsed, WorkType
  <1> QED
    BY <1>2, <1>3, <1>4, <1>5, <1>6 DEF SendsInv

LEMMA ApproveInv == ASSUME SendsInv, NEW s \in Testers, Approve(s) PROVE SendsInv'
  <1> DEFINE w == [at |-> "approving", ch |-> work[s].ch, hash |-> Hash(work[s].ch), locks |-> Unused(work[s].ch)]
  <1>1. work[s].ch \in Channels /\ content \in Nat /\ verified \in BOOLEAN
    BY DEF Approve, Offers, SendsInv, SendsTypeOK, WorkType
  <1>2. Unused(work[s].ch) \subseteq {i \in DOMAIN approvals : ~approvals[i].used} /\ DOMAIN approvals \subseteq Nat
    BY DEF Unused, SendsInv, SendsTypeOK
  <1>3. w \in WorkType
    BY <1>1, <1>2 DEF WorkType, Hash, Messages
  <1> QED
    BY <1>1, <1>2, <1>3, Elsewhere DEF Approve

LEMMA SendApprovedInv == ASSUME SendsInv, NEW s \in Testers, SendApproved(s) PROVE SendsInv'
  <1> DEFINE ch == work[s].ch
             w == [at |-> "claim", id |-> latestApproval(ch), message |-> Hash(ch)]
  <1>1. ch \in Channels /\ content \in Nat /\ verified \in BOOLEAN /\ approvals \in Seq(ApprovalRow)
    BY DEF SendApproved, Offers, SendsInv, SendsTypeOK, WorkType
  <1>2. Valid(ch)
    BY DEF SendApproved
  <1>3. latestApproval(ch) \in OfChannel(ch)
    BY <1>1, <1>2, LatestIsThere DEF Valid
  <1>4. latestApproval(ch) \in DOMAIN approvals /\ latestApproval(ch) \in Nat
    BY <1>1, <1>3 DEF OfChannel
  <1>5. approvals[latestApproval(ch)].hash = Hash(ch)
    BY <1>2 DEF Valid, checkApproval
  <1>6. w \in WorkType
    BY <1>1, <1>4 DEF WorkType, Hash, Messages
  <1>7. Doing(s, w) /\ UNCHANGED <<content, verified, approvals, handed>>
    BY DEF SendApproved
  <1> HIDE DEF ch
  <1>8. w.at = "claim" /\ w.id = latestApproval(ch) /\ w.message = Hash(ch)
    OBVIOUS
  <1> HIDE DEF w
  <1> QED
    BY <1>1, <1>4, <1>5, <1>6, <1>7, <1>8, Elsewhere

LEMMA CommitApprovalInv == ASSUME SendsInv, NEW s \in Testers, CommitApproval(s) PROVE SendsInv'
  <1> DEFINE w == work[s]
             rows == Revoked(w.locks)
             new == [ch |-> w.ch, hash |-> w.hash, used |-> FALSE, revoked |-> FALSE]
  <1>1. approvals \in Seq(ApprovalRow) /\ handed \in Seq(Nat) /\ Len(handed) = Len(approvals) /\ w \in WorkType
    BY DEF SendsInv, SendsTypeOK
  <1>2. w.ch \in Channels /\ w.hash \in Messages /\ w.locks \subseteq {i \in DOMAIN approvals : ~approvals[i].used}
    BY <1>1 DEF CommitApproval, WorkType, SendsInv, LocksAreUnused
  <1>3. new \in ApprovalRow
    BY <1>2 DEF ApprovalRow
  <1>4. /\ rows \in Seq(ApprovalRow) /\ Len(rows) = Len(approvals)
        /\ \A i \in DOMAIN approvals : /\ rows[i].hash = approvals[i].hash
                                       /\ rows[i].used = approvals[i].used
                                       /\ i \notin w.locks => rows[i] = approvals[i]
    BY <1>1, RevokedRows
  <1>5. approvals' = Append(rows, new) /\ handed' = Append(handed, 0) /\ content' = content /\ verified' = verified
    BY DEF CommitApproval
  <1>6. work' \in [Testers -> WorkType] /\ work'[s] = NoWork /\ \A t \in Testers \ {s} : work'[t] = work[t]
    BY DEF CommitApproval, Doing, NoWork, WorkType, SendsInv, SendsTypeOK
  <1> DEFINE n == Len(approvals)
  <1>7. /\ n \in Nat /\ DOMAIN approvals = 1..n /\ DOMAIN handed = 1..n
        /\ DOMAIN approvals' = 1..(n + 1) /\ approvals'[n + 1] = new /\ handed'[n + 1] = 0
        /\ \A i \in 1..n : approvals'[i] = rows[i] /\ handed'[i] = handed[i]
    <2> HIDE DEF rows, new
    <2> QED
      BY <1>1, <1>3, <1>4, <1>5
  <1>8. approvals' \in Seq(ApprovalRow) /\ handed' \in Seq(Nat) /\ Len(handed') = Len(approvals')
    <2> HIDE DEF rows, new
    <2> QED
      BY <1>1, <1>3, <1>4, <1>5
  <1>9. /\ DOMAIN approvals \subseteq DOMAIN approvals' /\ new.used = FALSE /\ new.revoked = FALSE
        /\ \A i \in DOMAIN approvals : /\ approvals'[i].hash = approvals[i].hash
                                       /\ approvals'[i].used = approvals[i].used
                                       /\ approvals[i].used => approvals'[i].revoked = approvals[i].revoked
                                       /\ handed'[i] = handed[i]
    BY <1>2, <1>4, <1>7
  <1>10. \A i \in DOMAIN approvals' : i \notin DOMAIN approvals =>
           ~approvals'[i].used /\ ~approvals'[i].revoked /\ handed'[i] = 0
    BY <1>7, <1>9
  <1> HIDE DEF w, rows, new, n
  <1>11. work'[s].at = "desk"
    BY <1>6 DEF NoWork
  <1>12. SendsTypeOK'
    BY <1>5, <1>6, <1>8 DEF SendsInv, SendsTypeOK
  <1>13. SendsAreApproved'
    BY <1>6, <1>9, <1>11 DEF SendsInv, SendsAreApproved
  <1>14. ClaimsAreAlone'
    BY <1>6, <1>9, <1>11 DEF SendsInv, ClaimsAreAlone, SendsAreApproved, Submitting
  <1>15. LocksAreUnused'
    BY <1>6, <1>9, <1>11 DEF SendsInv, LocksAreUnused
  <1>16. OneApprovedMessageEach'
    BY <1>6, <1>9, <1>10, <1>11 DEF SendsInv, OneApprovedMessageEach, WithdrawnIsNotUsed, SendsAreApproved
  <1> QED
    BY <1>12, <1>13, <1>14, <1>15, <1>16 DEF SendsInv

\* A withdrawal changes rows that are not used, and nothing else.
LEMMA RevokeApprovalsInv == ASSUME SendsInv, NEW s \in Testers, RevokeApprovals(s) PROVE SendsInv'
  <1> DEFINE set == Unused(work[s].ch)
             rows == Revoked(set)
  <1>1. approvals \in Seq(ApprovalRow) /\ handed \in Seq(Nat) /\ Len(handed) = Len(approvals)
    BY DEF SendsInv, SendsTypeOK
  <1>2. \A i \in set : ~approvals[i].used
    BY DEF Unused
  <1>3. /\ rows \in Seq(ApprovalRow) /\ Len(rows) = Len(approvals)
        /\ \A i \in DOMAIN approvals : /\ rows[i].hash = approvals[i].hash
                                       /\ rows[i].used = approvals[i].used
                                       /\ i \notin set => rows[i] = approvals[i]
    BY <1>1, RevokedRows
  <1>4. approvals' = rows /\ handed' = handed /\ content' = content /\ verified' = verified
    BY DEF RevokeApprovals
  <1>5. work' \in [Testers -> WorkType] /\ work'[s] = NoWork /\ \A t \in Testers \ {s} : work'[t] = work[t]
    BY DEF RevokeApprovals, Doing, NoWork, WorkType, SendsInv, SendsTypeOK
  <1> HIDE DEF set, rows
  <1>6. DOMAIN approvals' = DOMAIN approvals /\ Len(approvals') = Len(approvals) /\ approvals' \in Seq(ApprovalRow)
    BY <1>1, <1>3, <1>4
  <1>7. \A i \in DOMAIN approvals : /\ approvals'[i].hash = approvals[i].hash
                                    /\ approvals'[i].used = approvals[i].used
                                    /\ approvals[i].used => approvals'[i].revoked = approvals[i].revoked
    BY <1>2, <1>3, <1>4
  <1>8. work'[s].at = "desk"
    BY <1>5 DEF NoWork
  <1>9. SendsTypeOK'
    BY <1>1, <1>4, <1>5, <1>6 DEF SendsInv, SendsTypeOK
  <1>10. SendsAreApproved'
    BY <1>5, <1>6, <1>7, <1>8 DEF SendsInv, SendsAreApproved
  <1>11. ClaimsAreAlone'
    BY <1>4, <1>5, <1>6, <1>8 DEF SendsInv, ClaimsAreAlone, Submitting
  <1>12. LocksAreUnused'
    BY <1>5, <1>6, <1>7, <1>8 DEF SendsInv, LocksAreUnused
  <1>13. OneApprovedMessageEach'
    BY <1>4, <1>5, <1>6, <1>7, <1>8 DEF SendsInv, OneApprovedMessageEach, WithdrawnIsNotUsed, SendsAreApproved
  <1> QED
    BY <1>9, <1>10, <1>11, <1>12, <1>13 DEF SendsInv

\* The claim uses an approval nobody has used, withdrawn or is superseding.
LEMMA ClaimApprovalInv == ASSUME SendsInv, NEW s \in Testers, ClaimApproval(s) PROVE SendsInv'
  <1> DEFINE id == work[s].id
             w == [at |-> "submit", id |-> work[s].id, message |-> work[s].message]
  <1>1. /\ work[s].at = "claim" /\ id \in DOMAIN approvals /\ work[s] \in WorkType
        /\ work[s].message = approvals[id].hash
    BY DEF ClaimApproval, SendsInv, SendsTypeOK, SendsAreApproved
  <1>2. CASE ~Claimable(id)
    <2>1. Doing(s, NoWork) /\ UNCHANGED <<content, verified, approvals, handed>>
      BY <1>2 DEF ClaimApproval
    <2>2. NoWork \in WorkType /\ NoWork.at = "desk" /\ content \in Nat /\ verified \in BOOLEAN
      BY DEF NoWork, WorkType, SendsInv, SendsTypeOK
    <2> QED
      BY <2>1, <2>2, Elsewhere
  <1>3. CASE Claimable(id)
    <2>1. /\ approvals' = [approvals EXCEPT ![id].used = TRUE] /\ Doing(s, w)
          /\ handed' = handed /\ content' = content /\ verified' = verified
      BY <1>3 DEF ClaimApproval
    <2>2. approvals \in Seq(ApprovalRow) /\ handed \in Seq(Nat) /\ Len(handed) = Len(approvals)
      BY DEF SendsInv, SendsTypeOK
    <2>3. approvals[id] \in ApprovalRow
      BY <1>1, <2>2
    <2>4. /\ approvals'[id].used = TRUE /\ approvals'[id].hash = approvals[id].hash
          /\ approvals'[id].revoked = approvals[id].revoked
          /\ \A i \in DOMAIN approvals \ {id} : approvals'[i] = approvals[i]
          /\ DOMAIN approvals' = DOMAIN approvals
      BY <1>1, <2>1, <2>2, <2>3 DEF ApprovalRow
    <2>5. approvals' \in Seq(ApprovalRow) /\ Len(approvals') = Len(approvals)
      <3>1. [approvals[id] EXCEPT !.used = TRUE] \in ApprovalRow
        BY <2>3 DEF ApprovalRow
      <3> QED
        BY <1>1, <2>1, <2>2, <3>1
    <2>6. w \in WorkType /\ w.at = "submit" /\ w.id = id /\ w.message = approvals[id].hash
      BY <1>1 DEF WorkType
    <2>7. work' \in [Testers -> WorkType] /\ work'[s] = w /\ \A t \in Testers \ {s} : work'[t] = work[t]
      BY <2>1, <2>6 DEF Doing, SendsInv, SendsTypeOK
    <2>8. ~approvals[id].used /\ ~approvals[id].revoked /\ ~Locked(id)
      BY <1>3 DEF Claimable
    <2>9. handed[id] = 0
      <3>1. handed[id] <= 0 /\ handed[id] \in Nat
        BY <1>1, <2>2, <2>8 DEF SendsInv, OneApprovedMessageEach
      <3> QED
        BY <3>1
    <2>10. \A t \in Testers : ~Submitting(t, id)
      BY <2>8 DEF SendsInv, SendsAreApproved, Submitting
    <2> HIDE DEF id, w
    <2>11. SendsTypeOK'
      BY <2>1, <2>2, <2>5, <2>7 DEF SendsInv, SendsTypeOK
    <2>12. SendsAreApproved'
      BY <1>1, <2>4, <2>6, <2>7 DEF SendsInv, SendsAreApproved
    <2>13. ClaimsAreAlone'
      BY <2>1, <2>4, <2>6, <2>7, <2>9, <2>10 DEF SendsInv, ClaimsAreAlone, Submitting
    <2>14. LocksAreUnused'
      BY <2>4, <2>6, <2>7, <2>8 DEF SendsInv, LocksAreUnused, Locked
    <2>15. OneApprovedMessageEach'
      <3>1. WithdrawnIsNotUsed'
        BY <2>4, <2>8 DEF SendsInv, OneApprovedMessageEach, WithdrawnIsNotUsed
      <3>2. \A i \in DOMAIN approvals' : handed'[i] <= (IF approvals'[i].used THEN 1 ELSE 0)
        BY <2>1, <2>4, <2>9 DEF SendsInv, OneApprovedMessageEach
      <3>3. \A t \in Testers : work'[t].at = "answer" => work'[t].message = approvals'[work'[t].id].hash
        BY <2>12 DEF SendsAreApproved
      <3> QED
        BY <3>1, <3>2, <3>3 DEF OneApprovedMessageEach
    <2> QED
      BY <2>11, <2>12, <2>13, <2>14, <2>15 DEF SendsInv
  <1> QED
    BY <1>2, <1>3

\* A claimed message is handed over once.
LEMMA SubmitInv == ASSUME SendsInv, NEW s \in Testers, Submit(s) PROVE SendsInv'
  <1> DEFINE id == work[s].id
             w == [at |-> "answer", id |-> work[s].id, message |-> work[s].message]
  <1>1. /\ work[s].at = "submit" /\ id \in DOMAIN approvals /\ work[s] \in WorkType
        /\ work[s].message = approvals[id].hash /\ approvals[id].used
    BY DEF Submit, SendsInv, SendsTypeOK, SendsAreApproved
  <1>2. /\ handed' = [handed EXCEPT ![id] = @ + 1] /\ Doing(s, w)
        /\ approvals' = approvals /\ content' = content /\ verified' = verified
    BY DEF Submit, Submitted
  <1>3. approvals \in Seq(ApprovalRow) /\ handed \in Seq(Nat) /\ Len(handed) = Len(approvals)
    BY DEF SendsInv, SendsTypeOK
  <1>4. handed[id] = 0 /\ \A t \in Testers : Submitting(t, id) => t = s
    BY <1>1 DEF SendsInv, ClaimsAreAlone, Submitting
  <1>5. /\ handed' \in Seq(Nat) /\ Len(handed') = Len(handed) /\ handed'[id] = 1
        /\ \A i \in DOMAIN approvals \ {id} : handed'[i] = handed[i]
    BY <1>1, <1>2, <1>3, <1>4
  <1>6. w \in WorkType /\ w.at = "answer" /\ w.id = id /\ w.message = approvals[id].hash
    BY <1>1 DEF WorkType
  <1>7. work' \in [Testers -> WorkType] /\ work'[s] = w /\ \A t \in Testers \ {s} : work'[t] = work[t]
    BY <1>2, <1>6 DEF Doing, SendsInv, SendsTypeOK
  <1> HIDE DEF id, w
  <1>8. SendsTypeOK'
    BY <1>2, <1>3, <1>5, <1>7 DEF SendsInv, SendsTypeOK
  <1>9. SendsAreApproved'
    BY <1>1, <1>2, <1>6, <1>7 DEF SendsInv, SendsAreApproved
  <1>10. ClaimsAreAlone'
    BY <1>2, <1>4, <1>5, <1>6, <1>7 DEF SendsInv, ClaimsAreAlone, Submitting
  <1>11. LocksAreUnused'
    BY <1>2, <1>6, <1>7 DEF SendsInv, LocksAreUnused
  <1>12. OneApprovedMessageEach'
    <2>1. WithdrawnIsNotUsed'
      BY <1>2 DEF SendsInv, OneApprovedMessageEach, WithdrawnIsNotUsed
    <2>2. \A i \in DOMAIN approvals' : handed'[i] <= (IF approvals'[i].used THEN 1 ELSE 0)
      BY <1>1, <1>2, <1>5 DEF SendsInv, OneApprovedMessageEach
    <2>3. \A t \in Testers : work'[t].at = "answer" => work'[t].message = approvals'[work'[t].id].hash
      BY <1>9 DEF SendsAreApproved
    <2> QED
      BY <2>1, <2>2, <2>3 DEF OneApprovedMessageEach
  <1> QED
    BY <1>8, <1>9, <1>10, <1>11, <1>12 DEF SendsInv

LEMMA SendsStepInv == SendsInv /\ [SendsNext]_sendsVars => SendsInv'
  <1> SUFFICES ASSUME SendsInv, [SendsNext]_sendsVars PROVE SendsInv'
    OBVIOUS
  <1>1. content \in Nat /\ verified \in BOOLEAN /\ NoWork \in WorkType /\ NoWork.at = "desk"
    BY DEF SendsInv, SendsTypeOK, NoWork, WorkType
  <1> DEFINE Still == UNCHANGED <<approvals, handed, work>> /\ content' \in Nat /\ verified' \in BOOLEAN
  <1>2. CASE Still
    BY <1>2 DEF SendsInv, SendsTypeOK, SendsAreApproved, ClaimsAreAlone, LocksAreUnused, Submitting,
                OneApprovedMessageEach, WithdrawnIsNotUsed
  <1>3. ASSUME NEW c \in 0..MaxEdits, EditNewsletter(c) PROVE SendsInv'
    BY <1>1, <1>2, <1>3, SendsAssumption DEF EditNewsletter
  <1>4. ASSUME StoreDomain PROVE SendsInv'
    BY <1>1, <1>2, <1>4 DEF StoreDomain
  <1>5. ASSUME UNCHANGED sendsVars PROVE SendsInv'
    BY <1>1, <1>2, <1>5 DEF sendsVars
  <1>6. ASSUME NEW s \in Testers, NEW ch \in Channels, OpenPanel(s, ch) PROVE SendsInv'
    <2>1. Panel(ch) \in WorkType /\ Panel(ch).at = "panel"
      BY DEF Panel, WorkType
    <2> QED
      BY <1>1, <1>6, <2>1, Elsewhere DEF OpenPanel
  <1>7. ASSUME NEW s \in Testers, RecordAnswer(s) \/ AbandonSend(s) PROVE SendsInv'
    BY <1>1, <1>7, Elsewhere DEF RecordAnswer, AbandonSend
  <1> HIDE DEF Still
  <1> QED
    BY <1>3, <1>4, <1>5, <1>6, <1>7, ApproveInv, RevokeApprovalsInv, SendApprovedInv, CommitApprovalInv,
       ClaimApprovalInv, SubmitInv DEF SendsNext

\* The strengthening holds in every behaviour of the panels, the claims and
\* the submissions.
THEOREM SendsInvariant == SendsSpec => []SendsInv
  BY SendsInitInv, SendsStepInv, PTL DEF SendsSpec

\* testSendService.ts, providerPilotService.ts: an approval authorizes at most
\* one message, the one it was given for, and none once it is withdrawn or
\* superseded, however many press the button and whatever is edited meanwhile.
THEOREM OneMessagePerApproval == SendsSpec => []OneApprovedMessageEach
  <1>1. SendsInv => OneApprovedMessageEach
    BY DEF SendsInv
  <1> QED
    BY <1>1, SendsInvariant, PTL

(***************************************************************************)
(* The caps of QA mail.                                                     *)
(***************************************************************************)
LEMMA QaInitInv == QaInit => QaInv
  <1> SUFFICES ASSUME QaInit PROVE QaInv
    OBVIOUS
  <1>1. /\ qaRuns = <<>> /\ ledger = <<>> /\ arrived = {} /\ DOMAIN ledger = {}
        /\ \A s \in Senders : desk[s] = AtDesk /\ desk[s].at = "desk"
    BY DEF QaInit, AtDesk
  <1>2. QaTypeOK
    <2>1. AtDesk \in QaDeskType
      BY DEF AtDesk, QaDeskType
    <2>2. desk \in [Senders -> QaDeskType]
      BY <2>1 DEF QaInit
    <2> QED
      BY <1>1, <2>2 DEF QaTypeOK, QaInit
  <1>3. \A inboxes : CountedTo(inboxes) = {} /\ PastCount(inboxes) = {}
    BY <1>1 DEF CountedTo, LiveRows, PastCount, Uncounted, Senders
  <1>4. Cardinality({}) = 0 /\ crowd = 0
    BY FS_EmptySet DEF QaInit
  <1>5. \A inboxes : \A cap \in {HardTotal, HardPerRecipient} : Below(inboxes, cap)
    BY <1>3, <1>4, QaAssumption DEF Below
  <1> QED
    BY <1>1, <1>2, <1>5 DEF QaInv, SendsKeepTheirRow, Sent, ArrivedMailIsCounted, CountsStayBelow

\* What is compared with a cap is finite.
LEMMA CountsAreFinite ==
  ASSUME QaTypeOK, NEW inboxes
  PROVE  IsFiniteSet(CountedTo(inboxes)) /\ IsFiniteSet(PastCount(inboxes)) /\ IsFiniteSet(LiveRows)
  <1>1. DOMAIN ledger = 1..Len(ledger) /\ Len(ledger) \in Nat
    BY DEF QaTypeOK
  <1>2. IsFiniteSet(DOMAIN ledger)
    BY <1>1, FS_Interval
  <1>3. LiveRows \subseteq DOMAIN ledger /\ CountedTo(inboxes) \subseteq DOMAIN ledger /\ PastCount(inboxes) \subseteq QaCalls
    BY DEF LiveRows, CountedTo, PastCount, Uncounted
  <1> QED
    BY <1>2, <1>3, QaAssumption, FS_Subset

\* Nothing more is counted or past its count.
LEMMA BelowFewer ==
  ASSUME QaTypeOK, QaTypeOK', NEW inboxes, NEW cap \in Nat, Below(inboxes, cap), crowd <= crowd',
         CountedTo(inboxes)' \subseteq CountedTo(inboxes), PastCount(inboxes)' \subseteq PastCount(inboxes)
  PROVE  Below(inboxes, cap)'
  <1> DEFINE c == CountedTo(inboxes)
             d == CountedTo(inboxes)'
             p == PastCount(inboxes)
             q == PastCount(inboxes)'
  <1>1. IsFiniteSet(c) /\ IsFiniteSet(p)
    BY CountsAreFinite
  <1>2. d \subseteq c /\ q \subseteq p /\ Cardinality(c) + Cardinality(p) < cap + crowd
    BY DEF Below
  <1> HIDE DEF c, d, p, q
  <1>3. /\ Cardinality(d) <= Cardinality(c) /\ Cardinality(q) <= Cardinality(p)
        /\ {Cardinality(c), Cardinality(d), Cardinality(p), Cardinality(q), crowd, crowd'} \subseteq Nat
    BY <1>1, <1>2, FS_Subset, FS_CardinalityType DEF QaTypeOK
  <1>4. Cardinality(d) + Cardinality(q) < cap + crowd'
    BY <1>2, <1>3
  <1> QED
    BY <1>4 DEF Below, d, q

\* One more is past its count, after the ledger was found below the cap.
LEMMA BelowOnePast ==
  ASSUME QaTypeOK, NEW inboxes, NEW cap \in Nat,
         Cardinality(CountedTo(inboxes)) < cap, crowd' \in Nat, Cardinality(Uncounted') <= crowd',
         CountedTo(inboxes)' = CountedTo(inboxes), PastCount(inboxes)' \subseteq Uncounted'
  PROVE  Below(inboxes, cap)'
  <1> DEFINE c == CountedTo(inboxes)
             q == PastCount(inboxes)'
             u == Uncounted'
  <1>1. IsFiniteSet(c) /\ q \subseteq u /\ u \subseteq QaCalls /\ Cardinality(c) < cap
    BY CountsAreFinite DEF Uncounted
  <1> HIDE DEF c, q, u
  <1>2. IsFiniteSet(u)
    BY <1>1, QaAssumption, FS_Subset
  <1>3. Cardinality(q) <= Cardinality(u) /\ {Cardinality(c), Cardinality(q), Cardinality(u)} \subseteq Nat
    BY <1>1, <1>2, FS_Subset, FS_CardinalityType
  <1>4. Cardinality(u) <= crowd'
    BY DEF u
  <1>5. Cardinality(c) + Cardinality(q) < cap + crowd'
    BY <1>1, <1>3, <1>4
  <1> QED
    BY <1>5 DEF Below, c, q

\* One that is past its count becomes a row that is counted.
LEMMA BelowOneCounted ==
  ASSUME QaTypeOK, NEW inboxes, NEW cap \in Nat, Below(inboxes, cap), crowd' = crowd,
         NEW s \in PastCount(inboxes), NEW m,
         CountedTo(inboxes)' \subseteq CountedTo(inboxes) \cup {m}, PastCount(inboxes)' = PastCount(inboxes) \ {s}
  PROVE  Below(inboxes, cap)'
  <1> DEFINE c == CountedTo(inboxes)
             d == CountedTo(inboxes)'
             p == PastCount(inboxes)
             q == PastCount(inboxes)'
  <1>1. IsFiniteSet(c) /\ IsFiniteSet(p) /\ s \in p
    BY CountsAreFinite
  <1>2. d \subseteq c \cup {m} /\ q = p \ {s} /\ Cardinality(c) + Cardinality(p) < cap + crowd
    BY DEF Below
  <1> HIDE DEF c, d, p, q
  <1>3. IsFiniteSet(c \cup {m}) /\ Cardinality(c \cup {m}) <= Cardinality(c) + 1
    <2>1. IsFiniteSet(c \cup {m}) /\ Cardinality(c \cup {m}) \in {Cardinality(c), Cardinality(c) + 1}
      BY <1>1, FS_AddElement, Zenon
    <2>2. Cardinality(c) \in Nat
      BY <1>1, FS_CardinalityType
    <2> QED
      BY <2>1, <2>2
  <1>4. Cardinality(d) <= Cardinality(c \cup {m}) /\ IsFiniteSet(d)
    BY <1>2, <1>3, FS_Subset
  <1>5. IsFiniteSet(q) /\ Cardinality(q) = Cardinality(p) - 1
    BY <1>1, <1>2, FS_RemoveElement
  <1>6. {Cardinality(c), Cardinality(c \cup {m}), Cardinality(d), Cardinality(p), Cardinality(q), crowd} \subseteq Nat
    BY <1>1, <1>3, <1>4, <1>5, FS_CardinalityType DEF QaTypeOK
  <1>7. Cardinality(d) + Cardinality(q) < cap + crowd
    BY <1>2, <1>3, <1>4, <1>5, <1>6
  <1> QED
    BY <1>7 DEF Below, d, q

\* Every sender but the one that moves keeps its row.
LEMMA OthersKeepTheirRow ==
  ASSUME QaInv, NEW s \in Senders, NEW w, w \in QaDeskType, desk' = [desk EXCEPT ![s] = w],
         \A u \in Senders \ {s} : \A r \in DOMAIN qaRuns :
           OwnRow(qaRuns[r], u) => r \in DOMAIN qaRuns' /\ OwnRow(qaRuns'[r], u),
         \A u \in Senders \ {s} :
           Sent(u) => LET m == desk[u].mail IN
                      m \in DOMAIN ledger' /\ ledger'[m] = ledger[m] /\ (m \in arrived' => m \in arrived),
         w.at = "attempt" => w.run \in DOMAIN qaRuns' /\ OwnRow(qaRuns'[w.run], s),
         w.at \in {"network", "record"} =>
           /\ w.mail \in DOMAIN ledger' /\ OwnRow(ledger'[w.mail], s) /\ ledger'[w.mail].state = "SENDING"
           /\ \A u \in Senders \ {s} : Sent(u) => desk[u].mail # w.mail
           /\ w.at = "network" \/ w.reply = "refused" => w.mail \notin arrived'
  PROVE  SendsKeepTheirRow' /\ desk' \in [Senders -> QaDeskType]
  <1>1. /\ desk' \in [Senders -> QaDeskType] /\ desk'[s] = w
        /\ \A u \in Senders \ {s} : desk'[u] = desk[u]
    BY DEF QaInv, QaTypeOK
  <1>2. SendsKeepTheirRow
    BY DEF QaInv
  <1>3. ASSUME NEW u \in Senders, desk'[u].at = "attempt"
        PROVE  desk'[u].run \in DOMAIN qaRuns' /\ OwnRow(qaRuns'[desk'[u].run], u)
    BY <1>1, <1>2, <1>3 DEF SendsKeepTheirRow
  <1>4. ASSUME NEW u \in Senders, Sent(u)'
        PROVE  LET m == desk'[u].mail IN
               /\ m \in DOMAIN ledger' /\ OwnRow(ledger'[m], u) /\ ledger'[m].state = "SENDING"
               /\ \A v \in Senders : Sent(v)' /\ desk'[v].mail = m => v = u
               /\ desk'[u].at = "network" \/ desk'[u].reply = "refused" => m \notin arrived'
    <2>1. CASE u = s
      BY <1>1, <1>4, <2>1 DEF Sent
    <2>2. CASE u # s
      BY <1>1, <1>2, <1>4, <2>2 DEF Sent, SendsKeepTheirRow
    <2> QED
      BY <2>1, <2>2
  <1> QED
    BY <1>1, <1>3, <1>4 DEF SendsKeepTheirRow, OwnRow, QaOrigin, FixtureOwner, Sent

LEMMA FewerCounts ==
  ASSUME QaInv, QaTypeOK', crowd' = crowd,
         \A inboxes : CountedTo(inboxes)' \subseteq CountedTo(inboxes) /\ PastCount(inboxes)' \subseteq PastCount(inboxes)
  PROVE  CountsStayBelow'
  <1>1. /\ QaTypeOK /\ CountsStayBelow /\ {HardTotal, HardPerRecipient} \subseteq Nat
        /\ crowd <= crowd'
    BY QaAssumption DEF QaInv, QaTypeOK
  <1>2. Below(Inboxes, HardTotal)'
    BY <1>1, BelowFewer DEF CountsStayBelow
  <1>3. \A to \in Inboxes : Below({to}, HardPerRecipient)'
    BY <1>1, BelowFewer DEF CountsStayBelow
  <1> QED
    BY <1>2, <1>3 DEF CountsStayBelow

\* A step that touches runs and the desk, and no row of the ledger.
LEMMA RunStepInv ==
  ASSUME QaInv, NEW s \in Senders, NEW w \in QaDeskType, w.at \notin {"attempt", "network", "record"},
         desk' = [desk EXCEPT ![s] = w], qaRuns' \in Seq({Removed} \cup RunRow),
         UNCHANGED <<ledger, arrived, crowd>>,
         \A r \in DOMAIN qaRuns : r \in DOMAIN qaRuns'
                                  /\ qaRuns'[r].origin = qaRuns[r].origin /\ qaRuns'[r].owner = qaRuns[r].owner
  PROVE  QaInv'
  <1>1. SendsKeepTheirRow' /\ desk' \in [Senders -> QaDeskType]
    BY OthersKeepTheirRow DEF OwnRow, QaInv, SendsKeepTheirRow
  <1>2. QaTypeOK'
    BY <1>1 DEF QaInv, QaTypeOK
  <1>3. ArrivedMailIsCounted'
    BY DEF QaInv, ArrivedMailIsCounted
  <1>4. \A inboxes : CountedTo(inboxes)' \subseteq CountedTo(inboxes) /\ PastCount(inboxes)' \subseteq PastCount(inboxes)
    <2>1. \A u \in Senders : desk'[u] = IF u = s THEN w ELSE desk[u]
      BY DEF QaInv, QaTypeOK
    <2> QED
      BY <2>1 DEF CountedTo, LiveRows, PastCount, Uncounted, Senders
  <1> QED
    BY <1>1, <1>2, <1>3, <1>4, FewerCounts DEF QaInv

LEMMA QaRunsInv ==
  ASSUME QaInv, NEW s \in Senders,
         openQaRun(s) \/ createRun(s) \/ AbandonQa(s) \/ \E r \in OpenRuns(s) : closeQaRun(s, r)
  PROVE  QaInv'
  <1>1. /\ qaRuns \in Seq({Removed} \cup RunRow) /\ desk \in [Senders -> QaDeskType]
        /\ AtDesk \in QaDeskType /\ AtDesk.at = "desk"
    BY DEF QaInv, QaTypeOK, AtDesk, QaDeskType
  <1>2. CASE openQaRun(s)
    <2>1. [at |-> "opening"] \in QaDeskType
      BY DEF QaDeskType
    <2> QED
      BY <1>1, <1>2, <2>1, RunStepInv DEF openQaRun, Waits
  <1>3. CASE AbandonQa(s)
    BY <1>1, <1>3, RunStepInv DEF AbandonQa, Waits
  <1>4. CASE createRun(s)
    <2> DEFINE run == [origin |-> QaOrigin(s), owner |-> FixtureOwner(s), status |-> "OPEN"]
    <2>1. run \in RunRow
      BY DEF RunRow, QaOrigin, FixtureOwner
    <2>2. qaRuns' = Append(qaRuns, run) /\ desk' = [desk EXCEPT ![s] = AtDesk] /\ UNCHANGED <<ledger, arrived, crowd>>
      BY <1>4 DEF createRun, Waits
    <2> HIDE DEF run
    <2>3. qaRuns' \in Seq({Removed} \cup RunRow) /\ \A q \in DOMAIN qaRuns : q \in DOMAIN qaRuns' /\ qaRuns'[q] = qaRuns[q]
      BY <1>1, <2>1, <2>2
    <2> QED
      BY <1>1, <2>2, <2>3, RunStepInv
  <1>5. ASSUME NEW r \in OpenRuns(s), closeQaRun(s, r) PROVE QaInv'
    <2>1. r \in DOMAIN qaRuns /\ qaRuns[r] \in RunRow
      BY <1>1, <1>5 DEF closeQaRun, OpenRuns, RunRow, QaOrigin, FixtureOwner
    <2>2. qaRuns' = [qaRuns EXCEPT ![r].status = "CLOSED"] /\ UNCHANGED <<ledger, arrived, desk, crowd>> /\ desk[s] = AtDesk
      BY <1>5 DEF closeQaRun
    <2>3. [qaRuns[r] EXCEPT !.status = "CLOSED"] \in RunRow
      BY <2>1 DEF RunRow
    <2>4. qaRuns' \in Seq({Removed} \cup RunRow)
      BY <1>1, <2>1, <2>2, <2>3
    <2>5. \A q \in DOMAIN qaRuns : /\ q \in DOMAIN qaRuns'
                                   /\ qaRuns'[q].origin = qaRuns[q].origin /\ qaRuns'[q].owner = qaRuns[q].owner
      BY <1>1, <2>1, <2>2 DEF RunRow
    <2>6. desk' = [desk EXCEPT ![s] = AtDesk]
      BY <1>1, <2>2
    <2> QED
      BY <1>1, <2>2, <2>4, <2>5, <2>6, RunStepInv
  <1> QED
    BY <1>2, <1>3, <1>4, <1>5

\* A send passes its count only where the ledger is below the caps.
LEMMA SendQaInv == ASSUME QaInv, NEW s \in Senders, NEW to \in Inboxes, SendQa(s, to) PROVE QaInv'
  <1> DEFINE run == CHOOSE r \in OpenRuns(s) : \A q \in OpenRuns(s) : q <= r
             w == [at |-> "attempt", run |-> run, to |-> to]
  <1>1. /\ OpenRuns(s) # {} /\ isWithinQaCaps(LiveRows, to) /\ desk' = [desk EXCEPT ![s] = w]
        /\ crowd' = IF Cardinality(Uncounted') > crowd THEN Cardinality(Uncounted') ELSE crowd
        /\ UNCHANGED <<qaRuns, ledger, arrived>>
    BY DEF SendQa, Waits, Counted
  <1>2. QaTypeOK /\ Len(qaRuns) \in Nat /\ OpenRuns(s) \in SUBSET (1..Len(qaRuns)) /\ DOMAIN qaRuns = 1..Len(qaRuns)
    BY DEF QaInv, QaTypeOK, OpenRuns
  <1>3. run \in OpenRuns(s)
    <2>1. \E r \in OpenRuns(s) : \A q \in OpenRuns(s) : q <= r
      BY <1>1, <1>2, LastOfRows
    <2> QED
      BY <2>1, Zenon
  <1> HIDE DEF run
  <1>4. run \in DOMAIN qaRuns /\ run \in Nat /\ OwnRow(qaRuns[run], s)
    BY <1>2, <1>3 DEF OpenRuns, OwnRow
  <1>5. w \in QaDeskType /\ w.at = "attempt" /\ w.run = run /\ w.to = to
    BY <1>4 DEF QaDeskType
  <1> HIDE DEF w
  <1>6. SendsKeepTheirRow' /\ desk' \in [Senders -> QaDeskType]
    BY <1>1, <1>4, <1>5, OthersKeepTheirRow DEF QaInv, SendsKeepTheirRow
  <1>10. crowd' \in Nat /\ crowd <= crowd' /\ Cardinality(Uncounted') <= crowd'
    <2>1. Uncounted' \subseteq QaCalls
      BY DEF Uncounted
    <2>2. IsFiniteSet(Uncounted')
      BY <2>1, QaAssumption, FS_Subset
    <2>3. Cardinality(Uncounted') \in Nat /\ crowd \in Nat
      BY <1>2, <2>2, FS_CardinalityType DEF QaTypeOK
    <2> QED
      BY <1>1, <2>3
  <1>7. QaTypeOK'
    BY <1>1, <1>6, <1>10 DEF QaInv, QaTypeOK
  <1>8. ArrivedMailIsCounted'
    BY <1>1 DEF QaInv, ArrivedMailIsCounted
  <1>9. CountsStayBelow'
    <2>1. \A inboxes : CountedTo(inboxes)' = CountedTo(inboxes) /\ PastCount(inboxes)' \subseteq Uncounted'
      BY <1>1 DEF CountedTo, LiveRows, PastCount
    <2>2. CountedTo(Inboxes) \subseteq LiveRows /\ CountedTo({to}) = {m \in LiveRows : ledger[m].to = to}
      BY DEF CountedTo
    <2>3. Cardinality(CountedTo(Inboxes)) < HardTotal /\ Cardinality(CountedTo({to})) < HardPerRecipient
      <3>1. Cardinality(CountedTo(Inboxes)) <= Cardinality(LiveRows)
        BY <1>2, <2>2, CountsAreFinite, FS_Subset
      <3>2. /\ Cardinality(LiveRows) \in Nat /\ Cardinality(CountedTo(Inboxes)) \in Nat
            /\ HardTotal \in Nat /\ Cardinality(LiveRows) < HardTotal
        BY <1>1, <1>2, CountsAreFinite, FS_CardinalityType, QaAssumption DEF isWithinQaCaps
      <3>3. Cardinality(CountedTo({to})) < HardPerRecipient
        BY <1>1, <2>2, Zenon DEF isWithinQaCaps
      <3> QED
        BY <3>1, <3>2, <3>3
    <2>4. \A other \in Inboxes \ {to} : PastCount({other})' \subseteq PastCount({other})
      <3>1. \A u \in QaCalls : desk'[u] = IF u = s THEN w ELSE desk[u]
        BY <1>1 DEF QaInv, QaTypeOK, Senders
      <3> QED
        BY <1>5, <3>1 DEF PastCount, Uncounted
    <2>5. Below(Inboxes, HardTotal)' /\ Below({to}, HardPerRecipient)'
      BY <1>2, <1>10, <2>1, <2>3, BelowOnePast, QaAssumption
    <2>6. \A other \in Inboxes \ {to} : Below({other}, HardPerRecipient)'
      BY <1>2, <1>7, <1>10, <2>1, <2>4, BelowFewer, QaAssumption DEF QaInv, CountsStayBelow
    <2> QED
      BY <2>5, <2>6 DEF CountsStayBelow
  <1> QED
    BY <1>6, <1>7, <1>8, <1>9 DEF QaInv

\* The row of a send takes the place of its count.
LEMMA CreateSendInv == ASSUME QaInv, NEW s \in Senders, createSend(s) PROVE QaInv'
  <1> DEFINE run == qaRuns[desk[s].run]
             row == [origin |-> run.origin, owner |-> run.owner, to |-> desk[s].to, run |-> desk[s].run, state |-> "SENDING"]
             m == Len(ledger) + 1
             w == [at |-> "network", mail |-> m]
  <1>1. /\ desk[s].at = "attempt" /\ ledger' = Append(ledger, row) /\ desk' = [desk EXCEPT ![s] = w]
        /\ UNCHANGED <<qaRuns, arrived, crowd>>
    BY DEF createSend, Waits
  <1>2. QaTypeOK /\ ledger \in Seq({Removed} \cup MailRow) /\ Len(ledger) \in Nat /\ DOMAIN ledger = 1..Len(ledger)
    BY DEF QaInv, QaTypeOK
  <1>3. /\ desk[s].run \in Nat /\ desk[s].to \in Inboxes
        /\ run.origin = QaOrigin(s) /\ run.owner = FixtureOwner(s)
    BY <1>1 DEF QaInv, QaTypeOK, QaDeskType, SendsKeepTheirRow, OwnRow
  <1>4. row \in MailRow
    BY <1>3 DEF MailRow, QaOrigin, FixtureOwner, QUOTA_STATES
  <1>5. /\ row.origin = QaOrigin(s) /\ row.owner = FixtureOwner(s) /\ row.to = desk[s].to /\ row.state = "SENDING"
    BY <1>3
  <1> HIDE DEF run, row
  <1>6. /\ ledger' \in Seq({Removed} \cup MailRow) /\ DOMAIN ledger' = DOMAIN ledger \cup {m}
        /\ m \notin DOMAIN ledger /\ m \in Nat /\ ledger'[m] = row
        /\ \A i \in DOMAIN ledger : ledger'[i] = ledger[i]
    BY <1>1, <1>2, <1>4
  <1>7. w \in QaDeskType /\ w.at = "network" /\ w.mail = m
    BY <1>6 DEF QaDeskType
  <1>8. m \notin arrived
    BY <1>2, <1>6 DEF QaTypeOK
  <1> HIDE DEF m, w
  <1>9. SendsKeepTheirRow' /\ desk' \in [Senders -> QaDeskType]
    <2>1. \A u \in Senders \ {s} : Sent(u) => /\ desk[u].mail \in DOMAIN ledger' /\ desk[u].mail # m
                                              /\ ledger'[desk[u].mail] = ledger[desk[u].mail]
      BY <1>6 DEF QaInv, SendsKeepTheirRow
    <2>2. OwnRow(ledger'[m], s) /\ ledger'[m].state = "SENDING" /\ m \in DOMAIN ledger'
      BY <1>5, <1>6 DEF OwnRow
    <2> QED
      BY <1>1, <1>7, <1>8, <2>1, <2>2, OthersKeepTheirRow
  <1>10. QaTypeOK'
    BY <1>1, <1>2, <1>6, <1>9 DEF QaTypeOK
  <1>11. ArrivedMailIsCounted'
    BY <1>1, <1>2, <1>6 DEF QaInv, QaTypeOK, ArrivedMailIsCounted
  <1>12. CountsStayBelow'
    <2>1. \A u \in QaCalls : desk'[u] = IF u = s THEN w ELSE desk[u]
      BY <1>1 DEF QaInv, QaTypeOK, Senders
    <2>2. \A inboxes : PastCount(inboxes)' = PastCount(inboxes) \ {s}
      BY <1>7, <2>1 DEF PastCount, Uncounted
    <2>3. ASSUME NEW inboxes, s \notin QaCalls \/ desk[s].to \notin inboxes
          PROVE  CountedTo(inboxes)' \subseteq CountedTo(inboxes)
      BY <1>5, <1>6, <2>3 DEF CountedTo, LiveRows, QaOrigin, Senders
    <2>4. \A inboxes : CountedTo(inboxes)' \subseteq CountedTo(inboxes) \cup {m}
      BY <1>6 DEF CountedTo, LiveRows
    <2>5. ASSUME NEW inboxes, NEW cap \in Nat, Below(inboxes, cap) PROVE Below(inboxes, cap)'
      <3>1. CASE s \in QaCalls /\ desk[s].to \in inboxes
        <4>1. s \in PastCount(inboxes)
          BY <1>1, <3>1 DEF PastCount, Uncounted
        <4> QED
          BY <1>1, <1>2, <2>2, <2>4, <2>5, <4>1, BelowOneCounted
      <3>2. CASE ~(s \in QaCalls /\ desk[s].to \in inboxes)
        <4>1. crowd <= crowd'
          BY <1>1, <1>2 DEF QaTypeOK
        <4> QED
          BY <1>2, <1>10, <2>2, <2>3, <2>5, <3>2, <4>1, BelowFewer
      <3> QED
        BY <3>1, <3>2
    <2>6. Below(Inboxes, HardTotal)'
      BY <2>5, QaAssumption DEF QaInv, CountsStayBelow
    <2>7. \A to \in Inboxes : Below({to}, HardPerRecipient)'
      BY <2>5, QaAssumption DEF QaInv, CountsStayBelow
    <2> QED
      BY <2>6, <2>7 DEF CountsStayBelow
  <1> QED
    BY <1>9, <1>10, <1>11, <1>12 DEF QaInv

\* What got through was on its way, and its row counts.
LEMMA QaNetworkInv ==
  ASSUME QaInv, NEW s \in Senders, NEW reply \in Replies, NEW reached \in BOOLEAN, QaNetwork(s, reply, reached)
  PROVE  QaInv'
  <1> DEFINE m == desk[s].mail
             w == [at |-> "record", mail |-> m, reply |-> reply]
  <1>1. /\ desk[s].at = "network" /\ reached \in MayReach(s, reply) /\ desk' = [desk EXCEPT ![s] = w]
        /\ arrived' = (IF reached THEN arrived \cup {m} ELSE arrived) /\ UNCHANGED <<qaRuns, ledger, crowd>>
    BY DEF QaNetwork, Waits
  <1>2. /\ m \in DOMAIN ledger /\ OwnRow(ledger[m], s) /\ ledger[m].state = "SENDING" /\ m \notin arrived
        /\ \A u \in Senders \ {s} : Sent(u) => desk[u].mail # m
    BY <1>1 DEF QaInv, SendsKeepTheirRow, Sent
  <1>3. w \in QaDeskType /\ w.at = "record" /\ w.mail = m /\ w.reply = reply
    BY <1>1, <1>2 DEF QaInv, QaTypeOK, QaDeskType
  <1>4. arrived' \subseteq arrived \cup {m} /\ (m \in arrived' => s \in QaCalls /\ reply # "refused")
    BY <1>1, <1>2 DEF MayReach, Senders
  <1> HIDE DEF m, w
  <1>5. SendsKeepTheirRow' /\ desk' \in [Senders -> QaDeskType]
    <2>1. \A u \in Senders \ {s} : Sent(u) => /\ desk[u].mail \in DOMAIN ledger
                                              /\ desk[u].mail \in arrived' => desk[u].mail \in arrived
      BY <1>2, <1>4 DEF QaInv, SendsKeepTheirRow
    <2>2. w.reply = "refused" => m \notin arrived'
      BY <1>3, <1>4
    <2> QED
      BY <1>1, <1>2, <1>3, <2>1, <2>2, OthersKeepTheirRow
  <1>6. QaTypeOK'
    BY <1>1, <1>2, <1>4, <1>5 DEF QaInv, QaTypeOK
  <1>7. ArrivedMailIsCounted'
    <2>1. m \in arrived' => ledger[m].origin = "LIVE" /\ ledger[m].state \in QUOTA_STATES
      BY <1>2, <1>4, QaAssumption DEF OwnRow, QaOrigin, QUOTA_STATES
    <2> QED
      BY <1>1, <1>4, <2>1 DEF QaInv, ArrivedMailIsCounted
  <1>8. \A inboxes : CountedTo(inboxes)' \subseteq CountedTo(inboxes) /\ PastCount(inboxes)' \subseteq PastCount(inboxes)
    <2>1. \A u \in Senders : desk'[u] = IF u = s THEN w ELSE desk[u]
      BY <1>1 DEF QaInv, QaTypeOK
    <2> QED
      BY <1>1, <1>3, <2>1 DEF CountedTo, LiveRows, PastCount, Uncounted, Senders
  <1> QED
    BY <1>1, <1>5, <1>6, <1>7, <1>8, FewerCounts DEF QaInv

\* An answer takes a row out of the count only when nothing got through.
LEMMA RecordResultInv ==
  ASSUME QaInv, NEW s \in Senders, NEW duplicate \in BOOLEAN, recordResult(s, duplicate)
  PROVE  QaInv'
  <1> DEFINE m == desk[s].mail
             state == IF duplicate THEN "UNCERTAIN" ELSE classify(desk[s].reply)
  <1>1. /\ desk[s].at = "record" /\ (duplicate => desk[s].reply = "accepted")
        /\ ledger' = [ledger EXCEPT ![m].state = state] /\ desk' = [desk EXCEPT ![s] = AtDesk]
        /\ UNCHANGED <<qaRuns, arrived, crowd>>
    BY DEF recordResult, Waits
  <1>2. /\ m \in DOMAIN ledger /\ ledger[m].state = "SENDING" /\ OwnRow(ledger[m], s)
        /\ desk[s].reply = "refused" => m \notin arrived
        /\ \A u \in Senders \ {s} : Sent(u) => desk[u].mail # m
    BY <1>1 DEF QaInv, SendsKeepTheirRow, Sent
  <1>3. desk[s].reply \in Replies /\ ledger \in Seq({Removed} \cup MailRow)
    BY <1>1 DEF QaInv, QaTypeOK, QaDeskType
  <1>4. /\ state \in QUOTA_STATES \cup {"FAILED"}
        /\ desk[s].reply # "refused" => state \in QUOTA_STATES
    BY <1>1, <1>3 DEF classify, Replies, QUOTA_STATES
  <1> HIDE DEF state
  <1>5. ledger[m] \in MailRow
    BY <1>2, <1>3 DEF OwnRow, QaOrigin, Removed
  <1>6. [ledger[m] EXCEPT !.state = state] \in MailRow
    BY <1>4, <1>5 DEF MailRow
  <1>7. /\ ledger' \in Seq({Removed} \cup MailRow) /\ DOMAIN ledger' = DOMAIN ledger
        /\ ledger'[m] = [ledger[m] EXCEPT !.state = state]
        /\ \A i \in DOMAIN ledger \ {m} : ledger'[i] = ledger[i]
    BY <1>1, <1>2, <1>3, <1>6
  <1>8. /\ ledger'[m].origin = ledger[m].origin /\ ledger'[m].to = ledger[m].to /\ ledger'[m].state = state
    BY <1>5, <1>7 DEF MailRow
  <1>9. AtDesk \in QaDeskType /\ AtDesk.at = "desk"
    BY DEF AtDesk, QaDeskType
  <1> HIDE DEF m
  <1>10. SendsKeepTheirRow' /\ desk' \in [Senders -> QaDeskType]
    <2>1. \A u \in Senders \ {s} : Sent(u) => /\ desk[u].mail \in DOMAIN ledger'
                                              /\ ledger'[desk[u].mail] = ledger[desk[u].mail]
      BY <1>2, <1>7 DEF QaInv, SendsKeepTheirRow
    <2> QED
      BY <1>1, <1>9, <2>1, OthersKeepTheirRow
  <1>11. QaTypeOK'
    BY <1>1, <1>7, <1>10 DEF QaInv, QaTypeOK
  <1>12. ArrivedMailIsCounted'
    BY <1>1, <1>2, <1>4, <1>7, <1>8 DEF QaInv, QaTypeOK, ArrivedMailIsCounted
  <1>13. \A inboxes : CountedTo(inboxes)' \subseteq CountedTo(inboxes) /\ PastCount(inboxes)' \subseteq PastCount(inboxes)
    <2>1. \A u \in Senders : desk'[u] = IF u = s THEN AtDesk ELSE desk[u]
      BY <1>1 DEF QaInv, QaTypeOK
    <2>2. \A inboxes : PastCount(inboxes)' \subseteq PastCount(inboxes)
      BY <1>9, <2>1 DEF PastCount, Uncounted, Senders
    <2>3. \A inboxes : CountedTo(inboxes)' \subseteq CountedTo(inboxes)
      <3>1. LiveRows' \subseteq LiveRows
        BY <1>2, <1>7, <1>8 DEF LiveRows, QUOTA_STATES
      <3>2. \A i \in LiveRows' : ledger'[i].to = ledger[i].to
        BY <1>7, <1>8 DEF LiveRows
      <3> QED
        BY <3>1, <3>2 DEF CountedTo
    <2> QED
      BY <2>2, <2>3
  <1> QED
    BY <1>1, <1>10, <1>11, <1>12, <1>13, FewerCounts DEF QaInv

\* What a suite deletes counted for nobody and is in nobody else's hands.
LEMMA DeleteFixturesInv == ASSUME QaInv, NEW s \in Senders, deleteFixtures(s) PROVE QaInv'
  <1>1. /\ s \in Suites /\ desk[s] = AtDesk /\ UNCHANGED <<arrived, desk, crowd>>
        /\ ledger' = [m \in DOMAIN ledger |-> IF m \in FixturesOf(ledger, s) THEN Removed ELSE ledger[m]]
        /\ qaRuns' = [r \in DOMAIN qaRuns |-> IF r \in FixturesOf(qaRuns, s) THEN Removed ELSE qaRuns[r]]
    BY DEF deleteFixtures
  <1>2. /\ ledger \in Seq({Removed} \cup MailRow) /\ Len(ledger) \in Nat /\ DOMAIN ledger = 1..Len(ledger)
        /\ qaRuns \in Seq({Removed} \cup RunRow) /\ Len(qaRuns) \in Nat /\ DOMAIN qaRuns = 1..Len(qaRuns)
        /\ arrived \subseteq DOMAIN ledger /\ desk \in [Senders -> QaDeskType] /\ crowd \in Nat
    BY DEF QaInv, QaTypeOK
  <1>3. ledger' \in Seq({Removed} \cup MailRow) /\ DOMAIN ledger' = DOMAIN ledger
    <2>1. ledger' \in [1..Len(ledger) -> {Removed} \cup MailRow]
      BY <1>1, <1>2
    <2> QED
      BY <1>2, <2>1, SeqDef
  <1>4. qaRuns' \in Seq({Removed} \cup RunRow) /\ DOMAIN qaRuns' = DOMAIN qaRuns
    <2>1. qaRuns' \in [1..Len(qaRuns) -> {Removed} \cup RunRow]
      BY <1>1, <1>2
    <2> QED
      BY <1>2, <2>1, SeqDef
  <1>5. \A u \in Senders \ {s} :
          /\ \A r \in DOMAIN qaRuns : OwnRow(qaRuns[r], u) => qaRuns'[r] = qaRuns[r]
          /\ \A m \in DOMAIN ledger : OwnRow(ledger[m], u) => ledger'[m] = ledger[m]
    BY <1>1, QaAssumption DEF OwnRow, QaOrigin, FixtureOwner, FixturesOf, Senders
  <1>6. \A m \in DOMAIN ledger : \/ ledger'[m] = ledger[m]
                                 \/ ledger[m].origin = "TEST_FIXTURE" /\ ledger'[m].origin = "none"
    BY <1>1 DEF FixturesOf, Removed
  <1>7. AtDesk \in QaDeskType /\ AtDesk.at = "desk" /\ desk' = [desk EXCEPT ![s] = AtDesk]
    BY <1>1, <1>2 DEF AtDesk, QaDeskType
  <1>8. SendsKeepTheirRow' /\ desk' \in [Senders -> QaDeskType]
    <2>1. \A u \in Senders \ {s} : Sent(u) => /\ desk[u].mail \in DOMAIN ledger'
                                              /\ ledger'[desk[u].mail] = ledger[desk[u].mail]
      BY <1>3, <1>5 DEF QaInv, SendsKeepTheirRow
    <2> QED
      BY <1>1, <1>4, <1>5, <1>7, <2>1, OthersKeepTheirRow
  <1>9. QaTypeOK'
    BY <1>1, <1>2, <1>3, <1>4 DEF QaTypeOK
  <1>10. ArrivedMailIsCounted'
    BY <1>1, <1>2, <1>6 DEF QaInv, ArrivedMailIsCounted
  <1>11. \A inboxes : CountedTo(inboxes)' \subseteq CountedTo(inboxes) /\ PastCount(inboxes)' \subseteq PastCount(inboxes)
    BY <1>1, <1>3, <1>6 DEF CountedTo, LiveRows, PastCount, Uncounted
  <1> QED
    BY <1>1, <1>8, <1>9, <1>10, <1>11, FewerCounts DEF QaInv

LEMMA QaStepInv == QaInv /\ [QaNext]_qaVars => QaInv'
  <1> SUFFICES ASSUME QaInv, [QaNext]_qaVars PROVE QaInv'
    OBVIOUS
  <1>1. CASE UNCHANGED qaVars
    <2>1. SendsKeepTheirRow'
      BY <1>1 DEF qaVars, QaInv, SendsKeepTheirRow, Sent, OwnRow, QaOrigin, FixtureOwner
    <2>2. QaTypeOK' /\ ArrivedMailIsCounted'
      BY <1>1 DEF qaVars, QaInv, QaTypeOK, ArrivedMailIsCounted
    <2>3. \A inboxes : CountedTo(inboxes)' = CountedTo(inboxes) /\ PastCount(inboxes)' = PastCount(inboxes)
      BY <1>1 DEF qaVars, CountedTo, LiveRows, PastCount, Uncounted
    <2>4. crowd' = crowd
      BY <1>1 DEF qaVars
    <2> QED
      BY <2>1, <2>2, <2>3, <2>4, FewerCounts DEF QaInv
  <1> QED
    BY <1>1, QaRunsInv, SendQaInv, CreateSendInv, QaNetworkInv, RecordResultInv, DeleteFixturesInv DEF QaNext

\* The strengthening holds in every behaviour of runs, sends and suites.
THEOREM QaInvariant == QaSpec => []QaInv
  BY QaInitInv, QaStepInv, PTL DEF QaSpec

\* qaPolicy.ts, qaLedgerRepository.ts, qaEmailService.ts: for any calls, however
\* many at once, a cap is exceeded over all runs by fewer messages than calls
\* were past their count at once, and what got through is counted for good.
THEOREM CapsHold == QaSpec => []CapsHoldAcrossRuns
  <1>1. ASSUME QaInv PROVE CapsHoldAcrossRuns
    <2>1. QaTypeOK /\ ArrivedMailIsCounted
      BY <1>1 DEF QaInv
    <2>2. ASSUME NEW inboxes, NEW cap \in Nat, Below(inboxes, cap),
                 NEW some \in SUBSET arrived, some \subseteq CountedTo(inboxes)
          PROVE  Cardinality(some) < cap + crowd
      <3>1. IsFiniteSet(CountedTo(inboxes)) /\ IsFiniteSet(PastCount(inboxes))
        BY <2>1, CountsAreFinite
      <3>2. /\ Cardinality(some) <= Cardinality(CountedTo(inboxes)) /\ Cardinality(some) \in Nat
            /\ {Cardinality(CountedTo(inboxes)), Cardinality(PastCount(inboxes)), crowd} \subseteq Nat
        BY <2>1, <2>2, <3>1, FS_Subset, FS_CardinalityType DEF QaTypeOK
      <3> QED
        BY <2>2, <3>2 DEF Below
    <2>3. arrived \subseteq CountedTo(Inboxes)
      BY <2>1 DEF QaTypeOK, ArrivedMailIsCounted, CountedTo, LiveRows, MailRow, Removed
    <2>4. Cardinality(arrived) < HardTotal + crowd
      BY <1>1, <2>2, <2>3, QaAssumption DEF QaInv, CountsStayBelow
    <2>5. ASSUME NEW to \in Inboxes
          PROVE  Cardinality({m \in arrived : ledger[m].to = to}) < HardPerRecipient + crowd
      <3>1. {m \in arrived : ledger[m].to = to} \subseteq CountedTo({to})
        BY <2>3 DEF CountedTo
      <3> QED
        BY <1>1, <2>2, <3>1, QaAssumption DEF QaInv, CountsStayBelow
    <2> QED
      BY <2>1, <2>4, <2>5 DEF CapsHoldAcrossRuns
  <1> QED
    BY <1>1, QaInvariant, PTL
=============================================================================
