--------------------------- MODULE ApprovedSends ---------------------------
(***************************************************************************)
(* The SAFE TEST and the provider pilot: mail to staff, one message per     *)
(* approval (testSendService.ts, providerPilotService.ts,                   *)
(* testEmailApproval.ts).                                                   *)
(*                                                                         *)
(* An approval names the message it was given for by a hash that covers the *)
(* channel's sender; a send renders again, claims the approval in one       *)
(* transaction and only then submits.  The answer may be lost, and the      *)
(* process may die at any point.  The panels the buttons are on show what   *)
(* was so when the page was rendered, and stay open.                        *)
(***************************************************************************)
EXTENDS Integers, FiniteSets, Sequences

CONSTANTS Testers,                 \* staff with SEND_TEST_EMAIL
          MaxApprovals, MaxEdits   \* bounds

Channels == {"SAFE_TEST_GMAIL", "PROVIDER_PILOT"}
ASSUME SendsAssumption == {MaxApprovals, MaxEdits} \subseteq Nat

VARIABLES
    content,     \* what the newsletter renders to now; 0 has no article
    verified,    \* the sending domain, as last stored
    approvals,   \* CampaignTestApproval rows, oldest first
    handed,      \* [approval id -> messages handed to the provider under it]
    work         \* the panel each of the staff has open, or the call they wait for

sendsVars == <<content, verified, approvals, handed, work>>
NoWork == [at |-> "desk"]

SendsInit ==
    /\ content = 1 /\ verified = FALSE
    /\ approvals = <<>> /\ handed = <<>>
    /\ work = [s \in Testers |-> NoWork]

Doing(s, w) == work' = [work EXCEPT ![s] = w]
EditNewsletter(c) ==
    /\ content < MaxEdits /\ c \in {0, content + 1} /\ c # content /\ content' = c
    /\ UNCHANGED <<verified, approvals, handed, work>>
StoreDomain ==
    /\ verified' = ~verified
    /\ UNCHANGED <<content, approvals, handed, work>>

(***************************************************************************)
(* The panels.                                                              *)
(***************************************************************************)
Hash(ch) == <<ch, content>>
OfChannel(ch) == {i \in DOMAIN approvals : approvals[i].ch = ch}
latestApproval(ch) == CHOOSE i \in OfChannel(ch) : \A j \in OfChannel(ch) : j <= i
checkApproval(a, hash) == ~a.revoked /\ a.hash = hash /\ ~a.used
Available(ch) == ch = "PROVIDER_PILOT" => verified

Valid(ch) == OfChannel(ch) # {} /\ checkApproval(approvals[latestApproval(ch)], Hash(ch))
CanApprove(ch) == content # 0
CanSend(ch) == CanApprove(ch) /\ Available(ch) /\ Valid(ch)
(* A valid approval can be withdrawn; without one the tick and the button to *)
(* approve are on offer.                                                    *)
Panel(ch) == [at |-> "panel", ch |-> ch,
              offers |-> {b \in {"approve", "withdraw", "send"} :
                            \/ b = "approve" /\ CanApprove(ch) /\ ~Valid(ch)
                            \/ b = "withdraw" /\ Valid(ch)
                            \/ b = "send" /\ CanSend(ch)}]
OpenPanel(s, ch) ==
    /\ work[s].at \in {"desk", "panel"} /\ work[s] # Panel(ch)
    /\ Doing(s, Panel(ch))
    /\ UNCHANGED <<content, verified, approvals, handed>>
Offers(s, button) == work[s].at = "panel" /\ button \in work[s].offers

(***************************************************************************)
(* Approve.  The older approvals it can see are locked by its update until  *)
(* it commits; one committed later is not seen.                             *)
(***************************************************************************)
Unused(ch) == {i \in DOMAIN approvals : approvals[i].ch = ch /\ ~approvals[i].used /\ ~approvals[i].revoked}
Locked(i) == \E s \in Testers : work[s].at = "approving" /\ i \in work[s].locks
Revoked(set) == [i \in DOMAIN approvals |->
                   IF i \in set THEN [approvals[i] EXCEPT !.revoked = TRUE] ELSE approvals[i]]

Approve(s) ==
    LET ch == work[s].ch IN
    /\ Offers(s, "approve") /\ content # 0 /\ Len(approvals) < MaxApprovals
    /\ ~\E i \in Unused(ch) : Locked(i)
    /\ Doing(s, [at |-> "approving", ch |-> ch, hash |-> Hash(ch), locks |-> Unused(ch)])
    /\ UNCHANGED <<content, verified, approvals, handed>>
CommitApproval(s) ==
    LET w == work[s] IN
    /\ w.at = "approving" /\ Len(approvals) < MaxApprovals
    /\ approvals' = Append(Revoked(w.locks), [ch |-> w.ch, hash |-> w.hash, used |-> FALSE, revoked |-> FALSE])
    /\ handed' = Append(handed, 0)
    /\ Doing(s, NoWork)
    /\ UNCHANGED <<content, verified>>
RevokeApprovals(s) ==
    LET ch == work[s].ch IN
    /\ Offers(s, "withdraw") /\ Unused(ch) # {} /\ ~\E i \in Unused(ch) : Locked(i)
    /\ approvals' = Revoked(Unused(ch)) /\ Doing(s, NoWork)
    /\ UNCHANGED <<content, verified, handed>>

(***************************************************************************)
(* Send.                                                                    *)
(***************************************************************************)
(* Everything is looked at again, whatever the panel said. *)
SendApproved(s) ==
    LET ch == work[s].ch IN
    /\ Offers(s, "send") /\ content # 0 /\ Available(ch) /\ Valid(ch)
    /\ Doing(s, [at |-> "claim", id |-> latestApproval(ch), message |-> Hash(ch)])
    /\ UNCHANGED <<content, verified, approvals, handed>>
(* Mutant of Claimable: what the check saw is not looked at again. *)
ClaimAgain(i) == ~Locked(i)
(* Mutant of Claimable: a withdrawal after the check is not looked at. *)
ClaimWithdrawn(i) == ~Locked(i) /\ ~approvals[i].used
Claimable(i) == ~Locked(i) /\ ~approvals[i].used /\ ~approvals[i].revoked
(* Mutant of Submitted: the message is rendered again after the claim. *)
SubmittedAnew(w) == <<approvals[w.id].ch, content>>
Submitted(w) == w.message
ClaimApproval(s) ==
    LET w == work[s] IN
    /\ w.at = "claim"
    /\ IF Claimable(w.id)
         THEN /\ approvals' = [approvals EXCEPT ![w.id].used = TRUE]
              /\ Doing(s, [at |-> "submit", id |-> w.id, message |-> w.message])
         ELSE /\ ~Locked(w.id) /\ UNCHANGED approvals
              /\ Doing(s, NoWork)
    /\ UNCHANGED <<content, verified, handed>>
Submit(s) ==
    LET w == work[s] IN
    /\ w.at = "submit"
    /\ handed' = [handed EXCEPT ![w.id] = @ + 1]
    /\ Doing(s, [at |-> "answer", id |-> w.id, message |-> Submitted(w)])
    /\ UNCHANGED <<content, verified, approvals>>
(* Whatever the answer, the approval stays used.                            *)
RecordAnswer(s) ==
    /\ work[s].at = "answer" /\ Doing(s, NoWork)
    /\ UNCHANGED <<content, verified, approvals, handed>>

(* The process dies under a request: what it committed stays.               *)
AbandonSend(s) ==
    /\ work[s].at \notin {"desk", "panel"} /\ Doing(s, NoWork)
    /\ UNCHANGED <<content, verified, approvals, handed>>

SendsNext ==
    \/ \E c \in 0..MaxEdits : EditNewsletter(c)
    \/ StoreDomain
    \/ \E s \in Testers :
         \/ \E ch \in Channels : OpenPanel(s, ch)
         \/ Approve(s) \/ RevokeApprovals(s) \/ SendApproved(s)
         \/ CommitApproval(s) \/ ClaimApproval(s) \/ Submit(s) \/ RecordAnswer(s) \/ AbandonSend(s)

SendsSpec == SendsInit /\ [][SendsNext]_sendsVars

(***************************************************************************)
(* Properties.                                                              *)
(***************************************************************************)
(* A withdrawn or superseded approval sends nothing, also when it was       *)
(* withdrawn between the check and the claim.                               *)
WithdrawnIsNotUsed == \A i \in DOMAIN approvals : ~(approvals[i].used /\ approvals[i].revoked)

(* "One approval authorizes at most one provider submission", whoever       *)
(* presses the button twice, and it is the message that was approved, over  *)
(* the channel it was approved for, whatever was edited meanwhile; and a    *)
(* withdrawn approval authorizes none.                                      *)
OneApprovedMessageEach ==
    /\ WithdrawnIsNotUsed
    /\ \A i \in DOMAIN approvals : handed[i] <= (IF approvals[i].used THEN 1 ELSE 0)
    /\ \A s \in Testers : work[s].at = "answer" => work[s].message = approvals[work[s].id].hash

(***************************************************************************)
(* The inductive invariant.                                                 *)
(***************************************************************************)
Messages == Channels \X Nat
ApprovalRow == [ch : Channels, hash : Messages, used : BOOLEAN, revoked : BOOLEAN]
WorkType ==
    [at : {"desk"}]
      \cup [at : {"panel"}, ch : Channels, offers : SUBSET {"approve", "withdraw", "send"}]
      \cup [at : {"approving"}, ch : Channels, hash : Messages, locks : SUBSET Nat]
      \cup [at : {"claim", "submit", "answer"}, id : Nat, message : Messages]
SendsTypeOK ==
    /\ content \in Nat /\ verified \in BOOLEAN
    /\ approvals \in Seq(ApprovalRow)
    /\ handed \in Seq(Nat) /\ Len(handed) = Len(approvals)
    /\ work \in [Testers -> WorkType]

(* A send carries the message its approval was given for, and what it has    *)
(* claimed stays claimed.                                                   *)
SendsAreApproved ==
    \A s \in Testers :
      work[s].at \in {"claim", "submit", "answer"} =>
        /\ work[s].id \in DOMAIN approvals
        /\ work[s].message = approvals[work[s].id].hash
        /\ work[s].at # "claim" => approvals[work[s].id].used
(* A claimed approval is in nobody else's hands and was handed over by none. *)
Submitting(s, i) == work[s].at = "submit" /\ work[s].id = i
ClaimsAreAlone ==
    \A s \in Testers : \A i \in DOMAIN approvals :
      Submitting(s, i) => handed[i] = 0 /\ \A t \in Testers : Submitting(t, i) => t = s
(* What an approval supersedes cannot be claimed before it commits.          *)
LocksAreUnused ==
    \A s \in Testers :
      work[s].at = "approving" => work[s].locks \subseteq {i \in DOMAIN approvals : ~approvals[i].used}
SendsInv ==
    /\ SendsTypeOK /\ SendsAreApproved /\ ClaimsAreAlone /\ LocksAreUnused /\ OneApprovedMessageEach
=============================================================================
