------------------------------- MODULE QaMail -------------------------------
(***************************************************************************)
(* Internal QA mail under caps counted from a ledger (qaEmailService.ts,    *)
(* qaRunService.ts, qaLedgerRepository.ts, qaPolicy.ts).  A send is only    *)
(* allowed inside an open run; each step of it is a statement of its own,   *)
(* and nothing locks the ledger between the count and the row.  Automated   *)
(* suites share the database: their runs and rows are fixtures of an owner, *)
(* which count for nobody and are the only ones ever deleted.               *)
(*                                                                         *)
(* What moves is a call, not an account: two tabs of one account, or two    *)
(* accounts, send at the same time, and no call waits for another.          *)
(***************************************************************************)
EXTENDS Integers, FiniteSets, Sequences

CONSTANTS QaCalls,         \* calls by staff with SEND_TEST_EMAIL, of any account
          Suites,          \* test workers, whose provider sends nothing
          Nobody,          \* no fixture owner
          Inboxes,         \* QA_ALLOWED_RECIPIENTS
          HardTotal, HardPerRecipient,   \* the caps
          MaxRuns, MaxMails              \* bounds

ASSUME QaAssumption ==
    /\ QaCalls \cap Suites = {} /\ Nobody \notin Suites
    /\ IsFiniteSet(QaCalls)
    /\ {HardTotal, HardPerRecipient} \subseteq Nat \ {0} /\ {MaxRuns, MaxMails} \subseteq Nat

VARIABLES
    qaRuns,      \* QaEmailRun rows: [origin, owner, status], oldest first
    ledger,      \* QaEmailSend rows: [origin, owner, to, run, state], oldest first
    arrived,     \* rows whose message got through to its inbox
    desk,        \* what each of the calls and the suites waits for
    crowd        \* history: the most calls that were past their count at once

qaVars == <<qaRuns, ledger, arrived, desk, crowd>>
AtDesk == [at |-> "desk"]
Removed == [origin |-> "none", owner |-> Nobody]
Senders == QaCalls \cup Suites
QaOrigin(s) == IF s \in Suites THEN "TEST_FIXTURE" ELSE "LIVE"
FixtureOwner(s) == IF s \in Suites THEN s ELSE Nobody

QaInit == qaRuns = <<>> /\ ledger = <<>> /\ arrived = {} /\ desk = [s \in Senders |-> AtDesk] /\ crowd = 0

Waits(s, w) == desk' = [desk EXCEPT ![s] = w]
(***************************************************************************)
(* QA runs and the caps.  A send finds a run, counts the ledger, writes its *)
(* row, submits, and records the answer, each on its own.                   *)
(***************************************************************************)
(* A suite finds its own fixture run and no other; everyone else a LIVE one. *)
OpenRuns(s) == {r \in DOMAIN qaRuns : qaRuns[r] = [origin |-> QaOrigin(s), owner |-> FixtureOwner(s), status |-> "OPEN"]}
openQaRun(s) ==
    /\ s \in QaCalls /\ desk[s] = AtDesk /\ OpenRuns(s) = {}
    /\ Waits(s, [at |-> "opening"])
    /\ UNCHANGED <<qaRuns, ledger, arrived, crowd>>
(* A suite makes its fixture run without looking.                           *)
createRun(s) ==
    /\ IF s \in Suites THEN desk[s] = AtDesk ELSE desk[s].at = "opening"
    /\ Len(qaRuns) < MaxRuns
    /\ qaRuns' = Append(qaRuns, [origin |-> QaOrigin(s), owner |-> FixtureOwner(s), status |-> "OPEN"])
    /\ Waits(s, AtDesk)
    /\ UNCHANGED <<ledger, arrived, crowd>>
closeQaRun(s, r) ==
    /\ s \in QaCalls /\ desk[s] = AtDesk /\ r \in OpenRuns(s)
    /\ qaRuns' = [qaRuns EXCEPT ![r].status = "CLOSED"]
    /\ UNCHANGED <<ledger, arrived, desk, crowd>>

QUOTA_STATES == {"SENDING", "ACCEPTED", "UNCERTAIN"}
LiveRows == {m \in DOMAIN ledger : ledger[m].origin = "LIVE" /\ ledger[m].state \in QUOTA_STATES}
(* Mutant of Counted: every run starts with a fresh quota. *)
CountedPerRun(r) == {m \in LiveRows : ledger[m].run = r}
Counted(r) == LiveRows
isWithinQaCaps(counted, to) ==
    /\ Cardinality(counted) < HardTotal
    /\ Cardinality({m \in counted : ledger[m].to = to}) < HardPerRecipient

(* Calls that have counted the ledger and are not yet counted in it.        *)
Uncounted == {c \in QaCalls : desk[c].at = "attempt"}

SendQa(s, to) ==
    LET run == CHOOSE r \in OpenRuns(s) : \A q \in OpenRuns(s) : q <= r IN
    /\ desk[s] = AtDesk /\ OpenRuns(s) # {} /\ isWithinQaCaps(Counted(run), to)
    /\ Waits(s, [at |-> "attempt", run |-> run, to |-> to])
    /\ crowd' = IF Cardinality(Uncounted') > crowd THEN Cardinality(Uncounted') ELSE crowd
    /\ UNCHANGED <<qaRuns, ledger, arrived>>
createSend(s) ==
    LET w == desk[s] IN
    /\ w.at = "attempt" /\ Len(ledger) < MaxMails
    /\ ledger' = Append(ledger, [origin |-> qaRuns[w.run].origin, owner |-> qaRuns[w.run].owner,
                                 to |-> w.to, run |-> w.run, state |-> "SENDING"])
    /\ Waits(s, [at |-> "network", mail |-> Len(ledger) + 1])
    /\ UNCHANGED <<qaRuns, arrived, crowd>>
(* The provider's answers, and whether the message got through; a suite's    *)
(* provider is a fake.                                                      *)
Replies == {"accepted", "refused", "lost"}
MayReach(s, reply) ==
    IF s \in Suites \/ reply = "refused" THEN {FALSE} ELSE IF reply = "accepted" THEN {TRUE} ELSE BOOLEAN
QaNetwork(s, reply, reached) ==
    /\ desk[s].at = "network" /\ reached \in MayReach(s, reply)
    /\ arrived' = IF reached THEN arrived \cup {desk[s].mail} ELSE arrived
    /\ Waits(s, [at |-> "record", mail |-> desk[s].mail, reply |-> reply])
    /\ UNCHANGED <<qaRuns, ledger, crowd>>
(* Mutant of classify: a broken connection is a failure. *)
LossIsFailure(reply) == IF reply = "accepted" THEN "ACCEPTED" ELSE "FAILED"
classify(reply) == CASE reply = "accepted" -> "ACCEPTED" [] reply = "refused" -> "FAILED" [] OTHER -> "UNCERTAIN"
(* A message id the ledger holds already makes the attempt uncertain.       *)
recordResult(s, duplicate) ==
    LET w == desk[s] IN
    /\ w.at = "record" /\ (duplicate => w.reply = "accepted")
    /\ ledger' = [ledger EXCEPT ![w.mail].state = IF duplicate THEN "UNCERTAIN" ELSE classify(w.reply)]
    /\ Waits(s, AtDesk)
    /\ UNCHANGED <<qaRuns, arrived, crowd>>

FixturesOf(rows, owner) == {i \in DOMAIN rows : rows[i].origin = "TEST_FIXTURE" /\ rows[i].owner = owner}
(* The only deletion there is. *)
deleteFixtures(s) ==
    /\ s \in Suites /\ desk[s] = AtDesk
    /\ FixturesOf(ledger, s) \cup FixturesOf(qaRuns, s) # {}
    /\ ledger' = [m \in DOMAIN ledger |-> IF m \in FixturesOf(ledger, s) THEN Removed ELSE ledger[m]]
    /\ qaRuns' = [r \in DOMAIN qaRuns |-> IF r \in FixturesOf(qaRuns, s) THEN Removed ELSE qaRuns[r]]
    /\ UNCHANGED <<arrived, desk, crowd>>

(* The process dies under a request: what it committed stays.               *)
AbandonQa(s) ==
    /\ desk[s] # AtDesk /\ Waits(s, AtDesk)
    /\ UNCHANGED <<qaRuns, ledger, arrived, crowd>>

QaNext ==
    \E s \in Senders :
         \/ openQaRun(s) \/ createRun(s) \/ \E r \in OpenRuns(s) : closeQaRun(s, r)
         \/ \E to \in Inboxes : SendQa(s, to)
         \/ createSend(s) \/ \E d \in BOOLEAN : recordResult(s, d)
         \/ \E reply \in Replies, reached \in BOOLEAN : QaNetwork(s, reply, reached)
         \/ deleteFixtures(s) \/ AbandonQa(s)

QaSpec == QaInit /\ [][QaNext]_qaVars

(***************************************************************************)
(* Properties.                                                              *)
(***************************************************************************)
(* A message that got through is counted against its inbox for good,        *)
(* whatever became of its answer, of the process that sent it and of the    *)
(* fixtures around it; and over all runs a cap is exceeded by no more       *)
(* messages than calls besides one were past their count at once, in one    *)
(* account or in several (sendQaEmail): where they never overlap, the caps  *)
(* hold as they are written.                                                *)
ArrivedMailIsCounted ==
    \A m \in arrived : ledger[m].origin = "LIVE" /\ ledger[m].state \in QUOTA_STATES
CapsHoldAcrossRuns ==
    /\ ArrivedMailIsCounted
    /\ Cardinality(arrived) < HardTotal + crowd
    /\ \A to \in Inboxes : Cardinality({m \in arrived : ledger[m].to = to}) < HardPerRecipient + crowd

(***************************************************************************)
(* The inductive invariant.                                                 *)
(***************************************************************************)
RunRow == [origin : {"LIVE", "TEST_FIXTURE"}, owner : Suites \cup {Nobody}, status : {"OPEN", "CLOSED"}]
MailRow == [origin : {"LIVE", "TEST_FIXTURE"}, owner : Suites \cup {Nobody}, to : Inboxes, run : Nat,
            state : QUOTA_STATES \cup {"FAILED"}]
QaDeskType ==
    [at : {"desk", "opening"}]
      \cup [at : {"attempt"}, run : Nat, to : Inboxes]
      \cup [at : {"network"}, mail : Nat]
      \cup [at : {"record"}, mail : Nat, reply : Replies]
QaTypeOK ==
    /\ qaRuns \in Seq({Removed} \cup RunRow)
    /\ ledger \in Seq({Removed} \cup MailRow)
    /\ arrived \subseteq DOMAIN ledger
    /\ desk \in [Senders -> QaDeskType]
    /\ crowd \in Nat

(* A send works in a run and on a row of its own kind, which nobody else     *)
(* changes or deletes under it, and only an answer that is no refusal can    *)
(* come from a message that got through.                                    *)
OwnRow(row, s) == row.origin = QaOrigin(s) /\ row.owner = FixtureOwner(s)
Sent(s) == desk[s].at \in {"network", "record"}
SendsKeepTheirRow ==
    \A s \in Senders :
      /\ desk[s].at = "attempt" => desk[s].run \in DOMAIN qaRuns /\ OwnRow(qaRuns[desk[s].run], s)
      /\ Sent(s) =>
           /\ desk[s].mail \in DOMAIN ledger /\ OwnRow(ledger[desk[s].mail], s)
           /\ ledger[desk[s].mail].state = "SENDING"
           /\ \A u \in Senders : Sent(u) /\ desk[u].mail = desk[s].mail => u = s
           /\ desk[s].at = "network" \/ desk[s].reply = "refused" => desk[s].mail \notin arrived
(* The rows that count and the calls past their count stay below the cap and *)
(* the most such calls there were at once.                                  *)
CountedTo(inboxes) == {m \in LiveRows : ledger[m].to \in inboxes}
PastCount(inboxes) == {s \in Uncounted : desk[s].to \in inboxes}
Below(inboxes, cap) ==
    Cardinality(CountedTo(inboxes)) + Cardinality(PastCount(inboxes)) < cap + crowd
CountsStayBelow == Below(Inboxes, HardTotal) /\ \A to \in Inboxes : Below({to}, HardPerRecipient)
QaInv == QaTypeOK /\ SendsKeepTheirRow /\ ArrivedMailIsCounted /\ CountsStayBelow
=============================================================================
