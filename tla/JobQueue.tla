------------------------------ MODULE JobQueue ------------------------------
(***************************************************************************)
(* The durable background queue: rows of the BackgroundJob table, and the   *)
(* executions of runJobTick that recover, claim, run and settle them.       *)
(*                                                                          *)
(* The claim is a transaction of three awaited statements: the advisory     *)
(* mutex, the selection of a candidate row (which it locks), the update.    *)
(* Every other write is one compare-and-set statement.  A worker's identity *)
(* stands for the random token of its current claim: a worker never holds   *)
(* two claims of one row, since a row is only claimed after it was cleared. *)
(*                                                                          *)
(* Abstractions.  A lease is unexpired or expired; an unexpired one may     *)
(* expire whenever heartbeats stop, and an extended one is a stutter.       *)
(* availableAt is the order in which pending jobs became available.  What   *)
(* a job does while it runs belongs to other modules: here it only ends.    *)
(***************************************************************************)
EXTENDS Naturals, FiniteSets

CONSTANTS
    Jobs,           \* unique keys of the rows that may ever exist
    Kind,           \* BackgroundJob.kind of a key
    Resource,       \* BackgroundJob.resourceId of a key
    Workers,        \* executions of runJobTick
    NoWorker,       \* "not leased", "mutex free"
    NoJob,          \* "no claimed row"
    MaxCrashes      \* bound: executions that disappear midway

Kinds == {"CRM_SYNC", "AUTOMATION", "DISPATCH"}

ASSUME KindAssumption    == Kind \in [Jobs -> Kinds]
ASSUME WorkerAssumption  == NoWorker \notin Workers
ASSUME JobAssumption     == NoJob \notin Jobs
ASSUME CrashAssumption   == MaxCrashes \in Nat

JobMaxAttempts == 3
AttemptCap     == JobMaxAttempts + 1    \* bound: reads "four or more"

VARIABLES
    state,          \* BackgroundJob.state, NONE before the row exists
    attempts,       \* BackgroundJob.attempts, counted up to AttemptCap
    owner,          \* the worker whose token the row holds
    leaseLive,      \* leaseExpiresAt > now
    line,           \* pending jobs whose availableAt has passed
    ahead           \* for a job in line, those that were available before it

VARIABLES
    mutex,          \* the worker whose transaction holds the advisory lock
    pc,             \* where each execution of runJobTick stands
    expired,        \* rows with the tokens its recovery read
    held,           \* the row it selected, then claimed
    crashes

rowVars    == <<state, attempts, owner, leaseLive, line, ahead>>
workerVars == <<mutex, pc, expired, held, crashes>>
queueVars  == <<rowVars, workerVars>>

JobState == {"NONE", "PENDING", "RUNNING", "SUCCEEDED", "ATTENTION", "CANCELED"}
Settled  == {"SUCCEEDED", "ATTENTION", "CANCELED"}

TypeOK ==
    /\ state \in [Jobs -> JobState]
    /\ attempts \in [Jobs -> 0 .. AttemptCap]
    /\ owner \in [Jobs -> Workers \union {NoWorker}]
    /\ leaseLive \in [Jobs -> BOOLEAN]
    /\ line \in SUBSET Jobs
    /\ ahead \in [Jobs -> SUBSET Jobs]
    /\ mutex \in Workers \union {NoWorker}
    /\ pc \in [Workers -> {"idle", "recover", "select", "update", "run"}]
    /\ expired \in [Workers -> SUBSET (Jobs \X (Workers \union {NoWorker}))]
    /\ held \in [Workers -> Jobs \union {NoJob}]
    /\ crashes \in 0 .. MaxCrashes

Init ==
    /\ state = [j \in Jobs |-> "NONE"]
    /\ attempts = [j \in Jobs |-> 0]
    /\ owner = [j \in Jobs |-> NoWorker]
    /\ leaseLive = [j \in Jobs |-> FALSE]
    /\ line = {} /\ ahead = [j \in Jobs |-> {}]
    /\ mutex = NoWorker
    /\ pc = [w \in Workers |-> "idle"]
    /\ expired = [w \in Workers |-> {}]
    /\ held = [w \in Workers |-> NoJob]
    /\ crashes = 0
-----------------------------------------------------------------------------
(* Rows.                                                                    *)

\* Two rows that must not run together: every reconciliation, and work of
\* one kind on one resource.
Conflicts(i, j) ==
    /\ Kind[i] = Kind[j]
    /\ Kind[i] = "CRM_SYNC" \/ Resource[i] = Resource[j]

\* The row lock of the candidate, held until its claim commits.
RowLocked(j) == \E w \in Workers : pc[w] = "update" /\ held[w] = j

\* availableAt <= now from here on: j queues behind what already waits.
Join(j) ==
    /\ line' = line \union {j}
    /\ ahead' = [ahead EXCEPT ![j] = line \ {j}]

Leave(j) ==
    /\ line' = line \ {j}
    /\ ahead' = [i \in Jobs |-> IF i = j THEN {} ELSE ahead[i] \ {j}]

Enqueue(j, now) ==
    /\ state[j] = "NONE"
    /\ state' = [state EXCEPT ![j] = "PENDING"]
    /\ IF now THEN Join(j) ELSE UNCHANGED <<line, ahead>>
    /\ UNCHANGED <<attempts, owner, leaseLive>>

\* availableAt passes.
Elapse(j) ==
    /\ state[j] = "PENDING" /\ j \notin line
    /\ Join(j)
    /\ UNCHANGED <<state, attempts, owner, leaseLive, workerVars>>

\* No heartbeat extends the lease: the worker died or was suspended.
Expire(j) ==
    /\ state[j] = "RUNNING" /\ leaseLive[j]
    /\ leaseLive' = [leaseLive EXCEPT ![j] = FALSE]
    /\ UNCHANGED <<state, attempts, owner, line, ahead, workerVars>>

\* Staff: retry a reconciliation that needs attention.
RetryCrmJob(j) ==
    /\ Kind[j] = "CRM_SYNC" /\ state[j] = "ATTENTION"
    /\ state' = [state EXCEPT ![j] = "PENDING"]
    /\ attempts' = [attempts EXCEPT ![j] = 0]
    /\ Join(j)
    /\ UNCHANGED <<owner, leaseLive, workerVars>>

\* Staff: continue a delivery now, or reschedule it.
ReopenDispatch(j) ==
    /\ Kind[j] = "DISPATCH" /\ state[j] = "ATTENTION"
    /\ state' = [state EXCEPT ![j] = "PENDING"]
    /\ Join(j) \/ UNCHANGED <<line, ahead>>
    /\ UNCHANGED <<attempts, owner, leaseLive, workerVars>>

CancelDispatch(j) ==
    /\ Kind[j] = "DISPATCH" /\ state[j] \in {"PENDING", "ATTENTION"}
    /\ ~RowLocked(j)
    /\ state' = [state EXCEPT ![j] = "CANCELED"]
    /\ Leave(j)
    /\ UNCHANGED <<attempts, owner, leaseLive, workerVars>>
-----------------------------------------------------------------------------
(* One execution of runJobTick.                                             *)

BeginTick(w) ==
    /\ pc[w] = "idle"
    /\ pc' = [pc EXCEPT ![w] = "recover"]
    /\ expired' = [expired EXCEPT ![w] =
           {<<j, owner[j]>> : j \in {i \in Jobs : state[i] = "RUNNING"
                                                  /\ ~leaseLive[i]}}]
    /\ UNCHANGED <<rowVars, mutex, held, crashes>>

(* Mutants of Interrupted: the count of attempts is not asked, or the kind.  *)
InterruptedForever(j) ==
    IF Kind[j] = "CRM_SYNC" THEN "PENDING" ELSE "ATTENTION"

InterruptedAnyKind(j) ==
    IF attempts[j] < JobMaxAttempts THEN "PENDING" ELSE "ATTENTION"

\* Only a reconciliation is retried by itself.
Interrupted(j) ==
    IF Kind[j] = "CRM_SYNC" /\ attempts[j] < JobMaxAttempts
    THEN "PENDING" ELSE "ATTENTION"

Clear(j, s) ==
    /\ state' = [state EXCEPT ![j] = s]
    /\ owner' = [owner EXCEPT ![j] = NoWorker]
    /\ leaseLive' = [leaseLive EXCEPT ![j] = FALSE]
    /\ UNCHANGED <<attempts, line, ahead>>

(* Mutants of Reclaimable: the row is taken as it was read; deliveries only. *)
ReclaimableAsRead(j, token) == state[j] = "RUNNING"

ReclaimableDelivery(j, token) ==
    Kind[j] = "DISPATCH" /\ state[j] = "RUNNING" /\ owner[j] = token

Reclaimable(j, token) ==
    state[j] = "RUNNING" /\ owner[j] = token /\ ~leaseLive[j]

RecoverExpired(w) == \E p \in expired[w] :
    /\ pc[w] = "recover"
    /\ expired' = [expired EXCEPT ![w] = @ \ {p}]
    /\ IF Reclaimable(p[1], p[2]) THEN Clear(p[1], Interrupted(p[1]))
                                  ELSE UNCHANGED rowVars
    /\ UNCHANGED <<mutex, pc, held, crashes>>

(* Mutant of TryMutex: the selection statement runs without the mutex. *)
TryMutexUnheld(w) ==
    /\ pc[w] = "recover" /\ expired[w] = {}
    /\ pc' = [pc EXCEPT ![w] = "select"]
    /\ UNCHANGED <<rowVars, mutex, expired, held, crashes>>

\* pg_try_advisory_xact_lock: a busy mutex ends the tick.
TryMutex(w) ==
    /\ pc[w] = "recover" /\ expired[w] = {}
    /\ IF mutex = NoWorker
       THEN mutex' = w /\ pc' = [pc EXCEPT ![w] = "select"]
       ELSE mutex' = mutex /\ pc' = [pc EXCEPT ![w] = "idle"]
    /\ UNCHANGED <<rowVars, expired, held, crashes>>

Eligible(j) ==
    /\ state[j] = "PENDING" /\ j \in line
    /\ \A i \in Jobs : state[i] = "RUNNING" => ~Conflicts(i, j)

Select(w) ==
    /\ pc[w] = "select"
    /\ \E j \in Jobs :
         /\ Eligible(j)
         /\ \A i \in ahead[j] : ~Eligible(i)
         /\ held' = [held EXCEPT ![w] = j]
         /\ pc' = [pc EXCEPT ![w] = "update"]
    /\ UNCHANGED <<rowVars, mutex, expired, crashes>>

SelectNothing(w) ==
    /\ pc[w] = "select"
    /\ \A j \in Jobs : ~Eligible(j)
    /\ mutex' = NoWorker
    /\ pc' = [pc EXCEPT ![w] = "idle"]
    /\ UNCHANGED <<rowVars, expired, held, crashes>>

Claim(w) ==
    /\ pc[w] = "update"
    /\ state' = [state EXCEPT ![held[w]] = "RUNNING"]
    /\ owner' = [owner EXCEPT ![held[w]] = w]
    /\ leaseLive' = [leaseLive EXCEPT ![held[w]] = TRUE]
    /\ attempts' = [attempts EXCEPT ![held[w]] =
                      IF @ < AttemptCap THEN @ + 1 ELSE @]
    /\ Leave(held[w])
    /\ mutex' = NoWorker
    /\ pc' = [pc EXCEPT ![w] = "run"]
    /\ UNCHANGED <<expired, held, crashes>>

\* What finishJob, the heartbeat and every capability check require.
HoldsLease(w, j) == state[j] = "RUNNING" /\ owner[j] = w /\ leaseLive[j]

\* The ends of a run: the work's own verdict, or what the catch decides.
Verdicts(j) ==
    CASE Kind[j] = "CRM_SYNC"   -> {"SUCCEEDED", "ATTENTION", Interrupted(j)}
      [] Kind[j] = "AUTOMATION" -> {"SUCCEEDED", "ATTENTION"}
      [] Kind[j] = "DISPATCH"   -> {"SUCCEEDED", "ATTENTION", "PENDING"}

\* finishJob by the holder of the row's unexpired lease; a no-op otherwise.
FinishJob(w, s) ==
    IF HoldsLease(w, held[w]) THEN Clear(held[w], s) ELSE UNCHANGED rowVars

EndTick(w) ==
    /\ pc' = [pc EXCEPT ![w] = "idle"]
    /\ held' = [held EXCEPT ![w] = NoJob]
    /\ UNCHANGED <<mutex, expired, crashes>>

Finish(w) ==
    /\ pc[w] = "run"
    /\ \E s \in Verdicts(held[w]) : FinishJob(w, s)
    /\ EndTick(w)

\* The process disappears; an open transaction is rolled back.
Crash(w) ==
    /\ crashes < MaxCrashes
    /\ crashes' = crashes + 1
    /\ pc' = [pc EXCEPT ![w] = "idle"]
    /\ held' = [held EXCEPT ![w] = NoJob]
    /\ expired' = [expired EXCEPT ![w] = {}]
    /\ mutex' = IF mutex = w THEN NoWorker ELSE mutex
    /\ UNCHANGED rowVars

Tick(w) ==
    \/ BeginTick(w) \/ RecoverExpired(w) \/ TryMutex(w)
    \/ Select(w) \/ SelectNothing(w) \/ Claim(w) \/ Finish(w)

Next ==
    \/ \E j \in Jobs, now \in BOOLEAN : Enqueue(j, now) /\ UNCHANGED workerVars
    \/ \E j \in Jobs : Elapse(j) \/ Expire(j)
    \/ \E j \in Jobs : RetryCrmJob(j) \/ ReopenDispatch(j) \/ CancelDispatch(j)
    \/ \E w \in Workers : Tick(w) \/ Crash(w)

Spec == Init /\ [][Next]_queueVars

\* The worker process calls the tick again and again; time passes; a lease
\* nobody extends any more expires.
Fairness ==
    /\ \A w \in Workers : WF_queueVars(Tick(w))
    /\ \A j \in Jobs : WF_queueVars(Elapse(j))
    /\ \A j \in Jobs : WF_queueVars(Expire(j)
                         /\ \A w \in Workers : held[w] # j)

FairSpec == Spec /\ Fairness
-----------------------------------------------------------------------------
(* Properties.                                                              *)

\* Two reconciliations, or two runs of one kind on one resource, are never
\* leased at the same time, whichever rows and workers they come from.
Exclusion ==
    \A i, j \in Jobs :
        (state[i] = "RUNNING" /\ state[j] = "RUNNING" /\ Conflicts(i, j))
            => i = j

\* An abandoned automation is never recreated by itself: its row is run at
\* most once, however it ended.
AutomationRunsOnce ==
    \A j \in Jobs : Kind[j] = "AUTOMATION" => attempts[j] <= 1

\* A reconciliation runs at most three times before it waits for staff.
RetriesAreBounded ==
    \A j \in Jobs : Kind[j] = "CRM_SYNC" => attempts[j] <= JobMaxAttempts

\* While a lease is unexpired only the worker that holds it ends the run:
\* neither a recovery acting on an old reading nor a former holder does.
LiveLeaseIsKept ==
    [][\A j \in Jobs :
         (leaseLive[j] /\ state[j] = "RUNNING" /\ state'[j] # "RUNNING")
            => \E w \in Workers : /\ owner[j] = w /\ held[w] = j
                                  /\ pc[w] = "run" /\ pc'[w] = "idle"]_queueVars

\* A pending job is eventually run to an end or handed to staff: conflicting
\* rows, lost claims, crashed and suspended workers do not strand it.
EveryJobSettles ==
    \A j \in Jobs : (state[j] = "PENDING") ~> (state[j] \in Settled)
=============================================================================
