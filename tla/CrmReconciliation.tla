------------------------- MODULE CrmReconciliation -------------------------
(***************************************************************************)
(* Keeping the CRM projection current: the schedule that staff delegate,    *)
(* Monday's notifications, and the reconciliation jobs both put into the    *)
(* queue of JobQueue, which run a pull of the boards.                       *)
(*                                                                          *)
(* A key is <<"crm", t>> for the periodic occurrence planned for t, or      *)
(* <<"webhook", t>> for the notifications of the minute that ends at t.     *)
(*                                                                          *)
(* Abstractions.  An event stands for one change in Monday: a pull sees the *)
(* events that have happened, and the projection is the set it was written  *)
(* from.  One board stands for the four, which are pulled alike.  Instants  *)
(* on the clock are distinct, so "<=" and "<" between two of them agree.    *)
(* JWT verification and parsing have happened when a delivery is taken.     *)
(***************************************************************************)
EXTENDS JobQueue

CONSTANTS
    Events,         \* changes in Monday, each with its notification
    Staff,          \* accounts that may configure the schedule
    Retriers,       \* accounts that retry a job
    ManualPullers,  \* signed-in pulls from the customers page
    MinuteTicks,    \* clock ticks in a minute
    Interval,       \* ticks between two periodic reconciliations
    MaxClock,       \* bound on time
    MaxEdits        \* bound on how often staff configure the schedule

Minute(t)  == (t \div MinuteTicks + 1) * MinuteTicks
CrmKeys    == ({"crm"} \X (0 .. MaxClock))
              \union ({"webhook"} \X {Minute(t) : t \in 0 .. MaxClock})
ScheduledFor(j) == j[2]

ASSUME JobsAssumption == Jobs = CrmKeys /\ \A j \in Jobs : Kind[j] = "CRM_SYNC"
ASSUME TimeAssumption == /\ MinuteTicks \in Nat \ {0}
                         /\ Interval \in Nat \ {0} /\ MaxClock \in Nat
                         /\ MaxEdits \in Nat
ASSUME PullersAssumption == ManualPullers \cap Workers = {}

VARIABLES
    clock,
    schedule,       \* JobSchedule CRM_RECONCILIATION
    edits,          \* how often staff configured it
    actor,          \* BackgroundJob.actorUserId
    plan,           \* what a tick read of the schedule before enqueueing
    step,           \* where a claimed reconciliation stands
    pulled,         \* the events its pull saw
    source,         \* events that have happened in Monday
    local,          \* events the projection was last written from
    intake,         \* the webhook handler of an event
    status,         \* MondayWebhookEvent.status, NONE before the row exists
    receivedAt      \* MondayWebhookEvent.receivedAt

VARIABLES           \* history
    startedAfter,   \* events with a job claimed since their row was stamped
    applied,        \* events some written pull had seen
    retriedAt       \* edits when staff retried a job under an enabled schedule

crmVars == <<clock, schedule, edits, actor, plan, step, pulled, source, local,
             intake, status, receivedAt, startedAfter, applied, retriedAt>>
vars    == <<queueVars, crmVars>>

NoPlan  == [at |-> 0, now |-> 0, actor |-> "nobody"]
Plans   == [at : 0 .. MaxClock + Interval, now : 0 .. MaxClock,
            actor : Staff \union {"nobody"}]
Away    == [due |-> 0, actor |-> "nobody", inserted |-> FALSE]
NoEdit  == 0
Pullers == Workers \union ManualPullers
Steps   == {"idle", "unplanned", "planned", "schedule", "pull", "check",
            "write", "settle", "notify"}

CrmTypeOK ==
    /\ TypeOK
    /\ clock \in 0 .. MaxClock
    /\ schedule \in [enabled : BOOLEAN, actor : Staff \union {"nobody"},
                     nextRunAt : 0 .. MaxClock + Interval]
    /\ edits \in 0 .. MaxEdits
    /\ actor \in [Jobs -> Staff \union Retriers \union {"nobody"}]
    /\ plan \in [Workers -> Plans]
    /\ step \in [Pullers -> Steps]
    /\ pulled \in [Pullers -> SUBSET Events]
    /\ source \in SUBSET Events
    /\ local \in SUBSET source
    /\ intake \in [Events -> [due : {0} \union {Minute(t) : t \in 0 .. MaxClock},
                             actor : Staff \union {"nobody"}, inserted : BOOLEAN]]
    /\ status \in [Events -> {"NONE", "QUEUED", "PROCESSED"}]
    /\ receivedAt \in [Events -> 0 .. MaxClock]
    /\ startedAfter \in SUBSET Events
    /\ applied \in SUBSET source
    /\ retriedAt \in [Jobs -> 0 .. MaxEdits]

CrmInit ==
    /\ Init
    /\ clock = 0
    /\ schedule = [enabled |-> FALSE, actor |-> "nobody", nextRunAt |-> 0]
    /\ edits = 0
    /\ actor = [j \in Jobs |-> "nobody"]
    /\ plan = [w \in Workers |-> NoPlan]
    /\ step = [p \in Pullers |-> "idle"]
    /\ pulled = [p \in Pullers |-> {}]
    /\ source = {} /\ local = {}
    /\ intake = [e \in Events |-> Away]
    /\ status = [e \in Events |-> "NONE"]
    /\ receivedAt = [e \in Events |-> 0]
    /\ startedAfter = {} /\ applied = {}
    /\ retriedAt = [j \in Jobs |-> NoEdit]
-----------------------------------------------------------------------------
(* Staff and time.                                                          *)

TimePasses ==
    /\ clock < MaxClock
    /\ clock' = clock + 1
    /\ UNCHANGED <<queueVars, schedule, edits, actor, plan, step, pulled, source,
                   local, intake, status, receivedAt, startedAfter, applied,
                   retriedAt>>

ConfigureCrmSchedule(u, on) ==
    /\ clock < MaxClock /\ clock' = clock + 1
    /\ schedule' = [enabled |-> on, actor |-> u, nextRunAt |-> clock]
    /\ edits < MaxEdits /\ edits' = edits + 1
    /\ UNCHANGED <<queueVars, actor, plan, step, pulled, source, local, intake,
                   status, receivedAt, startedAfter, applied, retriedAt>>

RetryByStaff(u, j) ==
    /\ RetryCrmJob(j)
    /\ actor' = [actor EXCEPT ![j] = u]
    /\ retriedAt' = [retriedAt EXCEPT ![j] =
                       IF schedule.enabled THEN edits ELSE NoEdit]
    /\ UNCHANGED <<clock, schedule, edits, plan, step, pulled, source, local,
                   intake, status, receivedAt, startedAfter, applied>>
-----------------------------------------------------------------------------
(* Monday's notifications.                                                  *)

Change(e) ==
    /\ e \notin source
    /\ source' = source \union {e}
    /\ UNCHANGED <<queueVars, clock, schedule, edits, actor, plan, step, pulled,
                   local, intake, status, receivedAt, startedAfter, applied,
                   retriedAt>>

\* receiveMondayWebhook up to its transaction; a disabled schedule refuses,
\* and Monday delivers again.  A delivery may also be repeated.
Receive(e) ==
    /\ e \in source /\ intake[e] = Away
    /\ schedule.enabled
    /\ intake' = [intake EXCEPT ![e] =
                    [due |-> Minute(clock), actor |-> schedule.actor,
                     inserted |-> FALSE]]
    /\ UNCHANGED <<queueVars, clock, schedule, edits, actor, plan, step, pulled,
                   source, local, status, receivedAt, startedAfter, applied,
                   retriedAt>>

\* The due job is created unless a row of its key exists.
EnqueueOnce(j, now, u) ==
    IF state[j] = "NONE"
    THEN Enqueue(j, now) /\ actor' = [actor EXCEPT ![j] = u]
    ELSE UNCHANGED <<rowVars, actor>>

\* Its transaction stamps the row it inserts: nobody sees it, or its stamp,
\* before the commit.
Insert(e) ==
    /\ intake[e] # Away /\ status[e] = "NONE" /\ ~intake[e].inserted
    /\ clock < MaxClock /\ clock' = clock + 1
    /\ intake' = [intake EXCEPT ![e].inserted = TRUE]
    /\ receivedAt' = [receivedAt EXCEPT ![e] = clock]
    /\ startedAfter' = startedAfter \ {e}
    /\ UNCHANGED <<queueVars, schedule, edits, actor, plan, step, pulled, source,
                   local, status, applied, retriedAt>>

\* Its commit: the event row once, and the job of its minute.
Accept(e) ==
    /\ intake[e].inserted
    /\ status' = [status EXCEPT ![e] = "QUEUED"]
    /\ EnqueueOnce(<<"webhook", intake[e].due>>, FALSE, intake[e].actor)
    /\ intake' = [intake EXCEPT ![e] = Away]
    /\ UNCHANGED <<workerVars, clock, schedule, edits, plan, step, pulled, source,
                   local, receivedAt, startedAfter, applied, retriedAt>>

\* It fails, and leaves nothing: Monday delivers again.
RollBack(e) ==
    /\ intake[e].inserted
    /\ intake' = [intake EXCEPT ![e] = Away]
    /\ receivedAt' = [receivedAt EXCEPT ![e] = 0]
    /\ UNCHANGED <<queueVars, clock, schedule, edits, actor, plan, step, pulled,
                   source, local, status, startedAfter, applied, retriedAt>>

AcceptDuplicate(e) ==
    /\ intake[e] # Away /\ status[e] # "NONE"
    /\ intake' = [intake EXCEPT ![e] = Away]
    /\ UNCHANGED <<queueVars, clock, schedule, edits, actor, plan, step, pulled,
                   source, local, status, receivedAt, startedAfter, applied,
                   retriedAt>>
-----------------------------------------------------------------------------
(* The tick: the queue's steps, and enqueueDueJobs before the claim.        *)

\* A job becomes available once its time, or its retry delay, has passed.
BecomeAvailable(j) ==
    /\ ScheduledFor(j) < clock
    /\ Elapse(j)
    /\ UNCHANGED crmVars

LeaseExpires(j) == Expire(j) /\ UNCHANGED crmVars

Begin(w) ==
    /\ BeginTick(w)
    /\ step' = [step EXCEPT ![w] = "unplanned"]
    /\ UNCHANGED <<clock, schedule, edits, actor, plan, pulled, source, local,
                   intake, status, receivedAt, startedAfter, applied, retriedAt>>

Recover(w) == RecoverExpired(w) /\ UNCHANGED crmVars

\* enqueueDueJobs reads an enabled schedule that is due.
ReadDue(w) ==
    /\ pc[w] = "recover" /\ expired[w] = {} /\ step[w] = "unplanned"
    /\ step' = [step EXCEPT ![w] = "planned"]
    /\ plan' = [plan EXCEPT ![w] =
         IF schedule.enabled /\ schedule.nextRunAt < clock
         THEN [at |-> schedule.nextRunAt, now |-> clock, actor |-> schedule.actor]
         ELSE NoPlan]
    /\ UNCHANGED <<queueVars, clock, schedule, edits, actor, pulled, source,
                   local, intake, status, receivedAt, startedAfter, applied,
                   retriedAt>>

(* Mutant of Advanced: the schedule is advanced whatever it has become. *)
AdvancedAnyway(p) == [schedule EXCEPT !.nextRunAt = p.now + Interval]

\* The occurrence moves on only if it is still the one that was read.
Advanced(p) ==
    IF schedule.enabled /\ schedule.nextRunAt = p.at
    THEN [schedule EXCEPT !.nextRunAt = p.now + Interval] ELSE schedule

\* Its transaction: the job of the occurrence and the next occurrence.
EnqueueDue(w) ==
    /\ step[w] = "planned" /\ plan[w] # NoPlan
    /\ EnqueueOnce(<<"crm", plan[w].at>>, TRUE, plan[w].actor)
    /\ schedule' = Advanced(plan[w])
    /\ plan' = [plan EXCEPT ![w] = NoPlan]
    /\ UNCHANGED <<workerVars, clock, edits, step, pulled, source, local, intake,
                   status, receivedAt, startedAfter, applied, retriedAt>>

EnterClaim(w) ==
    /\ step[w] = "planned" /\ plan[w] = NoPlan
    /\ TryMutex(w)
    /\ step' = [step EXCEPT ![w] = "idle"]
    /\ UNCHANGED <<clock, schedule, edits, actor, plan, pulled, source, local,
                   intake, status, receivedAt, startedAfter, applied, retriedAt>>

SelectRow(w) == (Select(w) \/ SelectNothing(w)) /\ UNCHANGED crmVars

\* Whether the row of a notification bears its stamp, committed or not.
Stamped(e) == status[e] # "NONE" \/ intake[e].inserted

ClaimRow(w) ==
    /\ Claim(w)
    /\ step' = [step EXCEPT ![w] = "schedule"]
    /\ startedAfter' = startedAfter \union {e \in Events : Stamped(e)}
    /\ UNCHANGED <<clock, schedule, edits, actor, plan, pulled, source, local,
                   intake, status, receivedAt, applied, retriedAt>>

Dies(w) ==
    /\ Crash(w)
    /\ step' = [step EXCEPT ![w] = "idle"]
    /\ plan' = [plan EXCEPT ![w] = NoPlan]
    /\ pulled' = [pulled EXCEPT ![w] = {}]
    /\ UNCHANGED <<clock, schedule, edits, actor, source, local, intake,
                   status, receivedAt, startedAfter, applied, retriedAt>>
-----------------------------------------------------------------------------
(* A claimed reconciliation.                                                *)

\* The run ends here: its verdict is stored if the lease is still held.
EndRun(w, verdict) ==
    /\ FinishJob(w, verdict) /\ EndTick(w)
    /\ step' = [step EXCEPT ![w] = "idle"]
    /\ pulled' = [pulled EXCEPT ![w] = {}]

MoveTo(p, s) == step' = [step EXCEPT ![p] = s]

runFrame == <<clock, schedule, edits, actor, plan, source, intake, receivedAt,
              startedAfter, retriedAt>>

Delegated(j) == schedule.enabled /\ schedule.actor = actor[j]

CheckDelegation(w) ==
    /\ step[w] = "schedule"
    /\ IF Delegated(held[w])
       THEN MoveTo(w, "pull") /\ UNCHANGED <<queueVars, pulled>>
       ELSE EndRun(w, "ATTENTION")
    /\ UNCHANGED <<runFrame, local, applied, status>>

\* syncCrmFromMonday: its first capability check, then the pull.  A pull that
\* fails marks its board FAILED and the run goes on as if it had succeeded.
PullBoard(w) ==
    /\ step[w] = "pull" /\ HoldsLease(w, held[w])
    /\ \/ /\ pulled' = [pulled EXCEPT ![w] = source]
          /\ MoveTo(w, "check")
       \/ MoveTo(w, "settle") /\ UNCHANGED pulled
    /\ UNCHANGED <<queueVars, runFrame, local, applied, status>>

\* The capability check after a pull; its refusal fails the board only.
CheckLease(w) ==
    /\ step[w] = "check"
    /\ IF HoldsLease(w, held[w])
       THEN MoveTo(w, "write") /\ UNCHANGED pulled
       ELSE MoveTo(w, "settle") /\ pulled' = [pulled EXCEPT ![w] = {}]
    /\ UNCHANGED <<queueVars, runFrame, local, applied, status>>

WriteBoard(p) ==
    /\ step[p] = "write"
    /\ local' = pulled[p]
    /\ applied' = applied \union pulled[p]
    /\ pulled' = [pulled EXCEPT ![p] = {}]
    /\ MoveTo(p, IF p \in Workers THEN "settle" ELSE "idle")
    /\ UNCHANGED <<queueVars, runFrame, status>>

(* Mutant of Settle: the row is settled by its id alone. *)
SettleUnfenced(w) ==
    /\ step[w] = "settle"
    /\ Clear(held[w], "SUCCEEDED")
    /\ MoveTo(w, "notify")
    /\ UNCHANGED <<workerVars, runFrame, pulled, local, applied, status>>

\* finishJob(SUCCEEDED); the run goes on whether or not it was a no-op.
Settle(w) ==
    /\ step[w] = "settle"
    /\ FinishJob(w, "SUCCEEDED")
    /\ MoveTo(w, "notify")
    /\ UNCHANGED <<workerVars, runFrame, pulled, local, applied, status>>

(* Mutant of Covered: every waiting notification is marked. *)
CoveredAll(w) == {e \in Events : status[e] = "QUEUED"}

\* The notifications a finished run accounts for.
Covered(w) == {e \in Events : /\ status[e] = "QUEUED"
                              /\ receivedAt[e] <= ScheduledFor(held[w])}

MarkProcessed(w) ==
    /\ step[w] = "notify"
    /\ status' = [e \in Events |-> IF e \in Covered(w) THEN "PROCESSED"
                                   ELSE status[e]]
    /\ EndTick(w) /\ MoveTo(w, "idle")
    /\ UNCHANGED <<rowVars, runFrame, pulled, local, applied>>

\* The catch: Monday not configured, the lease lost at the first check, or a
\* database error in any step.
Catch(w) ==
    /\ step[w] \in {"schedule", "pull", "check", "write", "settle", "notify"}
    /\ EndRun(w, Interrupted(held[w]))
    /\ UNCHANGED <<runFrame, local, applied, status>>
-----------------------------------------------------------------------------
(* The same pull by a signed-in member of staff, outside the queue.         *)

ManualPull(p) ==
    /\ step[p] = "idle"
    /\ pulled' = [pulled EXCEPT ![p] = source]
    /\ MoveTo(p, "write")
    /\ UNCHANGED <<queueVars, runFrame, local, applied, status>>
-----------------------------------------------------------------------------
TickOf(w) ==
    \/ Begin(w) \/ Recover(w) \/ ReadDue(w) \/ EnqueueDue(w) \/ EnterClaim(w)
    \/ SelectRow(w) \/ ClaimRow(w) \/ CheckDelegation(w) \/ PullBoard(w)
    \/ CheckLease(w) \/ WriteBoard(w) \/ Settle(w) \/ MarkProcessed(w)
    \/ Catch(w)

CrmNext ==
    \/ TimePasses
    \/ \E u \in Staff, on \in BOOLEAN : ConfigureCrmSchedule(u, on)
    \/ \E u \in Retriers, j \in Jobs : RetryByStaff(u, j)
    \/ \E e \in Events : \/ Change(e) \/ Receive(e) \/ Insert(e) \/ Accept(e)
                         \/ RollBack(e) \/ AcceptDuplicate(e)
    \/ \E j \in Jobs : BecomeAvailable(j) \/ LeaseExpires(j)
    \/ \E w \in Workers : TickOf(w) \/ Dies(w)
    \/ \E p \in ManualPullers : ManualPull(p) \/ WriteBoard(p)

CrmSpec == CrmInit /\ [][CrmNext]_vars
-----------------------------------------------------------------------------
(* Properties.                                                              *)

\* The reconciliation is a run of the queue: after finishJob its execution
\* no longer counts as running a row.
Queue == INSTANCE JobQueue WITH
    pc   <- [w \in Workers |-> IF step[w] = "notify" THEN "idle" ELSE pc[w]],
    held <- [w \in Workers |-> IF step[w] = "notify" THEN NoJob ELSE held[w]]

\* Schedules, notifications and pulls use the queue only by its own steps, so
\* what holds of every JobQueue holds of the reconciliation.  This is Queue!Spec
\* with the two sides of [Next]_queueVars exchanged: TLC then takes a step that
\* leaves the queue alone for the stuttering step it is before it tries Next.
ImplementsQueue ==
    Queue!Init /\ [][Queue!queueVars' = Queue!queueVars \/ Queue!Next]_vars

\* A notification is only marked processed when a reconciliation was claimed
\* after it arrived: none is swallowed by a pull that began before it, although
\* its row may become visible, with an older stamp, while the run is under way.
ProcessedAfterReceipt ==
    \A e \in Events : status[e] = "PROCESSED" => e \in startedAfter

\* Under an unexpired lease a run never writes over a newer pull, not even
\* one of an execution that lost the lease.
LiveSyncNeverRegresses ==
    [][\A w \in Workers :
         (step[w] = "write" /\ step'[w] = "settle" /\ HoldsLease(w, held[w]))
            => local \subseteq local']_vars

\* An occurrence is never skipped: when the schedule moves on without staff,
\* the job of the occurrence it leaves exists.
OccurrenceMaterialized ==
    [][(schedule'.nextRunAt # schedule.nextRunAt /\ edits' = edits)
         => state'[<<"crm", schedule.nextRunAt>>] # "NONE"]_vars

\* A notification that no longer waits for reconciliation was reconciled.
ProcessedWasPulled ==
    \A e \in Events : status[e] = "PROCESSED" => e \in applied

\* A retry that staff request under an enabled schedule, not configured again
\* since, is not refused because the schedule was paused or changed.
RetryIsServed ==
    [][\A w \in Workers :
         (step[w] = "schedule" /\ step'[w] = "idle" /\ ~Delegated(held[w])
            /\ HoldsLease(w, held[w]) /\ state'[held[w]] = "ATTENTION"
            /\ attempts[held[w]] < JobMaxAttempts)
          => ~(retriedAt[held[w]] = edits /\ edits # NoEdit)]_vars
-----------------------------------------------------------------------------
(* The inductive invariant behind them, beside that of the queue.           *)

Claimed == {"schedule", "pull", "check", "write", "settle", "notify"}

\* A reconciliation is a run of its tick, over once it has settled its row.
StepsFollowTick ==
    \A w \in Workers :
        /\ pc[w] = "recover" <=> step[w] \in {"unplanned", "planned"}
        /\ pc[w] = "run" <=> step[w] \in Claimed
        /\ pc[w] \in {"update", "run"} => held[w] \in Jobs
        /\ step[w] = "notify" => ~HoldsLease(w, held[w])

\* Nothing is in line, has run or is planned before its time has passed.
NothingBeforeItsTime ==
    /\ \A j \in line : ScheduledFor(j) < clock
    /\ \A j \in Jobs : state[j] \notin {"NONE", "PENDING"} => ScheduledFor(j) < clock
    /\ \A w \in Workers :
         /\ pc[w] \in {"update", "run"} => ScheduledFor(held[w]) < clock
         /\ plan[w] # NoPlan => plan[w].at < clock /\ plan[w].now <= clock
    /\ \A e \in Events : intake[e] # Away => intake[e].due \in {Minute(t) : t \in 0 .. MaxClock}

\* What arrived since a run was claimed is later than the run's time.
LaterNotices ==
    /\ \A e \in Events : /\ status[e] = "PROCESSED" => e \in startedAfter
                         /\ intake[e].inserted => status[e] = "NONE"
    /\ \A w \in Workers, e \in Events :
         step[w] \in Claimed /\ Stamped(e) /\ e \notin startedAfter
           => receivedAt[e] > ScheduledFor(held[w])

\* The pull of the execution under the lease is the newest of the queue's.
NewestPull ==
    /\ \A p \in Pullers : pulled[p] \subseteq source
    /\ ManualPullers = {} =>
         \A w \in Workers : step[w] \in {"check", "write"} /\ HoldsLease(w, held[w]) =>
           /\ local \subseteq pulled[w]
           /\ \A v \in Workers : step[v] \in {"check", "write"} => pulled[v] \subseteq pulled[w]

CrmInv ==
    CrmTypeOK /\ StepsFollowTick /\ NothingBeforeItsTime /\ LaterNotices /\ NewestPull
=============================================================================
