---------------------- MODULE CrmReconciliationProofs ----------------------
(***************************************************************************)
(* What CrmReconciliation guarantees for any set of events, accounts,       *)
(* executions and instants.                                                 *)
(*                                                                          *)
(* The reconciliation moves the queue by the queue's own steps, except that *)
(* it settles its row before its tick ends; so the invariant of the queue   *)
(* (QueueInv) holds beside CrmInv, and gives the exclusion that LiveSync-   *)
(* NeverRegresses rests on.  At the end, what a pull leaves alone.          *)
(***************************************************************************)
EXTENDS CrmReconciliation, CrmMirror, JobQueueProofs

LEMMA MinuteType ==
  ASSUME NEW t \in Nat PROVE Minute(t) \in Nat
  BY TimeAssumption DEF Minute

\* The keys are the rows, and each has its instant.
LEMMA Keys ==
  /\ \A t \in 0 .. MaxClock : <<"crm", t>> \in Jobs
  /\ \A m \in {Minute(t) : t \in 0 .. MaxClock} : <<"webhook", m>> \in Jobs
  /\ \A j \in Jobs : ScheduledFor(j) \in Nat
  /\ \A t : ScheduledFor(<<"crm", t>>) = t
  <1>1. Jobs = CrmKeys
    BY JobsAssumption
  <1>2. \A t \in 0 .. MaxClock : Minute(t) \in Nat
    BY MinuteType, TimeAssumption
  <1> QED
    BY <1>1, <1>2, TimeAssumption DEF CrmKeys, ScheduledFor

\* Every row is a reconciliation, and all of them exclude each other.
LEMMA AllConflict == \A i, j \in Jobs : Conflicts(i, j) /\ Kind[j] = "CRM_SYNC"
  BY JobsAssumption DEF Conflicts

\* What a notification does that leaves the queue and its pulls alone.
Passing(e) ==
  Change(e) \/ Receive(e) \/ Insert(e) \/ RollBack(e) \/ AcceptDuplicate(e)

\* Every named step, with what quantifies it.
LEMMA CrmCases ==
  ASSUME CrmNext
  PROVE  \/ TimePasses
         \/ \E u \in Staff, on \in BOOLEAN : ConfigureCrmSchedule(u, on)
         \/ \E u \in Retriers, j \in Jobs : RetryByStaff(u, j)
         \/ \E e \in Events : Passing(e) \/ Accept(e)
         \/ \E j \in Jobs : BecomeAvailable(j) \/ LeaseExpires(j)
         \/ \E w \in Workers : \/ Begin(w) \/ Recover(w) \/ ReadDue(w)
                               \/ EnqueueDue(w) \/ EnterClaim(w) \/ SelectRow(w)
                               \/ ClaimRow(w) \/ CheckDelegation(w)
                               \/ PullBoard(w) \/ CheckLease(w) \/ Settle(w)
                               \/ MarkProcessed(w) \/ Catch(w) \/ Dies(w)
         \/ \E p \in Pullers : WriteBoard(p) \/ (p \in ManualPullers /\ ManualPull(p))
  BY DEF CrmNext, TickOf, Pullers, Passing

\* The queue moves by its own steps, or by one half of the end of a run.
LEMMA QueueMoves ==
  ASSUME CrmInv, CrmNext
  PROVE  \/ Next
         \/ UNCHANGED queueVars
         \/ \E w \in Workers : Settle(w) \/ MarkProcessed(w)
  <1> USE DEF Next, Tick
  <1>1. ASSUME NEW u \in Retriers, NEW j \in Jobs, RetryByStaff(u, j) PROVE Next
    BY <1>1 DEF RetryByStaff
  <1>2. ASSUME NEW e \in Events, Accept(e) PROVE Next \/ UNCHANGED queueVars
    <2> DEFINE j == <<"webhook", intake[e].due>>
    <2>1. j \in Jobs
      BY <1>2, Keys DEF Accept, Away, CrmInv, NothingBeforeItsTime
    <2>2. Enqueue(j, FALSE) \/ UNCHANGED rowVars
      BY <1>2 DEF Accept, EnqueueOnce
    <2>3. UNCHANGED workerVars
      BY <1>2 DEF Accept
    <2> QED
      BY <2>1, <2>2, <2>3 DEF queueVars
  <1>3. ASSUME NEW w \in Workers, EnqueueDue(w) PROVE Next \/ UNCHANGED queueVars
    <2> DEFINE j == <<"crm", plan[w].at>>
    <2>1. plan[w].at \in 0 .. MaxClock
      BY <1>3, TimeAssumption
      DEF EnqueueDue, CrmInv, NothingBeforeItsTime, CrmTypeOK, Plans
    <2>2. j \in Jobs
      BY <2>1, Keys
    <2>3. Enqueue(j, TRUE) \/ UNCHANGED rowVars
      BY <1>3 DEF EnqueueDue, EnqueueOnce
    <2>4. UNCHANGED workerVars
      BY <1>3 DEF EnqueueDue
    <2> QED
      BY <2>2, <2>3, <2>4 DEF queueVars
  <1>4. ASSUME NEW j \in Jobs, BecomeAvailable(j) \/ LeaseExpires(j) PROVE Next
    BY <1>4 DEF BecomeAvailable, LeaseExpires
  <1>5. ASSUME NEW w \in Workers,
               \/ Begin(w) \/ Recover(w) \/ EnterClaim(w) \/ SelectRow(w)
               \/ ClaimRow(w) \/ Dies(w)
        PROVE  Next
    BY <1>5 DEF Begin, Recover, EnterClaim, SelectRow, ClaimRow, Dies
  <1>6. ASSUME NEW w \in Workers, NEW s, EndRun(w, s), step[w] \in Claimed,
               s \in {"ATTENTION", Interrupted(held[w])}
        PROVE  Next
    <2>1. pc[w] = "run" /\ held[w] \in Jobs
      BY <1>6 DEF CrmInv, StepsFollowTick
    <2>2. s \in Verdicts(held[w])
      BY <1>6, <2>1, AllConflict DEF Verdicts
    <2>3. Finish(w)
      BY <1>6, <2>1, <2>2 DEF Finish, EndRun
    <2> QED
      BY <2>3
  <1>7. ASSUME NEW w \in Workers, CheckDelegation(w) \/ Catch(w)
        PROVE  Next \/ UNCHANGED queueVars
    BY <1>6, <1>7 DEF CheckDelegation, Catch, Claimed
  <1>8. ASSUME NEW w \in Workers, ReadDue(w) \/ PullBoard(w) \/ CheckLease(w)
        PROVE  UNCHANGED queueVars
    BY <1>8 DEF ReadDue, PullBoard, CheckLease
  <1>9. ASSUME NEW p \in Pullers, ManualPull(p) \/ WriteBoard(p)
        PROVE  UNCHANGED queueVars
    BY <1>9 DEF ManualPull, WriteBoard
  <1>10. ASSUME NEW e \in Events, Passing(e)
         PROVE  UNCHANGED queueVars
    BY <1>10 DEF Passing, Change, Receive, Insert, RollBack, AcceptDuplicate
  <1>11. CASE TimePasses \/ \E u \in Staff, on \in BOOLEAN : ConfigureCrmSchedule(u, on)
    BY <1>11 DEF TimePasses, ConfigureCrmSchedule
  <1> QED
    BY <1>1, <1>2, <1>3, <1>4, <1>5, <1>7, <1>8, <1>9, <1>10, <1>11, CrmCases
    DEF Pullers

\* The invariant of the queue survives the two halves as well.
LEMMA QueueKept ==
  CrmInv /\ QueueInv /\ [CrmNext]_vars => TypeOK' /\ QueueInv'
  <1> SUFFICES ASSUME CrmInv, QueueInv, [CrmNext]_vars PROVE TypeOK' /\ QueueInv'
    OBVIOUS
  <1>1. TypeOK
    BY DEF CrmInv, CrmTypeOK
  <1>2. CASE Next \/ UNCHANGED queueVars
    BY <1>1, <1>2, TypeStep, QueueStep DEF QueueInv
  <1>3. ASSUME NEW w \in Workers, Settle(w) PROVE TypeOK' /\ QueueInv'
    <2> DEFINE j == held[w]
    <2>1. j \in Jobs /\ UNCHANGED workerVars
      BY <1>3 DEF Settle, CrmInv, StepsFollowTick, Claimed
    <2>2. UNCHANGED rowVars \/ (state[j] = "RUNNING" /\ Clear(j, "SUCCEEDED"))
      BY <1>3 DEF Settle, FinishJob, HoldsLease
    <2>3. TypeOK'
      BY <1>1, <2>1, <2>2 DEF TypeOK, JobState, Clear, rowVars, workerVars
    <2>4. MutexHeld' /\ CandidateStands' /\ RunsARow' /\ Exclusion'
      BY <1>1, <2>1, <2>2, QuietStep
      DEF Clear, rowVars, workerVars, TypeOK, QueueInv, CandidateStands
    <2>5. AttemptsLeft' /\ FreshOccurrence'
      BY <1>1, <2>1, <2>2
      DEF Clear, rowVars, TypeOK, QueueInv, AttemptsLeft, FreshOccurrence
    <2> QED
      BY <2>3, <2>4, <2>5 DEF QueueInv
  <1>4. ASSUME NEW w \in Workers, MarkProcessed(w) PROVE TypeOK' /\ QueueInv'
    BY <1>1, <1>4
    DEF MarkProcessed, EndTick, rowVars, TypeOK, QueueInv, MutexHeld,
        CandidateStands, RunsARow, Exclusion, AttemptsLeft, FreshOccurrence
  <1> QED
    BY <1>2, <1>3, <1>4, QueueMoves DEF vars
-----------------------------------------------------------------------------
\* A reconciliation and its tick stay in step.
LEMMA FollowStep ==
  CrmInv /\ QueueInv /\ [CrmNext]_vars => StepsFollowTick'
  <1> SUFFICES ASSUME CrmInv, QueueInv, TypeOK', QueueInv', [CrmNext]_vars
               PROVE  StepsFollowTick'
    BY QueueKept
  <1> USE DEF CrmInv, CrmTypeOK, TypeOK, StepsFollowTick, Claimed, HoldsLease, Pullers
  <1>1. \A w \in Workers : pc'[w] \in {"update", "run"} => held'[w] \in Jobs
    BY DEF QueueInv, CandidateStands, RunsARow
  <1>2. CASE UNCHANGED <<queueVars, step>>
    BY <1>2 DEF queueVars, rowVars, workerVars
  <1>3. ASSUME UNCHANGED <<pc, held, step>>,
               \A v \in Workers, i \in Jobs : HoldsLease(v, i)' => HoldsLease(v, i)
        PROVE  StepsFollowTick'
    BY <1>3, <1>1
  <1>4. ASSUME NEW w \in Workers, Begin(w) \/ EnterClaim(w) \/ SelectRow(w)
        PROVE  StepsFollowTick'
    BY <1>4, <1>1
    DEF Begin, EnterClaim, SelectRow, crmVars, BeginTick, TryMutex, Select,
        SelectNothing, rowVars
  <1>5. ASSUME NEW w \in Workers, Recover(w) PROVE StepsFollowTick'
    BY <1>5, <1>3 DEF Recover, RecoverExpired, Clear, crmVars, rowVars
  <1>6. ASSUME NEW j, EnqueueOnce(j, TRUE, "x") \/ Enqueue(j, TRUE) \/ Enqueue(j, FALSE)
               \/ UNCHANGED rowVars, UNCHANGED <<pc, held, step>>
        PROVE  StepsFollowTick'
    BY <1>6, <1>3 DEF EnqueueOnce, Enqueue, Join, rowVars
  <1>7. ASSUME NEW e \in Events, Accept(e) PROVE StepsFollowTick'
    BY <1>7, <1>6 DEF Accept, EnqueueOnce, workerVars
  <1>8. ASSUME NEW w \in Workers, EnqueueDue(w) PROVE StepsFollowTick'
    BY <1>8, <1>6 DEF EnqueueDue, EnqueueOnce, workerVars
  <1>9. ASSUME NEW j \in Jobs,
               \/ BecomeAvailable(j) \/ LeaseExpires(j)
               \/ \E u \in Retriers : RetryByStaff(u, j)
        PROVE  StepsFollowTick'
    BY <1>9, <1>3
    DEF BecomeAvailable, LeaseExpires, RetryByStaff, Elapse, Expire, RetryCrmJob,
        Join, crmVars, workerVars
  <1>10. ASSUME NEW w \in Workers, ReadDue(w) PROVE StepsFollowTick'
    BY <1>10 DEF ReadDue, queueVars, rowVars, workerVars
  <1>11. ASSUME NEW w \in Workers, ClaimRow(w) PROVE StepsFollowTick'
    BY <1>11, <1>1 DEF ClaimRow, Claim
  <1>12. ASSUME NEW w \in Workers, NEW s, EndRun(w, s), step[w] \in Claimed
         PROVE  StepsFollowTick'
    BY <1>12, <1>1 DEF EndRun, FinishJob, EndTick, Clear, rowVars
  <1>13. ASSUME NEW w \in Workers,
                CheckDelegation(w) \/ PullBoard(w) \/ CheckLease(w) \/ Catch(w)
         PROVE  StepsFollowTick'
    BY <1>12, <1>13
    DEF CheckDelegation, PullBoard, CheckLease, Catch, MoveTo, queueVars,
        rowVars, workerVars
  <1>14. ASSUME NEW p \in Pullers, WriteBoard(p) \/ (p \in ManualPullers /\ ManualPull(p))
         PROVE  StepsFollowTick'
    BY <1>14, PullersAssumption
    DEF WriteBoard, ManualPull, MoveTo, queueVars, rowVars, workerVars
  <1>15. ASSUME NEW w \in Workers, Settle(w) PROVE StepsFollowTick'
    BY <1>15, <1>1 DEF Settle, FinishJob, Clear, MoveTo, rowVars, workerVars
  <1>16. ASSUME NEW w \in Workers, MarkProcessed(w) \/ Dies(w)
         PROVE  StepsFollowTick'
    BY <1>16, <1>1 DEF MarkProcessed, Dies, Crash, EndTick, MoveTo, rowVars
  <1>17. CASE \/ TimePasses
              \/ \E u \in Staff, on \in BOOLEAN : ConfigureCrmSchedule(u, on)
              \/ \E e \in Events : Passing(e)
    BY <1>2, <1>17
    DEF TimePasses, ConfigureCrmSchedule, Passing, Change, Receive, Insert, RollBack,
        AcceptDuplicate
  <1>18. CASE UNCHANGED vars
    BY <1>2, <1>18 DEF vars, crmVars
  <1> HIDE DEF CrmInv, CrmTypeOK, TypeOK, StepsFollowTick, Claimed, HoldsLease
  <1> QED
    BY <1>4, <1>5, <1>7, <1>8, <1>9, <1>10, <1>11, <1>13, <1>14, <1>15, <1>16,
       <1>17, <1>18, CrmCases, Zenon

\* Every variable of the reconciliation keeps its type.
LEMMA CrmTypeStep ==
  CrmInv /\ QueueInv /\ [CrmNext]_vars => CrmTypeOK'
  <1> SUFFICES ASSUME CrmInv, QueueInv, TypeOK', [CrmNext]_vars
               PROVE  CrmTypeOK'
    BY QueueKept
  <1> USE TimeAssumption DEF CrmInv, CrmTypeOK, NewestPull, Steps
  <1>1. CASE UNCHANGED crmVars
    BY <1>1 DEF crmVars
  <1>2. CASE TimePasses
    BY <1>2 DEF TimePasses
  <1>3. ASSUME NEW u \in Staff, NEW on \in BOOLEAN, ConfigureCrmSchedule(u, on)
        PROVE  CrmTypeOK'
    BY <1>3 DEF ConfigureCrmSchedule
  <1>4. ASSUME NEW j \in Jobs,
               \/ BecomeAvailable(j) \/ LeaseExpires(j)
               \/ \E u \in Retriers : RetryByStaff(u, j)
        PROVE  CrmTypeOK'
    <2>1. CASE BecomeAvailable(j) \/ LeaseExpires(j)
      BY <1>1, <2>1 DEF BecomeAvailable, LeaseExpires
    <2>2. ASSUME NEW u \in Retriers, RetryByStaff(u, j) PROVE CrmTypeOK'
      BY <2>2 DEF RetryByStaff, NoEdit
    <2> QED
      BY <1>4, <2>1, <2>2
  <1>5. ASSUME NEW e \in Events, Passing(e)
        PROVE  CrmTypeOK'
    <2>1. CASE Change(e)
      BY <2>1 DEF Change
    <2>2. CASE Receive(e)
      BY <2>2 DEF Receive
    <2> DEFINE D == {0} \union {Minute(t) : t \in 0 .. MaxClock}
               I == [due : D, actor : Staff \union {"nobody"}, inserted : BOOLEAN]
    <2>0. intake \in [Events -> I] /\ Away \in I
      BY DEF Away
    <2>3. CASE AcceptDuplicate(e) \/ RollBack(e) \/ Insert(e)
      <3>1. intake' \in [Events -> I]
        <4> HIDE DEF D, CrmInv, CrmTypeOK, NewestPull
        <4>1. CASE intake' = [intake EXCEPT ![e] = Away]
          BY <2>0, <4>1
        <4>2. CASE intake' = [intake EXCEPT ![e].inserted = TRUE]
          BY <2>0, <4>2
        <4> QED
          BY <2>3, <4>1, <4>2 DEF AcceptDuplicate, RollBack, Insert
      <3> QED
        BY <2>3, <3>1 DEF AcceptDuplicate, RollBack, Insert
    <2> QED
      BY <1>5, <2>1, <2>2, <2>3 DEF Passing
  <1>6. ASSUME NEW e \in Events, Accept(e) PROVE CrmTypeOK'
    <2>1. actor' \in [Jobs -> Staff \union Retriers \union {"nobody"}]
      BY <1>6 DEF Accept, EnqueueOnce
    <2> QED
      BY <1>6, <2>1 DEF Accept, Away
  <1>7. ASSUME NEW w \in Workers, Begin(w) \/ Recover(w) \/ EnterClaim(w) \/ SelectRow(w)
        PROVE  CrmTypeOK'
    BY <1>1, <1>7 DEF Begin, Recover, EnterClaim, SelectRow, Pullers
  <1>8. ASSUME NEW w \in Workers, ReadDue(w) PROVE CrmTypeOK'
    <2>1. plan'[w] \in Plans
      BY <1>8 DEF ReadDue, Plans, NoPlan
    <2>2. plan' \in [Workers -> Plans]
      BY <1>8, <2>1 DEF ReadDue
    <2> QED
      BY <1>8, <2>2 DEF ReadDue, Pullers
  <1>9. ASSUME NEW w \in Workers, EnqueueDue(w) PROVE CrmTypeOK'
    <2>1. plan[w] \in Plans /\ NoPlan \in Plans
      BY DEF Plans, NoPlan
    <2>2. schedule' \in [enabled : BOOLEAN, actor : Staff \union {"nobody"},
                         nextRunAt : 0 .. MaxClock + Interval]
      <3>1. plan[w].now + Interval \in 0 .. MaxClock + Interval
        BY <2>1 DEF Plans
      <3>2. \/ schedule' = schedule
            \/ schedule' = [schedule EXCEPT !.nextRunAt = plan[w].now + Interval]
        BY <1>9 DEF EnqueueDue, Advanced
      <3>3. schedule \in [enabled : BOOLEAN, actor : Staff \union {"nobody"},
                          nextRunAt : 0 .. MaxClock + Interval]
        OBVIOUS
      <3> HIDE DEF CrmInv, CrmTypeOK, NewestPull
      <3> QED
        BY <3>1, <3>2, <3>3
    <2>3. actor' \in [Jobs -> Staff \union Retriers \union {"nobody"}]
      BY <1>9, <2>1 DEF EnqueueDue, EnqueueOnce, Plans
    <2> QED
      BY <1>9, <2>1, <2>2, <2>3 DEF EnqueueDue
  <1>10. ASSUME NEW w \in Workers, ClaimRow(w) PROVE CrmTypeOK'
    BY <1>10 DEF ClaimRow, Pullers
  <1>11. ASSUME NEW w \in Workers,
                \/ CheckDelegation(w) \/ PullBoard(w) \/ CheckLease(w)
                \/ Settle(w) \/ Catch(w)
         PROVE  CrmTypeOK'
    BY <1>11
    DEF CheckDelegation, PullBoard, CheckLease, Settle, Catch, EndRun, MoveTo,
        runFrame, Pullers
  <1>12. ASSUME NEW w \in Workers, MarkProcessed(w) PROVE CrmTypeOK'
    BY <1>12 DEF MarkProcessed, MoveTo, runFrame, Pullers
  <1>13. ASSUME NEW w \in Workers, Dies(w) PROVE CrmTypeOK'
    <2>1. NoPlan \in Plans
      BY DEF Plans, NoPlan
    <2> QED
      BY <1>13, <2>1 DEF Dies, Pullers
  <1>14. ASSUME NEW p \in Pullers, WriteBoard(p) \/ (p \in ManualPullers /\ ManualPull(p))
         PROVE  CrmTypeOK'
    BY <1>14 DEF WriteBoard, ManualPull, MoveTo, runFrame, Pullers
  <1>15. CASE UNCHANGED vars
    BY <1>1, <1>15 DEF vars
  <1> HIDE DEF CrmInv, CrmTypeOK
  <1> QED
    BY <1>2, <1>3, <1>4, <1>5, <1>6, <1>7, <1>8, <1>9, <1>10, <1>11, <1>12,
       <1>13, <1>14, <1>15, CrmCases, Zenon

\* Time only passes, and what was not before its time never becomes so.
LEMMA TimesStep ==
  CrmInv /\ QueueInv /\ [CrmNext]_vars => NothingBeforeItsTime'
  <1> SUFFICES ASSUME CrmInv, QueueInv, [CrmNext]_vars
               PROVE  NothingBeforeItsTime'
    OBVIOUS
  <1> USE TimeAssumption, Keys
      DEF CrmInv, CrmTypeOK, TypeOK, StepsFollowTick, NothingBeforeItsTime
  <1>1. ASSUME UNCHANGED <<line, state, pc, held, plan, intake>>,
               clock' \in Nat, clock <= clock'
        PROVE  NothingBeforeItsTime'
    BY <1>1 DEF Plans
  <1>2. CASE UNCHANGED vars
    BY <1>1, <1>2 DEF vars, crmVars, queueVars, rowVars, workerVars
  <1>3. CASE \/ TimePasses
             \/ \E u \in Staff, on \in BOOLEAN : ConfigureCrmSchedule(u, on)
    BY <1>1, <1>3
    DEF TimePasses, ConfigureCrmSchedule, queueVars, rowVars, workerVars
  <1>4. ASSUME NEW j \in Jobs,
               \/ BecomeAvailable(j) \/ LeaseExpires(j)
               \/ \E u \in Retriers : RetryByStaff(u, j)
        PROVE  NothingBeforeItsTime'
    <2>1. /\ \A i \in line' : i \in line \/ ScheduledFor(i) < clock
          /\ \A i \in Jobs : state'[i] = state[i] \/ state'[i] = "PENDING"
      BY <1>4
      DEF BecomeAvailable, LeaseExpires, RetryByStaff, Elapse, Expire,
          RetryCrmJob, Join
    <2>2. UNCHANGED <<pc, held, plan, intake, clock>>
      BY <1>4
      DEF BecomeAvailable, LeaseExpires, RetryByStaff, Elapse, Expire,
          RetryCrmJob, crmVars, workerVars
    <2> QED
      BY <2>1, <2>2
  <1>5. ASSUME NEW e \in Events, Passing(e)
        PROVE  NothingBeforeItsTime'
    <2>1. /\ UNCHANGED <<line, state, pc, held, plan>>
          /\ clock' \in Nat /\ clock <= clock'
      BY <1>5
      DEF Passing, Change, Receive, Insert, RollBack, AcceptDuplicate,
          queueVars, rowVars, workerVars
    <2>2. \/ intake' = intake
          \/ intake' = [intake EXCEPT ![e] = Away]
          \/ intake' = [intake EXCEPT ![e] =
                          [due |-> Minute(clock), actor |-> schedule.actor,
                           inserted |-> FALSE]]
          \/ intake[e] # Away /\ intake' = [intake EXCEPT ![e].inserted = TRUE]
      BY <1>5 DEF Passing, Change, Receive, Insert, RollBack, AcceptDuplicate
    <2> DEFINE M == {Minute(t) : t \in 0 .. MaxClock}
    <2>3. \A d \in Events : intake'[d] # Away => intake'[d].due \in M
      <3>1. Minute(clock) \in M
        OBVIOUS
      <3>2. \A d \in Events : intake[d] # Away => intake[d].due \in M
        OBVIOUS
      <3> HIDE DEF M, CrmInv, CrmTypeOK, NothingBeforeItsTime
      <3>3. \A d \in Events :
              \/ intake'[d] = Away \/ intake'[d].due = Minute(clock)
              \/ intake[d] # Away /\ intake'[d].due = intake[d].due
        <4>1. intake \in [Events -> [due : {0} \union M, actor : Staff \union {"nobody"},
                                     inserted : BOOLEAN]]
          BY DEF CrmInv, CrmTypeOK, M
        <4> QED
          BY <2>2, <4>1
      <3> QED
        BY <3>1, <3>2, <3>3
    <2> QED
      BY <2>1, <2>3 DEF Plans
  <1>6. ASSUME NEW e \in Events, Accept(e) PROVE NothingBeforeItsTime'
    <2> DEFINE j == <<"webhook", intake[e].due>>
    <2>1. j \in Jobs
      BY <1>6 DEF Accept, Away
    <2>2. line' = line /\ \A i \in Jobs : state'[i] \notin {"NONE", "PENDING"} => state[i] = state'[i]
      BY <1>6, <2>1 DEF Accept, EnqueueOnce, Enqueue, rowVars
    <2>3. /\ UNCHANGED <<pc, held, plan, clock>>
          /\ intake' = [intake EXCEPT ![e] = Away]
      BY <1>6 DEF Accept, workerVars
    <2> QED
      BY <2>2, <2>3 DEF Plans
  <1>7. ASSUME NEW w \in Workers, Begin(w) \/ EnterClaim(w) \/ SelectRow(w)
        PROVE  NothingBeforeItsTime'
    BY <1>7
    DEF Begin, EnterClaim, SelectRow, BeginTick, TryMutex, Select, SelectNothing,
        Eligible, crmVars, rowVars
  <1>8. ASSUME NEW w \in Workers, Recover(w) PROVE NothingBeforeItsTime'
    <2>1. UNCHANGED <<line, pc, held, clock, plan, intake>>
      BY <1>8 DEF Recover, RecoverExpired, Clear, crmVars, rowVars
    <2>2. PICK p \in expired[w] :
                 IF Reclaimable(p[1], p[2]) THEN Clear(p[1], Interrupted(p[1]))
                                            ELSE UNCHANGED rowVars
      BY <1>8 DEF Recover, RecoverExpired
    <2>3. \A i \in Jobs : state'[i] = state[i] \/ state[i] = "RUNNING"
      BY <2>2 DEF Reclaimable, Clear, rowVars, TypeOK
    <2> QED
      BY <2>1, <2>3
  <1>9. ASSUME NEW w \in Workers, ReadDue(w) PROVE NothingBeforeItsTime'
    BY <1>9 DEF ReadDue, Plans, queueVars, rowVars, workerVars
  <1>10. ASSUME NEW w \in Workers, EnqueueDue(w) PROVE NothingBeforeItsTime'
    <2> DEFINE j == <<"crm", plan[w].at>>
    <2>1. j \in Jobs /\ ScheduledFor(j) < clock
      BY <1>10 DEF EnqueueDue, Plans
    <2>2. /\ line' \subseteq line \union {j}
          /\ \A i \in Jobs : state'[i] \notin {"NONE", "PENDING"} => state[i] = state'[i]
      BY <1>10, <2>1 DEF EnqueueDue, EnqueueOnce, Enqueue, Join, rowVars
    <2>3. /\ UNCHANGED <<pc, held, intake, clock>>
          /\ plan' = [plan EXCEPT ![w] = NoPlan]
      BY <1>10 DEF EnqueueDue, workerVars
    <2> QED
      BY <2>1, <2>2, <2>3
  <1>11. ASSUME NEW w \in Workers, ClaimRow(w) PROVE NothingBeforeItsTime'
    BY <1>11 DEF ClaimRow, Claim, Leave
  <1>12. ASSUME NEW w \in Workers, NEW s, EndRun(w, s), pc[w] = "run",
                UNCHANGED <<clock, plan, intake>>
         PROVE  NothingBeforeItsTime'
    <2>1. /\ pc' = [pc EXCEPT ![w] = "idle"]
          /\ held' = [held EXCEPT ![w] = NoJob]
      BY <1>12 DEF EndRun, EndTick
    <2>2. \/ UNCHANGED <<state, line>>
          \/ /\ state[held[w]] = "RUNNING"
             /\ state' = [state EXCEPT ![held[w]] = s] /\ line' = line
      BY <1>12 DEF EndRun, FinishJob, HoldsLease, Clear, rowVars
    <2>3. \A i \in Jobs : state'[i] = state[i] \/ state[i] = "RUNNING"
      BY <1>12, <2>2
    <2> QED
      BY <1>12, <2>1, <2>2, <2>3
  <1>13. ASSUME NEW w \in Workers,
                CheckDelegation(w) \/ PullBoard(w) \/ CheckLease(w) \/ Catch(w)
         PROVE  NothingBeforeItsTime'
    <2>1. pc[w] = "run" /\ UNCHANGED <<clock, plan, intake>>
      BY <1>13
      DEF CheckDelegation, PullBoard, CheckLease, Catch, runFrame, Claimed
    <2> QED
      BY <1>1, <1>12, <1>13, <2>1
      DEF CheckDelegation, PullBoard, CheckLease, Catch, queueVars, rowVars,
          workerVars
  <1>14. ASSUME NEW p \in Pullers, WriteBoard(p) \/ (p \in ManualPullers /\ ManualPull(p))
         PROVE  NothingBeforeItsTime'
    BY <1>1, <1>14
    DEF WriteBoard, ManualPull, runFrame, queueVars, rowVars, workerVars
  <1>15. ASSUME NEW w \in Workers, Settle(w) PROVE NothingBeforeItsTime'
    BY <1>15
    DEF Settle, FinishJob, HoldsLease, Clear, runFrame, rowVars, workerVars, Claimed
  <1>16. ASSUME NEW w \in Workers, MarkProcessed(w) \/ Dies(w)
         PROVE  NothingBeforeItsTime'
    <2>1. CASE MarkProcessed(w)
      BY <2>1 DEF MarkProcessed, EndTick, runFrame, rowVars
    <2>2. CASE Dies(w)
      BY <2>2 DEF Dies, Crash, EndTick, rowVars
    <2> QED
      BY <1>16, <2>1, <2>2
  <1> HIDE DEF CrmInv, CrmTypeOK, TypeOK, StepsFollowTick, NothingBeforeItsTime
  <1> QED
    BY <1>2, <1>3, <1>4, <1>5, <1>6, <1>7, <1>8, <1>9, <1>10, <1>11, <1>13,
       <1>14, <1>15, <1>16, CrmCases, Zenon

\* What a run accounts for had its stamp when a run was claimed.
LEMMA CoveredIsLater ==
  ASSUME CrmInv, NEW w \in Workers, step[w] \in Claimed, TypeOK
  PROVE  \A e \in Covered(w) : e \in startedAfter
  <1> SUFFICES ASSUME NEW e \in Events, status[e] = "QUEUED",
                      receivedAt[e] <= ScheduledFor(held[w]), e \notin startedAfter
               PROVE  FALSE
    BY DEF Covered
  <1>1. receivedAt[e] > ScheduledFor(held[w])
    BY DEF CrmInv, LaterNotices, Stamped
  <1>2. receivedAt[e] \in Int /\ ScheduledFor(held[w]) \in Int
    BY TimeAssumption, Keys DEF CrmInv, CrmTypeOK, TypeOK, StepsFollowTick, ScheduledFor, Claimed
  <1> QED
    BY <1>1, <1>2

\* What a run has not seen claimed before it is later than its own time.
LEMMA NoticesStep ==
  CrmInv /\ QueueInv /\ [CrmNext]_vars => LaterNotices'
  <1> SUFFICES ASSUME CrmInv, QueueInv, [CrmNext]_vars
               PROVE  LaterNotices'
    OBVIOUS
  <1> USE TimeAssumption, Keys
      DEF CrmInv, CrmTypeOK, TypeOK, StepsFollowTick, NothingBeforeItsTime,
          LaterNotices, Claimed, Pullers, Stamped
  <1>1. ASSUME UNCHANGED <<status, receivedAt, startedAfter, intake>>,
               \A w \in Workers : step'[w] \in Claimed =>
                   step[w] \in Claimed /\ held'[w] = held[w]
        PROVE  LaterNotices'
    BY <1>1
  <1>2. CASE UNCHANGED vars
    BY <1>1, <1>2 DEF vars, crmVars, queueVars, workerVars
  <1>3. CASE \/ TimePasses
             \/ \E u \in Staff, on \in BOOLEAN : ConfigureCrmSchedule(u, on)
    BY <1>1, <1>3 DEF TimePasses, ConfigureCrmSchedule, queueVars, workerVars
  <1>4. ASSUME NEW j \in Jobs,
               \/ BecomeAvailable(j) \/ LeaseExpires(j)
               \/ \E u \in Retriers : RetryByStaff(u, j)
        PROVE  LaterNotices'
    BY <1>1, <1>4
    DEF BecomeAvailable, LeaseExpires, RetryByStaff, Elapse, Expire, RetryCrmJob,
        crmVars, workerVars
  <1>5. ASSUME NEW e \in Events, Passing(e) PROVE LaterNotices'
    <2>1. UNCHANGED <<step, held, status>>
      BY <1>5 DEF Passing, Change, Receive, Insert, RollBack, AcceptDuplicate,
                  queueVars, workerVars
    <2>2. CASE Insert(e)
      <3>1. \A w \in Workers : step[w] \in Claimed =>
              held[w] \in Jobs /\ ScheduledFor(held[w]) < clock
        OBVIOUS
      <3> QED
        BY <2>1, <2>2, <3>1 DEF Insert
    <2>3. CASE RollBack(e)
      BY <2>1, <2>3 DEF RollBack, Away
    <2>4. CASE Change(e) \/ Receive(e) \/ AcceptDuplicate(e)
      <3>1. /\ UNCHANGED <<receivedAt, startedAfter>>
            /\ \A d \in Events : intake'[d].inserted => intake[d].inserted
        <4>1. CASE Change(e)
          BY <4>1 DEF Change
        <4>2. CASE Receive(e)
          BY <4>2 DEF Receive
        <4>3. CASE AcceptDuplicate(e)
          BY <4>3 DEF AcceptDuplicate, Away
        <4> QED
          BY <2>4, <4>1, <4>2, <4>3
      <3> QED
        BY <2>1, <3>1
    <2> QED
      BY <1>5, <2>2, <2>3, <2>4 DEF Passing
  <1>6. ASSUME NEW e \in Events, Accept(e) PROVE LaterNotices'
    <2>1. /\ Stamped(e) /\ status' = [status EXCEPT ![e] = "QUEUED"]
          /\ intake' = [intake EXCEPT ![e] = Away]
          /\ UNCHANGED <<receivedAt, startedAfter, step, held>>
      BY <1>6 DEF Accept, workerVars
    <2> QED
      BY <2>1 DEF Away
  <1>7. ASSUME NEW w \in Workers,
               \/ Begin(w) \/ EnterClaim(w) \/ SelectRow(w) \/ Recover(w)
               \/ ReadDue(w) \/ EnqueueDue(w)
        PROVE  LaterNotices'
    <2>1. UNCHANGED <<status, receivedAt, startedAfter, intake>>
      BY <1>7 DEF Begin, EnterClaim, SelectRow, Recover, ReadDue, EnqueueDue, crmVars
    <2>2. \A v \in Workers : step'[v] \in Claimed => step[v] = step'[v]
      <3>1. \/ step' = step
            \/ \E t \in {"unplanned", "planned", "idle"} : step' = [step EXCEPT ![w] = t]
        BY <1>7 DEF Begin, EnterClaim, SelectRow, Recover, ReadDue, EnqueueDue, crmVars
      <3> QED
        BY <3>1
    <2>3. \A v \in Workers : pc[v] = "run" => held'[v] = held[v]
      BY <1>7
      DEF Begin, EnterClaim, SelectRow, Recover, ReadDue, EnqueueDue, BeginTick,
          TryMutex, Select, SelectNothing, RecoverExpired, queueVars, workerVars
    <2> QED
      BY <1>1, <2>1, <2>2, <2>3
  <1>8. ASSUME NEW w \in Workers, ClaimRow(w) PROVE LaterNotices'
    BY <1>8 DEF ClaimRow, Claim
  <1>9. ASSUME NEW w \in Workers,
               \/ CheckDelegation(w) \/ PullBoard(w) \/ CheckLease(w)
               \/ Settle(w) \/ Catch(w) \/ Dies(w)
        PROVE  LaterNotices'
    <2>1. UNCHANGED <<status, receivedAt, startedAfter, intake>>
      BY <1>9
      DEF CheckDelegation, PullBoard, CheckLease, Settle, Catch, Dies, runFrame
    <2>2. \A v \in Workers : step'[v] \in Claimed =>
            step[v] \in Claimed /\ held'[v] = held[v]
      BY <1>9
      DEF CheckDelegation, PullBoard, CheckLease, Settle, Catch, Dies, Crash,
          EndRun, EndTick, MoveTo, queueVars, workerVars
    <2> QED
      BY <1>1, <2>1, <2>2
  <1>10. ASSUME NEW p \in Pullers, WriteBoard(p) \/ (p \in ManualPullers /\ ManualPull(p))
         PROVE  LaterNotices'
    BY <1>1, <1>10, PullersAssumption
    DEF WriteBoard, ManualPull, MoveTo, runFrame, queueVars, workerVars
  <1>11. ASSUME NEW w \in Workers, MarkProcessed(w) PROVE LaterNotices'
    <2>1. \A e \in Covered(w) : e \in startedAfter
      BY <1>11, CoveredIsLater DEF MarkProcessed
    <2>2. \A v \in Workers : step'[v] \in Claimed =>
            step[v] \in Claimed /\ held'[v] = held[v]
      BY <1>11 DEF MarkProcessed, MoveTo, EndTick
    <2>3. /\ UNCHANGED <<receivedAt, startedAfter, intake>>
          /\ \A e \in Events :
               /\ status'[e] = "PROCESSED" => status[e] = "PROCESSED" \/ e \in Covered(w)
               /\ status'[e] # "NONE" => status[e] # "NONE"
      BY <1>11 DEF MarkProcessed, Covered, runFrame
    <2> QED
      BY <2>1, <2>2, <2>3
  <1> HIDE DEF CrmInv, CrmTypeOK, TypeOK, StepsFollowTick, NothingBeforeItsTime,
               LaterNotices
  <1> QED
    BY <1>2, <1>3, <1>4, <1>5, <1>6, <1>7, <1>8, <1>9, <1>10, <1>11, CrmCases, Zenon

\* A row that is created or settled gives nobody its lease.
NoNewLease ==
  \A v \in Workers, i \in Jobs : HoldsLease(v, i)' => HoldsLease(v, i)

LEMMA CreationLeases ==
  ASSUME TypeOK, NEW j, NEW now, NEW u, EnqueueOnce(j, now, u) PROVE NoNewLease
  BY DEF EnqueueOnce, Enqueue, rowVars, TypeOK, HoldsLease, NoNewLease

LEMMA SettlingLeases ==
  ASSUME TypeOK, NEW j, NEW s, Clear(j, s) PROVE NoNewLease
  <1>1. \A i \in Jobs : leaseLive'[i] =>
          leaseLive[i] /\ state'[i] = state[i] /\ owner'[i] = owner[i]
    BY DEF Clear, TypeOK
  <1> QED
    BY <1>1 DEF HoldsLease, NoNewLease

\* Only the holder of the lease pulls, and its lease outlasts no other pull.
LEMMA PullsStep ==
  CrmInv /\ QueueInv /\ [CrmNext]_vars => NewestPull'
  <1> SUFFICES ASSUME CrmInv, QueueInv, [CrmNext]_vars
               PROVE  NewestPull'
    OBVIOUS
  <1> DEFINE Holds(w) == HoldsLease(w, held[w])
             Late == {"check", "write"}
  <1>0. /\ pulled \in [Pullers -> SUBSET Events] /\ step \in [Pullers -> Steps]
        /\ local \subseteq source /\ Workers \subseteq Pullers
        /\ \A p \in Pullers : pulled[p] \subseteq source
        /\ \A w \in Workers : step[w] \in Late => held[w] \in Jobs /\ pc[w] = "run"
    BY DEF CrmInv, CrmTypeOK, NewestPull, Pullers, StepsFollowTick, Claimed
  <1>1. ASSUME UNCHANGED <<local, pulled>>, source \subseteq source',
               \A w \in Workers : step'[w] \in Late => step[w] \in Late,
               \A w \in Workers : step[w] \in Late /\ Holds(w)' => Holds(w)
        PROVE  NewestPull'
    BY <1>1, <1>0 DEF CrmInv, NewestPull
  <1>2. CASE UNCHANGED vars
    BY <1>1, <1>2 DEF vars, crmVars, queueVars, rowVars, workerVars, HoldsLease
  <1>3. ASSUME NEW w \in Workers, ClaimRow(w) PROVE NewestPull'
    <2>1. UNCHANGED <<local, pulled, source>> /\ step' = [step EXCEPT ![w] = "schedule"]
      BY <1>3 DEF ClaimRow
    <2>2. \A v \in Workers : step[v] \in Late /\ Holds(v)' => Holds(v) \/ v = w
      BY <1>3, <1>0
      DEF ClaimRow, Claim, HoldsLease, CrmInv, CrmTypeOK, TypeOK, StepsFollowTick
    <2>3. step[w] \notin Late
      BY <1>0, <1>3 DEF ClaimRow, Claim
    <2> QED
      BY <1>0, <1>1, <2>1, <2>2, <2>3
  <1>4. ASSUME NEW w \in Workers, PullBoard(w) PROVE NewestPull'
    <2>1. /\ UNCHANGED <<queueVars, local, source>> /\ Holds(w)
          /\ \/ /\ pulled' = [pulled EXCEPT ![w] = source]
                /\ step' = [step EXCEPT ![w] = "check"]
             \/ /\ pulled' = pulled
                /\ step' = [step EXCEPT ![w] = "settle"]
      BY <1>4 DEF PullBoard, MoveTo, runFrame
    <2>2. \A v \in Workers : Holds(v)' => Holds(v)
      BY <2>1 DEF HoldsLease, queueVars, rowVars, workerVars
    <2>3. held[w] \in Jobs
      BY <1>4 DEF PullBoard, CrmInv, StepsFollowTick, Claimed
    <2>4. \A v \in Workers : step[v] \in Late /\ Holds(v) => v = w
      BY <1>0, <2>1, <2>3, AllConflict DEF HoldsLease, QueueInv, Exclusion
    <2> QED
      BY <1>0, <2>1, <2>2, <2>4 DEF CrmInv, NewestPull
  <1>5. ASSUME NEW p \in Pullers, WriteBoard(p) PROVE NewestPull'
    <2>1. /\ UNCHANGED <<queueVars, source>> /\ local' = pulled[p]
          /\ pulled' = [pulled EXCEPT ![p] = {}] /\ step[p] \in Late
          /\ \E s \in {"settle", "idle"} : step' = [step EXCEPT ![p] = s]
      BY <1>5 DEF WriteBoard, MoveTo, runFrame
    <2>2. \A v \in Workers : Holds(v)' => Holds(v)
      BY <2>1 DEF HoldsLease, queueVars, rowVars, workerVars
    <2> QED
      BY <1>0, <2>1, <2>2 DEF CrmInv, NewestPull, Pullers
  <1>6. ASSUME NEW p \in ManualPullers, ManualPull(p) PROVE NewestPull'
    <2>1. pulled' = [pulled EXCEPT ![p] = source] /\ source' = source
      BY <1>6 DEF ManualPull, runFrame
    <2> QED
      BY <1>0, <1>6, <2>1 DEF NewestPull, Pullers
  <1>7. ASSUME NEW w \in Workers, NEW s, EndRun(w, s), UNCHANGED <<local, source>>
        PROVE  NewestPull'
    <2>1. /\ step' = [step EXCEPT ![w] = "idle"]
          /\ pulled' = [pulled EXCEPT ![w] = {}]
      BY <1>7 DEF EndRun
    <2>2. \A v \in Workers : v # w /\ step[v] \in Late /\ Holds(v)' => Holds(v)
      <3>1. \A v \in Workers : v # w => held'[v] = held[v]
        BY <1>7 DEF EndRun, EndTick, CrmInv, CrmTypeOK, TypeOK
      <3>2. Clear(held[w], s) \/ UNCHANGED rowVars
        BY <1>7 DEF EndRun, FinishJob
      <3>3. NoNewLease \/ UNCHANGED <<state, owner, leaseLive>>
        BY <3>2, SettlingLeases DEF CrmInv, CrmTypeOK, rowVars
      <3> QED
        BY <1>0, <3>1, <3>3 DEF NoNewLease, HoldsLease
    <2> QED
      BY <1>0, <1>7, <2>1, <2>2 DEF CrmInv, NewestPull
  <1>8. ASSUME NEW w \in Workers, CheckDelegation(w) \/ Catch(w) PROVE NewestPull'
    <2>1. CASE UNCHANGED <<queueVars, pulled>> /\ MoveTo(w, "pull")
      BY <1>0, <1>1, <1>8, <2>1
      DEF CheckDelegation, Catch, MoveTo, runFrame, queueVars, rowVars,
          workerVars, HoldsLease
    <2> QED
      BY <1>7, <1>8, <2>1 DEF CheckDelegation, Catch, runFrame
  <1>9. ASSUME NEW w \in Workers, CheckLease(w) PROVE NewestPull'
    <2>1. /\ UNCHANGED <<queueVars, local, source>> /\ step[w] \in Late
          /\ \/ pulled' = pulled /\ step' = [step EXCEPT ![w] = "write"]
             \/ /\ pulled' = [pulled EXCEPT ![w] = {}]
                /\ step' = [step EXCEPT ![w] = "settle"]
      BY <1>9 DEF CheckLease, MoveTo, runFrame
    <2>2. \A v \in Workers : Holds(v)' => Holds(v)
      BY <2>1 DEF HoldsLease, queueVars, rowVars, workerVars
    <2> QED
      BY <1>0, <2>1, <2>2 DEF CrmInv, NewestPull
  <1>10. ASSUME NEW w \in Workers, Dies(w) PROVE NewestPull'
    <2>1. /\ step' = [step EXCEPT ![w] = "idle"]
          /\ pulled' = [pulled EXCEPT ![w] = {}] /\ UNCHANGED <<local, source>>
      BY <1>10 DEF Dies
    <2>2. \A v \in Workers : v # w /\ Holds(v)' => Holds(v)
      BY <1>10 DEF Dies, Crash, HoldsLease, rowVars, CrmInv, CrmTypeOK, TypeOK
    <2> QED
      BY <1>0, <2>1, <2>2 DEF CrmInv, NewestPull
  <1>11. ASSUME NEW w \in Workers, Settle(w) \/ MarkProcessed(w) PROVE NewestPull'
    <2>1. /\ UNCHANGED <<local, pulled, source>>
          /\ \E s \in {"notify", "idle"} : step' = [step EXCEPT ![w] = s]
      BY <1>11 DEF Settle, MarkProcessed, MoveTo, runFrame
    <2>2. \A v \in Workers : v # w /\ step[v] \in Late /\ Holds(v)' => Holds(v)
      <3>1. \A v \in Workers : v # w => held'[v] = held[v]
        BY <1>11
        DEF Settle, MarkProcessed, EndTick, workerVars, CrmInv, CrmTypeOK, TypeOK
      <3>2. Clear(held[w], "SUCCEEDED") \/ UNCHANGED rowVars
        BY <1>11 DEF Settle, MarkProcessed, FinishJob
      <3>3. NoNewLease \/ UNCHANGED <<state, owner, leaseLive>>
        BY <3>2, SettlingLeases DEF CrmInv, CrmTypeOK, rowVars
      <3> QED
        BY <1>0, <3>1, <3>3 DEF NoNewLease, HoldsLease
    <2>3. step[w] \notin Late
      BY <1>11 DEF Settle, MarkProcessed
    <2> QED
      BY <1>0, <1>1, <2>1, <2>2, <2>3
  <1>12. ASSUME NEW w \in Workers,
                \/ Begin(w) \/ Recover(w) \/ ReadDue(w) \/ EnqueueDue(w)
                \/ EnterClaim(w) \/ SelectRow(w)
         PROVE  NewestPull'
    <2>1. /\ UNCHANGED <<local, pulled, source>>
          /\ \/ step' = step
             \/ \E s \in {"unplanned", "planned", "idle"} : step' = [step EXCEPT ![w] = s]
      BY <1>12
      DEF Begin, Recover, ReadDue, EnqueueDue, EnterClaim, SelectRow, crmVars
    <2>2. \A v \in Workers : pc[v] = "run" => held'[v] = held[v]
      BY <1>12
      DEF Begin, Recover, ReadDue, EnqueueDue, EnterClaim, SelectRow, BeginTick,
          RecoverExpired, TryMutex, Select, SelectNothing, queueVars, workerVars,
          CrmInv, CrmTypeOK, TypeOK
    <2>3. NoNewLease
      <3>1. CASE UNCHANGED rowVars
        BY <3>1 DEF NoNewLease, HoldsLease, rowVars
      <3>2. CASE Recover(w)
        BY <3>1, <3>2, SettlingLeases
        DEF Recover, RecoverExpired, CrmInv, CrmTypeOK
      <3>3. CASE EnqueueDue(w)
        BY <3>3, CreationLeases DEF EnqueueDue, CrmInv, CrmTypeOK
      <3> QED
        BY <1>12, <3>1, <3>2, <3>3
        DEF Begin, ReadDue, EnterClaim, SelectRow, BeginTick, TryMutex, Select,
            SelectNothing, queueVars
    <2>4. \A v \in Workers : step'[v] \in Late => step[v] \in Late
      BY <1>0, <2>1
    <2>5. \A v \in Workers : step[v] \in Late /\ Holds(v)' => Holds(v)
      <3>1. ASSUME NEW v \in Workers, step[v] \in Late
            PROVE  held[v] \in Jobs /\ held'[v] = held[v]
        BY <1>0, <2>2, <3>1
      <3> QED
        BY <2>3, <3>1 DEF NoNewLease, HoldsLease
    <2> QED
      BY <1>1, <2>1, <2>4, <2>5
  <1>13. ASSUME NEW j \in Jobs,
                \/ BecomeAvailable(j) \/ LeaseExpires(j)
                \/ \E u \in Retriers : RetryByStaff(u, j)
         PROVE  NewestPull'
    BY <1>0, <1>1, <1>13
    DEF BecomeAvailable, LeaseExpires, RetryByStaff, Elapse, Expire, RetryCrmJob,
        crmVars, workerVars, HoldsLease, CrmInv, CrmTypeOK, TypeOK
  <1>14. ASSUME NEW e \in Events,
                Passing(e) \/ Accept(e)
         PROVE  NewestPull'
    <2>1. UNCHANGED <<local, pulled, step, held>> /\ source \subseteq source'
      BY <1>14 DEF Passing, Change, Receive, Insert, Accept, RollBack,
                   AcceptDuplicate, queueVars, workerVars
    <2>2. NoNewLease
      <3>1. CASE UNCHANGED rowVars
        BY <3>1 DEF NoNewLease, HoldsLease, rowVars
      <3>2. CASE Accept(e)
        BY <3>2, CreationLeases DEF Accept, CrmInv, CrmTypeOK
      <3> QED
        BY <1>14, <3>1, <3>2
        DEF Passing, Change, Receive, Insert, RollBack, AcceptDuplicate, queueVars
    <2> QED
      BY <1>0, <1>1, <2>1, <2>2 DEF NoNewLease, HoldsLease
  <1>15. CASE \/ TimePasses
              \/ \E u \in Staff, on \in BOOLEAN : ConfigureCrmSchedule(u, on)
    BY <1>1, <1>15
    DEF TimePasses, ConfigureCrmSchedule, queueVars, rowVars, workerVars, HoldsLease
  <1> QED
    BY <1>2, <1>3, <1>4, <1>5, <1>6, <1>8, <1>9, <1>10, <1>11, <1>12, <1>13,
       <1>14, <1>15, CrmCases, Zenon
-----------------------------------------------------------------------------
LEMMA CrmInitially == CrmInit => CrmInv /\ QueueInv
  <1> SUFFICES ASSUME CrmInit PROVE CrmInv /\ QueueInv
    OBVIOUS
  <1>1. TypeOK /\ QueueInv
    BY InitQueue DEF CrmInit
  <1>2. CrmTypeOK
    <2>1. NoPlan \in Plans
      BY TimeAssumption DEF NoPlan, Plans
    <2> QED
      BY <1>1, <2>1, TimeAssumption DEF CrmInit, CrmTypeOK, Steps, Away, NoEdit
  <1>3. StepsFollowTick
    BY DEF CrmInit, Init, StepsFollowTick, Claimed, Pullers
  <1>4. NothingBeforeItsTime
    BY DEF CrmInit, Init, NothingBeforeItsTime
  <1>5. LaterNotices /\ NewestPull
    BY DEF CrmInit, LaterNotices, NewestPull, Claimed, Pullers, Away, Stamped
  <1> QED
    BY <1>1, <1>2, <1>3, <1>4, <1>5 DEF CrmInv

\* The reconciliation and the queue below it keep their invariants.
THEOREM CrmInvariant == CrmSpec => [](CrmInv /\ QueueInv)
  <1>1. CrmInv /\ QueueInv /\ [CrmNext]_vars => (CrmInv /\ QueueInv)'
    BY QueueKept, CrmTypeStep, FollowStep, TimesStep, NoticesStep, PullsStep
    DEF CrmInv
  <1> QED
    BY CrmInitially, <1>1, PTL DEF CrmSpec

\* No notification is marked processed by a run claimed before it arrived,
\* however runs overlap, lose their lease or finish late.
THEOREM NoticesOutliveOldRuns == CrmSpec => []ProcessedAfterReceipt
  <1>1. CrmInv => ProcessedAfterReceipt
    BY DEF CrmInv, LaterNotices, ProcessedAfterReceipt
  <1> QED
    BY <1>1, CrmInvariant, PTL

\* Where only the queue pulls, the holder of a live lease never writes over a
\* newer pull.  (A pull by hand takes no lease, and may be written over.)
THEOREM NewestPullStands ==
  ASSUME ManualPullers = {}
  PROVE  CrmSpec => LiveSyncNeverRegresses
  <1> DEFINE A == \A w \in Workers :
                    (step[w] = "write" /\ step'[w] = "settle" /\ HoldsLease(w, held[w]))
                      => local \subseteq local'
  <1>1. CrmInv /\ QueueInv /\ [CrmNext]_vars => [A]_vars
    <2> SUFFICES ASSUME CrmInv, QueueInv, CrmNext, NEW w \in Workers,
                        step[w] = "write", step'[w] = "settle",
                        HoldsLease(w, held[w])
                 PROVE  local \subseteq local'
      OBVIOUS
    <2>1. /\ step \in [Pullers -> Steps] /\ Workers \subseteq Pullers
          /\ local \subseteq pulled[w]
      BY DEF CrmInv, CrmTypeOK, NewestPull, Pullers
    <2>2. CASE local' = local
      BY <2>2
    <2>3. ASSUME NEW p \in Pullers, WriteBoard(p) PROVE local \subseteq local'
      BY <2>1, <2>3 DEF WriteBoard, MoveTo
    <2> QED
      BY <2>2, <2>3, CrmCases
      DEF TimePasses, ConfigureCrmSchedule, RetryByStaff, Passing, Change,
          Receive, Insert, Accept, RollBack, AcceptDuplicate, BecomeAvailable,
          LeaseExpires, Begin, Recover, ReadDue, EnqueueDue, EnterClaim, SelectRow, ClaimRow, CheckDelegation, PullBoard,
          CheckLease, Settle, MarkProcessed, Catch, Dies, ManualPull, crmVars
  <1> QED
    BY <1>1, CrmInvariant, PTL DEF CrmSpec, LiveSyncNeverRegresses

\* A schedule only moves on by itself once the occurrence it leaves has its row.
THEOREM OccurrencesAreNotSkipped == CrmSpec => OccurrenceMaterialized
  <1> DEFINE A == (schedule'.nextRunAt # schedule.nextRunAt /\ edits' = edits)
                     => state'[<<"crm", schedule.nextRunAt>>] # "NONE"
  <1>1. CrmInv /\ QueueInv /\ [CrmNext]_vars => [A]_vars
    <2> SUFFICES ASSUME CrmInv, CrmNext, edits' = edits,
                        schedule'.nextRunAt # schedule.nextRunAt
                 PROVE  state'[<<"crm", schedule.nextRunAt>>] # "NONE"
      OBVIOUS
    <2>a. ASSUME NEW u \in Staff, NEW on \in BOOLEAN, ConfigureCrmSchedule(u, on)
          PROVE  FALSE
      BY <2>a, TimeAssumption DEF ConfigureCrmSchedule, CrmInv, CrmTypeOK
    <2>b. ASSUME \/ TimePasses
                 \/ \E u \in Retriers, j \in Jobs : RetryByStaff(u, j)
                 \/ \E e \in Events : Passing(e) \/ Accept(e)
                 \/ \E j \in Jobs : BecomeAvailable(j) \/ LeaseExpires(j)
          PROVE  FALSE
      BY <2>b
      DEF TimePasses, RetryByStaff, Passing, Change, Receive, Insert, Accept,
          RollBack, AcceptDuplicate, BecomeAvailable, LeaseExpires, crmVars
    <2>c. ASSUME NEW w \in Workers,
                 \/ Begin(w) \/ Recover(w) \/ ReadDue(w) \/ EnterClaim(w)
                 \/ SelectRow(w) \/ ClaimRow(w) \/ Dies(w)
          PROVE  FALSE
      BY <2>c DEF Begin, Recover, ReadDue, EnterClaim, SelectRow, ClaimRow, Dies,
                  crmVars
    <2>d. ASSUME NEW w \in Workers,
                 \/ CheckDelegation(w) \/ PullBoard(w) \/ CheckLease(w)
                 \/ Settle(w) \/ MarkProcessed(w) \/ Catch(w)
          PROVE  FALSE
      BY <2>d DEF CheckDelegation, PullBoard, CheckLease, Settle, MarkProcessed,
                  Catch, runFrame
    <2>e. ASSUME NEW p \in Pullers, WriteBoard(p) \/ ManualPull(p) PROVE FALSE
      BY <2>e DEF WriteBoard, ManualPull, runFrame
    <2>1. PICK w \in Workers : EnqueueDue(w)
      BY <2>a, <2>b, <2>c, <2>d, <2>e, CrmCases, Zenon
    <2>2. plan[w] \in Plans /\ plan[w].at < clock /\ clock \in 0 .. MaxClock
      BY <2>1 DEF EnqueueDue, CrmInv, CrmTypeOK, NothingBeforeItsTime
    <2>3. <<"crm", plan[w].at>> \in Jobs
      BY <2>2, Keys, TimeAssumption DEF Plans
    <2>4. schedule.nextRunAt = plan[w].at
      BY <2>1 DEF EnqueueDue, Advanced
    <2>5. state'[<<"crm", plan[w].at>>] # "NONE"
      BY <2>1, <2>3
      DEF EnqueueDue, EnqueueOnce, Enqueue, rowVars, CrmInv, CrmTypeOK, TypeOK
    <2> QED
      BY <2>4, <2>5
  <1> QED
    BY <1>1, CrmInvariant, PTL DEF CrmSpec, OccurrenceMaterialized
-----------------------------------------------------------------------------
(* The reconciliation implements the queue.  What the queue sees of the     *)
(* executions: one that has settled its row runs nothing any more.          *)

QueuePc   == [w \in Workers |-> IF step[w] = "notify" THEN "idle" ELSE pc[w]]
QueueHeld == [w \in Workers |-> IF step[w] = "notify" THEN NoJob ELSE held[w]]

\* A step of one execution as the queue sees it.
LEMMA SeenMove ==
  ASSUME CrmInv, NEW w \in Workers, NEW c, NEW h,
         pc' = [pc EXCEPT ![w] = c], held' = [held EXCEPT ![w] = h],
         \A v \in Workers \ {w} : step'[v] = step[v],
         step'[w] # "notify"
  PROVE  /\ QueuePc' = [QueuePc EXCEPT ![w] = c]
         /\ QueueHeld' = [QueueHeld EXCEPT ![w] = h]
  <1>1. /\ pc \in [Workers -> {"idle", "recover", "select", "update", "run"}]
        /\ held \in [Workers -> Jobs \union {NoJob}]
    BY DEF CrmInv, CrmTypeOK, TypeOK
  <1>2. pc'[w] = c /\ \A v \in Workers \ {w} : pc'[v] = pc[v]
    BY <1>1
  <1>3. held'[w] = h /\ \A v \in Workers \ {w} : held'[v] = held[v]
    BY <1>1
  <1>4. QueuePc' = [v \in Workers |-> IF v = w THEN c ELSE QueuePc[v]]
    BY <1>2 DEF QueuePc
  <1>5. QueueHeld' = [v \in Workers |-> IF v = w THEN h ELSE QueueHeld[v]]
    BY <1>3 DEF QueueHeld
  <1> QED
    BY <1>4, <1>5 DEF QueuePc, QueueHeld

\* Nothing seen of an execution that keeps its place in the tick.
LEMMA SeenStill ==
  ASSUME CrmInv, pc' = pc, held' = held,
         \A v \in Workers : step'[v] = "notify" <=> step[v] = "notify"
  PROVE  QueuePc' = QueuePc /\ QueueHeld' = QueueHeld
  BY DEF QueuePc, QueueHeld

\* Rows that move under their own steps, with every execution where it was.
LEMMA RowsSeen ==
  ASSUME CrmInv, UNCHANGED <<pc, held>>,
         \A v \in Workers : step'[v] = "notify" <=> step[v] = "notify",
         UNCHANGED <<mutex, expired, crashes>>,
         \/ UNCHANGED rowVars
         \/ \E j \in Jobs, now \in BOOLEAN : Enqueue(j, now)
         \/ \E j \in Jobs : Elapse(j) \/ Expire(j) \/ RetryCrmJob(j)
  PROVE  UNCHANGED Queue!queueVars \/ Queue!Next
  <1>1. UNCHANGED <<QueuePc, QueueHeld, mutex, expired, crashes>>
    BY SeenStill
  <1>2. UNCHANGED Queue!workerVars
    BY <1>1 DEF Queue!workerVars, QueuePc, QueueHeld
  <1>3. CASE UNCHANGED rowVars
    BY <1>2, <1>3 DEF Queue!queueVars, rowVars, Queue!rowVars
  <1>4. ASSUME NEW j \in Jobs, NEW now \in BOOLEAN, Enqueue(j, now) PROVE Queue!Next
    <2>1. Queue!Enqueue(j, now)
      BY <1>4 DEF Enqueue, Queue!Enqueue, Join, Queue!Join
    <2> QED
      BY <1>2, <2>1 DEF Queue!Next
  <1>5. ASSUME NEW j \in Jobs, Elapse(j) PROVE Queue!Next
    <2>1. Queue!Elapse(j)
      BY <1>2, <1>5 DEF Elapse, Queue!Elapse, Join, Queue!Join
    <2> QED
      BY <2>1 DEF Queue!Next
  <1>6. ASSUME NEW j \in Jobs, Expire(j) PROVE Queue!Next
    <2>1. Queue!Expire(j)
      BY <1>2, <1>6 DEF Expire, Queue!Expire
    <2> QED
      BY <2>1 DEF Queue!Next
  <1>7. ASSUME NEW j \in Jobs, RetryCrmJob(j) PROVE Queue!Next
    <2>1. Queue!RetryCrmJob(j)
      BY <1>2, <1>7 DEF RetryCrmJob, Queue!RetryCrmJob, Join, Queue!Join
    <2> QED
      BY <2>1 DEF Queue!Next
  <1> QED
    BY <1>3, <1>4, <1>5, <1>6, <1>7

\* The end of a run, by finishJob in any of its steps.
LEMMA EndSeen ==
  ASSUME CrmInv, NEW w \in Workers, step[w] \in Claimed \ {"notify"},
         NEW s \in Verdicts(held[w]), FinishJob(w, s),
         UNCHANGED <<mutex, expired, crashes>>,
         QueuePc' = [QueuePc EXCEPT ![w] = "idle"],
         QueueHeld' = [QueueHeld EXCEPT ![w] = NoJob]
  PROVE  Queue!Next
  <1>1. pc[w] = "run" /\ QueuePc[w] = "run" /\ QueueHeld[w] = held[w]
    BY DEF CrmInv, StepsFollowTick, QueuePc, QueueHeld
  <1>2. s \in Queue!Verdicts(QueueHeld[w])
    BY <1>1 DEF Verdicts, Queue!Verdicts, Interrupted, Queue!Interrupted,
                JobMaxAttempts, Queue!JobMaxAttempts
  <1>3. Queue!FinishJob(w, s)
    BY <1>1 DEF FinishJob, Queue!FinishJob, HoldsLease, Queue!HoldsLease, Clear,
                Queue!Clear, rowVars, Queue!rowVars, QueueHeld
  <1>4. Queue!EndTick(w)
    BY DEF Queue!EndTick, QueuePc, QueueHeld
  <1>5. Queue!Finish(w)
    BY <1>1, <1>2, <1>3, <1>4 DEF Queue!Finish, QueuePc, QueueHeld
  <1> QED
    BY <1>5 DEF Queue!Next, Queue!Tick

\* A step of a tick on its way to a claim.
LEMMA SeenStep ==
  ASSUME CrmInv, NEW w \in Workers, NEW c,
         pc' = [pc EXCEPT ![w] = c], held' = held,
         \A v \in Workers \ {w} : step'[v] = step[v],
         step[w] # "notify", step'[w] # "notify"
  PROVE  /\ QueuePc' = [QueuePc EXCEPT ![w] = c]
         /\ QueueHeld' = QueueHeld
  <1>1. pc'[w] = c /\ \A v \in Workers \ {w} : pc'[v] = pc[v]
    BY DEF CrmInv, CrmTypeOK, TypeOK
  <1>2. QueuePc' = [v \in Workers |-> IF v = w THEN c ELSE QueuePc[v]]
    BY <1>1 DEF QueuePc
  <1>3. \A v \in Workers : step'[v] = "notify" <=> step[v] = "notify"
    OBVIOUS
  <1>4. QueueHeld' = QueueHeld
    BY <1>3 DEF QueueHeld
  <1> QED
    BY <1>2, <1>4 DEF QueuePc

LEMMA TickSeen ==
  ASSUME CrmInv, NEW w \in Workers,
         Begin(w) \/ Recover(w) \/ EnterClaim(w) \/ SelectRow(w) \/ ClaimRow(w)
  PROVE  Queue!Next
  <1>1. step \in [Pullers -> Steps] /\ w \in Pullers /\ Workers \subseteq Pullers
    BY DEF CrmInv, CrmTypeOK, Pullers
  <1>2. CASE Begin(w)
    <2>1. pc[w] = "idle" /\ step[w] # "notify"
      BY <1>2 DEF Begin, BeginTick, CrmInv, StepsFollowTick, Claimed
    <2>2. QueuePc[w] = "idle"
      BY <2>1 DEF QueuePc
    <2>3. QueuePc' = [QueuePc EXCEPT ![w] = "recover"] /\ QueueHeld' = QueueHeld
      <3>1. \A v \in Workers : step'[v] = IF v = w THEN "unplanned" ELSE step[v]
        BY <1>1, <1>2 DEF Begin
      <3>2. pc' = [pc EXCEPT ![w] = "recover"] /\ held' = held
        BY <1>2 DEF Begin, BeginTick
      <3> QED
        BY <2>1, <3>1, <3>2, SeenStep
    <2>4. Queue!BeginTick(w)
      BY <1>2, <2>2, <2>3
      DEF Begin, BeginTick, Queue!BeginTick, QueuePc, QueueHeld, rowVars, Queue!rowVars
    <2> QED
      BY <2>4 DEF Queue!Next, Queue!Tick
  <1>3. CASE Recover(w)
    <2>1. pc[w] = "recover" /\ step[w] # "notify"
      BY <1>3 DEF Recover, RecoverExpired, CrmInv, StepsFollowTick
    <2>2. QueuePc[w] = "recover"
      BY <2>1 DEF QueuePc
    <2>3. QueuePc' = QueuePc /\ QueueHeld' = QueueHeld
      BY <1>3, SeenStill DEF Recover, RecoverExpired, crmVars
    <2>4. Queue!RecoverExpired(w)
      BY <1>3, <2>2, <2>3
      DEF Recover, RecoverExpired, Queue!RecoverExpired, QueuePc, QueueHeld, rowVars,
          Queue!rowVars, Clear, Queue!Clear, Reclaimable, Queue!Reclaimable,
          Interrupted, Queue!Interrupted, JobMaxAttempts, Queue!JobMaxAttempts
    <2> QED
      BY <2>4 DEF Queue!Next, Queue!Tick
  <1>4. CASE EnterClaim(w)
    <2>1. pc[w] = "recover" /\ step[w] # "notify"
      BY <1>4 DEF EnterClaim, TryMutex
    <2>2. QueuePc[w] = "recover"
      BY <1>4 DEF EnterClaim, TryMutex, QueuePc
    <2>3. \A v \in Workers : step'[v] = IF v = w THEN "idle" ELSE step[v]
      BY <1>1, <1>4 DEF EnterClaim
    <2>4. ASSUME NEW c, pc' = [pc EXCEPT ![w] = c]
          PROVE  QueuePc' = [QueuePc EXCEPT ![w] = c] /\ QueueHeld' = QueueHeld
      <3>1. held' = held
        BY <1>4 DEF EnterClaim, TryMutex
      <3> QED
        BY <2>1, <2>3, <2>4, <3>1, SeenStep
    <2>5. Queue!TryMutex(w)
      BY <1>4, <2>2, <2>4
      DEF EnterClaim, TryMutex, Queue!TryMutex, QueuePc, QueueHeld, rowVars,
          Queue!rowVars
    <2> QED
      BY <2>5 DEF Queue!Next, Queue!Tick
  <1>5. CASE SelectRow(w)
    <2>1. pc[w] = "select" /\ step[w] # "notify" /\ step' = step
      BY <1>5
      DEF SelectRow, Select, SelectNothing, CrmInv, StepsFollowTick, Claimed, crmVars
    <2>2. QueuePc[w] = "select"
      BY <2>1 DEF QueuePc
    <2>3. CASE Select(w)
      <3>1. PICK j \in Jobs : /\ Eligible(j) /\ \A i \in ahead[j] : ~Eligible(i)
                              /\ held' = [held EXCEPT ![w] = j]
                              /\ pc' = [pc EXCEPT ![w] = "update"]
        BY <2>3 DEF Select
      <3>2. /\ QueuePc' = [QueuePc EXCEPT ![w] = "update"]
            /\ QueueHeld' = [QueueHeld EXCEPT ![w] = j]
        BY <2>1, <3>1, SeenMove
      <3>3. \A i : Queue!Eligible(i) <=> Eligible(i)
        BY DEF Eligible, Queue!Eligible, Conflicts, Queue!Conflicts
      <3>4. UNCHANGED <<Queue!rowVars, mutex, expired, crashes>>
        BY <2>3 DEF Select, rowVars, Queue!rowVars
      <3>5. Queue!Select(w)
        BY <2>2, <3>1, <3>2, <3>3, <3>4 DEF Queue!Select, QueuePc, QueueHeld
      <3> QED
        BY <3>5 DEF Queue!Next, Queue!Tick
    <2>4. CASE SelectNothing(w)
      <3>1. QueuePc' = [QueuePc EXCEPT ![w] = "idle"] /\ QueueHeld' = QueueHeld
        BY <2>1, <2>4, SeenStep DEF SelectNothing
      <3>2. \A i : Queue!Eligible(i) <=> Eligible(i)
        BY DEF Eligible, Queue!Eligible, Conflicts, Queue!Conflicts
      <3>3. Queue!SelectNothing(w)
        BY <2>2, <2>4, <3>1, <3>2
        DEF SelectNothing, Queue!SelectNothing, QueuePc, QueueHeld, rowVars,
            Queue!rowVars
      <3> QED
        BY <3>3 DEF Queue!Next, Queue!Tick
    <2> QED
      BY <1>5, <2>3, <2>4 DEF SelectRow
  <1>6. CASE ClaimRow(w)
    <2>1. pc[w] = "update" /\ step[w] # "notify"
      BY <1>6 DEF ClaimRow, Claim, CrmInv, StepsFollowTick, Claimed
    <2>2. QueuePc[w] = "update" /\ QueueHeld[w] = held[w]
      BY <2>1 DEF QueuePc, QueueHeld
    <2>3. \A v \in Workers : step'[v] = IF v = w THEN "schedule" ELSE step[v]
      BY <1>1, <1>6 DEF ClaimRow
    <2>4. QueuePc' = [QueuePc EXCEPT ![w] = "run"] /\ QueueHeld' = QueueHeld
      <3>1. pc' = [pc EXCEPT ![w] = "run"] /\ held' = held
        BY <1>6 DEF ClaimRow, Claim
      <3> QED
        BY <2>1, <2>3, <3>1, SeenStep
    <2>5. Queue!Claim(w)
      BY <1>6, <2>2, <2>4
      DEF ClaimRow, Claim, Queue!Claim, Leave, Queue!Leave, AttemptCap,
          Queue!AttemptCap, JobMaxAttempts, Queue!JobMaxAttempts, QueuePc, QueueHeld
    <2> QED
      BY <2>5 DEF Queue!Next, Queue!Tick
  <1> QED
    BY <1>2, <1>3, <1>4, <1>5, <1>6

LEMMA RunSeen ==
  ASSUME CrmInv, NEW w \in Workers,
         \/ CheckDelegation(w) \/ PullBoard(w) \/ CheckLease(w) \/ Settle(w)
         \/ MarkProcessed(w) \/ Catch(w)
  PROVE  UNCHANGED Queue!queueVars \/ Queue!Next
  <1>1. step \in [Pullers -> Steps] /\ w \in Pullers /\ Workers \subseteq Pullers
    BY DEF CrmInv, CrmTypeOK, Pullers
  <1> DEFINE Moves(s) == step' = [step EXCEPT ![w] = s]
  <1>2. ASSUME NEW s, Moves(s) PROVE \A v \in Workers : step'[v] = IF v = w THEN s ELSE step[v]
    BY <1>1, <1>2
  <1>3. held[w] \in Jobs /\ Kind[held[w]] = "CRM_SYNC"
    <2>1. step[w] \in Claimed
      BY DEF CheckDelegation, PullBoard, CheckLease, Settle, MarkProcessed, Catch,
             Claimed
    <2> QED
      BY <2>1, JobsAssumption DEF CrmInv, StepsFollowTick
  <1>4. /\ Interrupted(held[w]) \in Verdicts(held[w])
        /\ {"SUCCEEDED", "ATTENTION"} \subseteq Verdicts(held[w])
    BY <1>3 DEF Verdicts
  <1>5. ASSUME NEW s \in Verdicts(held[w]), step[w] \in Claimed \ {"notify"}, EndRun(w, s)
        PROVE  Queue!Next
    <2>1. Moves("idle") /\ FinishJob(w, s) /\ EndTick(w)
      BY <1>5 DEF EndRun
    <2>2. QueuePc' = [QueuePc EXCEPT ![w] = "idle"] /\ QueueHeld' = [QueueHeld EXCEPT ![w] = NoJob]
      <3>1. /\ pc' = [pc EXCEPT ![w] = "idle"] /\ held' = [held EXCEPT ![w] = NoJob]
        BY <2>1 DEF EndTick
      <3>2. \A v \in Workers : step'[v] = IF v = w THEN "idle" ELSE step[v]
        BY <1>2, <2>1
      <3>3. step'[w] # "notify" /\ \A v \in Workers \ {w} : step'[v] = step[v]
        BY <3>2
      <3> QED
        BY <3>1, <3>3, SeenMove, Zenon
    <2> QED
      BY <1>5, <2>1, <2>2, EndSeen DEF EndTick
  <1>6. CASE CheckDelegation(w)
    <2>1. step[w] \in Claimed \ {"notify"}
      BY <1>6 DEF CheckDelegation, Claimed
    <2>2. CASE EndRun(w, "ATTENTION")
      BY <1>4, <1>5, <2>1, <2>2
    <2>3. CASE Moves("pull") /\ UNCHANGED queueVars
      BY <1>2, <2>1, <2>3, RowsSeen DEF queueVars, workerVars
    <2> QED
      BY <1>6, <2>2, <2>3 DEF CheckDelegation, MoveTo
  <1>7. CASE PullBoard(w) \/ CheckLease(w)
    <2>1. step[w] # "notify" /\ UNCHANGED queueVars
      BY <1>7 DEF PullBoard, CheckLease
    <2>2. \E s \in {"check", "write", "settle"} : Moves(s)
      BY <1>7 DEF PullBoard, CheckLease, MoveTo
    <2> QED
      BY <1>2, <2>1, <2>2, RowsSeen DEF queueVars, workerVars
  <1>8. CASE Settle(w)
    <2>1. step[w] \in Claimed \ {"notify"} /\ FinishJob(w, "SUCCEEDED")
          /\ UNCHANGED workerVars /\ Moves("notify")
      BY <1>8 DEF Settle, MoveTo, Claimed
    <2>2. \A v \in Workers : step'[v] = IF v = w THEN "notify" ELSE step[v]
      BY <1>2, <2>1
    <2>3. QueuePc' = [v \in Workers |-> IF v = w THEN "idle" ELSE QueuePc[v]]
      BY <2>1, <2>2 DEF QueuePc, workerVars
    <2>4. QueueHeld' = [v \in Workers |-> IF v = w THEN NoJob ELSE QueueHeld[v]]
      BY <2>1, <2>2 DEF QueueHeld, workerVars
    <2>5. QueuePc' = [QueuePc EXCEPT ![w] = "idle"] /\ QueueHeld' = [QueueHeld EXCEPT ![w] = NoJob]
      BY <2>3, <2>4 DEF QueuePc, QueueHeld
    <2> QED
      BY <1>4, <2>1, <2>5, EndSeen DEF workerVars
  <1>9. CASE MarkProcessed(w) \/ (Catch(w) /\ step[w] = "notify")
    <2>1. step[w] = "notify" /\ Moves("idle") /\ EndTick(w)
      BY <1>9 DEF MarkProcessed, MoveTo, Catch, EndRun
    <2>2. UNCHANGED rowVars
      BY <1>9, <2>1 DEF MarkProcessed, Catch, EndRun, FinishJob, CrmInv, StepsFollowTick
    <2>3. QueuePc' = [QueuePc EXCEPT ![w] = "idle"] /\ QueueHeld' = [QueueHeld EXCEPT ![w] = NoJob]
      <3>1. /\ pc' = [pc EXCEPT ![w] = "idle"] /\ held' = [held EXCEPT ![w] = NoJob]
        BY <2>1 DEF EndTick
      <3>2. \A v \in Workers : step'[v] = IF v = w THEN "idle" ELSE step[v]
        BY <1>2, <2>1
      <3>3. step'[w] # "notify" /\ \A v \in Workers \ {w} : step'[v] = step[v]
        BY <3>2
      <3> QED
        BY <3>1, <3>3, SeenMove, Zenon
    <2>4. QueuePc[w] = "idle" /\ QueueHeld[w] = NoJob
      BY <2>1 DEF QueuePc, QueueHeld
    <2>5. QueuePc' = QueuePc /\ QueueHeld' = QueueHeld
      BY <2>3, <2>4 DEF QueuePc, QueueHeld
    <2> QED
      BY <2>1, <2>2, <2>5
      DEF EndTick, QueuePc, QueueHeld, rowVars, Queue!rowVars, Queue!workerVars,
          Queue!queueVars
  <1>10. CASE Catch(w) /\ step[w] # "notify"
    BY <1>4, <1>5, <1>10 DEF Catch, Claimed
  <1> QED
    BY <1>6, <1>7, <1>8, <1>9, <1>10

LEMMA CrmStepSeen ==
  CrmInv /\ [CrmNext]_vars => UNCHANGED Queue!queueVars \/ Queue!Next
  <1> SUFFICES ASSUME CrmInv, [CrmNext]_vars
               PROVE  UNCHANGED Queue!queueVars \/ Queue!Next
    OBVIOUS
  <1>1. step \in [Pullers -> Steps] /\ Workers \subseteq Pullers
    BY DEF CrmInv, CrmTypeOK, Pullers
  <1>2. CASE UNCHANGED <<queueVars, step>>
    BY <1>2, RowsSeen DEF queueVars, workerVars
  <1>3. CASE \/ TimePasses
             \/ \E u \in Staff, on \in BOOLEAN : ConfigureCrmSchedule(u, on)
             \/ \E e \in Events : Passing(e)
    BY <1>2, <1>3
    DEF TimePasses, ConfigureCrmSchedule, Passing, Change, Receive, Insert, RollBack,
        AcceptDuplicate
  <1>4. ASSUME NEW u \in Retriers, NEW j \in Jobs, RetryByStaff(u, j)
        PROVE  UNCHANGED Queue!queueVars \/ Queue!Next
    BY <1>4, RowsSeen DEF RetryByStaff, RetryCrmJob, workerVars
  <1>5. ASSUME NEW e \in Events, Accept(e)
        PROVE  UNCHANGED Queue!queueVars \/ Queue!Next
    <2> DEFINE j == <<"webhook", intake[e].due>>
    <2>1. j \in Jobs
      BY <1>5, Keys DEF Accept, Away, CrmInv, NothingBeforeItsTime
    <2>2. Enqueue(j, FALSE) \/ UNCHANGED rowVars
      BY <1>5 DEF Accept, EnqueueOnce
    <2>3. UNCHANGED <<workerVars, step>>
      BY <1>5 DEF Accept
    <2> QED
      BY <2>1, <2>2, <2>3, RowsSeen DEF workerVars
  <1>6. ASSUME NEW j \in Jobs, BecomeAvailable(j) \/ LeaseExpires(j)
        PROVE  UNCHANGED Queue!queueVars \/ Queue!Next
    BY <1>6, RowsSeen
    DEF BecomeAvailable, LeaseExpires, Elapse, Expire, crmVars, workerVars
  <1>7. ASSUME NEW w \in Workers, ReadDue(w)
        PROVE  UNCHANGED Queue!queueVars \/ Queue!Next
    <2>1. \A v \in Workers : step'[v] = IF v = w THEN "planned" ELSE step[v]
      BY <1>1, <1>7 DEF ReadDue
    <2>2. step[w] # "notify" /\ UNCHANGED queueVars
      BY <1>7 DEF ReadDue
    <2> QED
      BY <2>1, <2>2, RowsSeen DEF queueVars, workerVars
  <1>8. ASSUME NEW w \in Workers, EnqueueDue(w)
        PROVE  UNCHANGED Queue!queueVars \/ Queue!Next
    <2> DEFINE j == <<"crm", plan[w].at>>
    <2>1. plan[w].at \in 0 .. MaxClock
      BY <1>8, TimeAssumption
      DEF EnqueueDue, CrmInv, NothingBeforeItsTime, CrmTypeOK, Plans
    <2>2. j \in Jobs
      BY <2>1, Keys
    <2>3. Enqueue(j, TRUE) \/ UNCHANGED rowVars
      BY <1>8 DEF EnqueueDue, EnqueueOnce
    <2>4. UNCHANGED <<workerVars, step>>
      BY <1>8 DEF EnqueueDue
    <2> QED
      BY <2>2, <2>3, <2>4, RowsSeen DEF workerVars
  <1>9. ASSUME NEW w \in Workers, Dies(w)
        PROVE  UNCHANGED Queue!queueVars \/ Queue!Next
    <2>1. \A v \in Workers : step'[v] = IF v = w THEN "idle" ELSE step[v]
      BY <1>1, <1>9 DEF Dies
    <2>2. /\ QueuePc' = [QueuePc EXCEPT ![w] = "idle"]
          /\ QueueHeld' = [QueueHeld EXCEPT ![w] = NoJob]
      <3>1. pc' = [pc EXCEPT ![w] = "idle"] /\ held' = [held EXCEPT ![w] = NoJob]
        BY <1>9 DEF Dies, Crash
      <3>2. step'[w] # "notify" /\ \A v \in Workers \ {w} : step'[v] = step[v]
        BY <2>1
      <3> QED
        BY <3>1, <3>2, SeenMove, Zenon
    <2>3. Queue!Crash(w)
      BY <1>9, <2>2
      DEF Dies, Crash, Queue!Crash, QueuePc, QueueHeld, rowVars, Queue!rowVars
    <2> QED
      BY <2>3 DEF Queue!Next
  <1>10. ASSUME NEW p \in Pullers, WriteBoard(p) \/ (p \in ManualPullers /\ ManualPull(p))
         PROVE  UNCHANGED Queue!queueVars \/ Queue!Next
    <2>1. step[p] # "notify" /\ UNCHANGED queueVars
      BY <1>10 DEF WriteBoard, ManualPull
    <2>2. \A v \in Workers : step'[v] = IF v = p THEN step'[p] ELSE step[v]
      BY <1>1, <1>10 DEF WriteBoard, ManualPull, MoveTo
    <2>3. p \in Workers => step'[p] # "notify"
      BY <1>1, <1>10, PullersAssumption DEF WriteBoard, ManualPull, MoveTo
    <2> QED
      BY <2>1, <2>2, <2>3, RowsSeen DEF queueVars, workerVars
  <1>11. CASE UNCHANGED vars
    BY <1>2, <1>11 DEF vars, crmVars
  <1> QED
    <2> HIDE DEF CrmInv
    <2> QED
      BY <1>3, <1>4, <1>5, <1>6, <1>7, <1>8, <1>9, <1>10, <1>11, TickSeen, RunSeen,
         CrmCases, Zenon

LEMMA CrmInitSeen == CrmInit => Queue!Init
  <1> SUFFICES ASSUME CrmInit PROVE Queue!Init
    OBVIOUS
  <1>1. \A w \in Workers : step[w] = "idle"
    BY DEF CrmInit, Pullers
  <1> QED
    BY <1>1 DEF CrmInit, Init, Queue!Init

\* Every reconciliation is a behaviour of the queue: schedules, notifications
\* and pulls use it by its own steps only (jobService, mondayWebhookService).
THEOREM ReconciliationImplementsQueue == CrmSpec => ImplementsQueue
  <1>1. CrmInv /\ [CrmNext]_vars => [Queue!queueVars' = Queue!queueVars \/ Queue!Next]_vars
    BY CrmStepSeen
  <1> QED
    BY <1>1, CrmInvariant, CrmInitSeen, PTL DEF CrmSpec, ImplementsQueue

(***************************************************************************)
(* The pull of the boards.                                                  *)
(***************************************************************************)
\* A step writes one row of the mailbox at most, and never over a decision.
LEMMA MailboxSteps ==
  ASSUME [MirrorNext]_mirrorVars
  PROVE  \/ UNCHANGED mailbox
         \/ \E a \in Addresses : /\ mailbox[a] # "decided"
                                 /\ \E entry : mailbox' = [mailbox EXCEPT ![a] = entry]
         \/ \E a \in Addresses : mailbox' = [mailbox EXCEPT ![a] = mailbox[a]]
  <1>1. ASSUME NEW i \in Records, NEW v \in 0..2, Edit(i, v) PROVE UNCHANGED mailbox
    BY <1>1 DEF Edit
  <1>2. ASSUME NEW a \in Addresses, Decide(a)
        PROVE  mailbox[a] # "decided" /\ \E entry : mailbox' = [mailbox EXCEPT ![a] = entry]
    BY <1>2 DEF Decide
  <1>3. ASSUME NEW p \in Pulls, NEW i \in DOMAIN Email, EnsureAddress(p, i)
        PROVE  \E a \in Addresses : \/ /\ mailbox[a] # "decided"
                                       /\ \E entry : mailbox' = [mailbox EXCEPT ![a] = entry]
                                    \/ mailbox' = [mailbox EXCEPT ![a] = mailbox[a]]
    <2> DEFINE a == Email[i]
    <2>1. a \in Addresses /\ mailbox' = [mailbox EXCEPT ![a] = Created(mailbox[a])]
      BY <1>3, MirrorAssumption DEF EnsureAddress, Addresses
    <2> HIDE DEF a
    <2>2. CASE mailbox[a] = "none"
      BY <2>1, <2>2
    <2>3. CASE mailbox[a] # "none"
      BY <2>1, <2>3 DEF Created
    <2> QED
      BY <2>2, <2>3
  <1>4. ASSUME NEW p \in Pulls,
               \/ StartPull(p) \/ CountMissing(p) \/ ArchiveMissing(p) \/ FailBoard(p) \/ AbandonPull(p)
               \/ LinkContacts(p) \/ FindLink(p) \/ CreateLink(p)
               \/ \E i \in DOMAIN Email : MissAddress(p, i)
               \/ \E i \in Records : UpsertItem(p, i) \/ FailItem(p, i)
               \/ \E short : FetchBoard(p, short)
        PROVE  UNCHANGED mailbox
    BY <1>4 DEF StartPull, CountMissing, ArchiveMissing, FailBoard, AbandonPull, LinkContacts, FindLink, CreateLink,
                MissAddress, UpsertItem, FailItem, FetchBoard
  <1>5. CASE UNCHANGED mirrorVars
    BY <1>5 DEF mirrorVars
  <1> QED
    BY <1>1, <1>2, <1>3, <1>4, <1>5 DEF MirrorNext, PullStep

LEMMA MailboxStays == MirrorSpec => []MailboxIsWhole
  <1>1. MirrorInit => MailboxIsWhole
    BY DEF MirrorInit, MailboxIsWhole
  <1>2. MailboxIsWhole /\ [MirrorNext]_mirrorVars => MailboxIsWhole'
    <2> SUFFICES ASSUME MailboxIsWhole, [MirrorNext]_mirrorVars PROVE MailboxIsWhole'
      OBVIOUS
    <2>1. CASE UNCHANGED mailbox
      BY <2>1 DEF MailboxIsWhole
    <2>2. CASE \E a \in Addresses : \E entry : mailbox' = [mailbox EXCEPT ![a] = entry]
      BY <2>2 DEF MailboxIsWhole
    <2> QED
      BY <2>1, <2>2, MailboxSteps
  <1> QED
    BY <1>1, <1>2, PTL DEF MirrorSpec

(* Two pulls may find an address missing at the same moment and staff may   *)
(* decide about it before either writes: for any boards, pulls and failures *)
(* the row that staff decided on is never written over (EnsureAddress).     *)
THEOREM DecisionsOutlive == MirrorSpec => DecisionsOutliveThePull
  <1>1. MailboxIsWhole /\ [MirrorNext]_mirrorVars
          => [\A a \in Addresses : mailbox[a] = "decided" => mailbox'[a] = "decided"]_mirrorVars
    <2> SUFFICES ASSUME MailboxIsWhole, [MirrorNext]_mirrorVars, NEW a \in Addresses, mailbox[a] = "decided"
                 PROVE  mailbox'[a] = "decided"
      OBVIOUS
    <2>1. CASE UNCHANGED mailbox
      BY <2>1
    <2>2. ASSUME NEW b \in Addresses, mailbox[b] # "decided", NEW entry, mailbox' = [mailbox EXCEPT ![b] = entry]
          PROVE  mailbox'[a] = "decided"
      BY <2>2
    <2>3. ASSUME NEW b \in Addresses, mailbox' = [mailbox EXCEPT ![b] = mailbox[b]]
          PROVE  mailbox'[a] = "decided"
      BY <2>3 DEF MailboxIsWhole
    <2> QED
      BY <2>1, <2>2, <2>3, MailboxSteps
  <1> QED
    BY <1>1, MailboxStays, PTL DEF MirrorSpec, DecisionsOutliveThePull

(***************************************************************************)
(* Overlapping pulls never lose a row, so what was known when an id was    *)
(* read is known when it is used.  A row comes from a version that was      *)
(* there (Stored), a pull on an item holds such versions and known ids.     *)
(***************************************************************************)
Stored == [v : {1, 2}, live : BOOLEAN, owner : BOOLEAN]
Underway(d) == d = [at |-> d.at, board |-> d.board, names |-> d.names] /\ d.board \in 1..4
Stocked == {c \in Companies : Known(c)}
Storing(d, ids) ==
    /\ d = [at |-> d.at, board |-> d.board, names |-> d.names, snap |-> d.snap, todo |-> d.todo, ids |-> d.ids]
    /\ d.board \in 1..4 /\ d.todo \subseteq Records /\ \A i \in d.todo : d.snap[i] \in {1, 2}
    /\ d.ids \subseteq ids
PullShape(d, ids) ==
    /\ d.at \in {"off", "fetch", "link", "find", "create", "item", "address", "archive"}
    /\ d.at \in {"fetch", "link"} => Underway(d)
    /\ d.at \in {"item", "address"} => Storing(d, ids)
    /\ d.at = "address" => d.todo # {}
    /\ d.at \in {"find", "create"} =>
         d = [at |-> d.at, board |-> d.board, names |-> d.names, links |-> d.links] /\ d.board \in 1..4 /\ d.links # {}
    /\ d.at = "archive" => d.board \in 1..4
RowsHold ==
    /\ monday \in [Records -> 0..2]
    /\ mirror = [i \in Records |-> mirror[i]] /\ \A i \in Records : Known(i) => mirror[i] \in Stored
PullsHold == pull = [p \in Pulls |-> pull[p]] /\ \A p \in Pulls : PullShape(pull[p], Stocked)
MirrorInv == RowsHold /\ PullsHold /\ MailboxIsWhole /\ ReferencesAreStored
Remembers == \A i \in Records : Known(i) => Known(i)'

LEMMA StoredIsKnown == ASSUME NEW row \in Stored PROVE row # NoCopy
  <1>1. row.v \in {1, 2} /\ NoCopy.v = 0
    BY DEF Stored, NoCopy
  <1> QED
    BY <1>1

LEMMA BoardItems == ASSUME NEW d, d.board \in 1..4 PROVE BoardOrder[d.board] \subseteq Records
  BY DEF BoardOrder, Records

\* A pull's shape depends on the rows only by what is known, which stays.
LEMMA ShapeStays ==
  ASSUME Remembers
  PROVE  /\ \A d : Storing(d, Stocked) => Storing(d, Stocked')
         /\ \A d : PullShape(d, Stocked) => PullShape(d, Stocked')
  <1>1. Stocked \subseteq Stocked'
    BY DEF Remembers, Stocked, Records
  <1>2. \A d : Storing(d, Stocked) => Storing(d, Stocked')
    BY <1>1 DEF Storing
  <1> QED
    BY <1>2 DEF PullShape

\* The turn of one pull leaves the others' turns.
LEMMA TurnOfOne ==
  ASSUME PullsHold, Remembers, NEW p \in Pulls, NEW d, Turns(p, d), PullShape(d, Stocked')
  PROVE  PullsHold' /\ pull'[p] = d /\ \A q \in Pulls \ {p} : pull'[q] = pull[q]
  <1>1. /\ pull' = [q \in Pulls |-> pull'[q]] /\ pull'[p] = d
        /\ \A q \in Pulls \ {p} : pull'[q] = pull[q]
    BY DEF PullsHold, Turns
  <1>2. ASSUME NEW q \in Pulls \ {p} PROVE PullShape(pull'[q], Stocked')
    <2>1. PullShape(pull[q], Stocked)
      BY DEF PullsHold
    <2> QED
      BY <1>1, <2>1, ShapeStays
  <1> QED
    BY <1>1, <1>2 DEF PullsHold

\* Moving a pull that holds items on: only what is named changes.
LEMMA StoringMoves ==
  ASSUME NEW d, NEW ids, Storing(d, ids)
  PROVE  /\ \A at, names : [d EXCEPT !.at = at, !.names = names]
              = [at |-> at, board |-> d.board, names |-> names, snap |-> d.snap, todo |-> d.todo, ids |-> d.ids]
         /\ \A at, todo : [d EXCEPT !.at = at, !.todo = todo]
              = [at |-> at, board |-> d.board, names |-> d.names, snap |-> d.snap, todo |-> todo, ids |-> d.ids]
         /\ \A todo, names : [d EXCEPT !.todo = todo, !.names = names]
              = [at |-> d.at, board |-> d.board, names |-> names, snap |-> d.snap, todo |-> todo, ids |-> d.ids]
  <1>1. DOMAIN d = {"at", "board", "names", "snap", "todo", "ids"}
    BY DEF Storing
  <1>2. ASSUME NEW at, NEW names
        PROVE  [d EXCEPT !.at = at, !.names = names]
          = [at |-> at, board |-> d.board, names |-> names, snap |-> d.snap, todo |-> d.todo, ids |-> d.ids]
    <2> DEFINE e == [d EXCEPT !.at = at, !.names = names]
    <2>1. /\ e = [f \in DOMAIN e |-> e[f]] /\ DOMAIN e = {"at", "board", "names", "snap", "todo", "ids"}
          /\ e.at = at /\ e.board = d.board /\ e.names = names /\ e.snap = d.snap
          /\ e.todo = d.todo /\ e.ids = d.ids
      BY <1>1
    <2> HIDE DEF e
    <2>2. e = [at |-> at, board |-> d.board, names |-> names, snap |-> d.snap, todo |-> d.todo, ids |-> d.ids]
      BY <2>1
    <2> QED
      BY <2>2 DEF e
  <1>3. ASSUME NEW at, NEW todo
        PROVE  [d EXCEPT !.at = at, !.todo = todo]
          = [at |-> at, board |-> d.board, names |-> d.names, snap |-> d.snap, todo |-> todo, ids |-> d.ids]
    <2> DEFINE e == [d EXCEPT !.at = at, !.todo = todo]
    <2>1. /\ e = [f \in DOMAIN e |-> e[f]] /\ DOMAIN e = {"at", "board", "names", "snap", "todo", "ids"}
          /\ e.at = at /\ e.board = d.board /\ e.names = d.names /\ e.snap = d.snap
          /\ e.todo = todo /\ e.ids = d.ids
      BY <1>1
    <2> HIDE DEF e
    <2>2. e = [at |-> at, board |-> d.board, names |-> d.names, snap |-> d.snap, todo |-> todo, ids |-> d.ids]
      BY <2>1
    <2> QED
      BY <2>2 DEF e
  <1>4. ASSUME NEW todo, NEW names
        PROVE  [d EXCEPT !.todo = todo, !.names = names]
          = [at |-> d.at, board |-> d.board, names |-> names, snap |-> d.snap, todo |-> todo, ids |-> d.ids]
    <2> DEFINE e == [d EXCEPT !.todo = todo, !.names = names]
    <2>1. /\ e = [f \in DOMAIN e |-> e[f]] /\ DOMAIN e = {"at", "board", "names", "snap", "todo", "ids"}
          /\ e.at = d.at /\ e.board = d.board /\ e.names = names /\ e.snap = d.snap
          /\ e.todo = todo /\ e.ids = d.ids
      BY <1>1
    <2> HIDE DEF e
    <2>2. e = [at |-> d.at, board |-> d.board, names |-> names, snap |-> d.snap, todo |-> todo, ids |-> d.ids]
      BY <2>1
    <2> QED
      BY <2>2 DEF e
  <1> QED
    BY <1>2, <1>3, <1>4

LEMMA OwnersAreStored == Contacts \cup Owned \subseteq Records /\ DOMAIN Owner = Contacts \cup Owned
                         /\ (\A i \in DOMAIN Owner : Owner[i] \in Companies) /\ Companies \subseteq Records
                         /\ DOMAIN Email \subseteq Records
  BY MirrorAssumption DEF Records

\* What is known, and no new row with an owner unknown: the references stay.
Linkable(d) == d.at \in {"find", "create"} => \A l \in d.links : IsLink(l)
LEMMA ReferencesStay ==
  ASSUME ReferencesAreStored, Remembers,
         \A l \in contactLinks' : l \in contactLinks \/ IsLink(l),
         \A q \in Pulls : pull'[q] # pull[q] =>
            (pull'[q].at \in {"find", "create"} => \A l \in pull'[q].links : IsLink(l)),
         \A i \in DOMAIN Owner : mirror'[i].owner => mirror[i].owner \/ Known(Owner[i])
  PROVE  ReferencesAreStored'
  <1>1. \A l : IsLink(l) => IsLink(l)'
    BY OwnersAreStored DEF IsLink, Remembers
  <1>2. \A l \in contactLinks' : IsLink(l)'
    BY <1>1 DEF ReferencesAreStored
  <1>3. \A i \in DOMAIN Owner : mirror'[i].owner => Known(Owner[i])'
    BY OwnersAreStored DEF ReferencesAreStored, Remembers
  <1>4. \A q \in Pulls : pull'[q].at \in {"find", "create"} => \A l \in pull'[q].links : IsLink(l)'
    BY <1>1 DEF ReferencesAreStored
  <1> QED
    BY <1>2, <1>3, <1>4 DEF ReferencesAreStored

\* The outside and a pull that stores no item: rows and mailbox stay.
LEMMA QuietSteps ==
  ASSUME MirrorInv, NEW p \in Pulls, NEW d, Turns(p, d), UNCHANGED <<mirror, mailbox>>,
         PullShape(d, Stocked), Linkable(d), monday' \in [Records -> 0..2],
         \A l \in contactLinks' : l \in contactLinks \/ IsLink(l)
  PROVE  MirrorInv'
  <1>1. Remembers
    BY DEF Remembers, Known
  <1>2. PullsHold' /\ pull'[p] = d /\ \A q \in Pulls \ {p} : pull'[q] = pull[q]
    BY <1>1, ShapeStays, TurnOfOne DEF MirrorInv
  <1>3. ReferencesAreStored'
    <2>1. \A q \in Pulls : pull'[q] # pull[q] =>
            (pull'[q].at \in {"find", "create"} => \A l \in pull'[q].links : IsLink(l))
      BY <1>2 DEF Linkable
    <2> QED
      BY <1>1, <2>1, ReferencesStay DEF MirrorInv, ReferencesAreStored
  <1>4. RowsHold' /\ MailboxIsWhole'
    BY DEF MirrorInv, RowsHold, MailboxIsWhole, Known
  <1> QED
    BY <1>2, <1>3, <1>4 DEF MirrorInv

LEMMA NextBoard ==
  ASSUME NEW p \in Pulls, pull[p].board \in 1..4
  PROVE  /\ \A ids : PullShape(Advance(p, pull[p].names), ids)
         /\ Advance(p, pull[p].names).at \in {"off", "link", "fetch"}
  <1>1. CASE pull[p].board = 4
    BY <1>1 DEF Advance, PullShape, Off
  <1>2. CASE pull[p].board # 4
    BY <1>2 DEF Advance, PullShape, Underway
  <1> QED
    BY <1>1, <1>2

\* What is left of the links is linkable, and so is the next of them.
LEMMA LinkingOn ==
  ASSUME NEW d, d.board \in 1..4, NEW links, \A l \in links : IsLink(l)
  PROVE  PullShape(Linking(d, links), Stocked) /\ Linkable(Linking(d, links))
  <1>1. CASE links = {}
    BY <1>1 DEF Linking, PullShape, Underway, Linkable
  <1>2. CASE links # {}
    BY <1>2 DEF Linking, PullShape, Linkable
  <1> QED
    BY <1>1, <1>2

LEMMA QuietPulls ==
  ASSUME MirrorInv, NEW p \in Pulls,
         \/ StartPull(p) \/ FailBoard(p) \/ CountMissing(p) \/ LinkContacts(p) \/ FindLink(p) \/ CreateLink(p)
         \/ AbandonPull(p) \/ \E i \in DOMAIN Email : MissAddress(p, i)
         \/ \E i \in Records : FailItem(p, i)
         \/ \E short : FetchBoard(p, short)
  PROVE  MirrorInv'
  <1>0. PullShape(pull[p], Stocked) /\ monday \in [Records -> 0..2]
    BY DEF MirrorInv, PullsHold, RowsHold
  <1>1. CASE StartPull(p)
    <2> DEFINE d == [at |-> "fetch", board |-> 1, names |-> {}]
    <2>1. PullShape(d, Stocked) /\ Linkable(d) /\ Turns(p, d)
      BY <1>1 DEF StartPull, PullShape, Underway, Linkable
    <2> QED
      BY <1>0, <1>1, <2>1, QuietSteps DEF StartPull
  <1>2. CASE FailBoard(p)
    <2> DEFINE d == Advance(p, pull[p].names)
    <2>1. pull[p].board \in 1..4 /\ Turns(p, d)
      BY <1>0, <1>2 DEF FailBoard, PullShape, Underway, Storing
    <2>2. PullShape(d, Stocked) /\ Linkable(d)
      BY <2>1, NextBoard DEF Linkable
    <2> HIDE DEF d
    <2> QED
      BY <1>0, <1>2, <2>1, <2>2, QuietSteps DEF FailBoard
  <1>3. CASE CountMissing(p)
    <2>1. PICK may : LET d == [at |-> "archive", board |-> pull[p].board, names |-> pull[p].names,
                               snap |-> pull[p].snap, may |-> may]
                     IN  Turns(p, d)
      BY <1>3 DEF CountMissing
    <2> DEFINE d == [at |-> "archive", board |-> pull[p].board, names |-> pull[p].names,
                     snap |-> pull[p].snap, may |-> may]
    <2>2. pull[p].at = "item"
      BY <1>3 DEF CountMissing
    <2>3. PullShape(d, Stocked) /\ Linkable(d)
      BY <1>0, <2>2 DEF PullShape, Storing, Linkable
    <2> QED
      BY <1>0, <1>3, <2>1, <2>2, <2>3, QuietSteps DEF CountMissing
  <1>4. CASE LinkContacts(p)
    <2> DEFINE d == Linking(pull[p], Asserted(p))
    <2>1. pull[p].at = "link" /\ Turns(p, d) /\ UNCHANGED <<monday, mirror, contactLinks, mailbox>>
      BY <1>4 DEF LinkContacts
    <2>2. pull[p].board \in 1..4
      BY <1>0, <2>1 DEF PullShape, Underway
    <2>3. \A l \in Asserted(p) : IsLink(l)
      BY DEF Asserted, IsLink
    <2>4. PullShape(d, Stocked) /\ Linkable(d)
      BY <2>2, <2>3, LinkingOn
    <2> HIDE DEF d
    <2> QED
      BY <1>0, <2>1, <2>4, QuietSteps
  <1>7. CASE FindLink(p) \/ CreateLink(p)
    <2> DEFINE c == pull[p]
               l == NextLink(c)
    <2>1. c.at \in {"find", "create"} /\ c.board \in 1..4 /\ c.links # {}
          /\ c = [at |-> c.at, board |-> c.board, names |-> c.names, links |-> c.links]
      BY <1>0, <1>7 DEF FindLink, CreateLink, PullShape
    <2>2. (\A k \in c.links : IsLink(k)) /\ l \in c.links
      BY <2>1 DEF MirrorInv, ReferencesAreStored, NextLink
    <2>3. UNCHANGED <<monday, mirror, mailbox>> /\ \A k \in contactLinks' : k \in contactLinks \/ IsLink(k)
      BY <1>7, <2>2 DEF FindLink, CreateLink
    <2>4. PICK d : Turns(p, d) /\ (d = Off \/ d = Linking(c, c.links \ {l}) \/ d = [c EXCEPT !.at = "create"])
      BY <1>7 DEF FindLink, CreateLink
    <2>5. PullShape(d, Stocked) /\ Linkable(d)
      <3>1. CASE d = Off
        BY <3>1 DEF Off, PullShape, Linkable
      <3>2. CASE d = Linking(c, c.links \ {l})
        BY <2>1, <2>2, <3>2, LinkingOn
      <3>3. CASE d = [c EXCEPT !.at = "create"]
        <4>1. d = [at |-> "create", board |-> c.board, names |-> c.names, links |-> c.links]
          BY <2>1, <3>3
        <4> QED
          BY <2>1, <2>2, <4>1 DEF PullShape, Linkable
      <3> QED
        BY <2>4, <3>1, <3>2, <3>3
    <2> QED
      BY <1>0, <2>3, <2>4, <2>5, QuietSteps
  <1>8. CASE AbandonPull(p)
    <2>1. PullShape(Off, Stocked) /\ Linkable(Off)
      BY DEF Off, PullShape, Linkable
    <2> QED
      BY <1>0, <1>8, <2>1, QuietSteps DEF AbandonPull
  <1>9. ASSUME NEW i \in DOMAIN Email, MissAddress(p, i) PROVE MirrorInv'
    <2> DEFINE c == pull[p]
               d == [at |-> "item", board |-> c.board, names |-> c.names, snap |-> c.snap,
                     todo |-> c.todo \ {i}, ids |-> c.ids]
    <2>1. c.at = "address" /\ Storing(c, Stocked)
      BY <1>0, <1>9 DEF MissAddress, PullShape
    <2>2. Turns(p, d)
      BY <1>9, <2>1, StoringMoves DEF MissAddress
    <2>3. PullShape(d, Stocked) /\ Linkable(d)
      BY <2>1 DEF PullShape, Storing, Linkable
    <2> HIDE DEF d
    <2> QED
      BY <1>0, <1>9, <2>2, <2>3, QuietSteps DEF MissAddress
  <1>5. ASSUME NEW i \in Records, FailItem(p, i) PROVE MirrorInv'
    <2> DEFINE d == [pull[p] EXCEPT !.todo = @ \ {i}, !.names = @ \cup {i}]
    <2>1. pull[p].at = "item" /\ Turns(p, d)
      BY <1>5 DEF FailItem
    <2>2. Storing(pull[p], Stocked)
      BY <1>0, <2>1 DEF PullShape
    <2>3. d = [at |-> "item", board |-> pull[p].board, names |-> pull[p].names \cup {i},
               snap |-> pull[p].snap, todo |-> pull[p].todo \ {i}, ids |-> pull[p].ids]
      <3> DEFINE todo == pull[p].todo \ {i}
                 names == pull[p].names \cup {i}
      <3> HIDE DEF todo, names
      <3>1. [pull[p] EXCEPT !.todo = todo, !.names = names]
              = [at |-> pull[p].at, board |-> pull[p].board, names |-> names,
                 snap |-> pull[p].snap, todo |-> todo, ids |-> pull[p].ids]
        BY <2>2, StoringMoves
      <3> QED
        BY <2>1, <3>1 DEF todo, names
    <2>4. PullShape(d, Stocked) /\ Linkable(d)
      BY <2>2, <2>3 DEF PullShape, Storing, Linkable
    <2> HIDE DEF d
    <2> QED
      BY <1>0, <1>5, <2>1, <2>4, QuietSteps DEF FailItem
  <1>6. ASSUME NEW short, FetchBoard(p, short) PROVE MirrorInv'
    <2> DEFINE read == {i \in Board(p) : There(i)} \ short
               d == [at |-> "item", board |-> pull[p].board, names |-> pull[p].names,
                     snap |-> [i \in read |-> monday[i]], todo |-> read, ids |-> Stocked]
    <2>1. pull[p].at = "fetch" /\ Turns(p, d)
      BY <1>6 DEF FetchBoard, Stocked
    <2>2. pull[p].board \in 1..4
      BY <1>0, <2>1 DEF PullShape, Underway
    <2>3. Board(p) \subseteq Records
      BY <2>2, BoardItems DEF Board
    <2>4. \A i \in read : i \in Records /\ monday[i] \in {1, 2}
      BY <1>0, <2>3 DEF There
    <2> HIDE DEF read
    <2>5. PullShape(d, Stocked) /\ Linkable(d)
      BY <2>1, <2>2, <2>4 DEF PullShape, Storing, Linkable
    <2> HIDE DEF d
    <2> QED
      BY <1>0, <1>6, <2>1, <2>5, QuietSteps DEF FetchBoard
  <1> QED
    BY <1>1, <1>2, <1>3, <1>4, <1>5, <1>6, <1>7, <1>8, <1>9

\* Storing an item: the row is known from now on; its address, if missing, is next.
LEMMA UpsertHolds ==
  ASSUME MirrorInv, NEW p \in Pulls, NEW i \in Records, UpsertItem(p, i)
  PROVE  MirrorInv'
  <1> DEFINE d == pull[p]
             asks == i \in DOMAIN Email /\ mailbox[Email[i]] = "none"
             row == Upserted(i, d.snap[i], d.ids)
             next == [at |-> IF asks THEN "address" ELSE "item", board |-> d.board, names |-> d.names \cup {i},
                      snap |-> d.snap, todo |-> IF asks THEN d.todo ELSE d.todo \ {i}, ids |-> d.ids]
  <1>1. /\ d.at = "item" /\ d.todo # {} /\ i = NextItem(d) /\ mirror' = [mirror EXCEPT ![i] = row]
        /\ UNCHANGED <<monday, contactLinks, mailbox>>
    BY DEF UpsertItem
  <1>2. Storing(d, Stocked)
    BY <1>1 DEF MirrorInv, PullsHold, PullShape
  <1>3. i \in d.todo
    BY <1>1 DEF NextItem
  <1>4. row \in Stored /\ (row.owner => i \in DOMAIN Owner /\ Owner[i] \in d.ids)
    BY <1>2, <1>3 DEF Upserted, Storing, Stored
  <1>5. /\ \A j \in Records : mirror'[j] = IF j = i THEN row ELSE mirror[j]
        /\ mirror' = [j \in Records |-> mirror'[j]]
    <2> HIDE DEF row
    <2> QED
      BY <1>1 DEF MirrorInv, RowsHold
  <1>6. Remembers /\ Known(i)'
    <2> HIDE DEF row
    <2> QED
      BY <1>4, <1>5, StoredIsKnown DEF Remembers, Known
  <1>7. RowsHold'
    <2> HIDE DEF row
    <2> QED
      BY <1>1, <1>4, <1>5 DEF MirrorInv, RowsHold, Known
  <1>8. Turns(p, next)
    <2>1. \/ ~asks /\ Turns(p, [d EXCEPT !.todo = @ \ {i}, !.names = @ \cup {i}])
          \/ asks /\ Turns(p, [d EXCEPT !.at = "address", !.names = @ \cup {i}])
      BY DEF UpsertItem
    <2> DEFINE todo == d.todo \ {i}
               names == d.names \cup {i}
    <2> HIDE DEF todo, names
    <2>2. [d EXCEPT !.todo = todo, !.names = names]
            = [at |-> d.at, board |-> d.board, names |-> names, snap |-> d.snap, todo |-> todo, ids |-> d.ids]
      BY <1>2, StoringMoves
    <2>3. [d EXCEPT !.at = "address", !.names = names]
            = [at |-> "address", board |-> d.board, names |-> names, snap |-> d.snap, todo |-> d.todo, ids |-> d.ids]
      BY <1>2, StoringMoves
    <2> QED
      BY <1>1, <2>1, <2>2, <2>3 DEF todo, names
  <1>9. PullShape(next, Stocked')
    <2>1. Storing(d, Stocked')
      BY <1>2, <1>6, ShapeStays
    <2> QED
      BY <1>1, <2>1 DEF PullShape, Storing
  <1>10. PullsHold' /\ pull'[p] = next /\ \A q \in Pulls \ {p} : pull'[q] = pull[q]
    <2> HIDE DEF next
    <2> QED
      BY <1>6, <1>8, <1>9, TurnOfOne DEF MirrorInv
  <1>11. ReferencesAreStored'
    <2>1. \A j \in DOMAIN Owner : mirror'[j].owner => mirror[j].owner \/ Known(Owner[j])
      <3> HIDE DEF row
      <3> QED
        BY <1>2, <1>4, <1>5, OwnersAreStored DEF Storing, Stocked
    <2>2. \A q \in Pulls : pull'[q] # pull[q] => pull'[q].at \notin {"find", "create"}
      BY <1>10
    <2> QED
      BY <1>1, <1>6, <2>1, <2>2, ReferencesStay DEF MirrorInv
  <1> QED
    BY <1>1, <1>7, <1>10, <1>11 DEF MirrorInv, MailboxIsWhole

\* The mailbox of the item in hand: its address has a row when the turn goes on.
LEMMA EnsureHolds ==
  ASSUME MirrorInv, NEW p \in Pulls, NEW i \in DOMAIN Email, EnsureAddress(p, i)
  PROVE  MirrorInv'
  <1> DEFINE d == pull[p]
             next == [at |-> "item", board |-> d.board, names |-> d.names, snap |-> d.snap,
                      todo |-> d.todo \ {i}, ids |-> d.ids]
  <1>1. /\ d.at = "address" /\ i = NextItem(d) /\ UNCHANGED <<monday, mirror, contactLinks>>
        /\ mailbox' = [mailbox EXCEPT ![Email[i]] = Created(mailbox[Email[i]])]
    BY DEF EnsureAddress
  <1>2. Storing(d, Stocked)
    BY <1>1 DEF MirrorInv, PullsHold, PullShape
  <1>3. Turns(p, next)
    BY <1>1, <1>2, StoringMoves DEF EnsureAddress
  <1>4. Remembers /\ PullShape(next, Stocked')
    <2>1. Remembers
      BY <1>1 DEF Remembers, Known
    <2>2. Storing(d, Stocked')
      BY <1>2, <2>1, ShapeStays
    <2> QED
      BY <2>1, <2>2 DEF PullShape, Storing
  <1>5. PullsHold' /\ pull'[p] = next /\ \A q \in Pulls \ {p} : pull'[q] = pull[q]
    <2> HIDE DEF next
    <2> QED
      BY <1>3, <1>4, TurnOfOne DEF MirrorInv
  <1>6. \A j \in DOMAIN Email : Email[j] \in Addresses
    BY MirrorAssumption DEF Addresses
  <1>7. mailbox' = [a \in Addresses |-> mailbox'[a]]
    <2>2. mailbox = [a \in Addresses |-> mailbox[a]]
      BY DEF MirrorInv, MailboxIsWhole
    <2> QED
      BY <1>1, <1>6, <2>2
  <1>9. ReferencesAreStored'
    <2>1. \A q \in Pulls : pull'[q] # pull[q] => pull'[q].at \notin {"find", "create"}
      BY <1>5
    <2>2. \A j \in DOMAIN Owner : mirror'[j].owner => mirror[j].owner
      BY <1>1
    <2> QED
      BY <1>1, <1>4, <2>1, <2>2, ReferencesStay DEF MirrorInv
  <1>10. RowsHold' /\ MailboxIsWhole'
    BY <1>1, <1>7 DEF MirrorInv, RowsHold, MailboxIsWhole, Known
  <1> QED
    BY <1>5, <1>9, <1>10 DEF MirrorInv

\* An archived row is marked, and stays.
LEMMA ArchiveHolds ==
  ASSUME MirrorInv, NEW p \in Pulls, ArchiveMissing(p)
  PROVE  MirrorInv'
  <1> DEFINE next == Advance(p, pull[p].names)
             marked(i) == pull[p].may /\ i \in Missing(p)
  <1>1. /\ pull[p].at = "archive" /\ Turns(p, next) /\ UNCHANGED <<monday, contactLinks, mailbox>>
        /\ mirror' = [i \in Records |-> IF marked(i) THEN [mirror[i] EXCEPT !.live = FALSE] ELSE mirror[i]]
    BY DEF ArchiveMissing
  <1>2. pull[p].board \in 1..4
    BY <1>1 DEF MirrorInv, PullsHold, PullShape
  <1>3. \A i : marked(i) => Known(i)
    BY DEF Missing, Live
  <1>4. PullShape(next, Stocked') /\ next.at \notin {"find", "create"}
    BY <1>2, NextBoard
  <1> HIDE DEF marked, next
  <1>5. /\ mirror' = [i \in Records |-> mirror'[i]]
        /\ \A i \in Records : mirror'[i] = IF marked(i) THEN [mirror[i] EXCEPT !.live = FALSE] ELSE mirror[i]
    BY <1>1
  <1>6. ASSUME NEW i \in Records
        PROVE  /\ Known(i) <=> Known(i)'
               /\ Known(i)' => mirror'[i] \in Stored
               /\ mirror'[i].owner = mirror[i].owner
    <2>1. Known(i) => mirror[i] \in Stored
      BY DEF MirrorInv, RowsHold
    <2>2. CASE marked(i)
      <3>1. mirror[i] \in Stored /\ mirror'[i] = [mirror[i] EXCEPT !.live = FALSE] /\ Known(i)
        BY <1>3, <1>5, <2>1, <2>2
      <3>2. mirror'[i] \in Stored /\ mirror'[i].owner = mirror[i].owner
        BY <3>1 DEF Stored
      <3> QED
        BY <3>1, <3>2, StoredIsKnown DEF Known
    <2>3. CASE ~marked(i)
      BY <1>5, <2>1, <2>3 DEF Known
    <2> QED
      BY <2>2, <2>3
  <1>7. Remembers /\ RowsHold' /\ MailboxIsWhole'
    BY <1>1, <1>5, <1>6 DEF MirrorInv, RowsHold, Remembers, MailboxIsWhole
  <1>8. PullsHold' /\ pull'[p] = next /\ \A q \in Pulls \ {p} : pull'[q] = pull[q]
    BY <1>1, <1>4, <1>7, TurnOfOne DEF MirrorInv
  <1>10. ReferencesAreStored'
    <2>1. \A j \in DOMAIN Owner : mirror'[j].owner => mirror[j].owner \/ Known(Owner[j])
      BY <1>6, OwnersAreStored
    <2>2. \A q \in Pulls : pull'[q] # pull[q] => pull'[q].at \notin {"find", "create"}
      BY <1>4, <1>8
    <2> QED
      BY <1>1, <1>7, <2>1, <2>2, ReferencesStay DEF MirrorInv
  <1> QED
    BY <1>7, <1>8, <1>10 DEF MirrorInv

\* Edits in Monday and decisions of staff leave the pulls and the rows.
LEMMA OutsideHolds ==
  ASSUME MirrorInv, UNCHANGED <<mirror, contactLinks, pull>>, RowsHold', MailboxIsWhole'
  PROVE  MirrorInv'
  <1>1. Remembers /\ PullsHold'
    <2>1. Remembers
      BY DEF Remembers, Known
    <2> QED
      BY <2>1, ShapeStays DEF MirrorInv, PullsHold
  <1>4. ReferencesAreStored'
    BY <1>1, ReferencesStay DEF MirrorInv
  <1> QED
    BY <1>1, <1>4 DEF MirrorInv

THEOREM MirrorInvariant == MirrorSpec => []MirrorInv
  <1>1. MirrorInit => MirrorInv
    <2> SUFFICES ASSUME MirrorInit PROVE MirrorInv
      OBVIOUS
    <2>1. \A i \in Records : mirror[i] = NoCopy
      BY DEF MirrorInit
    <2>2. RowsHold /\ MailboxIsWhole
      BY <2>1 DEF MirrorInit, RowsHold, MailboxIsWhole, Known
    <2>3. PullsHold
      BY DEF MirrorInit, PullsHold, PullShape, Off
    <2>4. ReferencesAreStored
      BY <2>1, OwnersAreStored DEF MirrorInit, ReferencesAreStored, Known, NoCopy, Off
    <2> QED
      BY <2>2, <2>3, <2>4 DEF MirrorInv
  <1>2. MirrorInv /\ [MirrorNext]_mirrorVars => MirrorInv'
    <2> SUFFICES ASSUME MirrorInv, [MirrorNext]_mirrorVars PROVE MirrorInv'
      OBVIOUS
    <2>1. ASSUME NEW i \in Records, NEW v \in 0..2, Edit(i, v) PROVE MirrorInv'
      <3>1. RowsHold' /\ MailboxIsWhole'
        BY <2>1 DEF Edit, MirrorInv, RowsHold, MailboxIsWhole, Known
      <3> QED
        BY <2>1, <3>1, OutsideHolds DEF Edit
    <2>2. ASSUME NEW a \in Addresses, Decide(a) PROVE MirrorInv'
      <3>1. RowsHold' /\ MailboxIsWhole'
        BY <2>2 DEF Decide, MirrorInv, RowsHold, MailboxIsWhole, Known
      <3> QED
        BY <2>2, <3>1, OutsideHolds DEF Decide
    <2>3. ASSUME NEW p \in Pulls, PullStep(p) PROVE MirrorInv'
      BY <2>3, QuietPulls, UpsertHolds, EnsureHolds, ArchiveHolds DEF PullStep
    <2>8. ASSUME NEW p \in Pulls, AbandonPull(p) \/ \E i \in DOMAIN Email : MissAddress(p, i) PROVE MirrorInv'
      BY <2>8, QuietPulls
    <2>4. ASSUME NEW p \in Pulls, FailBoard(p) PROVE MirrorInv'
      BY <2>4, QuietPulls
    <2>5. ASSUME NEW p \in Pulls, NEW i \in Records, FailItem(p, i) PROVE MirrorInv'
      BY <2>5, QuietPulls
    <2>6. ASSUME NEW p \in Pulls, NEW short, FetchBoard(p, short) PROVE MirrorInv'
      BY <2>6, QuietPulls
    <2>7. CASE UNCHANGED mirrorVars
      <3>1. RowsHold' /\ MailboxIsWhole'
        BY <2>7 DEF mirrorVars, MirrorInv, RowsHold, MailboxIsWhole, Known
      <3> QED
        BY <2>7, <3>1, OutsideHolds DEF mirrorVars
    <2> HIDE DEF MirrorInv
    <2> QED
      BY <2>1, <2>2, <2>3, <2>4, <2>5, <2>6, <2>7, <2>8 DEF MirrorNext
  <1> QED
    BY <1>1, <1>2, PTL DEF MirrorSpec

(* Pulls overlap, fail in the middle, are abandoned and archive what they    *)
(* did not see: for any boards an owner, a link and a link about to be       *)
(* created lead to stored rows.                                              *)
THEOREM ReferencesHold == MirrorSpec => []ReferencesAreStored
  <1>1. MirrorInv => ReferencesAreStored
    BY DEF MirrorInv
  <1> QED
    BY <1>1, MirrorInvariant, PTL
=============================================================================
