--------------------------- MODULE JobQueueProofs ---------------------------
(***************************************************************************)
(* What JobQueue guarantees for any set of rows, kinds and workers.         *)
(*                                                                          *)
(* Exclusion is not inductive: a claim decides in one statement and writes  *)
(* in the next.  QueueInv adds what the mutex and the row lock buy, that    *)
(* between the two only the holder of the mutex may make a row RUNNING, so  *)
(* the verdict about its candidate still stands when it is written.         *)
(***************************************************************************)
EXTENDS JobQueue, TLAPS

\* Only the holder of the mutex is inside the claim.
MutexHeld == \A w \in Workers : pc[w] \in {"select", "update"} => mutex = w

\* A selected row is still pending and still conflicts with nothing.
CandidateStands ==
    \A w \in Workers : pc[w] = "update" =>
        /\ held[w] \in Jobs
        /\ state[held[w]] = "PENDING"
        /\ \A i \in Jobs : state[i] = "RUNNING" => ~Conflicts(i, held[w])

RunsARow == \A w \in Workers : pc[w] = "run" => held[w] \in Jobs

\* What is left of its three attempts when a reconciliation waits to run.
AttemptsLeft ==
    \A j \in Jobs : Kind[j] = "CRM_SYNC" =>
        /\ attempts[j] <= JobMaxAttempts
        /\ state[j] \in {"NONE", "PENDING"} => attempts[j] < JobMaxAttempts

\* An automation row that waits to run has never run.
FreshOccurrence ==
    \A j \in Jobs : Kind[j] = "AUTOMATION" =>
        /\ attempts[j] <= 1
        /\ state[j] \in {"NONE", "PENDING"} => attempts[j] = 0

QueueInv == MutexHeld /\ CandidateStands /\ RunsARow /\ Exclusion
            /\ AttemptsLeft /\ FreshOccurrence

LEMMA InitQueue == Init => TypeOK /\ QueueInv
  BY CrashAssumption
  DEF Init, TypeOK, QueueInv, MutexHeld, CandidateStands, RunsARow, Exclusion,
      AttemptsLeft, FreshOccurrence, JobState, JobMaxAttempts, AttemptCap

\* Every named step, once, with what quantifies it.
LEMMA StepCases ==
  ASSUME Next
  PROVE  \/ \E j \in Jobs, now \in BOOLEAN : Enqueue(j, now) /\ UNCHANGED workerVars
         \/ \E j \in Jobs : \/ Elapse(j) \/ Expire(j) \/ RetryCrmJob(j)
                            \/ ReopenDispatch(j) \/ CancelDispatch(j)
         \/ \E w \in Workers : \/ BeginTick(w) \/ RecoverExpired(w)
                               \/ TryMutex(w) \/ Select(w)
                               \/ SelectNothing(w) \/ Claim(w) \/ Finish(w)
                               \/ Crash(w)
  BY DEF Next, Tick

\* Every verdict of a run is a state of a row.
LEMMA VerdictsTyped ==
  ASSUME NEW j \in Jobs, NEW s \in Verdicts(j)
  PROVE  s \in {"SUCCEEDED", "ATTENTION", "PENDING"}
  BY KindAssumption DEF Verdicts, Interrupted, Kinds

LEMMA TypeStep == TypeOK /\ RunsARow /\ CandidateStands /\ [Next]_queueVars => TypeOK'
  <1> SUFFICES ASSUME TypeOK, RunsARow, CandidateStands, [Next]_queueVars
               PROVE  TypeOK'
    OBVIOUS
  <1> USE DEF TypeOK, JobState
  <1>1. ASSUME NEW j \in Jobs, NEW now \in BOOLEAN, Enqueue(j, now), UNCHANGED workerVars
        PROVE  TypeOK'
    BY <1>1 DEF Enqueue, Join, workerVars
  <1>2. ASSUME NEW j \in Jobs, Elapse(j) \/ Expire(j)
        PROVE  TypeOK'
    <2>1. CASE Elapse(j)
      BY <2>1 DEF Elapse, Join, workerVars
    <2>2. CASE Expire(j)
      BY <2>2 DEF Expire, workerVars
    <2> QED
      BY <1>2, <2>1, <2>2
  <1>3. ASSUME NEW j \in Jobs, RetryCrmJob(j) \/ ReopenDispatch(j)
        PROVE  TypeOK'
    BY <1>3 DEF RetryCrmJob, ReopenDispatch, Join, workerVars, AttemptCap, JobMaxAttempts
  <1>4. ASSUME NEW j \in Jobs, CancelDispatch(j)
        PROVE  TypeOK'
    BY <1>4 DEF CancelDispatch, Leave, workerVars
  <1>5. ASSUME NEW w \in Workers, BeginTick(w)
        PROVE  TypeOK'
    BY <1>5 DEF BeginTick, rowVars
  <1>6. ASSUME NEW w \in Workers, RecoverExpired(w)
        PROVE  TypeOK'
    <2>1. PICK p \in expired[w] :
              /\ expired' = [expired EXCEPT ![w] = @ \ {p}]
              /\ IF Reclaimable(p[1], p[2]) THEN Clear(p[1], Interrupted(p[1]))
                                            ELSE UNCHANGED rowVars
              /\ UNCHANGED <<mutex, pc, held, crashes>>
      BY <1>6 DEF RecoverExpired
    <2>2. p[1] \in Jobs
      BY <2>1
    <2> QED
      BY <2>1, <2>2 DEF Clear, Interrupted, rowVars
  <1>7. ASSUME NEW w \in Workers, TryMutex(w) \/ Select(w) \/ SelectNothing(w)
        PROVE  TypeOK'
    BY <1>7 DEF TryMutex, Select, SelectNothing, rowVars
  <1>8. ASSUME NEW w \in Workers, Claim(w)
        PROVE  TypeOK'
    <2>1. held[w] \in Jobs
      BY <1>8 DEF Claim, CandidateStands
    <2> QED
      BY <1>8, <2>1 DEF Claim, Leave, AttemptCap, JobMaxAttempts
  <1>9. ASSUME NEW w \in Workers, Finish(w)
        PROVE  TypeOK'
    <2>1. held[w] \in Jobs
      BY <1>9 DEF Finish, RunsARow
    <2>2. PICK s \in Verdicts(held[w]) : FinishJob(w, s)
      BY <1>9 DEF Finish
    <2>3. s \in JobState
      BY <2>1, VerdictsTyped
    <2> QED
      BY <1>9, <2>1, <2>2, <2>3 DEF Finish, FinishJob, EndTick, Clear, rowVars
  <1>10. ASSUME NEW w \in Workers, Crash(w)
         PROVE  TypeOK'
    BY <1>10, CrashAssumption DEF Crash, rowVars
  <1>11. CASE UNCHANGED queueVars
    BY <1>11 DEF queueVars, rowVars, workerVars
  <1> QED
    BY <1>1, <1>2, <1>3, <1>4, <1>5, <1>6, <1>7, <1>8, <1>9, <1>10, <1>11, StepCases

\* A step that makes no row RUNNING, leaves every selected row pending and
\* resets or keeps what was attempted disturbs none of it.
LEMMA QuietStep ==
  ASSUME TypeOK, QueueInv, UNCHANGED <<mutex, pc, held>>,
         \A i \in Jobs : state'[i] = "RUNNING" => state[i] = "RUNNING",
         \A w \in Workers : pc[w] = "update" => state'[held[w]] = "PENDING"
  PROVE  MutexHeld' /\ CandidateStands' /\ RunsARow' /\ Exclusion'
  BY DEF QueueInv, MutexHeld, CandidateStands, RunsARow, Exclusion, Conflicts

LEMMA QueueStep == TypeOK /\ QueueInv /\ [Next]_queueVars => QueueInv'
  <1> SUFFICES ASSUME TypeOK, QueueInv, [Next]_queueVars
               PROVE  QueueInv'
    OBVIOUS
  <1> DEFINE Safe == MutexHeld /\ CandidateStands /\ RunsARow /\ Exclusion
             Counts == AttemptsLeft /\ FreshOccurrence
  <1>0. Safe' /\ Counts' => QueueInv'
    BY DEF QueueInv
  <1>1. ASSUME NEW j \in Jobs, NEW now \in BOOLEAN, Enqueue(j, now), UNCHANGED workerVars
        PROVE  QueueInv'
    <2>1. Safe'
      BY <1>1, QuietStep
      DEF Enqueue, workerVars, TypeOK, QueueInv, CandidateStands
    <2>2. Counts'
      BY <1>1 DEF Enqueue, TypeOK, QueueInv, AttemptsLeft, FreshOccurrence
    <2> QED
      BY <2>1, <2>2, <1>0
  <1>2. ASSUME NEW j \in Jobs, Elapse(j) \/ Expire(j)
        PROVE  QueueInv'
    <2>1. UNCHANGED <<state, attempts, mutex, pc, held>>
      BY <1>2 DEF Elapse, Expire, workerVars
    <2>2. Safe'
      BY <2>1, QuietStep DEF QueueInv, CandidateStands
    <2>3. Counts'
      BY <2>1 DEF QueueInv, AttemptsLeft, FreshOccurrence
    <2> QED
      BY <2>2, <2>3, <1>0
  <1>3. ASSUME NEW j \in Jobs, RetryCrmJob(j) \/ ReopenDispatch(j)
        PROVE  QueueInv'
    <2>1. Safe'
      BY <1>3, QuietStep
      DEF RetryCrmJob, ReopenDispatch, workerVars, TypeOK, QueueInv, CandidateStands
    <2>2. Counts'
      BY <1>3, KindAssumption
      DEF RetryCrmJob, ReopenDispatch, TypeOK, QueueInv, AttemptsLeft,
          FreshOccurrence, JobMaxAttempts
    <2> QED
      BY <2>1, <2>2, <1>0
  <1>4. ASSUME NEW j \in Jobs, CancelDispatch(j)
        PROVE  QueueInv'
    <2>1. Safe'
      BY <1>4, QuietStep
      DEF CancelDispatch, RowLocked, workerVars, TypeOK, QueueInv, CandidateStands
    <2>2. Counts'
      BY <1>4 DEF CancelDispatch, TypeOK, QueueInv, AttemptsLeft, FreshOccurrence
    <2> QED
      BY <2>1, <2>2, <1>0
  <1>5. ASSUME NEW w \in Workers, BeginTick(w)
        PROVE  QueueInv'
    BY <1>5
    DEF BeginTick, rowVars, TypeOK, QueueInv, MutexHeld, CandidateStands,
        RunsARow, Exclusion, AttemptsLeft, FreshOccurrence
  <1>6. ASSUME NEW w \in Workers, RecoverExpired(w)
        PROVE  QueueInv'
    <2>1. PICK p \in expired[w] :
              /\ IF Reclaimable(p[1], p[2]) THEN Clear(p[1], Interrupted(p[1]))
                                            ELSE UNCHANGED rowVars
              /\ UNCHANGED <<mutex, pc, held, crashes>>
      BY <1>6 DEF RecoverExpired
    <2>2. p[1] \in Jobs
      BY <2>1 DEF TypeOK
    <2>3. Safe'
      BY <2>1, <2>2, QuietStep
      DEF Reclaimable, Clear, Interrupted, rowVars, TypeOK, QueueInv, CandidateStands
    <2>4. Counts'
      BY <2>1, <2>2
      DEF Reclaimable, Clear, Interrupted, rowVars, TypeOK, QueueInv,
          AttemptsLeft, FreshOccurrence, JobMaxAttempts
    <2> QED
      BY <2>3, <2>4, <1>0
  <1>7. ASSUME NEW w \in Workers, TryMutex(w)
        PROVE  QueueInv'
    BY <1>7, WorkerAssumption
    DEF TryMutex, rowVars, TypeOK, QueueInv, MutexHeld, CandidateStands,
        RunsARow, Exclusion, AttemptsLeft, FreshOccurrence
  <1>8. ASSUME NEW w \in Workers, Select(w)
        PROVE  QueueInv'
    BY <1>8
    DEF Select, Eligible, rowVars, TypeOK, QueueInv, MutexHeld,
        CandidateStands, RunsARow, Exclusion, AttemptsLeft, FreshOccurrence
  <1>9. ASSUME NEW w \in Workers, SelectNothing(w)
        PROVE  QueueInv'
    BY <1>9, WorkerAssumption
    DEF SelectNothing, rowVars, TypeOK, QueueInv, MutexHeld, CandidateStands,
        RunsARow, Exclusion, AttemptsLeft, FreshOccurrence
  <1>10. ASSUME NEW w \in Workers, Claim(w)
         PROVE  QueueInv'
    <2> DEFINE j == held[w]
    <2>1. /\ j \in Jobs /\ state[j] = "PENDING" /\ mutex = w
          /\ \A i \in Jobs : state[i] = "RUNNING" => ~Conflicts(i, j)
      BY <1>10 DEF Claim, QueueInv, MutexHeld, CandidateStands
    <2>2. \A v \in Workers : v # w => pc[v] \notin {"select", "update"}
      BY <2>1 DEF QueueInv, MutexHeld
    <2>3. /\ pc' = [pc EXCEPT ![w] = "run"] /\ held' = held
          /\ state' = [state EXCEPT ![j] = "RUNNING"]
      BY <1>10 DEF Claim
    <2>4. MutexHeld' /\ CandidateStands' /\ RunsARow'
      BY <2>1, <2>2, <2>3
      DEF TypeOK, QueueInv, MutexHeld, CandidateStands, RunsARow
    <2>5. Exclusion'
      BY <2>1, <2>3 DEF TypeOK, QueueInv, Exclusion, Conflicts
    <2>6. Counts'
      BY <1>10, <2>1
      DEF Claim, TypeOK, QueueInv, AttemptsLeft, FreshOccurrence,
          JobMaxAttempts, AttemptCap
    <2> QED
      BY <2>4, <2>5, <2>6, <1>0
  <1>11. ASSUME NEW w \in Workers, Finish(w)
         PROVE  QueueInv'
    <2> DEFINE j == held[w]
    <2>1. j \in Jobs /\ pc[w] = "run"
      BY <1>11 DEF Finish, QueueInv, RunsARow
    <2>2. PICK s \in Verdicts(j) : FinishJob(w, s)
      BY <1>11 DEF Finish
    <2>3. /\ pc' = [pc EXCEPT ![w] = "idle"]
          /\ held' = [held EXCEPT ![w] = NoJob] /\ mutex' = mutex
      BY <1>11 DEF Finish, EndTick
    <2>4. \/ state' = state /\ attempts' = attempts
          \/ /\ state[j] = "RUNNING" /\ attempts' = attempts
             /\ state' = [state EXCEPT ![j] = s]
      BY <2>2 DEF FinishJob, HoldsLease, Clear, rowVars
    <2>5. s # "RUNNING"
      BY <2>1, VerdictsTyped
    <2>6. \A i \in Jobs : state'[i] = "RUNNING" => state[i] = "RUNNING"
      BY <2>1, <2>4, <2>5 DEF TypeOK
    <2>7. MutexHeld' /\ CandidateStands' /\ RunsARow' /\ Exclusion'
      BY <2>1, <2>3, <2>4, <2>6
      DEF TypeOK, QueueInv, MutexHeld, CandidateStands, RunsARow, Exclusion
    <2>8. /\ Kind[j] = "CRM_SYNC" /\ s = "PENDING" => attempts[j] < JobMaxAttempts
          /\ Kind[j] = "AUTOMATION" => s # "PENDING"
      BY <2>1, <2>2, KindAssumption DEF Verdicts, Interrupted
    <2>9. Counts'
      BY <2>1, <2>4, <2>5, <2>8, VerdictsTyped
      DEF TypeOK, QueueInv, AttemptsLeft, FreshOccurrence, JobMaxAttempts
    <2> QED
      BY <2>7, <2>9, <1>0
  <1>12. ASSUME NEW w \in Workers, Crash(w)
         PROVE  QueueInv'
    BY <1>12
    DEF Crash, rowVars, TypeOK, QueueInv, MutexHeld, CandidateStands,
        RunsARow, Exclusion, AttemptsLeft, FreshOccurrence
  <1>13. CASE UNCHANGED queueVars
    BY <1>13
    DEF queueVars, rowVars, workerVars, QueueInv, MutexHeld, CandidateStands,
        RunsARow, Exclusion, AttemptsLeft, FreshOccurrence
  <1> QED
    BY <1>1, <1>2, <1>3, <1>4, <1>5, <1>6, <1>7, <1>8, <1>9, <1>10, <1>11,
       <1>12, <1>13, StepCases
-----------------------------------------------------------------------------
LEMMA QueueInvariant == Spec => [](TypeOK /\ QueueInv)
  <1>1. TypeOK /\ QueueInv /\ [Next]_queueVars => (TypeOK /\ QueueInv)'
    BY TypeStep, QueueStep DEF QueueInv
  <1> QED
    BY InitQueue, <1>1, PTL DEF Spec

\* Every reachable queue is well typed.
THEOREM QueueTyped == Spec => []TypeOK
  BY QueueInvariant, PTL

\* Whatever rows, kinds, resources and workers there are, no two conflicting
\* rows are leased at once: the claim's mutex and its snapshot exclude
\* overlapping reconciliations and double work on a resource.
THEOREM NoOverlap == Spec => []Exclusion
  <1>1. QueueInv => Exclusion
    BY DEF QueueInv
  <1> QED
    BY <1>1, QueueInvariant, PTL

\* Neither recovery nor a failed run ever queues an automation again.
THEOREM NeverRecreated == Spec => []AutomationRunsOnce
  <1>1. QueueInv => AutomationRunsOnce
    BY DEF QueueInv, FreshOccurrence, AutomationRunsOnce
  <1> QED
    BY <1>1, QueueInvariant, PTL

\* Recoveries and failures together give a reconciliation three runs.
THEOREM AtMostThreeRuns == Spec => []RetriesAreBounded
  <1>1. QueueInv => RetriesAreBounded
    BY DEF QueueInv, AttemptsLeft, RetriesAreBounded
  <1> QED
    BY <1>1, QueueInvariant, PTL

\* No recovery reading and no former holder ends a run under a live lease.
THEOREM LeaseProtectsRun == Spec => LiveLeaseIsKept
  <1> DEFINE Kept == \A j \in Jobs :
               (leaseLive[j] /\ state[j] = "RUNNING" /\ state'[j] # "RUNNING")
                  => \E w \in Workers : /\ owner[j] = w /\ held[w] = j
                                        /\ pc[w] = "run" /\ pc'[w] = "idle"
  <1>1. TypeOK /\ QueueInv /\ [Next]_queueVars => [Kept]_queueVars
    <2> SUFFICES ASSUME TypeOK, QueueInv, Next, NEW j \in Jobs,
                        leaseLive[j], state[j] = "RUNNING", state'[j] # "RUNNING"
                 PROVE  \E w \in Workers : /\ owner[j] = w /\ held[w] = j
                                           /\ pc[w] = "run" /\ pc'[w] = "idle"
      OBVIOUS
    <2>1. ASSUME NEW i \in Jobs, NEW now \in BOOLEAN, Enqueue(i, now)
          PROVE  FALSE
      BY <2>1 DEF Enqueue, TypeOK
    <2>2. ASSUME NEW i \in Jobs, \/ Elapse(i) \/ Expire(i) \/ RetryCrmJob(i)
                                \/ ReopenDispatch(i) \/ CancelDispatch(i)
          PROVE  FALSE
      BY <2>2 DEF Elapse, Expire, RetryCrmJob, ReopenDispatch, CancelDispatch, TypeOK
    <2>3. ASSUME NEW w \in Workers, RecoverExpired(w)
          PROVE  FALSE
      BY <2>3 DEF RecoverExpired, Reclaimable, Clear, rowVars, TypeOK
    <2>4. ASSUME NEW w \in Workers, \/ BeginTick(w) \/ TryMutex(w) \/ Select(w)
                                   \/ SelectNothing(w) \/ Crash(w)
          PROVE  FALSE
      BY <2>4 DEF BeginTick, TryMutex, Select, SelectNothing, Crash, rowVars
    <2>5. ASSUME NEW w \in Workers, Claim(w)
          PROVE  FALSE
      BY <2>5 DEF Claim, TypeOK, QueueInv, CandidateStands
    <2>6. ASSUME NEW w \in Workers, Finish(w)
          PROVE  /\ owner[j] = w /\ held[w] = j
                 /\ pc[w] = "run" /\ pc'[w] = "idle"
      BY <2>6
      DEF Finish, FinishJob, HoldsLease, Clear, EndTick, rowVars, TypeOK,
          QueueInv, RunsARow
    <2> QED
      BY <2>1, <2>2, <2>3, <2>4, <2>5, <2>6, StepCases
  <1> QED
    BY <1>1, QueueInvariant, PTL DEF Spec, LiveLeaseIsKept
=============================================================================
