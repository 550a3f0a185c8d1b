----------------------- MODULE CustomerDispatchProofs -----------------------
(***************************************************************************)
(* Proofs about CustomerDispatch, for any set of destinations, workers,     *)
(* facts and disturbances.                                                  *)
(***************************************************************************)
EXTENDS CustomerDispatch, TLAPS

(* The facts of one address stay well-formed: SetFacts only adds opt-outs. *)
LEMMA SetFactsType ==
    ASSUME TypeOK, NEW r \in Recipients, NEW f \in DispatchVetoFacts,
           SetFacts(r, f)
    PROVE  /\ facts' \in [Recipients -> DispatchVetoFacts]
           /\ lateOptOut' \in [Recipients -> BOOLEAN]
<1>1. [f EXCEPT !.isUnsubscribed = @ \/ facts[r].isUnsubscribed,
                !.isSuppressed   = @ \/ facts[r].isSuppressed]
        \in DispatchVetoFacts
  <2>1. facts[r] \in DispatchVetoFacts
    BY DEF TypeOK
  <2>2. QED BY <2>1 DEF DispatchVetoFacts
<1>2. facts' \in [Recipients -> DispatchVetoFacts]
  BY <1>1 DEF SetFacts, TypeOK
<1>3. (lateOptOut[r] \/ (~OptedOut(facts[r]) /\ OptedOut(facts'[r])
         /\ PastDecision(r))) \in BOOLEAN
  OBVIOUS
<1>4. lateOptOut' \in [Recipients -> BOOLEAN]
  BY <1>3, Zenon DEF SetFacts, TypeOK
<1>5. QED BY <1>2, <1>4

LEMMA RowStates ==
    RowState = {"NOROW", "PENDING", "SENDING", "ACCEPTED", "DELIVERED",
                "BOUNCED", "COMPLAINED", "FAILED", "UNCERTAIN", "SUPPRESSED"}
BY DEF RowState, DeliveryState

(* An event proves one of the states of the ledger, or none. *)
LEMMA EventStateType ==
    ASSUME NEW type \in ProviderEventType
    PROVE  ConsequenceOf(type).deliveryState \in
             {"ACCEPTED", "DELIVERED", "BOUNCED", "COMPLAINED", "FAILED", "NONE"}
BY DEF ConsequenceOf, ProviderEventType

(* Type correctness, one step per action. *)
LEMMA TypeStep == TypeOK /\ [Next]_vars => TypeOK'
<1> SUFFICES ASSUME TypeOK, [Next]_vars PROVE TypeOK'
  OBVIOUS
<1> USE DEF dbVars, envVars, workerVars, ghostVars, jobVars, rowVars,
            EnvOnly, ReadOnly, Goto, GotoWith, Forget, AllInFlightUncertain
<1>1. CASE Staff
  <2>1. CASE PrepareDeliveryLedger
    BY <2>1 DEF PrepareDeliveryLedger, TypeOK, RowState, DeliveryState
  <2>2. CASE ScheduleCustomerDelivery
    BY <2>2 DEF ScheduleCustomerDelivery, TypeOK
  <2>3. CASE CancelCustomerDelivery
    BY <2>3 DEF CancelCustomerDelivery, TypeOK
  <2>4. CASE RescheduleCustomerDelivery
    BY <2>4 DEF RescheduleCustomerDelivery, TypeOK
  <2>5. CASE ResumeCustomerDelivery
    BY <2>5 DEF ResumeCustomerDelivery, TypeOK
  <2>6. QED BY <1>1, <2>1, <2>2, <2>3, <2>4, <2>5 DEF Staff
<1>2. CASE World
  <2>1. CASE TimePasses
    BY <2>1 DEF TimePasses, TypeOK
  <2>2. CASE RevokeApproval
    BY <2>2 DEF RevokeApproval, TypeOK
  <2>3. CASE ChangeRelease
    BY <2>3 DEF ChangeRelease, TypeOK
  <2>4. CASE ToggleSegment
    BY <2>4 DEF ToggleSegment, TypeOK
  <2>5. CASE DeactivateActor
    <3>1. actorActive' \in BOOLEAN
      BY <2>5 DEF DeactivateActor
    <3>2. UNCHANGED <<dbVars, workerVars, ghostVars, clock, revoked, release,
                      segmentActive, facts, matched>>
      BY <2>5, Zenon DEF DeactivateActor
    <3>3. QED BY <3>1, <3>2 DEF TypeOK
  <2>6. ASSUME NEW r \in Recipients, ChangeFacts(r) PROVE TypeOK'
    <3>1. PICK f \in DispatchVetoFacts : SetFacts(r, f)
      BY <2>6, FactsAssumption DEF ChangeFacts
    <3>2. /\ facts' \in [Recipients -> DispatchVetoFacts]
          /\ lateOptOut' \in [Recipients -> BOOLEAN]
      BY <3>1, SetFactsType
    <3>3. QED BY <2>6, <3>2 DEF ChangeFacts, TypeOK
  <2>7. ASSUME NEW r \in Recipients, ChangeMatch(r) PROVE TypeOK'
    BY <2>7 DEF ChangeMatch, TypeOK
  <2>8. ASSUME NEW r \in Recipients, NEW type \in ProviderEventType,
               ProviderEvent(r, type)
        PROVE  TypeOK'
    <3> DEFINE c == ConsequenceOf(type)
               f == [facts[r] EXCEPT
                       !.isSuppressed   = @ \/ c.suppression # "NONE",
                       !.emailStatus    = IF c.markEmailInvalid
                                            THEN "INVALID" ELSE @,
                       !.isUnsubscribed = @ \/ c.unsubscribe]
    <3>1. f \in DispatchVetoFacts
      <4>1. facts[r] \in DispatchVetoFacts
        BY DEF TypeOK
      <4>2. QED BY <4>1 DEF DispatchVetoFacts
    <3>2. SetFacts(r, f)
      BY <2>8 DEF ProviderEvent
    <3>3. /\ facts' \in [Recipients -> DispatchVetoFacts]
          /\ lateOptOut' \in [Recipients -> BOOLEAN]
      BY <3>1, <3>2, SetFactsType
    <3>4. row' \in [Recipients -> RowState]
      BY <2>8, EventStateType DEF ProviderEvent, TypeOK, RowState, DeliveryState
    <3>5. QED BY <2>8, <3>3, <3>4 DEF ProviderEvent, TypeOK
  <2>9. QED
    BY <1>2, <2>1, <2>2, <2>3, <2>4, <2>5, <2>6, <2>7, <2>8 DEF World
<1>3. CASE RecoverExpiredJob
  BY <1>3 DEF RecoverExpiredJob, TypeOK, RowState, DeliveryState
<1>4. CASE LeaseExpires
  <2>1. leaseLive' \in BOOLEAN
    BY <1>4 DEF LeaseExpires
  <2>2. (row \in [Recipients -> RowState])'
    BY <1>4 DEF LeaseExpires, TypeOK
  <2>3. (facts \in [Recipients -> DispatchVetoFacts])'
    BY <1>4 DEF LeaseExpires, TypeOK
  <2>4. (batch \in [Workers -> SUBSET Recipients])'
    BY <1>4 DEF LeaseExpires, TypeOK
  <2>5. QED BY <1>4, <2>1, <2>2, <2>3, <2>4 DEF LeaseExpires, TypeOK
<1>5. ASSUME NEW w \in Workers, ClaimJob(w) PROVE TypeOK'
  BY <1>5 DEF ClaimJob, TypeOK, PC
<1>6. ASSUME NEW w \in Workers, WorkerStep(w) PROVE TypeOK'
  <2>1. CASE Enter(w)
    BY <2>1 DEF Enter, TypeOK, PC, Note
  <2>2. CASE LoadCampaign(w)
    BY <2>2 DEF LoadCampaign, Executable, TypeOK, PC, Note
  <2>3. CASE StartSending(w)
    BY <2>3 DEF StartSending, TypeOK, PC
  <2>4. CASE SelectBatch(w)
    BY <2>4 DEF SelectBatch, NeverAttempted, TypeOK, PC
  <2>5. CASE NextRow(w)
    BY <2>5 DEF NextRow, TypeOK, PC
  <2>6. CASE Gate(w)
    BY <2>6 DEF Gate, TypeOK, PC
  <2>7. CASE CheckLiveFacts(w)
    BY <2>7 DEF CheckLiveFacts, TypeOK, PC
  <2>8. CASE VetoRecipient(w)
    <3>1. row' = row \/ row' = [row EXCEPT ![cur[w]] = "SUPPRESSED"]
      BY <2>8 DEF VetoRecipient
    <3>2. row' \in [Recipients -> RowState]
      BY <3>1, RowStates DEF TypeOK
    <3>3. QED BY <2>8, <3>2 DEF VetoRecipient, TypeOK, PC
  <2>9. CASE ClaimRecipient(w)
    BY <2>9 DEF ClaimRecipient, TypeOK, PC, RowState, DeliveryState
  <2>10. CASE SendCustomer(w)
    <3>1. \A n \in 0 .. 2 : (IF n < 2 THEN n + 1 ELSE 2) \in 0 .. 2
      OBVIOUS
    <3>2. submitted' \in [Recipients -> 0 .. 2]
      BY <2>10, <3>1 DEF SendCustomer, TypeOK
    <3>3. PICK a \in Answers :
            /\ accepted' = IF a.took
                             THEN [accepted EXCEPT ![cur[w]] = TRUE]
                             ELSE accepted
            /\ GotoWith(w, "record", a.answer)
      BY <2>10 DEF SendCustomer
    <3>4. a.answer \in Note
      BY DEF Answers, Note
    <3>5. accepted' \in [Recipients -> BOOLEAN]
      BY <3>3 DEF TypeOK
    <3>6. QED
      BY <2>10, <3>2, <3>3, <3>4, <3>5 DEF SendCustomer, TypeOK, PC
  <2>11. CASE RecordOutcome(w)
    <3>1. OutcomeState(note[w]) \in {"ACCEPTED", "FAILED", "UNCERTAIN"}
      BY DEF OutcomeState
    <3>2. /\ row' \in [Recipients -> RowState]
          /\ hasId' \in [Recipients -> BOOLEAN]
      BY <2>11, <3>1, RowStates DEF RecordOutcome, TypeOK
    <3>3. QED BY <2>11, <3>2 DEF RecordOutcome, TypeOK, PC, Note
  <2>12. CASE CatchSubmission(w)
    <3>1. row' = row \/ row' = [row EXCEPT ![cur[w]] = "UNCERTAIN"]
      BY <2>12 DEF CatchSubmission
    <3>2. row' \in [Recipients -> RowState]
      BY <3>1, RowStates DEF TypeOK
    <3>3. QED BY <2>12, <3>2 DEF CatchSubmission, TypeOK, PC
  <2>13. CASE CountRemaining(w)
    BY <2>13 DEF CountRemaining, TypeOK, PC, Note
  <2>14. CASE CloseCampaign(w)
    BY <2>14 DEF CloseCampaign, CampaignMayMove, CAMPAIGN_TRANSITIONS, TypeOK,
                 PC, Note
  <2>15. CASE CatchTick(w)
    BY <2>15 DEF CatchTick, TypeOK, PC, Note, RowState, DeliveryState
  <2>16. CASE FinishJob(w)
    <3>1. FinishState(note[w]) \in {"PENDING", "SUCCEEDED", "ATTENTION"}
      BY DEF FinishState
    <3>2. /\ job' \in {"NONE", "PENDING", "RUNNING", "ATTENTION",
                       "SUCCEEDED", "CANCELED"}
          /\ owner' \in Workers \union {NoWorker}
          /\ leaseLive' \in BOOLEAN
      BY <2>16, <3>1 DEF FinishJob, TypeOK
    <3>3. asap' \in BOOLEAN
      BY <2>16, Zenon DEF FinishJob, TypeOK
    <3>4. QED BY <2>16, <3>2, <3>3 DEF FinishJob, TypeOK, PC, Note
  <2>17. CASE SendCustomerThrows(w)
    BY <2>17 DEF SendCustomerThrows, TypeOK, PC
  <2>18. QED
    BY <1>6, <2>1, <2>2, <2>3, <2>4, <2>5, <2>6, <2>7, <2>8, <2>9, <2>10,
       <2>11, <2>12, <2>13, <2>14, <2>15, <2>16, <2>17 DEF WorkerStep
<1>7. ASSUME NEW w \in Workers, WorkerFails(w) PROVE TypeOK'
  <2>1. CASE StepThrows(w)
    BY <2>1 DEF StepThrows, TypeOK, PC
  <2>2. CASE SendCustomerThrows(w)
    BY <2>2 DEF SendCustomerThrows, TypeOK, PC
  <2>3. CASE RecordFails(w)
    BY <2>3 DEF RecordFails, TypeOK, PC, Note
  <2>4. CASE SlotRefused(w)
    BY <2>4 DEF SlotRefused, TypeOK, PC
  <2>5. CASE Crash(w)
    BY <2>5 DEF Crash, TypeOK, PC, Note
  <2>6. QED BY <1>7, <2>1, <2>2, <2>3, <2>4, <2>5 DEF WorkerFails
<1>8. CASE UNCHANGED vars
  BY <1>8 DEF vars, TypeOK
<1>9. QED
  BY <1>1, <1>2, <1>3, <1>4, <1>5, <1>6, <1>7, <1>8 DEF Next

LEMMA TypeInit == Init => TypeOK
<1> SUFFICES ASSUME Init PROVE TypeOK
  OBVIOUS
<1>1. facts \in [Recipients -> DispatchVetoFacts]
  BY FactsAssumption DEF Init
<1>2. /\ row \in [Recipients -> RowState]
      /\ attempts \in [Recipients -> {0, 1}]
      /\ hasId \in [Recipients -> BOOLEAN]
      /\ submitted \in [Recipients -> 0 .. 2]
      /\ accepted \in [Recipients -> BOOLEAN]
      /\ lateOptOut \in [Recipients -> BOOLEAN]
      /\ matched \in [Recipients -> BOOLEAN]
  BY RowStates DEF Init
<1>3. /\ pc \in [Workers -> PC]
      /\ seen \in [Workers -> {"none", "SCHEDULED", "SENDING"}]
      /\ batch \in [Workers -> SUBSET Recipients]
      /\ cur \in [Workers -> Recipients \union {NoRecipient}]
      /\ note \in [Workers -> Note]
  BY DEF Init, PC, Note
<1>4. /\ campaign = "DRAFT" /\ clock = "early" /\ job = "NONE"
      /\ owner = NoWorker /\ leaseLive = FALSE /\ asap = FALSE
      /\ revoked = FALSE /\ release = "open"
      /\ segmentActive = TRUE /\ actorActive = TRUE
  BY DEF Init
<1>5. QED BY <1>1, <1>2, <1>3, <1>4 DEF TypeOK

(* Every variable keeps its type, whatever the constants. *)
THEOREM TypeCorrect == Spec => []TypeOK
BY TypeInit, TypeStep, PTL DEF Spec

-----------------------------------------------------------------------------
(* The ledger and its history move only in the steps listed here. *)
LEMMA LedgerFrame ==
    ASSUME [Next]_vars
    PROVE  \/ UNCHANGED <<row, attempts, hasId, submitted, accepted>>
           \/ PrepareDeliveryLedger
           \/ RecoverExpiredJob
           \/ \E w \in Workers :
                \/ VetoRecipient(w) \/ ClaimRecipient(w) \/ SendCustomer(w)
                \/ RecordOutcome(w) \/ CatchSubmission(w) \/ CatchTick(w)
           \/ \E r \in Recipients, type \in ProviderEventType :
                ProviderEvent(r, type)
<1> USE DEF dbVars, envVars, workerVars, ghostVars, jobVars, rowVars
<1>1. CASE Staff
  BY <1>1 DEF Staff, ScheduleCustomerDelivery, CancelCustomerDelivery,
              RescheduleCustomerDelivery, ResumeCustomerDelivery
<1>2. CASE World
  BY <1>2 DEF World, TimePasses, RevokeApproval, ChangeRelease, ToggleSegment,
              DeactivateActor, ChangeFacts, ChangeMatch, EnvOnly
<1>3. CASE LeaseExpires
  BY <1>3 DEF LeaseExpires
<1>4. ASSUME NEW w \in Workers, ClaimJob(w)
      PROVE  UNCHANGED <<row, attempts, hasId, submitted, accepted>>
  BY <1>4 DEF ClaimJob
<1>5. ASSUME NEW w \in Workers, WorkerStep(w),
             ~VetoRecipient(w), ~ClaimRecipient(w), ~SendCustomer(w),
             ~RecordOutcome(w), ~CatchSubmission(w), ~CatchTick(w)
      PROVE  UNCHANGED <<row, attempts, hasId, submitted, accepted>>
  BY <1>5 DEF WorkerStep, Enter, LoadCampaign, StartSending, SelectBatch,
              NextRow, Gate, CheckLiveFacts, CountRemaining, CloseCampaign,
              FinishJob, SendCustomerThrows, ReadOnly
<1>6. ASSUME NEW w \in Workers, WorkerFails(w)
      PROVE  UNCHANGED <<row, attempts, hasId, submitted, accepted>>
  BY <1>6 DEF WorkerFails, StepThrows, SendCustomerThrows, RecordFails,
              SlotRefused, Crash, ReadOnly
<1>7. CASE UNCHANGED vars
  BY <1>7 DEF vars
<1>8. QED BY <1>1, <1>2, <1>3, <1>4, <1>5, <1>6, <1>7 DEF Next

(* An attempt is written before its submission, and never unwritten. *)
LEMMA AttemptStep == IInv /\ [Next]_vars => AttemptInv'
<1> SUFFICES ASSUME IInv, [Next]_vars PROVE AttemptInv'
  OBVIOUS
<1> USE DEF IInv, TypeOK, AttemptInv, Untouched, AllInFlightUncertain,
            Goto, GotoWith
<1>1. CASE UNCHANGED <<row, attempts, hasId, submitted, accepted>>
  BY <1>1
<1>2. CASE PrepareDeliveryLedger
  BY <1>2 DEF PrepareDeliveryLedger, ghostVars
<1>3. CASE RecoverExpiredJob
  BY <1>3 DEF RecoverExpiredJob, ghostVars
<1>4. ASSUME NEW w \in Workers, VetoRecipient(w) PROVE AttemptInv'
  BY <1>4 DEF VetoRecipient, StillUntouched, ghostVars
<1>5. ASSUME NEW w \in Workers, ClaimRecipient(w) PROVE AttemptInv'
  BY <1>5 DEF ClaimRecipient, StillUntouched, ghostVars
<1>6. ASSUME NEW w \in Workers, SendCustomer(w) PROVE AttemptInv'
  BY <1>6 DEF SendCustomer, Answers, dbVars, InHandInv, InHand
<1>7. ASSUME NEW w \in Workers, RecordOutcome(w) PROVE AttemptInv'
  BY <1>7 DEF RecordOutcome, OutcomeState, ghostVars
<1>8. ASSUME NEW w \in Workers, CatchSubmission(w) PROVE AttemptInv'
  BY <1>8 DEF CatchSubmission, ghostVars
<1>9. ASSUME NEW w \in Workers, CatchTick(w) PROVE AttemptInv'
  BY <1>9 DEF CatchTick, ghostVars
<1>10. ASSUME NEW r \in Recipients, NEW type \in ProviderEventType,
              ProviderEvent(r, type)
       PROVE  AttemptInv'
  BY <1>10, EventStateType DEF ProviderEvent, OutcomeInv, Taken
<1>11. QED
  BY <1>1, <1>2, <1>3, <1>4, <1>5, <1>6, <1>7, <1>8, <1>9, <1>10, LedgerFrame

(* A row never claims more than the provider did. *)
LEMMA OutcomeStep == IInv /\ [Next]_vars => OutcomeInv'
<1> SUFFICES ASSUME IInv, [Next]_vars PROVE OutcomeInv'
  OBVIOUS
<1> USE DEF IInv, TypeOK, OutcomeInv, Taken, AllInFlightUncertain, Goto,
            GotoWith
<1>1. CASE UNCHANGED <<row, attempts, hasId, submitted, accepted>>
  BY <1>1
<1>2. CASE PrepareDeliveryLedger
  BY <1>2 DEF PrepareDeliveryLedger, ghostVars
<1>3. CASE RecoverExpiredJob
  BY <1>3 DEF RecoverExpiredJob, ghostVars
<1>4. ASSUME NEW w \in Workers, VetoRecipient(w) PROVE OutcomeInv'
  BY <1>4 DEF VetoRecipient, StillUntouched, ghostVars
<1>5. ASSUME NEW w \in Workers, ClaimRecipient(w) PROVE OutcomeInv'
  BY <1>5 DEF ClaimRecipient, StillUntouched, ghostVars
<1>6. ASSUME NEW w \in Workers, SendCustomer(w) PROVE OutcomeInv'
  BY <1>6 DEF SendCustomer, Answers, dbVars, rowVars, InHandInv, InHand
<1>7. ASSUME NEW w \in Workers, RecordOutcome(w) PROVE OutcomeInv'
  BY <1>7 DEF RecordOutcome, OutcomeState, ghostVars, InHandInv, InHand
<1>8. ASSUME NEW w \in Workers, CatchSubmission(w) PROVE OutcomeInv'
  BY <1>8 DEF CatchSubmission, ghostVars
<1>9. ASSUME NEW w \in Workers, CatchTick(w) PROVE OutcomeInv'
  BY <1>9 DEF CatchTick, ghostVars
<1>10. ASSUME NEW r \in Recipients, NEW type \in ProviderEventType,
              ProviderEvent(r, type)
       PROVE  OutcomeInv'
  BY <1>10, EventStateType DEF ProviderEvent
<1>11. QED
  BY <1>1, <1>2, <1>3, <1>4, <1>5, <1>6, <1>7, <1>8, <1>9, <1>10, LedgerFrame

(* One worker at most owns an attempt. *)
LEMMA InHandStep == IInv /\ [Next]_vars => InHandInv'
<1> SUFFICES ASSUME IInv, TypeOK', [Next]_vars PROVE InHandInv'
  BY TypeStep DEF IInv
<1> USE DEF IInv, TypeOK, InHandInv, AttemptInv, OutcomeInv,
            InHand, Untouched, Taken,
            workerVars, jobVars, rowVars, AllInFlightUncertain, Goto, GotoWith,
            Forget, ReadOnly, EnvOnly, dbVars, envVars, ghostVars
<1>1. CASE Staff
  BY <1>1 DEF Staff, PrepareDeliveryLedger, ScheduleCustomerDelivery,
              CancelCustomerDelivery, Cancelable, RescheduleCustomerDelivery,
              ResumeCustomerDelivery
<1>2. CASE World
  <2>1. CASE \E r \in Recipients, type \in ProviderEventType :
               ProviderEvent(r, type)
    BY <2>1, EventStateType DEF ProviderEvent, CanTransition, ALLOWED
  <2>2. CASE ~\E r \in Recipients, type \in ProviderEventType :
               ProviderEvent(r, type)
    BY <1>2, <2>2 DEF World, TimePasses, RevokeApproval, ChangeRelease,
                      ToggleSegment, DeactivateActor, ChangeFacts, ChangeMatch
  <2>3. QED BY <2>1, <2>2
<1>3. CASE RecoverExpiredJob
  BY <1>3 DEF RecoverExpiredJob
<1>4. CASE LeaseExpires
  BY <1>4 DEF LeaseExpires
<1>5. ASSUME NEW w \in Workers, ClaimJob(w) PROVE InHandInv'
  BY <1>5 DEF ClaimJob
<1>6. ASSUME NEW w \in Workers, WorkerStep(w) PROVE InHandInv'
  <2>1. CASE Enter(w)
    BY <2>1 DEF Enter
  <2>2. CASE LoadCampaign(w)
    BY <2>2 DEF LoadCampaign, Executable
  <2>3. CASE StartSending(w)
    BY <2>3 DEF StartSending, Startable, CampaignMayMove, CAMPAIGN_TRANSITIONS
  <2>4. CASE SelectBatch(w)
    BY <2>4 DEF SelectBatch
  <2>5. CASE NextRow(w)
    BY <2>5 DEF NextRow
  <2>6. CASE Gate(w)
    BY <2>6 DEF Gate
  <2>7. CASE CheckLiveFacts(w)
    BY <2>7 DEF CheckLiveFacts
  <2>8. CASE VetoRecipient(w)
    BY <2>8 DEF VetoRecipient, StillUntouched
  <2>9. CASE ClaimRecipient(w)
    BY <2>9 DEF ClaimRecipient, StillUntouched
  <2>10. CASE SendCustomer(w)
    <3>1. PICK a \in Answers :
            /\ submitted' = [submitted EXCEPT
                               ![cur[w]] = IF @ < 2 THEN @ + 1 ELSE 2]
            /\ accepted' = IF a.took
                             THEN [accepted EXCEPT ![cur[w]] = TRUE]
                             ELSE accepted
            /\ pc' = [pc EXCEPT ![w] = "record"]
            /\ note' = [note EXCEPT ![w] = a.answer]
      BY <2>10 DEF SendCustomer
    <3>2. /\ pc[w] = "submit" /\ UNCHANGED <<row, attempts, cur>>
          /\ cur[w] \in Recipients /\ submitted[cur[w]] = 0
          /\ ~accepted[cur[w]]
      BY <2>10 DEF SendCustomer
    <3>3. /\ a.answer \in {"ACCEPTED", "FAILED", "UNCERTAIN"}
          /\ a.answer = "ACCEPTED" => a.took
          /\ a.answer = "FAILED" => ~a.took
      BY DEF Answers
    <3>4. /\ submitted'[cur[w]] = 1
          /\ accepted'[cur[w]] <=> a.took
      BY <3>1, <3>2
    <3>5. \A v \in Workers : v # w /\ pc[v] \in InHand =>
            /\ cur[v] \in Recipients /\ cur[v] # cur[w]
            /\ submitted'[cur[v]] = submitted[cur[v]]
            /\ accepted'[cur[v]] <=> accepted[cur[v]]
      BY <3>1, <3>2
    <3>6. QED BY <3>1, <3>2, <3>3, <3>4, <3>5
  <2>11. CASE RecordOutcome(w)
    BY <2>11 DEF RecordOutcome, OutcomeState
  <2>12. CASE CatchSubmission(w)
    BY <2>12 DEF CatchSubmission
  <2>13. CASE CountRemaining(w)
    BY <2>13 DEF CountRemaining, Remaining
  <2>14. CASE CloseCampaign(w)
    BY <2>14 DEF CloseCampaign, CampaignMayMove, CAMPAIGN_TRANSITIONS
  <2>15. CASE CatchTick(w)
    BY <2>15 DEF CatchTick
  <2>16. CASE FinishJob(w)
    BY <2>16 DEF FinishJob, FinishState
  <2>17. CASE SendCustomerThrows(w)
    BY <2>17 DEF SendCustomerThrows
  <2>18. QED
    BY <1>6, <2>1, <2>2, <2>3, <2>4, <2>5, <2>6, <2>7, <2>8, <2>9, <2>10,
       <2>11, <2>12, <2>13, <2>14, <2>15, <2>16, <2>17 DEF WorkerStep
<1>7. ASSUME NEW w \in Workers, WorkerFails(w) PROVE InHandInv'
  <2>1. CASE StepThrows(w)
    BY <2>1 DEF StepThrows
  <2>2. CASE SendCustomerThrows(w)
    BY <2>2 DEF SendCustomerThrows
  <2>3. CASE RecordFails(w)
    BY <2>3 DEF RecordFails
  <2>4. CASE SlotRefused(w)
    BY <2>4 DEF SlotRefused
  <2>5. CASE Crash(w)
    BY <2>5 DEF Crash
  <2>6. QED BY <1>7, <2>1, <2>2, <2>3, <2>4, <2>5 DEF WorkerFails
<1>8. CASE UNCHANGED vars
  BY <1>8 DEF vars
<1>9. QED BY <1>1, <1>2, <1>3, <1>4, <1>5, <1>6, <1>7, <1>8 DEF Next

(* The campaign, its rows and its executions advance together. *)
LEMMA PhaseStep == IInv /\ [Next]_vars => PhaseInv'
<1> SUFFICES ASSUME IInv, TypeOK', [Next]_vars PROVE PhaseInv'
  BY TypeStep DEF IInv
<1> USE DEF IInv, TypeOK, PhaseInv, AttemptInv, InHandInv, OutcomeInv,
            Untouched, Taken, Open, Closed, Dispatching, InHand,
            workerVars, jobVars, rowVars, AllInFlightUncertain, Goto, GotoWith,
            Forget, ReadOnly, EnvOnly, dbVars, envVars, ghostVars
<1>1. CASE Staff
  BY <1>1 DEF Staff, PrepareDeliveryLedger, ScheduleCustomerDelivery,
              CancelCustomerDelivery, Cancelable, RescheduleCustomerDelivery,
              ResumeCustomerDelivery
<1>2. CASE World
  <2>1. CASE \E r \in Recipients, type \in ProviderEventType :
               ProviderEvent(r, type)
    BY <2>1, EventStateType DEF ProviderEvent, CanTransition, ALLOWED
  <2>2. CASE ~\E r \in Recipients, type \in ProviderEventType :
               ProviderEvent(r, type)
    BY <1>2, <2>2 DEF World, TimePasses, RevokeApproval, ChangeRelease,
                      ToggleSegment, DeactivateActor, ChangeFacts, ChangeMatch
  <2>3. QED BY <2>1, <2>2
<1>3. CASE RecoverExpiredJob
  BY <1>3 DEF RecoverExpiredJob
<1>4. CASE LeaseExpires
  BY <1>4 DEF LeaseExpires
<1>5. ASSUME NEW w \in Workers, ClaimJob(w) PROVE PhaseInv'
  BY <1>5 DEF ClaimJob
<1>6. ASSUME NEW w \in Workers, WorkerStep(w) PROVE PhaseInv'
  <2>1. CASE Enter(w)
    BY <2>1 DEF Enter
  <2>2. CASE LoadCampaign(w)
    BY <2>2 DEF LoadCampaign, Executable
  <2>3. CASE StartSending(w)
    BY <2>3 DEF StartSending, Startable, CampaignMayMove, CAMPAIGN_TRANSITIONS
  <2>4. CASE SelectBatch(w)
    BY <2>4 DEF SelectBatch
  <2>5. CASE NextRow(w)
    BY <2>5 DEF NextRow
  <2>6. CASE Gate(w)
    BY <2>6 DEF Gate
  <2>7. CASE CheckLiveFacts(w)
    BY <2>7 DEF CheckLiveFacts
  <2>8. CASE VetoRecipient(w)
    BY <2>8 DEF VetoRecipient, StillUntouched
  <2>9. CASE ClaimRecipient(w)
    BY <2>9 DEF ClaimRecipient, StillUntouched
  <2>10. CASE SendCustomer(w)
    BY <2>10 DEF SendCustomer, Answers
  <2>11. CASE RecordOutcome(w)
    BY <2>11 DEF RecordOutcome, OutcomeState
  <2>12. CASE CatchSubmission(w)
    BY <2>12 DEF CatchSubmission
  <2>13. CASE CountRemaining(w)
    BY <2>13 DEF CountRemaining, Remaining
  <2>14. CASE CloseCampaign(w)
    BY <2>14 DEF CloseCampaign, CampaignMayMove, CAMPAIGN_TRANSITIONS
  <2>15. CASE CatchTick(w)
    BY <2>15 DEF CatchTick
  <2>16. CASE FinishJob(w)
    BY <2>16 DEF FinishJob, FinishState
  <2>17. CASE SendCustomerThrows(w)
    BY <2>17 DEF SendCustomerThrows
  <2>18. QED
    BY <1>6, <2>1, <2>2, <2>3, <2>4, <2>5, <2>6, <2>7, <2>8, <2>9, <2>10,
       <2>11, <2>12, <2>13, <2>14, <2>15, <2>16, <2>17 DEF WorkerStep
<1>7. ASSUME NEW w \in Workers, WorkerFails(w) PROVE PhaseInv'
  BY <1>7 DEF WorkerFails, StepThrows, SendCustomerThrows, RecordFails,
              SlotRefused, Crash
<1>8. CASE UNCHANGED vars
  BY <1>8 DEF vars
<1>9. QED BY <1>1, <1>2, <1>3, <1>4, <1>5, <1>6, <1>7, <1>8 DEF Next

(* The job follows the campaign. *)
LEMMA JobStep == IInv /\ [Next]_vars => JobInv'
<1> SUFFICES ASSUME IInv, TypeOK', [Next]_vars PROVE JobInv'
  BY TypeStep DEF IInv
<1> USE DEF IInv, TypeOK, JobInv, PhaseInv, OutcomeInv, Open, Closed,
            Dispatching, Taken,
            workerVars, jobVars, rowVars, AllInFlightUncertain, Goto, GotoWith,
            Forget, ReadOnly, EnvOnly, dbVars, envVars, ghostVars
<1>1. CASE Staff
  BY <1>1 DEF Staff, PrepareDeliveryLedger, ScheduleCustomerDelivery,
              CancelCustomerDelivery, Cancelable, RescheduleCustomerDelivery,
              ResumeCustomerDelivery
<1>2. CASE World
  <2>1. CASE \E r \in Recipients, type \in ProviderEventType :
               ProviderEvent(r, type)
    BY <2>1, EventStateType DEF ProviderEvent, CanTransition, ALLOWED
  <2>2. CASE ~\E r \in Recipients, type \in ProviderEventType :
               ProviderEvent(r, type)
    BY <1>2, <2>2 DEF World, TimePasses, RevokeApproval, ChangeRelease,
                      ToggleSegment, DeactivateActor, ChangeFacts, ChangeMatch
  <2>3. QED BY <2>1, <2>2
<1>3. CASE RecoverExpiredJob
  BY <1>3 DEF RecoverExpiredJob
<1>4. CASE LeaseExpires
  BY <1>4 DEF LeaseExpires
<1>5. ASSUME NEW w \in Workers, ClaimJob(w) PROVE JobInv'
  BY <1>5 DEF ClaimJob
<1>6. ASSUME NEW w \in Workers, WorkerStep(w) PROVE JobInv'
  <2>1. CASE Enter(w)
    BY <2>1 DEF Enter
  <2>2. CASE LoadCampaign(w)
    BY <2>2 DEF LoadCampaign, Executable
  <2>3. CASE StartSending(w)
    BY <2>3 DEF StartSending, Startable, CampaignMayMove, CAMPAIGN_TRANSITIONS
  <2>4. CASE SelectBatch(w)
    BY <2>4 DEF SelectBatch
  <2>5. CASE NextRow(w)
    BY <2>5 DEF NextRow
  <2>6. CASE Gate(w)
    BY <2>6 DEF Gate
  <2>7. CASE CheckLiveFacts(w)
    BY <2>7 DEF CheckLiveFacts
  <2>8. CASE VetoRecipient(w)
    BY <2>8 DEF VetoRecipient, StillUntouched
  <2>9. CASE ClaimRecipient(w)
    BY <2>9 DEF ClaimRecipient, StillUntouched
  <2>10. CASE SendCustomer(w)
    BY <2>10 DEF SendCustomer, Answers
  <2>11. CASE RecordOutcome(w)
    BY <2>11 DEF RecordOutcome, OutcomeState
  <2>12. CASE CatchSubmission(w)
    BY <2>12 DEF CatchSubmission
  <2>13. CASE CountRemaining(w)
    BY <2>13 DEF CountRemaining, Remaining
  <2>14. CASE CloseCampaign(w)
    BY <2>14 DEF CloseCampaign, CampaignMayMove, CAMPAIGN_TRANSITIONS
  <2>15. CASE CatchTick(w)
    BY <2>15 DEF CatchTick
  <2>16. CASE FinishJob(w)
    <3>1. /\ job' \in {"PENDING", "ATTENTION", "SUCCEEDED"} \/ job' = job
          /\ job' = "SUCCEEDED" /\ job # "SUCCEEDED" =>
               /\ note[w] = "DONE"
               /\ \A r \in Recipients : row[r] # "UNCERTAIN"
      BY <2>16 DEF FinishJob, FinishState
    <3>2. UNCHANGED <<campaign, row>> /\ pc[w] = "finish"
      BY <2>16 DEF FinishJob
    <3>3. campaign = "DRAFT" => job' = "NONE"
      BY <2>16 DEF FinishJob, HoldsLease
    <3>4. \A v \in Workers :
            pc'[v] = "finish" => pc[v] = "finish" /\ note'[v] = note[v]
      BY <2>16 DEF FinishJob
    <3>5. job' = "SUCCEEDED" =>
            campaign \in Closed /\ \A r \in Recipients : row[r] # "UNCERTAIN"
      BY <3>1, <3>2
    <3>6. campaign \in {"SCHEDULED", "SENDING"} =>
            job' \in {"PENDING", "RUNNING", "ATTENTION"}
      BY <3>1, <3>5
    <3>7. QED BY <3>2, <3>3, <3>4, <3>5, <3>6
  <2>17. CASE SendCustomerThrows(w)
    BY <2>17 DEF SendCustomerThrows
  <2>18. QED
    BY <1>6, <2>1, <2>2, <2>3, <2>4, <2>5, <2>6, <2>7, <2>8, <2>9, <2>10,
       <2>11, <2>12, <2>13, <2>14, <2>15, <2>16, <2>17 DEF WorkerStep
<1>7. ASSUME NEW w \in Workers, WorkerFails(w) PROVE JobInv'
  BY <1>7 DEF WorkerFails, StepThrows, SendCustomerThrows, RecordFails,
              SlotRefused, Crash
<1>8. CASE UNCHANGED vars
  BY <1>8 DEF vars
<1>9. QED BY <1>1, <1>2, <1>3, <1>4, <1>5, <1>6, <1>7, <1>8 DEF Next

-----------------------------------------------------------------------------
(* The initial state satisfies the inductive invariant. *)
LEMMA IInvInit == Init => IInv
<1> SUFFICES ASSUME Init PROVE IInv
  OBVIOUS
<1>1. TypeOK
  BY TypeInit
<1>2. AttemptInv
  BY DEF Init, AttemptInv, Untouched
<1>3. InHandInv
  BY DEF Init, InHandInv, InHand
<1>4. OutcomeInv
  BY DEF Init, OutcomeInv, Taken
<1>5. PhaseInv
  BY DEF Init, PhaseInv, Dispatching, Closed
<1>6. JobInv
  BY DEF Init, JobInv
<1>7. QED BY <1>1, <1>2, <1>3, <1>4, <1>5, <1>6 DEF IInv

(* Every step keeps the inductive invariant. *)
LEMMA IInvStep == IInv /\ [Next]_vars => IInv'
<1> SUFFICES ASSUME IInv, [Next]_vars PROVE IInv'
  OBVIOUS
<1>1. TypeOK'
  BY TypeStep DEF IInv
<1>2. QED
  BY <1>1, AttemptStep, InHandStep, OutcomeStep, PhaseStep, JobStep DEF IInv

(* The inductive invariant holds in every reachable state. *)
THEOREM InvariantHolds == Spec => []IInv
BY IInvInit, IInvStep, PTL DEF Spec

(* No destination is submitted to the provider twice, however many workers,  *)
(* expired leases, crashes, recoveries and resumptions there are.            *)
THEOREM SubmittedAtMostOnce == Spec => []AtMostOneSubmission
<1>1. IInv => AtMostOneSubmission
  BY DEF IInv, AttemptInv, AtMostOneSubmission
<1>2. QED BY <1>1, InvariantHolds, PTL

(* A canceled or never started campaign attempted and submitted nothing. *)
THEOREM NothingSentUnlessStarted == Spec => []UntouchedUnlessStarted
<1>1. IInv => UntouchedUnlessStarted
  BY DEF IInv, AttemptInv, PhaseInv, UntouchedUnlessStarted
<1>2. QED BY <1>1, InvariantHolds, PTL

(* A campaign reported SENT is settled: no open or doubtful row is left and  *)
(* no execution will still submit.                                           *)
THEOREM SentIsSettled == Spec => []SentMeansSettled
<1>1. IInv => SentMeansSettled
  <2> SUFFICES ASSUME IInv, campaign = "SENT"
               PROVE  /\ \A r \in Recipients :
                           row[r] \notin {"NOROW", "PENDING", "SENDING",
                                         "UNCERTAIN"}
                      /\ \A w \in Workers : pc[w] # "submit"
    BY DEF SentMeansSettled
  <2>1. \A r \in Recipients :
          row[r] \notin {"NOROW", "PENDING", "SENDING", "UNCERTAIN"}
    BY DEF IInv, PhaseInv, Closed, Open
  <2>2. \A w \in Workers :
          pc[w] = "submit" => /\ cur[w] \in Recipients
                              /\ row[cur[w]] \in {"SENDING", "UNCERTAIN"}
    BY DEF IInv, InHandInv, InHand
  <2>3. QED BY <2>1, <2>2
<1>2. QED BY <1>1, InvariantHolds, PTL

(* The ledger never claims more than the provider did. *)
THEOREM LedgerIsTruthful == Spec => []LedgerTellsTruth
<1>1. IInv => LedgerTellsTruth
  BY DEF IInv, TypeOK, AttemptInv, OutcomeInv, Untouched, Taken,
         LedgerTellsTruth
<1>2. QED BY <1>1, InvariantHolds, PTL

(* A campaign under way has a job someone acts on, and a job that succeeded  *)
(* leaves a closed campaign without doubtful rows.                           *)
THEOREM JobFollowsCampaign == Spec => []JobTellsCampaign
<1>1. IInv => JobTellsCampaign
  BY DEF IInv, JobInv, Closed, JobTellsCampaign
<1>2. QED BY <1>1, InvariantHolds, PTL

-----------------------------------------------------------------------------
(* A new fact undoes no opt-out, and one that is new for a row already       *)
(* decided is recorded as late.                                              *)
LEMMA SetFactsOptOut ==
    ASSUME TypeOK, NEW r \in Recipients, NEW f \in DispatchVetoFacts,
           SetFacts(r, f)
    PROVE  /\ \A q \in Recipients \ {r} :
                facts'[q] = facts[q] /\ (lateOptOut'[q] <=> lateOptOut[q])
           /\ lateOptOut[r] => lateOptOut'[r]
           /\ ~OptedOut(facts[r]) /\ OptedOut(facts'[r]) /\ PastDecision(r)
                => lateOptOut'[r]
<1>1. lateOptOut' = [lateOptOut EXCEPT ![r] =
         lateOptOut[r] \/ (~OptedOut(facts[r]) /\ OptedOut(facts'[r]) /\ PastDecision(r))]
  BY Zenon DEF SetFacts, TypeOK
<1>2. lateOptOut'[r] =
         (lateOptOut[r] \/ (~OptedOut(facts[r]) /\ OptedOut(facts'[r]) /\ PastDecision(r)))
  BY <1>1, Zenon DEF TypeOK
<1>3. \A q \in Recipients \ {r} : lateOptOut'[q] = lateOptOut[q]
  BY <1>1, Zenon DEF TypeOK
<1>4. \A q \in Recipients \ {r} : facts'[q] = facts[q]
  BY DEF SetFacts, TypeOK
<1>5. QED BY <1>2, <1>3, <1>4, Zenon

(* Who may send has not opted out: the first veto that holds is reported,    *)
(* and none of the reasons is "SEND".                                        *)
LEMMA MaySendMeans ==
    ASSUME NEW r, MaySend(r) PROVE ~OptedOut(facts[r])
<1> DEFINE v == Vetoes(facts[r], CampaignLanguage, TRUE)
           h(i) == v[i].holds
           First(i) == h(i) /\ \A j \in 1 .. 6 : j < i => ~h(j)
<1>1. \A i \in 1 .. 6 : v[i].reason # "SEND"
  BY DEF Vetoes
<1>2. (\E i \in 1 .. 6 : h(i)) => \E i \in 1 .. 6 : First(i)
  <2> HIDE DEF h
  <2>1. CASE h(1) BY <2>1
  <2>2. CASE ~h(1) /\ h(2) BY <2>2
  <2>3. CASE ~h(1) /\ ~h(2) /\ h(3) BY <2>3
  <2>4. CASE ~h(1) /\ ~h(2) /\ ~h(3) /\ h(4) BY <2>4
  <2>5. CASE ~h(1) /\ ~h(2) /\ ~h(3) /\ ~h(4) /\ h(5) BY <2>5
  <2>6. CASE ~h(1) /\ ~h(2) /\ ~h(3) /\ ~h(4) /\ ~h(5) BY <2>6
  <2>7. QED BY <2>1, <2>2, <2>3, <2>4, <2>5, <2>6
<1>3. ASSUME \E i \in 1 .. 6 : h(i) PROVE FALSE
  <2>1. DecideDispatch(facts[r], CampaignLanguage, TRUE)
          = v[CHOOSE i \in 1 .. 6 : First(i)].reason
    BY <1>3, Zenon DEF DecideDispatch
  <2>2. (CHOOSE i \in 1 .. 6 : First(i)) \in 1 .. 6
    BY <1>2, <1>3, Zenon
  <2>3. QED BY <1>1, <2>1, <2>2, Zenon DEF MaySend
<1>4. ~h(1) /\ ~h(2)
  <2>1. 1 \in 1 .. 6 /\ 2 \in 1 .. 6
    OBVIOUS
  <2>2. QED BY <1>3, <2>1, Zenon
<1>5. QED BY <1>4 DEF Vetoes, OptedOut

(* No row gets past its decision, and no fact changes, except in these steps. *)
NoNewDecision ==
    /\ UNCHANGED <<facts, lateOptOut>>
    /\ \A r \in Recipients : PastDecision(r)' => PastDecision(r)

LEMMA DecisionFrame ==
    ASSUME TypeOK, [Next]_vars
    PROVE  \/ NoNewDecision
           \/ \E w \in Workers : CheckLiveFacts(w)
           \/ \E r \in Recipients, f \in DispatchVetoFacts :
                SetFacts(r, f) /\ UNCHANGED <<workerVars, submitted>>
<1> USE DEF dbVars, envVars, workerVars, ghostVars, jobVars, rowVars,
            NoNewDecision, PastDecision, TypeOK
<1>1. CASE Staff
  BY <1>1 DEF Staff, PrepareDeliveryLedger, ScheduleCustomerDelivery,
              CancelCustomerDelivery, RescheduleCustomerDelivery,
              ResumeCustomerDelivery
<1>2. CASE World
  <2>1. ASSUME NEW r \in Recipients, ChangeFacts(r)
        PROVE  \E f \in DispatchVetoFacts :
                 SetFacts(r, f) /\ UNCHANGED <<workerVars, submitted>>
    BY <2>1, FactsAssumption, Zenon DEF ChangeFacts
  <2>2. ASSUME NEW r \in Recipients, NEW type \in ProviderEventType,
               ProviderEvent(r, type)
        PROVE  \E f \in DispatchVetoFacts :
                 SetFacts(r, f) /\ UNCHANGED <<workerVars, submitted>>
    <3> DEFINE c == ConsequenceOf(type)
               f == [facts[r] EXCEPT
                       !.isSuppressed   = @ \/ c.suppression # "NONE",
                       !.emailStatus    = IF c.markEmailInvalid
                                            THEN "INVALID" ELSE @,
                       !.isUnsubscribed = @ \/ c.unsubscribe]
    <3>1. f \in DispatchVetoFacts
      <4>1. facts[r] \in DispatchVetoFacts
        OBVIOUS
      <4>2. QED BY <4>1 DEF DispatchVetoFacts
    <3>2. SetFacts(r, f) /\ UNCHANGED <<workerVars, submitted>>
      BY <2>2, Zenon DEF ProviderEvent
    <3>3. QED BY <3>1, <3>2, Zenon
  <2>3. CASE TimePasses \/ RevokeApproval \/ ChangeRelease \/ ToggleSegment
    BY <2>3 DEF TimePasses, RevokeApproval, ChangeRelease, ToggleSegment,
                EnvOnly
  <2>4. CASE DeactivateActor
    <3>1. UNCHANGED <<facts, lateOptOut, submitted, cur, pc>>
      BY <2>4, Zenon DEF DeactivateActor, EnvOnly
    <3>2. QED BY <3>1
  <2>5. ASSUME NEW r \in Recipients, ChangeMatch(r) PROVE NoNewDecision
    BY <2>5 DEF ChangeMatch, EnvOnly
  <2>6. QED BY <1>2, <2>1, <2>2, <2>3, <2>4, <2>5, Zenon DEF World
<1>3. CASE RecoverExpiredJob
  BY <1>3 DEF RecoverExpiredJob
<1>4. CASE LeaseExpires
  BY <1>4 DEF LeaseExpires
<1>5. ASSUME NEW w \in Workers, ClaimJob(w) PROVE NoNewDecision
  BY <1>5 DEF ClaimJob, Goto
<1>6. ASSUME NEW w \in Workers, WorkerStep(w), ~CheckLiveFacts(w)
      PROVE  NoNewDecision
  <2>1. CASE SendCustomer(w)
    BY <2>1 DEF SendCustomer, GotoWith, Goto
  <2>2. CASE ClaimRecipient(w)
    BY <2>2 DEF ClaimRecipient, Goto
  <2>3. CASE FinishJob(w)
    BY <2>3 DEF FinishJob, Forget
  <2>4. CASE NextRow(w)
    BY <2>4 DEF NextRow, Goto, ReadOnly
  <2>5. QED
    BY <1>6, <2>1, <2>2, <2>3, <2>4
       DEF WorkerStep, Enter, LoadCampaign, StartSending, SelectBatch, Gate,
           VetoRecipient, RecordOutcome, CatchSubmission, CountRemaining,
           CloseCampaign, CatchTick, SendCustomerThrows, ReadOnly, GotoWith,
           Goto
<1>7. ASSUME NEW w \in Workers, WorkerFails(w) PROVE NoNewDecision
  BY <1>7 DEF WorkerFails, StepThrows, SendCustomerThrows, RecordFails,
              SlotRefused, Crash, ReadOnly, Forget, GotoWith, Goto
<1>8. CASE UNCHANGED vars
  BY <1>8 DEF vars
<1>9. QED
  BY <1>1, <1>2, <1>3, <1>4, <1>5, <1>6, <1>7, <1>8, Zenon DEF Next

(* What is past its decision was decided on facts without an opt-out. *)
LEMMA OptOutStep == IInv /\ OptOutInv /\ [Next]_vars => OptOutInv'
<1> SUFFICES ASSUME IInv, OptOutInv, [Next]_vars,
                    NEW r \in Recipients, PastDecision(r)', OptedOut(facts[r])'
             PROVE  lateOptOut'[r]
  BY DEF OptOutInv
<1>1. TypeOK
  BY DEF IInv
<1>2. CASE NoNewDecision
  BY <1>2, Zenon DEF NoNewDecision, OptOutInv
<1>3. ASSUME NEW w \in Workers, CheckLiveFacts(w) PROVE lateOptOut'[r]
  <2>1. UNCHANGED <<facts, lateOptOut, submitted, cur>>
    BY <1>3 DEF CheckLiveFacts, ReadOnly, envVars, ghostVars
  <2>2. CASE PastDecision(r)
    BY <2>1, <2>2, Zenon DEF OptOutInv
  <2>3. CASE ~PastDecision(r)
    <3>1. PICK v \in Workers : cur[v] = r /\ pc'[v] \in {"claim", "submit"}
      BY <2>1, <2>3 DEF PastDecision
    <3>2. v = w /\ MaySend(r)
      BY <1>1, <1>3, <2>3, <3>1 DEF PastDecision, CheckLiveFacts, Goto, TypeOK
    <3>3. ~OptedOut(facts[r])
      BY <3>2, MaySendMeans
    <3>4. QED BY <2>1, <3>3
  <2>4. QED BY <2>2, <2>3
<1>4. ASSUME NEW q \in Recipients, NEW f \in DispatchVetoFacts,
             SetFacts(q, f), UNCHANGED <<workerVars, submitted>>
      PROVE  lateOptOut'[r]
  <2>1. PastDecision(r)
    BY <1>4 DEF PastDecision, workerVars
  <2>2. CASE q = r
    BY <1>1, <1>4, <2>1, <2>2, SetFactsOptOut, Zenon DEF OptOutInv
  <2>3. CASE q # r
    <3>1. r \in Recipients \ {q}
      BY <2>3
    <3>2. facts'[r] = facts[r] /\ (lateOptOut'[r] <=> lateOptOut[r])
      BY <1>1, <1>4, <3>1, SetFactsOptOut, Zenon
    <3>3. QED BY <2>1, <3>2, Zenon DEF OptOutInv
  <2>4. QED BY <2>2, <2>3
<1>5. QED BY <1>1, <1>2, <1>3, <1>4, DecisionFrame, Zenon

LEMMA OptOutInit == Init => OptOutInv
BY DEF Init, OptOutInv, PastDecision

(* An opt-out known when its own row was checked stops the message, however  *)
(* long ago the audience was approved or the batch was read.                 *)
THEOREM OptOutIsHonoured == Spec => []OptOutHonoured
<1>1. OptOutInv => OptOutHonoured
  BY DEF OptOutInv, OptOutHonoured, PastDecision
<1>2. QED BY <1>1, InvariantHolds, OptOutInit, OptOutStep, PTL DEF Spec

-----------------------------------------------------------------------------
(* A revoked approval stays revoked, and a revoked and quiet dispatch        *)
(* submits nothing and stays quiet.                                          *)
LEMMA QuietStep ==
    TypeOK /\ [Next]_vars /\ RevokedAndQuiet
      => RevokedAndQuiet' /\ submitted' = submitted
<1> SUFFICES ASSUME TypeOK, [Next]_vars, RevokedAndQuiet
             PROVE  RevokedAndQuiet' /\ submitted' = submitted
  OBVIOUS
<1> USE DEF dbVars, envVars, workerVars, ghostVars, jobVars, rowVars,
            RevokedAndQuiet, TypeOK
<1>1. CASE Staff
  BY <1>1 DEF Staff, PrepareDeliveryLedger, ScheduleCustomerDelivery,
              CancelCustomerDelivery, RescheduleCustomerDelivery,
              ResumeCustomerDelivery
<1>2. CASE World
  BY <1>2 DEF World, TimePasses, RevokeApproval, ChangeRelease, ToggleSegment,
              DeactivateActor, ChangeFacts, ChangeMatch, ProviderEvent, EnvOnly
<1>3. CASE RecoverExpiredJob
  BY <1>3 DEF RecoverExpiredJob
<1>4. CASE LeaseExpires
  BY <1>4 DEF LeaseExpires
<1>5. ASSUME NEW w \in Workers, ClaimJob(w)
      PROVE  RevokedAndQuiet' /\ submitted' = submitted
  BY <1>5 DEF ClaimJob, Goto
<1>6. ASSUME NEW w \in Workers, WorkerStep(w)
      PROVE  RevokedAndQuiet' /\ submitted' = submitted
  <2>1. pc[w] \notin {"live", "claim", "submit"} /\ ~StillPermitted
    BY DEF StillPermitted
  <2>2. CASE Gate(w)
    BY <2>1, <2>2 DEF Gate, Goto, ReadOnly
  <2>3. CASE FinishJob(w)
    BY <2>3 DEF FinishJob, Forget
  <2>4. QED
    BY <1>6, <2>1, <2>2, <2>3
       DEF WorkerStep, Enter, LoadCampaign, StartSending, SelectBatch, NextRow,
           CheckLiveFacts, VetoRecipient, ClaimRecipient, SendCustomer,
           RecordOutcome, CatchSubmission, CountRemaining, CloseCampaign,
           CatchTick, SendCustomerThrows, ReadOnly, GotoWith, Goto
<1>7. ASSUME NEW w \in Workers, WorkerFails(w)
      PROVE  RevokedAndQuiet' /\ submitted' = submitted
  BY <1>7 DEF WorkerFails, StepThrows, SendCustomerThrows, RecordFails,
              SlotRefused, Crash, ReadOnly, Forget, GotoWith, Goto
<1>8. CASE UNCHANGED vars
  BY <1>8 DEF vars
<1>9. QED BY <1>1, <1>2, <1>3, <1>4, <1>5, <1>6, <1>7, <1>8 DEF Next

(* A revocation ends the campaign's submissions as soon as the rows already  *)
(* past their gate are through: no retry, resumption or recovery reopens it. *)
THEOREM RevocationIsFinal == Spec => RevocationStopsWork
<1>1. TypeOK /\ [Next]_vars =>
        [RevokedAndQuiet => RevokedAndQuiet' /\ submitted' = submitted]_vars
  BY QuietStep
<1>2. QED BY <1>1, TypeCorrect, PTL DEF Spec, RevocationStopsWork

-----------------------------------------------------------------------------
(* The change of one row, as RowsOnlyMoveForward states it. *)
RowMovesForward ==
    \A r \in Recipients :
      row'[r] # row[r] /\ row[r] # "NOROW" =>
        \/ CanTransition(row[r], row'[r])
        \/ row[r] = "PENDING" /\ row'[r] = "SENDING"

(* Every change of a row is a transition of the delivery's state machine:    *)
(* no recovery, catch, late answer or receipt moves a row backwards.         *)
THEOREM RowsNeverMoveBack == Spec => RowsOnlyMoveForward
<1>1. IInv /\ [Next]_vars => RowMovesForward \/ UNCHANGED vars
  <2> SUFFICES ASSUME IInv, [Next]_vars PROVE RowMovesForward
    OBVIOUS
  <2> USE DEF IInv, TypeOK, RowMovesForward, AllInFlightUncertain
  <2>1. CASE UNCHANGED <<row, attempts, hasId, submitted, accepted>>
    BY <2>1
  <2>2. CASE PrepareDeliveryLedger
    BY <2>2 DEF PrepareDeliveryLedger
  <2>3. CASE RecoverExpiredJob
    BY <2>3 DEF RecoverExpiredJob, CanTransition, ALLOWED
  <2>4. ASSUME NEW w \in Workers, VetoRecipient(w) PROVE RowMovesForward
    BY <2>4 DEF VetoRecipient, StillUntouched
  <2>5. ASSUME NEW w \in Workers, ClaimRecipient(w) PROVE RowMovesForward
    BY <2>5 DEF ClaimRecipient, StillUntouched
  <2>6. ASSUME NEW w \in Workers, SendCustomer(w) PROVE RowMovesForward
    BY <2>6 DEF SendCustomer, dbVars, rowVars
  <2>7. ASSUME NEW w \in Workers, RecordOutcome(w) PROVE RowMovesForward
    BY <2>7 DEF RecordOutcome
  <2>8. ASSUME NEW w \in Workers, CatchSubmission(w) PROVE RowMovesForward
    BY <2>8 DEF CatchSubmission, CanTransition, ALLOWED
  <2>9. ASSUME NEW w \in Workers, CatchTick(w) PROVE RowMovesForward
    BY <2>9 DEF CatchTick, CanTransition, ALLOWED
  <2>10. ASSUME NEW r \in Recipients, NEW type \in ProviderEventType,
                ProviderEvent(r, type)
         PROVE  RowMovesForward
    BY <2>10 DEF ProviderEvent
  <2>11. QED
    BY <2>1, <2>2, <2>3, <2>4, <2>5, <2>6, <2>7, <2>8, <2>9, <2>10, LedgerFrame
<1>2. IInv /\ [Next]_vars =>
        [\A r \in Recipients :
           row'[r] # row[r] /\ row[r] # "NOROW" =>
             \/ CanTransition(row[r], row'[r])
             \/ row[r] = "PENDING" /\ row'[r] = "SENDING"]_vars
  BY <1>1 DEF RowMovesForward
<1>3. QED BY <1>2, InvariantHolds, PTL DEF Spec, RowsOnlyMoveForward

-----------------------------------------------------------------------------
(* Refinement of DeliveryPromise. *)

(* What each state of a row means for its destination. *)
LEMMA FateCases ==
    /\ FateOf("NOROW") = "unlisted"
    /\ FateOf("PENDING") = "waiting"
    /\ FateOf("SUPPRESSED") = "dropped"
    /\ \A s \in RowState \ Untouched : FateOf(s) = "attempted"
BY RowStates DEF FateOf, Untouched

(* The campaign, the rows and the submissions move only in these steps. *)
LEMMA PromiseFrame ==
    ASSUME [Next]_vars
    PROVE  \/ UNCHANGED <<campaign, row, submitted>>
           \/ PrepareDeliveryLedger \/ ScheduleCustomerDelivery
           \/ CancelCustomerDelivery \/ RecoverExpiredJob
           \/ \E w \in Workers :
                \/ StartSending(w) \/ VetoRecipient(w) \/ ClaimRecipient(w)
                \/ SendCustomer(w) \/ RecordOutcome(w) \/ CatchSubmission(w)
                \/ CloseCampaign(w) \/ CatchTick(w)
           \/ \E r \in Recipients, type \in ProviderEventType :
                ProviderEvent(r, type)
<1> USE DEF dbVars, envVars, workerVars, ghostVars, jobVars, rowVars
<1>1. CASE Staff
  BY <1>1 DEF Staff, RescheduleCustomerDelivery, ResumeCustomerDelivery
<1>2. CASE World
  BY <1>2 DEF World, TimePasses, RevokeApproval, ChangeRelease, ToggleSegment,
              DeactivateActor, ChangeFacts, ChangeMatch, EnvOnly
<1>3. CASE LeaseExpires
  BY <1>3 DEF LeaseExpires
<1>4. ASSUME NEW w \in Workers, ClaimJob(w)
      PROVE  UNCHANGED <<campaign, row, submitted>>
  BY <1>4 DEF ClaimJob
<1>5. ASSUME NEW w \in Workers, WorkerStep(w),
             ~StartSending(w), ~VetoRecipient(w), ~ClaimRecipient(w),
             ~SendCustomer(w), ~RecordOutcome(w), ~CatchSubmission(w),
             ~CloseCampaign(w), ~CatchTick(w)
      PROVE  UNCHANGED <<campaign, row, submitted>>
  BY <1>5 DEF WorkerStep, Enter, LoadCampaign, SelectBatch, NextRow, Gate,
              CheckLiveFacts, CountRemaining, FinishJob, SendCustomerThrows,
              ReadOnly
<1>6. ASSUME NEW w \in Workers, WorkerFails(w)
      PROVE  UNCHANGED <<campaign, row, submitted>>
  BY <1>6 DEF WorkerFails, StepThrows, SendCustomerThrows, RecordFails,
              SlotRefused, Crash, ReadOnly
<1>7. CASE UNCHANGED vars
  BY <1>7 DEF vars
<1>8. QED BY <1>1, <1>2, <1>3, <1>4, <1>5, <1>6, <1>7 DEF Next

(* A step that leaves every fate, the campaign and the submissions alone is  *)
(* a stutter of the promise.                                                 *)
LEMMA PromiseStutter ==
    ASSUME UNCHANGED <<campaign, submitted>>,
           \A r \in Recipients : FateOf(row'[r]) = FateOf(row[r])
    PROVE  UNCHANGED Promise!promiseVars
BY DEF Promise!promiseVars

LEMMA PromiseStep ==
    IInv /\ [Next]_vars => [Promise!PromiseNext]_(Promise!promiseVars)
<1> SUFFICES ASSUME IInv, [Next]_vars
             PROVE  Promise!PromiseNext \/ UNCHANGED Promise!promiseVars
  OBVIOUS
<1> USE DEF IInv, TypeOK, AttemptInv
<1>1. CASE UNCHANGED <<campaign, row, submitted>>
  BY <1>1, PromiseStutter
<1>2. CASE PrepareDeliveryLedger
  <2>1. campaign = "DRAFT" /\ UNCHANGED <<campaign, submitted>>
    BY <1>2 DEF PrepareDeliveryLedger, PhaseInv, ghostVars
  <2>2. \A r \in Recipients :
          IF FateOf(row[r]) = "unlisted"
            THEN FateOf(row'[r]) \in {"waiting", "dropped"}
            ELSE FateOf(row'[r]) = FateOf(row[r])
    BY <1>2, FateCases DEF PrepareDeliveryLedger, FateOf
  <2>3. \A s : FateOf(s) \in Promise!Fate
    BY DEF FateOf, Promise!Fate
  <2>4. Promise!List
    BY <2>1, <2>2, <2>3 DEF Promise!List
  <2>5. QED BY <2>4 DEF Promise!PromiseNext
<1>3. CASE ScheduleCustomerDelivery
  <2>1. Promise!Commit
    BY <1>3, RowStates DEF ScheduleCustomerDelivery, Promise!Commit, FateOf,
                rowVars, ghostVars
  <2>2. QED BY <2>1 DEF Promise!PromiseNext
<1>4. CASE CancelCustomerDelivery
  <2>1. Promise!CallOff
    BY <1>4 DEF CancelCustomerDelivery, Cancelable, Promise!CallOff, rowVars,
                ghostVars
  <2>2. QED BY <2>1 DEF Promise!PromiseNext
<1>5. CASE RecoverExpiredJob
  <2>1. UNCHANGED <<campaign, submitted>>
    BY <1>5 DEF RecoverExpiredJob, ghostVars
  <2>2. \A r \in Recipients : FateOf(row'[r]) = FateOf(row[r])
    BY <1>5 DEF RecoverExpiredJob, AllInFlightUncertain, FateOf
  <2>3. QED BY <2>1, <2>2, PromiseStutter
<1>6. ASSUME NEW w \in Workers, StartSending(w)
      PROVE  Promise!PromiseNext \/ UNCHANGED Promise!promiseVars
  <2>1. CASE Startable(w)
    <3>1. campaign = "SCHEDULED"
      BY <2>1 DEF Startable, CampaignMayMove, CAMPAIGN_TRANSITIONS
    <3>2. Promise!Begin
      BY <1>6, <2>1, <3>1 DEF StartSending, Promise!Begin, rowVars, ghostVars
    <3>3. QED BY <3>2 DEF Promise!PromiseNext
  <2>2. CASE ~Startable(w)
    BY <1>6, <2>2, PromiseStutter DEF StartSending, rowVars, ghostVars
  <2>3. QED BY <2>1, <2>2
<1>7. ASSUME NEW w \in Workers, VetoRecipient(w)
      PROVE  Promise!PromiseNext \/ UNCHANGED Promise!promiseVars
  <2>1. CASE StillUntouched(cur[w])
    <3> DEFINE r == cur[w]
    <3>1. r \in Recipients /\ row[r] = "PENDING" /\ campaign = "SENDING"
      BY <1>7, <2>1 DEF VetoRecipient, StillUntouched, InHandInv, PhaseInv,
                        Dispatching, Closed, Open
    <3>2. /\ row' = [row EXCEPT ![r] = "SUPPRESSED"]
          /\ UNCHANGED <<campaign, submitted>>
      BY <1>7, <2>1 DEF VetoRecipient, CanTransition, ALLOWED, ghostVars
    <3>3. Promise!Drop(r)
      BY <3>1, <3>2, FateCases DEF Promise!Drop
    <3>4. QED BY <3>1, <3>3 DEF Promise!PromiseNext
  <2>2. CASE ~StillUntouched(cur[w])
    BY <1>7, <2>2, PromiseStutter DEF VetoRecipient, ghostVars
  <2>3. QED BY <2>1, <2>2
<1>8. ASSUME NEW w \in Workers, ClaimRecipient(w)
      PROVE  Promise!PromiseNext \/ UNCHANGED Promise!promiseVars
  <2>1. CASE StillUntouched(cur[w])
    <3> DEFINE r == cur[w]
    <3>1. r \in Recipients /\ row[r] = "PENDING" /\ campaign = "SENDING"
      BY <1>8, <2>1 DEF ClaimRecipient, StillUntouched, InHandInv, PhaseInv,
                        Dispatching, Closed, Open
    <3>2. /\ row' = [row EXCEPT ![r] = "SENDING"]
          /\ UNCHANGED <<campaign, submitted>>
      BY <1>8, <2>1 DEF ClaimRecipient, CanTransition, ALLOWED, ghostVars
    <3>3. FateOf("SENDING") = "attempted"
      BY DEF FateOf
    <3>4. Promise!Attempt(r)
      BY <3>1, <3>2, <3>3, FateCases DEF Promise!Attempt
    <3>5. QED BY <3>1, <3>4 DEF Promise!PromiseNext
  <2>2. CASE ~StillUntouched(cur[w])
    BY <1>8, <2>2, PromiseStutter DEF ClaimRecipient, ghostVars
  <2>3. QED BY <2>1, <2>2
<1>9. ASSUME NEW w \in Workers, SendCustomer(w)
      PROVE  Promise!PromiseNext \/ UNCHANGED Promise!promiseVars
  <2>1. PICK r \in Recipients : r = cur[w]
    BY <1>9 DEF SendCustomer, InHandInv, InHand
  <2>2. submitted[r] = 0 /\ row[r] \in {"SENDING", "UNCERTAIN"}
    BY <1>9, <2>1 DEF SendCustomer, InHandInv, InHand
  <2>3. campaign \in {"SENDING", "FAILED"}
    BY <1>9, <2>2 DEF SendCustomer, PhaseInv, Dispatching, Closed, Open
  <2>4. /\ submitted' = [submitted EXCEPT ![r] = 1]
        /\ UNCHANGED <<campaign, row>>
    BY <1>9, <2>1, <2>2 DEF SendCustomer, dbVars, rowVars
  <2>5. FateOf(row[r]) = "attempted"
    BY <2>2 DEF FateOf
  <2>6. Promise!Mail(r)
    BY <2>2, <2>3, <2>4, <2>5 DEF Promise!Mail
  <2>7. QED BY <2>6 DEF Promise!PromiseNext
<1>10. ASSUME NEW w \in Workers, RecordOutcome(w)
       PROVE  Promise!PromiseNext \/ UNCHANGED Promise!promiseVars
  <2>1. UNCHANGED <<campaign, submitted>>
    BY <1>10 DEF RecordOutcome, ghostVars
  <2>2. \A r \in Recipients : FateOf(row'[r]) = FateOf(row[r])
    BY <1>10 DEF RecordOutcome, OutcomeState, FateOf
  <2>3. QED BY <2>1, <2>2, PromiseStutter
<1>11. ASSUME NEW w \in Workers, CatchSubmission(w)
       PROVE  Promise!PromiseNext \/ UNCHANGED Promise!promiseVars
  <2>1. UNCHANGED <<campaign, submitted>>
    BY <1>11 DEF CatchSubmission, ghostVars
  <2>2. \A r \in Recipients : FateOf(row'[r]) = FateOf(row[r])
    BY <1>11 DEF CatchSubmission, FateOf
  <2>3. QED BY <2>1, <2>2, PromiseStutter
<1>12. ASSUME NEW w \in Workers, CloseCampaign(w)
       PROVE  Promise!PromiseNext \/ UNCHANGED Promise!promiseVars
  <2>1. UNCHANGED <<row, submitted>>
    BY <1>12 DEF CloseCampaign, rowVars, ghostVars
  <2>2. CASE campaign = "SENDING" /\ campaign' # campaign
    <3>1. campaign' \in {"SENT", "FAILED"}
      BY <1>12, <2>2 DEF CloseCampaign, PhaseInv, Closed
    <3>2. \A r \in Recipients : FateOf(row[r]) \in {"attempted", "dropped"}
      BY <1>12 DEF CloseCampaign, PhaseInv, Open, FateOf
    <3>3. Promise!Close
      BY <2>1, <2>2, <3>1, <3>2 DEF Promise!Close
    <3>4. QED BY <3>3 DEF Promise!PromiseNext
  <2>3. CASE campaign' = campaign
    BY <2>1, <2>3, PromiseStutter
  <2>4. QED BY <1>12, <2>2, <2>3 DEF CloseCampaign
<1>13. ASSUME NEW w \in Workers, CatchTick(w)
       PROVE  Promise!PromiseNext \/ UNCHANGED Promise!promiseVars
  <2>1. UNCHANGED <<campaign, submitted>>
    BY <1>13 DEF CatchTick, ghostVars
  <2>2. \A r \in Recipients : FateOf(row'[r]) = FateOf(row[r])
    BY <1>13 DEF CatchTick, AllInFlightUncertain, FateOf
  <2>3. QED BY <2>1, <2>2, PromiseStutter
<1>14. ASSUME NEW r \in Recipients, NEW type \in ProviderEventType,
              ProviderEvent(r, type)
       PROVE  Promise!PromiseNext \/ UNCHANGED Promise!promiseVars
  <2>1. UNCHANGED <<campaign, submitted>>
    BY <1>14 DEF ProviderEvent
  <2>2. \A q \in Recipients : FateOf(row'[q]) = FateOf(row[q])
    BY <1>14, EventStateType DEF ProviderEvent, OutcomeInv, Taken, FateOf
  <2>3. QED BY <2>1, <2>2, PromiseStutter
<1>15. QED
  BY <1>1, <1>2, <1>3, <1>4, <1>5, <1>6, <1>7, <1>8, <1>9, <1>10, <1>11,
     <1>12, <1>13, <1>14, PromiseFrame

LEMMA PromiseInitially == Init => Promise!PromiseInit
BY FateCases DEF Init, Promise!PromiseInit

(* CustomerDispatch implements DeliveryPromise for every set of destinations *)
(* and workers.                                                              *)
THEOREM DispatchImplementsPromise == Spec => ImplementsPromise
BY PromiseInitially, PromiseStep, InvariantHolds, PTL
   DEF Spec, ImplementsPromise, Promise!PromiseSpec
=============================================================================
