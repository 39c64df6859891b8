----------------------- MODULE WebhookProcessorProofs -----------------------
(***************************************************************************)
(* Type correctness of the composed service, and that an accepted event is *)
(* lost in no other way than the overtaken reservation.                    *)
(***************************************************************************)
EXTENDS WebhookProcessor, TLAPS

-----------------------------------------------------------------------------
(* Types of the store statements, whichever process runs them.              *)

(* ClaimForProcessing, MarkProcessed and MarkFailed write well-formed rows. *)
LEMMA SetEventType ==
    ASSUME StoreTypeOK, NEW e, NEW s \in Statuses, NEW l \in Leases, SetEvent(e, s, l)
    PROVE  StoreTypeOK'
BY DEF StoreTypeOK, SetEvent, EventRow

(* So do the statements on the outbox table.                                *)
LEMMA OutboxOpsType ==
    ASSUME StoreTypeOK, NEW e,
           \/ SetPublished(e)
           \/ MarkOutboxFailed(e)
           \/ \E d \in Dispatchers : \E S \in SUBSET Events : ClaimPendingOutbox(d, S)
    PROVE  StoreTypeOK'
<1>1. CASE SetPublished(e)
  BY <1>1 DEF StoreTypeOK, SetPublished, OutboxRow, Leases
<1>2. CASE MarkOutboxFailed(e)
  BY <1>2 DEF StoreTypeOK, MarkOutboxFailed, PendingRow, OutboxRow, Leases
<1>3. ASSUME NEW d \in Dispatchers, NEW S \in SUBSET Events, ClaimPendingOutbox(d, S)
      PROVE  StoreTypeOK'
  <2>1. \A x \in Events : [outbox[x] EXCEPT !.token = d, !.lease = "live"] \in OutboxRow
    BY DEF StoreTypeOK, OutboxRow, Leases
  <2>2. outbox' \in [Events -> OutboxRow]
    BY <1>3, <2>1 DEF StoreTypeOK, ClaimPendingOutbox
  <2> QED
    BY <1>3, <2>2 DEF StoreTypeOK, ClaimPendingOutbox
<1> QED
  BY <1>1, <1>2, <1>3

(* And those on dead_letters; replay_attempts stays within the limit        *)
(* because the claim compares it first.                                     *)
LEMMA DeadLetterOpsType ==
    ASSUME StoreTypeOK, NEW e,
           \/ SaveDeadLetter(e)
           \/ RescheduleDeadLetterRetryWithDelay(e)
           \/ \E S \in SUBSET Events : ClaimRetryableDeadLetterDetails(S)
           \/ ReplayWrites(e) /\ events' \in [Events -> EventRow]
    PROVE  StoreTypeOK'
<1>1. CASE SaveDeadLetter(e)
  BY <1>1 DEF StoreTypeOK, SaveDeadLetter, DeadLetterRow
<1>2. CASE RescheduleDeadLetterRetryWithDelay(e)
  <2>1. \A r \in DeadLetterRow : /\ [r EXCEPT !.retryAt = "later"] \in DeadLetterRow
                                 /\ [r EXCEPT !.retryAt = r.retryAt] \in DeadLetterRow
    BY DEF DeadLetterRow
  <2>2. deadLetters' \in [Events -> DeadLetterRow]
    BY <1>2, <2>1 DEF StoreTypeOK, RescheduleDeadLetterRetryWithDelay
  <2> QED
    BY <1>2, <2>2 DEF StoreTypeOK, RescheduleDeadLetterRetryWithDelay
<1>3. ASSUME NEW S \in SUBSET Events, ClaimRetryableDeadLetterDetails(S)
      PROVE  StoreTypeOK'
  <2>1. \A x \in S : deadLetters[x].attempts + 1 \in 0 .. RetryLimit
    <3> TAKE x \in S
    <3>1. deadLetters[x].attempts < RetryLimit
      BY <1>3 DEF ClaimRetryableDeadLetterDetails, Retryable
    <3>2. deadLetters[x].attempts \in 0 .. RetryLimit
      BY DEF StoreTypeOK, DeadLetterRow
    <3> QED
      BY <3>1, <3>2, StoreAssumption DEF StoreAssumption
  <2> QED
    BY <1>3, <2>1 DEF StoreTypeOK, ClaimRetryableDeadLetterDetails, DeadLetterRow
<1>4. CASE ReplayWrites(e) /\ events' \in [Events -> EventRow]
  <2>1. outbox' \in [Events -> OutboxRow]
    <3>1. PendingRow \in OutboxRow
      BY DEF PendingRow, OutboxRow, Leases
    <3>2. \A r \in OutboxRow : [r EXCEPT !.state = "pending"] \in OutboxRow
      BY DEF OutboxRow
    <3>3. e \in Events => ReopenedRow(e) \in OutboxRow
      BY <3>1, <3>2 DEF StoreTypeOK, ReopenedRow
    <3> QED
      BY <1>4, <3>3 DEF StoreTypeOK, ReplayWrites
  <2>2. deadLetters' \in [Events -> DeadLetterRow]
    <3>1. \A r \in DeadLetterRow : [r EXCEPT !.replayed = TRUE] \in DeadLetterRow
      BY DEF DeadLetterRow
    <3> QED
      BY <1>4, <3>1 DEF StoreTypeOK, ReplayWrites
  <2> QED
    BY <1>4, <2>1, <2>2 DEF StoreTypeOK
<1> QED
  BY <1>1, <1>2, <1>3, <1>4

-----------------------------------------------------------------------------
(* Types of the steps of each process.                                      *)

(* RecordOvertaken gives a Boolean to every event, whatever the step.       *)
LEMMA OvertakenType == RecordOvertaken => overtaken' \in [Events -> BOOLEAN]
BY DEF RecordOvertaken

(* DispatchPending keeps the types of all it touches.                       *)
LEMMA DispatcherType ==
    ASSUME StoreTypeOK, BrokerTypeOK, DispatcherTypeOK, NEW d \in Dispatchers,
           DispatcherStep(d) \/ DispatcherFault(d)
    PROVE  StoreTypeOK' /\ BrokerTypeOK' /\ DispatcherTypeOK'
<1> USE DEF DispatcherTypeOK, DispatcherState, BrokerTypeOK
<1>0. ASSUME UNCHANGED storeVars PROVE StoreTypeOK'
  BY <1>0 DEF StoreTypeOK, storeVars
<1>1. ASSUME NEW S \in SUBSET Events, ClaimBatch(d, S) \/ ClaimBatchLost(d, S)
      PROVE  StoreTypeOK' /\ BrokerTypeOK' /\ DispatcherTypeOK'
  BY <1>1, OutboxOpsType DEF ClaimBatch, ClaimBatchLost
<1>2. ASSUME NEW e \in Events,
             PublishConfirmed(d, e) \/ PublishFailed(d, e) \/ ConfirmLost(d, e)
      PROVE  StoreTypeOK' /\ BrokerTypeOK' /\ DispatcherTypeOK'
  BY <1>0, <1>2 DEF PublishConfirmed, PublishFailed, ConfirmLost, Publish, Taken
<1>3. CASE MarkOutboxPublished(d)
  BY <1>3, OutboxOpsType DEF MarkOutboxPublished, Advance, DispatcherIdle
<1>4. CASE ReservationLost(d) \/ DispatcherCrash(d)
  BY <1>0, <1>4 DEF ReservationLost, DispatcherCrash, Abandon, DispatcherIdle
<1>5. CASE RecordPublishFailure(d)
  BY <1>0, <1>5, OutboxOpsType DEF RecordPublishFailure, Abandon, DispatcherIdle
<1>6. CASE MarkError(d)
  BY <1>0, <1>6, OutboxOpsType DEF MarkError, Abandon, DispatcherIdle
<1> QED
  BY <1>1, <1>2, <1>3, <1>4, <1>5, <1>6 DEF DispatcherStep, DispatcherFault

(* A returned delivery leaves the queue a count of copies.                  *)
LEMMA RequeueType ==
    ASSUME BrokerTypeOK, NEW e, Requeue(e)
    PROVE  BrokerTypeOK'
<1>1. CASE e \in Events
  BY <1>1 DEF BrokerTypeOK, Requeue
<1>2. CASE e \notin Events
  BY <1>2 DEF BrokerTypeOK, Requeue
<1> QED
  BY <1>1, <1>2

(* handleDelivery keeps the types of all it touches.                        *)
LEMMA WorkerType ==
    ASSUME StoreTypeOK, BrokerTypeOK, WorkerTypeOK, NEW w \in Workers,
           WorkerStep(w) \/ WorkerFault(w)
    PROVE  StoreTypeOK' /\ BrokerTypeOK' /\ WorkerTypeOK'
<1> USE DEF WorkerTypeOK, WorkerState, BrokerTypeOK, Calls
<1>0. ASSUME UNCHANGED storeVars PROVE StoreTypeOK'
  BY <1>0 DEF StoreTypeOK, storeVars
<1>1. ASSUME NEW e,
             ClaimForProcessing(e) \/ MarkProcessed(e) \/ MarkFailed(e) \/ SaveDeadLetter(e)
      PROVE  StoreTypeOK'
  BY <1>1, SetEventType, DeadLetterOpsType
     DEF ClaimForProcessing, MarkProcessed, MarkFailed, Statuses, Leases
<1>2. ASSUME NEW e \in Events, Receive(w, e)
      PROVE  StoreTypeOK' /\ BrokerTypeOK' /\ WorkerTypeOK'
  BY <1>0, <1>2 DEF Receive, Deliver
<1>3. CASE Claimed(w)
  <2>1. StoreTypeOK'
    BY <1>1, <1>3 DEF Claimed
  <2>2. WorkerTypeOK'
    <3>1. [worker[w] EXCEPT !.pc = "execute", !.attempt = 1] \in WorkerState
      OBVIOUS
    <3>2. worker' = [worker EXCEPT ![w] = [worker[w] EXCEPT !.pc = "execute", !.attempt = 1]]
      BY <1>3 DEF Claimed
    <3> HIDE DEF WorkerState
    <3> QED
      BY <3>1, <3>2
  <2> QED
    BY <1>3, <2>1, <2>2 DEF Claimed
<1>4. CASE NotClaimed(w) \/ AttemptSucceeds(w) \/ AttemptFails(w)
  BY <1>0, <1>4 DEF NotClaimed, AttemptSucceeds, AttemptFails, Goto
<1>5. CASE ReadStatus(w)
  BY <1>0, <1>5 DEF ReadStatus, Goto
<1>6. CASE FinishProcessed(w) \/ AddDeadLetter(w) \/ FinishFailed(w)
  BY <1>1, <1>6 DEF FinishProcessed, AddDeadLetter, FinishFailed, Goto
<1>7. CASE CallFails(w)
  BY <1>0, <1>1, <1>7 DEF CallFails, Goto
<1>8. CASE Ack(w) \/ NackRequeue(w) \/ WorkerCrash(w)
  <2>1. ReturnDelivery(w) => BrokerTypeOK'
    BY RequeueType DEF ReturnDelivery
  <2>2. Release(w) => WorkerTypeOK'
    BY DEF Release, WorkerIdle
  <2> QED
    BY <1>0, <1>8, <2>1, <2>2 DEF Ack, NackRequeue, WorkerCrash
<1>9. CASE ConnectionLost(w)
  <2>1. BrokerTypeOK'
    BY <1>9, RequeueType DEF ConnectionLost
  <2>2. WorkerTypeOK'
    BY <1>9 DEF ConnectionLost
  <2> QED
    BY <1>0, <1>9, <2>1, <2>2 DEF ConnectionLost
<1> QED
  BY <1>2, <1>3, <1>4, <1>5, <1>6, <1>7, <1>8, <1>9 DEF WorkerStep, WorkerFault

(* So does the transaction ReplayDeadLetter.                                *)
LEMMA ReplayType ==
    ASSUME StoreTypeOK, ReplayTypeOK, NEW r \in Replayers,
           ReplayStep(r) \/ ReplayRollback(r)
    PROVE  StoreTypeOK' /\ ReplayTypeOK'
<1> USE DEF ReplayTypeOK, ReplayState, ReplayDone, ReplayIdle
<1>0. ASSUME UNCHANGED storeVars PROVE StoreTypeOK'
  BY <1>0 DEF StoreTypeOK, storeVars
<1>1. ASSUME NEW e \in Events, ReplayRead(r, e)
      PROVE  StoreTypeOK' /\ ReplayTypeOK'
  BY <1>0, <1>1 DEF ReplayRead
<1>2. CASE ReplayCommit(r)
  <2>1. events' \in [Events -> EventRow]
    BY <1>2 DEF ReplayCommit, StoreTypeOK, EventRow, Statuses, Leases
  <2> QED
    BY <1>2, <2>1, DeadLetterOpsType DEF ReplayCommit
<1>3. CASE ReplayMiss(r) \/ ReplayRollback(r)
  BY <1>0, <1>3 DEF ReplayMiss, ReplayRollback
<1>4. CASE ReplayCommitMissed(r)
  BY <1>4, DeadLetterOpsType DEF ReplayCommitMissed, StoreTypeOK
<1> QED
  BY <1>1, <1>2, <1>3, <1>4 DEF ReplayStep

(* So does the retry scheduler.                                             *)
LEMMA SchedulerType ==
    ASSUME StoreTypeOK, ReplayTypeOK, SchedulerTypeOK, NEW s \in Schedulers,
           SchedulerStep(s) \/ SchedulerFault(s)
    PROVE  StoreTypeOK' /\ ReplayTypeOK' /\ SchedulerTypeOK'
<1> USE DEF SchedulerTypeOK, SchedulerState
<1>r. s \in Replayers
  BY SchedulersAssumption DEF SchedulersAssumption
<1>0. ASSUME UNCHANGED <<storeVars, replayer>> PROVE StoreTypeOK' /\ ReplayTypeOK'
  BY <1>0 DEF StoreTypeOK, storeVars, ReplayTypeOK
<1>s. Settle(s) => SchedulerTypeOK'
  BY DEF Settle, SchedulerIdle
<1>1. ASSUME NEW S \in SUBSET Events, ClaimDue(s, S)
      PROVE  StoreTypeOK' /\ ReplayTypeOK' /\ SchedulerTypeOK'
  BY <1>1, DeadLetterOpsType DEF ClaimDue, ReplayTypeOK
<1>2. ASSUME NEW e \in Events, RetryItem(s, e)
      PROVE  StoreTypeOK' /\ ReplayTypeOK' /\ SchedulerTypeOK'
  BY <1>2, <1>r, ReplayType DEF RetryItem, Take, ReplayStep
<1>3. ASSUME NEW e \in Events, RetryRefused(s, e)
      PROVE  StoreTypeOK' /\ ReplayTypeOK' /\ SchedulerTypeOK'
  BY <1>0, <1>3 DEF RetryRefused, Take
<1>4. CASE RetryMiss(s)
  BY <1>4, <1>r, ReplayType DEF RetryMiss, ReplayStep
<1>5. CASE RetryCommit(s)
  BY <1>5, <1>r, <1>s, ReplayType DEF RetryCommit, ReplayStep
<1>6. CASE Reschedule(s)
  BY <1>6, <1>s, DeadLetterOpsType DEF Reschedule, ReplayTypeOK
<1>7. CASE RetryError(s)
  BY <1>0, <1>7, <1>r, ReplayType DEF RetryError, Take, ReplayStep
<1>8. CASE RescheduleError(s)
  BY <1>0, <1>8, <1>s DEF RescheduleError
<1>9. CASE SchedulerCrash(s)
  BY <1>9, <1>r DEF SchedulerCrash, SchedulerIdle, StoreTypeOK, storeVars,
                    ReplayTypeOK, ReplayState, ReplayDone, ReplayIdle
<1> QED
  BY <1>1, <1>2, <1>3, <1>4, <1>5, <1>6, <1>7, <1>8, <1>9
     DEF SchedulerStep, SchedulerFault

(* The initial tables, queue and processes are well-formed.                 *)
LEMMA InitType == Init => TypeOK
<1> SUFFICES ASSUME Init PROVE TypeOK
  OBVIOUS
<1>1. StoreTypeOK
  <2>1. events \in [Events -> EventRow]
    BY DEF Init, StoreInit, EventRow, Statuses, Leases
  <2>2. outbox \in [Events -> OutboxRow]
    BY DEF Init, StoreInit, OutboxRow, Leases
  <2>3. deadLetters \in [Events -> DeadLetterRow]
    BY StoreAssumption DEF StoreAssumption, Init, StoreInit, DeadLetterRow
  <2> QED
    BY <2>1, <2>2, <2>3 DEF StoreTypeOK
<1>2. BrokerTypeOK /\ DispatcherTypeOK
  BY DEF Init, BrokerInit, BrokerTypeOK, DispatcherInit, DispatcherTypeOK,
         DispatcherState, DispatcherIdle
<1>3. WorkerTypeOK
  BY DEF Init, WorkerInit, WorkerTypeOK, WorkerState, WorkerIdle
<1>4. ReplayTypeOK /\ SchedulerTypeOK
  BY DEF Init, ReplayInit, ReplayTypeOK, ReplayState, ReplayIdle,
         SchedulerInit, SchedulerTypeOK, SchedulerState, SchedulerIdle
<1> QED
  BY <1>1, <1>2, <1>3, <1>4 DEF TypeOK, Init

(* Every step of the service keeps them so.                                 *)
LEMMA NextType == TypeOK /\ [Next]_vars => TypeOK'
<1> SUFFICES ASSUME TypeOK, [Next]_vars PROVE TypeOK'
  OBVIOUS
<1> USE DEF TypeOK
<1>1. ASSUME NEW e \in Events, CreateEvent(e) PROVE TypeOK'
  <2>1. StoreTypeOK'
    BY <1>1 DEF CreateEvent, SaveQueuedWithOutbox, PendingRow, StoreTypeOK, EventRow,
                OutboxRow, Statuses, Leases
  <2> QED
    BY <1>1, <2>1, OvertakenType
       DEF CreateEvent, BrokerTypeOK, DispatcherTypeOK, WorkerTypeOK, ReplayTypeOK,
           SchedulerTypeOK
<1>2. ASSUME NEW e \in Events,
             DispatchLeaseExpires(e) \/ ProcessingLeaseExpires(e) \/ RetryDelayElapses(e)
      PROVE  TypeOK'
  <2>1. CASE DispatchLeaseExpires(e)
    <3>1. [outbox[e] EXCEPT !.lease = "expired"] \in OutboxRow
      BY DEF StoreTypeOK, OutboxRow, Leases
    <3>2. StoreTypeOK'
      BY <2>1, <3>1 DEF DispatchLeaseExpires, StoreTypeOK
    <3> QED
      BY <2>1, <3>2, OvertakenType
         DEF DispatchLeaseExpires, BrokerTypeOK, DispatcherTypeOK, WorkerTypeOK,
             ReplayTypeOK, SchedulerTypeOK
  <2>2. CASE ProcessingLeaseExpires(e)
    <3>1. [events[e] EXCEPT !.lease = "expired"] \in EventRow
      BY DEF StoreTypeOK, EventRow, Leases
    <3>2. StoreTypeOK'
      BY <2>2, <3>1 DEF ProcessingLeaseExpires, StoreTypeOK
    <3> QED
      BY <2>2, <3>2, OvertakenType
         DEF ProcessingLeaseExpires, BrokerTypeOK, DispatcherTypeOK, WorkerTypeOK,
             ReplayTypeOK, SchedulerTypeOK
  <2>3. CASE RetryDelayElapses(e)
    BY <2>3, OvertakenType
       DEF RetryDelayElapses, StoreTypeOK, DeadLetterRow, BrokerTypeOK,
           DispatcherTypeOK, WorkerTypeOK, ReplayTypeOK, SchedulerTypeOK
  <2> QED
    BY <1>2, <2>1, <2>2, <2>3
<1>3. ASSUME NEW d \in Dispatchers, Dispatch(d) \/ DispatchFault(d) PROVE TypeOK'
  BY <1>3, DispatcherType, OvertakenType
     DEF Dispatch, DispatchFault, WorkerTypeOK, ReplayTypeOK, SchedulerTypeOK
<1>4. ASSUME NEW w \in Workers, Work(w) \/ WorkFault(w) PROVE TypeOK'
  BY <1>4, WorkerType, OvertakenType
     DEF Work, WorkFault, DispatcherTypeOK, ReplayTypeOK, SchedulerTypeOK
<1>5. ASSUME NEW r \in Replayers, ManualReplay(r) \/ ManualReplayFault(r) PROVE TypeOK'
  BY <1>5, ReplayType, OvertakenType
     DEF ManualReplay, ManualReplayFault, BrokerTypeOK, DispatcherTypeOK, WorkerTypeOK,
         SchedulerTypeOK
<1>6. ASSUME NEW s \in Schedulers, AutoRetry(s) \/ AutoRetryFault(s) PROVE TypeOK'
  BY <1>6, SchedulerType, OvertakenType
     DEF AutoRetry, AutoRetryFault, BrokerTypeOK, DispatcherTypeOK, WorkerTypeOK
<1>7. CASE UNCHANGED vars
  BY <1>7 DEF vars, StoreTypeOK, BrokerTypeOK, DispatcherTypeOK, WorkerTypeOK,
              ReplayTypeOK, SchedulerTypeOK
<1> QED
  BY <1>1, <1>2, <1>3, <1>4, <1>5, <1>6, <1>7 DEF Next, Step, Fault, RetryFault

(***************************************************************************)
(* Every variable keeps its type; with it, replay_attempts never exceeds   *)
(* the limit of the schedulers, however many of them run and crash.        *)
(***************************************************************************)
THEOREM TypeCorrect == Spec => []TypeOK
<1>1. Init => TypeOK
  BY InitType
<1>2. TypeOK /\ [Next]_vars => TypeOK'
  BY NextType
<1> QED
  BY <1>1, <1>2, PTL DEF Spec
=============================================================================
