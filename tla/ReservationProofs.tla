------------------------- MODULE ReservationProofs --------------------------
(***************************************************************************)
(* What an installation gains from leases that outlast the work and from   *)
(* keeping replays apart: dispatchers with distinct batches, replays that  *)
(* do what they record, and, without replays, no lost event.               *)
(***************************************************************************)
EXTENDS ExclusionProofs

(* What a dispatcher has in hand is reserved under its token, by a lease    *)
(* that runs.                                                               *)
BatchReserved ==
    \A d \in Dispatchers : \A e \in InHand(d) :
        outbox[e].state # "absent" /\ outbox[e].token = d /\ outbox[e].lease = "live"

(* The message being settled has left the batch.                            *)
MessageTaken == \A d \in Dispatchers : dispatcher[d].msg \notin dispatcher[d].batch

(* Only a stored event has an outbox row or is being replayed, so that      *)
(* acceptance never resets a row in use.                                    *)
RowHasEvent ==
    /\ \A e \in Events : outbox[e].state # "absent" => events[e].status # "absent"
    /\ \A r \in Replayers : replayer[r].pc # "idle" =>
          replayer[r].event \in Events /\ events[replayer[r].event].status # "absent"

BInv == TypeOK /\ BatchReserved /\ MessageTaken /\ RowHasEvent

(* A step that leaves the dispatchers alone and the rows they hold.         *)
LEMMA OthersKeepBatches ==
    ASSUME BInv, UNCHANGED dispatcher,
           \A e \in Events :
              \/ outbox[e].lease # "live"
              \/ \A d \in Dispatchers : e \notin InHand(d)
              \/ /\ outbox'[e].state # "absent"
                 /\ outbox'[e].token = outbox[e].token
                 /\ outbox'[e].lease = outbox[e].lease
    PROVE  BatchReserved' /\ MessageTaken'
<1>1. \A d \in Dispatchers : InHand(d) \subseteq Events
  BY DEF BInv, TypeOK, DispatcherTypeOK, DispatcherState, InHand
<1>2. \A d \in Dispatchers : InHand(d)' = InHand(d)
  BY DEF InHand
<1>3. BatchReserved'
  BY <1>1, <1>2 DEF BInv, BatchReserved
<1>4. MessageTaken'
  BY DEF BInv, MessageTaken
<1> QED
  BY <1>3, <1>4

(* A claim takes rows nobody has in hand, and a settled row leaves the hand *)
(* of its dispatcher in the same step.                                      *)
LEMMA DispatcherKeepsBatches ==
    ASSUME BInv, NEW d \in Dispatchers, DispatcherStep(d) \/ DispatcherFault(d)
    PROVE  BatchReserved' /\ MessageTaken'
<1> USE DEF InHand
<1>t. /\ dispatcher \in [Dispatchers -> DispatcherState]
      /\ outbox \in [Events -> OutboxRow]
      /\ \A c \in Dispatchers : InHand(c) \subseteq Events
  BY DEF BInv, TypeOK, StoreTypeOK, DispatcherTypeOK, DispatcherState
<1>i. BatchReserved /\ MessageTaken
  BY DEF BInv
<1>1. ASSUME NEW S \in SUBSET Events, ClaimBatch(d, S) \/ ClaimBatchLost(d, S)
      PROVE  BatchReserved' /\ MessageTaken'
  <2>1. \A c \in Dispatchers : InHand(c) \cap S = {}
    <3>1. \A e \in S : outbox[e].lease # "live"
      BY <1>1 DEF ClaimBatch, ClaimBatchLost, ClaimPendingOutbox, Claimable
    <3> HIDE DEF InHand
    <3> QED
      BY <1>i, <3>1 DEF BatchReserved
  <2>2. \A e \in Events \ S : outbox'[e] = outbox[e]
    BY <1>1 DEF ClaimBatch, ClaimBatchLost, ClaimPendingOutbox
  <2>3. \A e \in S : outbox'[e].state # "absent" /\ outbox'[e].token = d
                     /\ outbox'[e].lease = "live"
    BY <1>1, <1>t DEF ClaimBatch, ClaimBatchLost, ClaimPendingOutbox, Claimable, OutboxRow
  <2>4. \A c \in Dispatchers : dispatcher'[c] = dispatcher[c]
           \/ (c = d /\ dispatcher'[c].batch = S /\ dispatcher'[c].msg = NoEvent)
    <3>1. CASE ClaimBatch(d, S)
      BY <1>t, <3>1 DEF ClaimBatch
    <3>2. CASE ClaimBatchLost(d, S)
      BY <3>2 DEF ClaimBatchLost
    <3> QED
      BY <1>1, <3>1, <3>2
  <2>5. \A c \in Dispatchers : InHand(c)' = InHand(c) \/ (c = d /\ InHand(c)' = S)
    BY <2>4
  <2>6. BatchReserved'
    BY <1>i, <1>t, <2>1, <2>2, <2>3, <2>5 DEF BatchReserved
  <2>7. MessageTaken'
    BY <1>i, <2>4, EventsAssumption DEF MessageTaken, EventsAssumption
  <2> QED
    BY <2>6, <2>7
<1>2. ASSUME NEW e \in Events,
             PublishConfirmed(d, e) \/ PublishFailed(d, e) \/ ConfirmLost(d, e)
      PROVE  BatchReserved' /\ MessageTaken'
  <2>1. outbox' = outbox /\ e \in dispatcher[d].batch
        /\ (Taken(d, e, "markPublished") \/ Taken(d, e, "markFailed"))
    BY <1>2 DEF PublishConfirmed, PublishFailed, ConfirmLost, storeVars
  <2>2. \A c \in Dispatchers : dispatcher'[c] = dispatcher[c]
           \/ /\ c = d /\ dispatcher'[c].msg = e
              /\ dispatcher'[c].batch = dispatcher[c].batch \ {e}
    BY <1>t, <2>1 DEF Taken
  <2>3. \A c \in Dispatchers : InHand(c)' \subseteq InHand(c)
    BY <2>1, <2>2
  <2> QED
    BY <1>i, <2>1, <2>2, <2>3 DEF BatchReserved, MessageTaken
<1>3. ASSUME MarkOutboxPublished(d)
      PROVE  BatchReserved' /\ MessageTaken'
  <2> DEFINE e == dispatcher[d].msg
  <2>1. outbox[e].token = d /\ e \notin dispatcher[d].batch
    BY <1>3, <1>i DEF MarkOutboxPublished, HoldsReservation, MessageTaken
  <2>2. \A x \in Events : x # e => outbox'[x] = outbox[x]
    BY <1>3, <1>t DEF MarkOutboxPublished, SetPublished
  <2>3. \A c \in Dispatchers : dispatcher'[c] = dispatcher[c]
           \/ /\ c = d /\ dispatcher'[c].msg = NoEvent
              /\ dispatcher'[c].batch = dispatcher[c].batch
    BY <1>3, <1>t DEF MarkOutboxPublished, Advance, DispatcherIdle
  <2>4. \A c \in Dispatchers : InHand(c)' \subseteq InHand(c) \ {e}
    <3>1. InHand(d)' \subseteq InHand(d) \ {e}
      BY <1>3, <1>t, <2>1, <2>3 DEF MarkOutboxPublished, Advance, DispatcherIdle
    <3>2. \A c \in Dispatchers : c # d => e \notin InHand(c)
      BY <1>i, <2>1 DEF BatchReserved
    <3> QED
      BY <2>3, <3>1, <3>2
  <2>5. BatchReserved'
    BY <1>i, <1>t, <2>2, <2>4 DEF BatchReserved
  <2>6. MessageTaken'
    BY <1>i, <1>t, <2>3, EventsAssumption DEF MessageTaken, DispatcherState, EventsAssumption
  <2> QED
    BY <2>5, <2>6
<1>4. ASSUME Abandon(d), UNCHANGED storeVars \/ HoldsReservation(d, dispatcher[d].msg),
             \A x \in Events : x # dispatcher[d].msg => outbox'[x] = outbox[x]
      PROVE  BatchReserved' /\ MessageTaken'
  <2>1. \A c \in Dispatchers : c # d => dispatcher'[c] = dispatcher[c]
    BY <1>4, <1>t DEF Abandon
  <2>2. InHand(d)' = {} /\ dispatcher'[d].msg = NoEvent /\ dispatcher'[d].batch = {}
    BY <1>4, <1>t DEF Abandon, DispatcherIdle
  <2>3. \A c \in Dispatchers : \A x \in InHand(c)' :
           x \in InHand(c) /\ outbox'[x] = outbox[x]
    BY <1>4, <1>i, <1>t, <2>1, <2>2 DEF BatchReserved, HoldsReservation, storeVars
  <2> QED
    BY <1>i, <2>1, <2>2, <2>3 DEF BatchReserved, MessageTaken
<1>5. ASSUME ReservationLost(d) \/ RecordPublishFailure(d) \/ MarkError(d) \/ DispatcherCrash(d)
      PROVE  BatchReserved' /\ MessageTaken'
  <2>1. Abandon(d)
    BY <1>5 DEF ReservationLost, RecordPublishFailure, MarkError, DispatcherCrash
  <2>2. \/ UNCHANGED storeVars
        \/ /\ HoldsReservation(d, dispatcher[d].msg)
           /\ SetPublished(dispatcher[d].msg) \/ MarkOutboxFailed(dispatcher[d].msg)
    BY <1>5 DEF ReservationLost, RecordPublishFailure, MarkError, DispatcherCrash
  <2>3. \A x \in Events : x # dispatcher[d].msg => outbox'[x] = outbox[x]
    BY <1>t, <2>2 DEF SetPublished, MarkOutboxFailed, storeVars
  <2> QED
    BY <1>4, <2>1, <2>2, <2>3
<1> QED
  BY <1>1, <1>2, <1>3, <1>5 DEF DispatcherStep, DispatcherFault

(* Replays keep the reservation of a row they reopen, and insert a row only *)
(* for an event that has none.                                              *)
LEMMA ReplayKeepsReservation ==
    ASSUME BInv, NEW r \in Replayers, NEW e \in Events,
           \/ ReplayStep(r) \/ ReplayRollback(r)
           \/ SchedulerStep(r) \/ SchedulerFault(r)
    PROVE  \/ outbox'[e] = outbox[e]
           \/ /\ outbox'[e].state = "pending"
              /\ outbox[e].state = "absent" \/ outbox'[e].token = outbox[e].token
              /\ outbox[e].state = "absent" \/ outbox'[e].lease = outbox[e].lease
              /\ events[e].status # "absent"
<1>1. CASE UNCHANGED outbox
  BY <1>1
<1>2. CASE replayer[r].pc # "idle" /\ ReplayWrites(replayer[r].event)
  BY <1>2 DEF BInv, TypeOK, StoreTypeOK, OutboxRow, RowHasEvent, ReplayWrites, ReopenedRow,
              PendingRow
<1> QED
  BY <1>1, <1>2
     DEF ReplayStep, ReplayRollback, ReplayRead, ReplayMiss, ReplayCommit, ReplayCommitMissed,
         SchedulerStep, SchedulerFault, ClaimDue, RetryItem, RetryRefused, RetryMiss,
         RetryCommit, Reschedule, RetryError, RescheduleError, SchedulerCrash,
         ClaimRetryableDeadLetterDetails, RescheduleDeadLetterRetryWithDelay, storeVars

(* A worker changes no outbox row, and takes no event back to an earlier    *)
(* status than processing.                                                  *)
LEMMA WorkerWrites ==
    ASSUME events \in [Events -> EventRow], NEW w \in Workers, WorkerStep(w) \/ WorkerFault(w)
    PROVE  /\ outbox' = outbox
           /\ \A e \in Events : \/ events'[e] = events[e]
                                \/ events'[e].status \in {"processing", "processed", "failed"}
<1> DEFINE x == worker[w].event
<1>1. CASE UNCHANGED <<events, outbox>>
  BY <1>1
<1>2. CASE ClaimForProcessing(x) \/ MarkProcessed(x) \/ MarkFailed(x)
  BY <1>2 DEF ClaimForProcessing, MarkProcessed, MarkFailed, SetEvent
<1> QED
  BY <1>1, <1>2
     DEF WorkerStep, WorkerFault, Receive, Claimed, NotClaimed, ReadStatus, AttemptSucceeds,
         AttemptFails, FinishProcessed, AddDeadLetter, FinishFailed, CallFails, Ack,
         NackRequeue, WorkerCrash, ConnectionLost, SaveDeadLetter, storeVars

(* A dispatcher writes to rows that exist.                                  *)
LEMMA DispatcherAddsNoRow ==
    ASSUME outbox \in [Events -> OutboxRow], NEW d \in Dispatchers,
           DispatcherStep(d) \/ DispatcherFault(d), NEW e \in Events, outbox'[e].state # "absent"
    PROVE  outbox[e].state # "absent"
<1>1. CASE \E S \in SUBSET Events : ClaimPendingOutbox(d, S)
  BY <1>1 DEF ClaimPendingOutbox, Claimable
<1>2. CASE /\ HoldsReservation(d, dispatcher[d].msg)
           /\ SetPublished(dispatcher[d].msg) \/ MarkOutboxFailed(dispatcher[d].msg)
  BY <1>2 DEF HoldsReservation, SetPublished, MarkOutboxFailed
<1>3. CASE UNCHANGED outbox
  BY <1>3
<1> QED
  BY <1>1, <1>2, <1>3
     DEF DispatcherStep, DispatcherFault, ClaimBatch, ClaimBatchLost, PublishConfirmed,
         PublishFailed, ConfirmLost, MarkOutboxPublished, ReservationLost,
         RecordPublishFailure, MarkError, DispatcherCrash, storeVars

(* No step makes a stored event absent; a row appears together with its     *)
(* event or for one that is stored.                                         *)
LEMMA StoredStays ==
    ASSUME BInv, [Next]_vars, NEW e \in Events
    PROVE  /\ events[e].status # "absent" => events'[e].status # "absent"
           /\ outbox'[e].state # "absent" =>
                outbox[e].state # "absent" \/ events'[e].status # "absent"
<1>t. events \in [Events -> EventRow] /\ outbox \in [Events -> OutboxRow]
  BY DEF BInv, TypeOK, StoreTypeOK
<1> DEFINE Goal == /\ events[e].status # "absent" => events'[e].status # "absent"
                   /\ outbox'[e].state # "absent" =>
                        outbox[e].state # "absent" \/ events'[e].status # "absent"
<1>1. ASSUME NEW x \in Events,
             \/ CreateEvent(x) \/ DispatchLeaseExpires(x)
             \/ ProcessingLeaseExpires(x) \/ RetryDelayElapses(x)
      PROVE  Goal
  BY <1>1, <1>t DEF CreateEvent, SaveQueuedWithOutbox, DispatchLeaseExpires,
                    ProcessingLeaseExpires, RetryDelayElapses, EventRow, OutboxRow
<1>2. ASSUME NEW d \in Dispatchers, Dispatch(d) \/ DispatchFault(d) PROVE Goal
  BY <1>2, <1>t, DispatcherAddsNoRow, DispatcherLeaves DEF Dispatch, DispatchFault
<1>3. ASSUME NEW w \in Workers, Work(w) \/ WorkFault(w) PROVE Goal
  BY <1>3, <1>t, WorkerWrites DEF Work, WorkFault
<1>4. ASSUME NEW r \in Replayers,
             \/ ReplayStep(r) \/ ReplayRollback(r) \/ SchedulerStep(r) \/ SchedulerFault(r)
      PROVE  Goal
  <2>1. events'[e] = events[e] \/ events'[e].status = "queued"
    BY <1>4, <1>t, ReplayRow DEF ReplayCommit
  <2> QED
    BY <1>4, <2>1, ReplayKeepsReservation
<1>5. CASE UNCHANGED vars
  BY <1>5 DEF vars
<1> QED
  BY <1>1, <1>2, <1>3, <1>4, <1>5, SchedulersAssumption
     DEF Next, Step, Fault, RetryFault, ManualReplay, ManualReplayFault, AutoRetry,
         AutoRetryFault, SchedulersAssumption

(* A replay in progress has read its event, whoever runs it.                *)
LEMMA ReplayHasRead ==
    ASSUME TypeOK, [Next]_vars, NEW r \in Replayers, replayer'[r].pc # "idle"
    PROVE  \/ replayer[r].pc # "idle" /\ replayer'[r].event = replayer[r].event
           \/ replayer'[r].event \in Events /\ events[replayer'[r].event].status = "failed"
<1>t. replayer \in [Replayers -> ReplayState]
  BY DEF TypeOK, ReplayTypeOK
<1>1. ASSUME NEW q \in Replayers,
             \/ ReplayStep(q) \/ ReplayRollback(q) \/ SchedulerStep(q) \/ SchedulerFault(q)
      PROVE  \/ replayer'[r] = replayer[r]
             \/ replayer[r].pc # "idle" /\ replayer'[r].event = replayer[r].event
             \/ replayer'[r].event \in Events /\ events[replayer'[r].event].status = "failed"
  <2>1. CASE UNCHANGED replayer
    BY <2>1
  <2>2. CASE \E e \in Events : ReplayRead(q, e)
    BY <1>t, <2>2 DEF ReplayRead, Replayable
  <2>3. CASE ReplayMiss(q)
    BY <1>t, <2>3 DEF ReplayMiss, ReplayState
  <2>4. CASE ReplayDone(q)
    BY <1>t, <2>4 DEF ReplayDone, ReplayIdle
  <2> QED
    BY <1>1, <2>1, <2>2, <2>3, <2>4
       DEF ReplayStep, ReplayRollback, ReplayCommit, ReplayCommitMissed, SchedulerStep,
           SchedulerFault, ClaimDue, RetryItem, RetryRefused, RetryMiss, RetryCommit,
           Reschedule, RetryError, RescheduleError, SchedulerCrash
<1>2. CASE UNCHANGED replayer
  BY <1>2
<1> QED
  BY <1>1, <1>2, SchedulersAssumption
     DEF Next, Step, Fault, RetryFault, ManualReplay, ManualReplayFault, AutoRetry,
         AutoRetryFault, CreateEvent, DispatchLeaseExpires, ProcessingLeaseExpires,
         RetryDelayElapses, Dispatch, DispatchFault, Work, WorkFault, vars,
         SchedulersAssumption

(* Every step keeps the batches reserved while the dispatch lease outlasts  *)
(* the work on a batch.                                                     *)
LEMMA NextBatches ==
    ASSUME DispatchLeaseSuffices
    PROVE  BInv /\ [Next]_vars => BInv'
<1> SUFFICES ASSUME BInv, [Next]_vars PROVE BInv'
  OBVIOUS
<1> DEFINE Goal == BatchReserved' /\ MessageTaken'
<1>t. /\ outbox \in [Events -> OutboxRow]
      /\ \A d \in Dispatchers : InHand(d) \subseteq Events
  BY DEF BInv, TypeOK, StoreTypeOK, DispatcherTypeOK, DispatcherState, InHand
<1>1. ASSUME NEW x \in Events, CreateEvent(x) PROVE Goal
  <2>1. \A d \in Dispatchers : x \notin InHand(d)
    BY <1>1 DEF BInv, BatchReserved, RowHasEvent, CreateEvent, SaveQueuedWithOutbox
  <2>2. \A e \in Events : e # x => outbox'[e] = outbox[e]
    BY <1>1, <1>t DEF CreateEvent, SaveQueuedWithOutbox
  <2>3. UNCHANGED dispatcher
    BY <1>1 DEF CreateEvent
  <2>4. \A d \in Dispatchers : \A e \in InHand(d) : outbox[e].state # "absent"
    BY DEF BInv, BatchReserved
  <2> QED
    BY <2>1, <2>2, <2>3, <2>4, OthersKeepBatches
<1>2. ASSUME NEW x \in Events, DispatchLeaseExpires(x) PROVE Goal
  <2>1. \A d \in Dispatchers : x \notin InHand(d)
    BY <1>2 DEF DispatchLeaseExpires
  <2>2. \A e \in Events : e # x => outbox'[e] = outbox[e]
    BY <1>2, <1>t DEF DispatchLeaseExpires
  <2>3. \A d \in Dispatchers : \A e \in InHand(d) : outbox[e].state # "absent"
    BY DEF BInv, BatchReserved
  <2> QED
    BY <1>2, <2>1, <2>2, <2>3, OthersKeepBatches DEF DispatchLeaseExpires
<1>3. ASSUME UNCHANGED <<outbox, dispatcher>> PROVE Goal
  <2>1. \A d \in Dispatchers : \A e \in InHand(d) : outbox[e].state # "absent"
    BY DEF BInv, BatchReserved
  <2> QED
    BY <1>3, <2>1, OthersKeepBatches
<1>4. ASSUME NEW d \in Dispatchers, Dispatch(d) \/ DispatchFault(d) PROVE Goal
  BY <1>4, DispatcherKeepsBatches DEF Dispatch, DispatchFault
<1>5. ASSUME NEW w \in Workers, Work(w) \/ WorkFault(w) PROVE Goal
  BY <1>3, <1>5, WorkerWrites DEF Work, WorkFault, BInv, TypeOK, StoreTypeOK
<1>6. ASSUME NEW r \in Replayers, UNCHANGED dispatcher,
             \/ ReplayStep(r) \/ ReplayRollback(r) \/ SchedulerStep(r) \/ SchedulerFault(r)
      PROVE  Goal
  <2>1. \A d \in Dispatchers : \A e \in InHand(d) : outbox[e].state # "absent"
    BY DEF BInv, BatchReserved
  <2> QED
    BY <1>6, <2>1, ReplayKeepsReservation, OthersKeepBatches
<1>7. Goal
  BY <1>1, <1>2, <1>3, <1>4, <1>5, <1>6, SchedulersAssumption
     DEF Next, Step, Fault, RetryFault, ManualReplay, ManualReplayFault, AutoRetry,
         AutoRetryFault, ProcessingLeaseExpires, RetryDelayElapses, vars, SchedulersAssumption
<1>8. RowHasEvent'
  <2>1. \A e \in Events : outbox'[e].state # "absent" => events'[e].status # "absent"
    BY StoredStays DEF BInv, RowHasEvent
  <2>2. ASSUME NEW r \in Replayers, replayer'[r].pc # "idle"
        PROVE  replayer'[r].event \in Events /\ events'[replayer'[r].event].status # "absent"
    BY <2>2, ReplayHasRead, StoredStays DEF BInv, RowHasEvent
  <2> QED
    BY <2>1, <2>2 DEF RowHasEvent
<1> QED
  BY <1>7, <1>8, NextType DEF BInv

(***************************************************************************)
(* Dispatchers never work on the same message at the same time, for any    *)
(* number of replicas, batches, lost answers, crashes and replays,         *)
(* provided that the dispatch lease is longer than the work on a batch.    *)
(***************************************************************************)
THEOREM DistinctDispatch ==
    ASSUME DispatchLeaseSuffices
    PROVE  Spec => []DistinctBatches
<1>1. Init => BInv
  <2> SUFFICES ASSUME Init PROVE BatchReserved /\ MessageTaken /\ RowHasEvent
    BY InitType DEF BInv
  <2>1. \A d \in Dispatchers : dispatcher[d] = DispatcherIdle
    BY DEF Init, DispatcherInit
  <2>2. BatchReserved /\ MessageTaken
    BY <2>1 DEF BatchReserved, MessageTaken, InHand, DispatcherIdle
  <2>3. RowHasEvent
    BY DEF Init, StoreInit, ReplayInit, ReplayIdle, RowHasEvent
  <2> QED
    BY <2>2, <2>3
<1>2. BInv /\ [Next]_vars => BInv'
  BY NextBatches
<1>3. BInv => DistinctBatches
  BY DEF BInv, BatchReserved, DistinctBatches
<1> QED
  BY <1>1, <1>2, <1>3, PTL DEF Spec

-----------------------------------------------------------------------------
(* One replay client.                                                       *)

(* A replay that has read a failed event finds it failed when it writes.    *)
ReadIsCurrent ==
    \A r \in Replayers :
        /\ replayer[r].pc # "missed"
        /\ replayer[r].pc = "found" =>
              replayer[r].event \in Events /\ events[replayer[r].event].status = "failed"

CInv == XInv /\ ReadIsCurrent

(* A worker writes to the events it executes or may claim, never to a       *)
(* failed one.                                                              *)
LEMMA WorkerLeavesFailed ==
    ASSUME XInv, NEW w \in Workers, WorkerStep(w) \/ WorkerFault(w),
           NEW e \in Events, events[e].status = "failed"
    PROVE  events'[e].status = "failed"
<1> DEFINE x == worker[w].event
<1>t. events \in [Events -> EventRow] /\ (worker[w].pc # "idle" => x \in Events)
  BY DEF XInv, IInv, TypeOK, StoreTypeOK, DeliveryInv, BusyHasEvent
<1>1. CASE UNCHANGED events
  BY <1>1
<1>2. CASE worker[w].pc = "claim" /\ ClaimableForProcessing(x) /\ ClaimForProcessing(x)
  BY <1>2, <1>t DEF ClaimableForProcessing, ClaimForProcessing, SetEvent
<1>3. CASE /\ worker[w].pc \in {"markProcessed", "markFailed"}
           /\ MarkProcessed(x) \/ MarkFailed(x)
  <2>1. x # e
    BY <1>3, <1>t DEF XInv, ExecutionHasLease, Executing
  <2> QED
    BY <1>3, <1>t, <2>1 DEF MarkProcessed, MarkFailed, SetEvent
<1> QED
  BY <1>1, <1>2, <1>3
     DEF WorkerStep, WorkerFault, Receive, Claimed, NotClaimed, ReadStatus, AttemptSucceeds,
         AttemptFails, FinishProcessed, AddDeadLetter, FinishFailed, CallFails, Ack,
         NackRequeue, WorkerCrash, ConnectionLost, SaveDeadLetter, storeVars

(* What a replay does with the events and with its own state.               *)
LEMMA ReplayProgress ==
    ASSUME CInv, NEW r \in Replayers,
           \/ ReplayStep(r) \/ ReplayRollback(r) \/ SchedulerStep(r) \/ SchedulerFault(r)
    PROVE  \/ UNCHANGED <<events, replayer>>
           \/ UNCHANGED events /\ \E e \in Events : ReplayRead(r, e)
           \/ UNCHANGED events /\ ReplayDone(r)
           \/ ReplayCommit(r) /\ ReplayDone(r)
<1>1. ~ReplayMiss(r) /\ ~ReplayCommitMissed(r)
  BY DEF CInv, ReadIsCurrent, ReplayMiss, ReplayCommitMissed
<1> QED
  BY <1>1
     DEF ReplayStep, ReplayRollback, ReplayRead, ReplayCommit, SchedulerStep,
         SchedulerFault, ClaimDue, RetryItem, RetryRefused, RetryMiss, RetryCommit,
         Reschedule, RetryError, RescheduleError, SchedulerCrash,
         ClaimRetryableDeadLetterDetails, RescheduleDeadLetterRetryWithDelay, storeVars

(* Every step keeps a replay's read current while only one client replays.  *)
LEMMA NextCurrent ==
    ASSUME ProcessingLeaseSuffices, \A q, r \in Replayers : q = r
    PROVE  CInv /\ [Next]_vars => CInv'
<1> SUFFICES ASSUME CInv, [Next]_vars PROVE ReadIsCurrent'
  BY NextExclusion DEF CInv
<1>t. XInv /\ events \in [Events -> EventRow] /\ replayer \in [Replayers -> ReplayState]
  BY DEF CInv, XInv, IInv, TypeOK, StoreTypeOK, ReplayTypeOK
<1>0. ASSUME UNCHANGED replayer,
             \A e \in Events : events[e].status = "failed" => events'[e].status = "failed"
      PROVE  ReadIsCurrent'
  BY <1>0 DEF CInv, ReadIsCurrent
<1>1. ASSUME NEW x \in Events,
             \/ CreateEvent(x) \/ DispatchLeaseExpires(x)
             \/ ProcessingLeaseExpires(x) \/ RetryDelayElapses(x)
      PROVE  ReadIsCurrent'
  BY <1>0, <1>1, <1>t DEF CreateEvent, SaveQueuedWithOutbox, DispatchLeaseExpires,
                          ProcessingLeaseExpires, RetryDelayElapses, EventRow
<1>2. ASSUME NEW d \in Dispatchers, Dispatch(d) \/ DispatchFault(d) PROVE ReadIsCurrent'
  BY <1>0, <1>2, DispatcherLeaves DEF Dispatch, DispatchFault
<1>3. ASSUME NEW w \in Workers, Work(w) \/ WorkFault(w) PROVE ReadIsCurrent'
  BY <1>0, <1>3, <1>t, WorkerLeavesFailed DEF Work, WorkFault
<1>4. ASSUME NEW r \in Replayers,
             \/ ReplayStep(r) \/ ReplayRollback(r) \/ SchedulerStep(r) \/ SchedulerFault(r)
      PROVE  ReadIsCurrent'
  <2>1. CASE UNCHANGED <<events, replayer>>
    BY <1>0, <2>1
  <2>2. CASE UNCHANGED events /\ \E e \in Events : ReplayRead(r, e)
    BY <1>t, <2>2 DEF CInv, ReadIsCurrent, ReplayRead, Replayable
  <2>3. CASE ReplayDone(r)
    BY <1>t, <2>3 DEF ReadIsCurrent, ReplayDone, ReplayIdle
  <2> QED
    BY <1>4, <2>1, <2>2, <2>3, ReplayProgress
<1>5. CASE UNCHANGED vars
  BY <1>0, <1>5 DEF vars
<1> QED
  BY <1>1, <1>2, <1>3, <1>4, <1>5, SchedulersAssumption
     DEF Next, Step, Fault, RetryFault, ManualReplay, ManualReplayFault, AutoRetry,
         AutoRetryFault, SchedulersAssumption

(* A dead letter becomes replayed by the commit of a replay only.           *)
LEMMA ReplayedByCommit ==
    ASSUME CInv, [Next]_vars, NEW e \in Events,
           ~deadLetters[e].replayed, deadLetters'[e].replayed
    PROVE  \E r \in Replayers : ReplayCommit(r) /\ replayer[r].event = e
<1>t. deadLetters \in [Events -> DeadLetterRow]
  BY DEF CInv, XInv, IInv, TypeOK, StoreTypeOK
<1>1. ~ \E x \in Events : \/ CreateEvent(x) \/ DispatchLeaseExpires(x)
                          \/ ProcessingLeaseExpires(x) \/ RetryDelayElapses(x)
  BY <1>t DEF CreateEvent, SaveQueuedWithOutbox, DispatchLeaseExpires,
              ProcessingLeaseExpires, RetryDelayElapses, DeadLetterRow
<1>2. ~ \E d \in Dispatchers : Dispatch(d) \/ DispatchFault(d)
  BY DispatcherLeaves DEF Dispatch, DispatchFault
<1>3. ~ \E w \in Workers : Work(w) \/ WorkFault(w)
  <2>1. ASSUME NEW w \in Workers, WorkerStep(w) \/ WorkerFault(w)
        PROVE  UNCHANGED deadLetters \/ SaveDeadLetter(worker[w].event)
    BY <2>1
       DEF WorkerStep, WorkerFault, Receive, Claimed, NotClaimed, ReadStatus, AttemptSucceeds,
           AttemptFails, FinishProcessed, AddDeadLetter, FinishFailed, CallFails, Ack,
           NackRequeue, WorkerCrash, ConnectionLost, ClaimForProcessing, MarkProcessed,
           MarkFailed, SetEvent, storeVars
  <2>2. \A x : ~SaveDeadLetter(x)
    BY <1>t DEF SaveDeadLetter
  <2> QED
    BY <2>1, <2>2 DEF Work, WorkFault
<1>4. ASSUME NEW r \in Replayers,
             \/ ReplayStep(r) \/ ReplayRollback(r) \/ SchedulerStep(r) \/ SchedulerFault(r)
      PROVE  ReplayCommit(r) /\ replayer[r].event = e
  <2>1. ~ \E S \in SUBSET Events : ClaimRetryableDeadLetterDetails(S)
    <3> SUFFICES ASSUME NEW S \in SUBSET Events, ClaimRetryableDeadLetterDetails(S) PROVE FALSE
      OBVIOUS
    <3>1. \/ deadLetters'[e] = deadLetters[e]
          \/ deadLetters'[e] = [deadLetters[e] EXCEPT !.attempts = deadLetters[e].attempts + 1,
                                                      !.retryAt = "none"]
      BY DEF ClaimRetryableDeadLetterDetails
    <3>2. deadLetters[e] \in DeadLetterRow
      BY <1>t
    <3> QED
      BY <3>1, <3>2 DEF DeadLetterRow
  <2>2. \A x : ~RescheduleDeadLetterRetryWithDelay(x)
    BY <1>t DEF RescheduleDeadLetterRetryWithDelay, DeadLetterRow
  <2>3. ~UNCHANGED deadLetters
    OBVIOUS
  <2>4. ~ReplayCommitMissed(r)
    BY DEF CInv, ReadIsCurrent, ReplayCommitMissed
  <2>5. ReplayCommit(r)
    BY <1>4, <2>1, <2>2, <2>3, <2>4
       DEF ReplayStep, ReplayRollback, ReplayRead, ReplayMiss, SchedulerStep, SchedulerFault,
           ClaimDue, RetryItem, RetryRefused, RetryMiss, RetryCommit, Reschedule, RetryError,
           RescheduleError, SchedulerCrash, storeVars
  <2>6. replayer[r].event = e
    BY <1>t, <2>5 DEF ReplayCommit, ReplayWrites
  <2> QED
    BY <2>5, <2>6
<1>5. CASE UNCHANGED vars
  BY <1>5 DEF vars
<1> QED
  BY <1>1, <1>2, <1>3, <1>4, <1>5, SchedulersAssumption
     DEF Next, Step, Fault, RetryFault, ManualReplay, ManualReplayFault, AutoRetry,
         AutoRetryFault, SchedulersAssumption

(***************************************************************************)
(* With one replay client and a processing lease longer than an execution, *)
(* ReplayDeadLetter sets replayed_at only together with the return of the  *)
(* event to queued: its read without a lock is never out of date when it   *)
(* writes.                                                                 *)
(***************************************************************************)
THEOREM SoleReplayRequeues ==
    ASSUME ProcessingLeaseSuffices, \A q, r \in Replayers : q = r
    PROVE  Spec => ReplayRequeues
<1>1. Init => CInv
  <2>1. Init => ReadIsCurrent
    BY DEF Init, ReplayInit, ReplayIdle, ReadIsCurrent
  <2> QED
    BY <2>1, InitExclusion DEF CInv
<1>2. CInv /\ [Next]_vars => CInv'
  BY NextCurrent
<1>3. CInv /\ [Next]_vars =>
        [\A e \in Events : ~deadLetters[e].replayed /\ deadLetters'[e].replayed
            => events'[e].status = "queued"]_vars
  <2> SUFFICES ASSUME CInv, [Next]_vars, NEW e \in Events,
                      ~deadLetters[e].replayed, deadLetters'[e].replayed
               PROVE  events'[e].status = "queued"
    OBVIOUS
  <2>1. PICK r \in Replayers : ReplayCommit(r) /\ replayer[r].event = e
    BY ReplayedByCommit
  <2> QED
    BY <2>1 DEF ReplayCommit, CInv, XInv, IInv, TypeOK, StoreTypeOK
<1> QED
  BY <1>1, <1>2, <1>3, PTL DEF Spec, ReplayRequeues

-----------------------------------------------------------------------------
(* No replay client.                                                        *)

(* Without replays no step reopens an event, so nothing is overtaken.       *)
LEMMA NextNotOvertaken ==
    ASSUME Replayers = {}, IInv, \A e \in Events : ~overtaken[e], [Next]_vars
    PROVE  \A e \in Events : ~overtaken'[e]
<1>t. events \in [Events -> EventRow]
  BY DEF IInv, TypeOK, StoreTypeOK
<1>0. ASSUME RecordOvertaken,
             \A e \in Events : events'[e].status = "queued" => events[e].status # "failed"
      PROVE  \A e \in Events : ~overtaken'[e]
  BY <1>0 DEF RecordOvertaken
<1>1. ASSUME NEW x \in Events,
             \/ CreateEvent(x) \/ DispatchLeaseExpires(x)
             \/ ProcessingLeaseExpires(x) \/ RetryDelayElapses(x)
      PROVE  \A e \in Events : ~overtaken'[e]
  <2>1. \A e \in Events : events'[e].status = "queued" => events[e].status # "failed"
    BY <1>1, <1>t DEF CreateEvent, SaveQueuedWithOutbox, DispatchLeaseExpires,
                      ProcessingLeaseExpires, RetryDelayElapses, EventRow
  <2> QED
    BY <1>0, <1>1, <2>1 DEF CreateEvent, DispatchLeaseExpires, ProcessingLeaseExpires,
                            RetryDelayElapses
<1>2. ASSUME NEW d \in Dispatchers, Dispatch(d) \/ DispatchFault(d)
      PROVE  \A e \in Events : ~overtaken'[e]
  BY <1>0, <1>2, DispatcherLeaves DEF Dispatch, DispatchFault
<1>3. ASSUME NEW w \in Workers, Work(w) \/ WorkFault(w)
      PROVE  \A e \in Events : ~overtaken'[e]
  BY <1>0, <1>3, <1>t, WorkerWrites DEF Work, WorkFault
<1>4. CASE UNCHANGED vars
  BY <1>4 DEF vars
<1> QED
  BY <1>1, <1>2, <1>3, <1>4, SchedulersAssumption
     DEF Next, Step, Fault, RetryFault, SchedulersAssumption

(***************************************************************************)
(* An installation that never replays loses nothing: every accepted event  *)
(* that is not decided has an open outbox message or a copy on its way,    *)
(* whatever the leases, for any number of replicas, crashes, lost confirms *)
(* and redeliveries.                                                       *)
(***************************************************************************)
THEOREM NothingStrandedWithoutReplay ==
    ASSUME Replayers = {}
    PROVE  Spec => []NoEventStranded
<1> DEFINE NInv == IInv /\ \A e \in Events : ~overtaken[e]
<1>1. Init => NInv
  BY InitInv DEF Init
<1>2. NInv /\ [Next]_vars => NInv'
  BY NextInv, NextNotOvertaken
<1>3. NInv => NoEventStranded
  BY DEF IInv, StrandedOnlyIfOvertaken, NoEventStranded
<1> QED
  BY <1>1, <1>2, <1>3, PTL DEF Spec
=============================================================================
