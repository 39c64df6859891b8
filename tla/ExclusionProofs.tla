-------------------------- MODULE ExclusionProofs ---------------------------
(***************************************************************************)
(* When the processing lease outlives an execution, no event is run twice  *)
(* at a time, and the statuses follow the life cycle.                      *)
(***************************************************************************)
EXTENDS DeliveryProofs

XInv == IInv /\ ExclusiveExecution /\ ExecutionHasLease

(* A step that starts no execution and leaves alone the rows of the events  *)
(* being executed.                                                          *)
LEMMA NoNewExecution ==
    ASSUME XInv,
           \A e \in Events : \A w \in Workers :
              Executing(w, e)' => Executing(w, e) /\ events'[e] = events[e]
    PROVE  ExclusiveExecution' /\ ExecutionHasLease'
<1>1. ExecutionHasLease'
  BY DEF XInv, ExecutionHasLease
<1>2. ExclusiveExecution'
  BY DEF XInv, ExclusiveExecution
<1> QED
  BY <1>1, <1>2

(* A worker's step changes the row of its own event only.                   *)
LEMMA WorkerRow ==
    ASSUME XInv, NEW w \in Workers, WorkerStep(w) \/ WorkerFault(w)
    PROVE  ExclusiveExecution' /\ ExecutionHasLease'
<1> USE DEF XInv, IInv, TypeOK, WorkerTypeOK, WorkerState, StoreTypeOK, EventRow, Calls
<1>1. CASE Claimed(w)
  <2>1. \A v \in Workers : ~Executing(v, worker[w].event)
    BY <1>1 DEF Claimed, ClaimableForProcessing, ExecutionHasLease, DeliveryInv, BusyHasEvent
  <2>2. \A e \in Events : \A v \in Workers : v # w =>
           (Executing(v, e)' => Executing(v, e) /\ events'[e] = events[e])
    BY <1>1, <2>1 DEF Claimed, ClaimForProcessing, SetEvent, Executing
  <2>3. \A e \in Events : Executing(w, e)' =>
           e = worker[w].event /\ events'[e] = [status |-> "processing", lease |-> "live"]
    BY <1>1 DEF Claimed, ClaimForProcessing, SetEvent, Executing
  <2>4. ExecutionHasLease'
    BY <2>2, <2>3 DEF ExecutionHasLease
  <2>5. ExclusiveExecution'
    BY <2>1, <2>2, <2>3 DEF ExclusiveExecution
  <2> QED
    BY <2>4, <2>5
<1>2. ASSUME ~Claimed(w), NEW e \in Events, NEW v \in Workers, Executing(v, e)'
      PROVE  Executing(v, e) /\ events'[e] = events[e]
  <2>1. CASE UNCHANGED events
    <3>1. Executing(v, e)
      <4>1. CASE v # w
        BY <1>2, <4>1
           DEF WorkerStep, WorkerFault, Receive, NotClaimed, ReadStatus, AttemptSucceeds,
               AttemptFails, FinishProcessed, AddDeadLetter, FinishFailed, CallFails, Ack,
               NackRequeue, WorkerCrash, ConnectionLost, Goto, Release, Executing
      <4>2. CASE v = w
        <5>1. CASE AttemptSucceeds(w) \/ AttemptFails(w) \/ AddDeadLetter(w) \/ ConnectionLost(w)
          BY <1>2, <4>2, <5>1
             DEF AttemptSucceeds, AttemptFails, AddDeadLetter, ConnectionLost, Goto, Executing
        <5>2. CASE (\E x \in Events : Receive(w, x)) \/ NotClaimed(w) \/ ReadStatus(w)
                   \/ FinishProcessed(w) \/ FinishFailed(w) \/ CallFails(w)
          BY <1>2, <4>2, <5>2
             DEF Receive, NotClaimed, ReadStatus, FinishProcessed, FinishFailed, CallFails,
                 Goto, Executing
        <5>3. CASE Ack(w) \/ NackRequeue(w) \/ WorkerCrash(w)
          BY <1>2, <4>2, <5>3 DEF Ack, NackRequeue, WorkerCrash, Release, WorkerIdle, Executing
        <5> QED
          BY <1>2, <5>1, <5>2, <5>3 DEF WorkerStep, WorkerFault
      <4> QED
        BY <4>1, <4>2
    <3> QED
      BY <2>1, <3>1
  <2>2. CASE FinishProcessed(w) \/ FinishFailed(w)
    <3>1. v # w /\ Executing(v, e)
      BY <1>2, <2>2 DEF FinishProcessed, FinishFailed, Goto, Executing
    <3>2. worker[w].event # e
      BY <2>2, <3>1 DEF FinishProcessed, FinishFailed, ExclusiveExecution, Executing
    <3> QED
      BY <2>2, <3>1, <3>2
         DEF FinishProcessed, FinishFailed, MarkProcessed, MarkFailed, SetEvent
  <2>3. CASE CallFails(w)
    <3>1. v # w /\ Executing(v, e)
      BY <1>2, <2>3 DEF CallFails, Goto, Executing
    <3>2. CASE worker[w].event # e
      BY <2>3, <3>1, <3>2
         DEF CallFails, ClaimForProcessing, MarkProcessed, MarkFailed, SaveDeadLetter,
             SetEvent, storeVars
    <3>3. CASE worker[w].event = e
      BY <2>3, <3>1, <3>3
         DEF CallFails, ClaimableForProcessing, ClaimForProcessing, SaveDeadLetter,
             ExclusiveExecution, ExecutionHasLease, Executing, storeVars
    <3> QED
      BY <3>2, <3>3
  <2> QED
    BY <1>2, <2>1, <2>2, <2>3
       DEF WorkerStep, WorkerFault, Receive, NotClaimed, ReadStatus, AttemptSucceeds,
           AttemptFails, AddDeadLetter, SaveDeadLetter, Ack, NackRequeue, WorkerCrash,
           ConnectionLost, storeVars
<1>3. CASE ~Claimed(w)
  BY <1>2, <1>3, NoNewExecution
<1> QED
  BY <1>1, <1>3

(* Outside the workers, a row of events changes by acceptance, by a replay  *)
(* of a failed event and by the expiry of the processing lease.             *)
LEMMA ReplayRow ==
    ASSUME NEW r, \/ ReplayStep(r) \/ ReplayRollback(r)
                  \/ SchedulerStep(r) \/ SchedulerFault(r)
    PROVE  UNCHANGED events \/ ReplayCommit(r)
BY DEF ReplayStep, ReplayRollback, ReplayRead, ReplayMiss, ReplayCommitMissed, SchedulerStep,
       SchedulerFault, ClaimDue, RetryItem, RetryRefused, RetryMiss, RetryCommit, Reschedule,
       RetryError, RescheduleError, SchedulerCrash, ClaimRetryableDeadLetterDetails,
       RescheduleDeadLetterRetryWithDelay, storeVars

(* A step that no worker takes and that changes only events not executed.   *)
LEMMA OthersKeepExclusion ==
    ASSUME XInv, UNCHANGED worker,
           \A e \in Events : \/ events'[e] = events[e]
                             \/ events[e].status # "processing"
                             \/ \A w \in Workers : ~Executing(w, e)
    PROVE  ExclusiveExecution' /\ ExecutionHasLease'
<1>1. \A e \in Events : \A w \in Workers :
         Executing(w, e)' => Executing(w, e) /\ events'[e] = events[e]
  BY DEF XInv, ExecutionHasLease, Executing
<1> QED
  BY <1>1, NoNewExecution

(* Every step keeps exclusion while the processing lease outlasts the       *)
(* execution done under it.                                                 *)
LEMMA NextExclusion ==
    ASSUME ProcessingLeaseSuffices
    PROVE  XInv /\ [Next]_vars => XInv'
<1> SUFFICES ASSUME XInv, [Next]_vars PROVE ExclusiveExecution' /\ ExecutionHasLease'
  BY NextInv DEF XInv
<1> DEFINE Goal == ExclusiveExecution' /\ ExecutionHasLease'
<1>t. events \in [Events -> EventRow]
  BY DEF XInv, IInv, TypeOK, StoreTypeOK
<1>1. ASSUME NEW x \in Events, CreateEvent(x) PROVE Goal
  BY <1>1, <1>t, OthersKeepExclusion DEF CreateEvent, SaveQueuedWithOutbox
<1>2. ASSUME NEW x \in Events, ProcessingLeaseExpires(x) PROVE Goal
  BY <1>2, <1>t, OthersKeepExclusion DEF ProcessingLeaseExpires
<1>3. ASSUME NEW x \in Events, DispatchLeaseExpires(x) \/ RetryDelayElapses(x) PROVE Goal
  BY <1>3, OthersKeepExclusion DEF DispatchLeaseExpires, RetryDelayElapses
<1>4. ASSUME NEW d \in Dispatchers, Dispatch(d) \/ DispatchFault(d) PROVE Goal
  BY <1>4, DispatcherLeaves, OthersKeepExclusion DEF Dispatch, DispatchFault
<1>5. ASSUME NEW w \in Workers, Work(w) \/ WorkFault(w) PROVE Goal
  BY <1>5, WorkerRow DEF Work, WorkFault
<1>6. ASSUME NEW r, ReplayCommit(r), UNCHANGED worker PROVE Goal
  BY <1>6, <1>t, OthersKeepExclusion DEF ReplayCommit
<1>7. ASSUME NEW r, ManualReplay(r) \/ ManualReplayFault(r) \/ AutoRetry(r) \/ AutoRetryFault(r)
      PROVE  Goal
  BY <1>6, <1>7, ReplayRow, OthersKeepExclusion
     DEF ManualReplay, ManualReplayFault, AutoRetry, AutoRetryFault
<1>8. CASE UNCHANGED vars
  BY <1>8, OthersKeepExclusion DEF vars
<1> QED
  BY <1>1, <1>2, <1>3, <1>4, <1>5, <1>7, <1>8 DEF Next, Step, Fault, RetryFault

(* Nobody executes anything initially.                                      *)
LEMMA InitExclusion == Init => XInv
<1> SUFFICES ASSUME Init PROVE ExclusiveExecution /\ ExecutionHasLease
  BY InitInv DEF XInv
<1> QED
  BY DEF Init, WorkerInit, WorkerIdle, Executing, ExclusiveExecution, ExecutionHasLease

(***************************************************************************)
(* Workers never run the same event at the same time, for any number of    *)
(* replicas, copies, redeliveries, replays and crashes, provided that the  *)
(* processing lease is longer than the execution it covers.                *)
(***************************************************************************)
THEOREM Exclusion ==
    ASSUME ProcessingLeaseSuffices
    PROVE  Spec => []ExclusiveExecution
<1>1. XInv /\ [Next]_vars => XInv'
  BY NextExclusion
<1>2. XInv => ExclusiveExecution
  BY DEF XInv
<1> QED
  BY <1>1, <1>2, InitExclusion, PTL DEF Spec

(***************************************************************************)
(* Under the same assumption an event being executed is processing under a *)
(* lease that has not expired, so that no claim of it succeeds.            *)
(***************************************************************************)
THEOREM ExecutionIsLeased ==
    ASSUME ProcessingLeaseSuffices
    PROVE  Spec => []ExecutionHasLease
<1>1. XInv /\ [Next]_vars => XInv'
  BY NextExclusion
<1>2. XInv => ExecutionHasLease
  BY DEF XInv
<1> QED
  BY <1>1, <1>2, InitExclusion, PTL DEF Spec

-----------------------------------------------------------------------------
(* Refinement of the life cycle.                                            *)

(* Writing one row of the events table moves one status of the life cycle.  *)
LEMMA StatusMove ==
    ASSUME events \in [Events -> EventRow], NEW e \in Events, NEW to, NEW l,
           events' = [events EXCEPT ![e] = [status |-> to, lease |-> l]]
    PROVE  EventStatus' = [EventStatus EXCEPT ![e] = to] /\ EventStatus[e] = events[e].status
BY DEF EventStatus, EventRow

(* What a worker writes to the events table is a move of the life cycle:    *)
(* it writes only under the lease of its own claim.                         *)
LEMMA WorkerFollows ==
    ASSUME XInv, NEW w \in Workers, WorkerStep(w) \/ WorkerFault(w)
    PROVE  Lifecycle!LifecycleNext \/ UNCHANGED EventStatus
<1> DEFINE e == worker[w].event
<1>t. events \in [Events -> EventRow] /\ (worker[w].pc # "idle" => e \in Events)
  BY DEF XInv, IInv, TypeOK, StoreTypeOK, DeliveryInv, BusyHasEvent
<1>0. CASE UNCHANGED events
  BY <1>0 DEF EventStatus
<1>1. CASE worker[w].pc = "claim" /\ ClaimableForProcessing(e) /\ ClaimForProcessing(e)
  <2>1. EventStatus' = [EventStatus EXCEPT ![e] = "processing"]
        /\ EventStatus[e] = events[e].status /\ e \in Events
    BY <1>1, <1>t, StatusMove DEF ClaimForProcessing, SetEvent
  <2>2. CASE events[e].status = "queued"
    BY <2>1, <2>2 DEF Lifecycle!LifecycleNext, Lifecycle!Start, Lifecycle!Move
  <2>3. CASE events[e].status = "processing"
    BY <2>1, <2>3 DEF EventStatus
  <2> QED
    BY <1>1, <2>2, <2>3 DEF ClaimableForProcessing
<1>2. CASE worker[w].pc = "markProcessed" /\ MarkProcessed(e)
  <2>1. EventStatus' = [EventStatus EXCEPT ![e] = "processed"]
        /\ EventStatus[e] = events[e].status /\ e \in Events
    BY <1>2, <1>t, StatusMove DEF MarkProcessed, SetEvent
  <2>2. events[e].status = "processing"
    BY <1>2, <2>1 DEF XInv, ExecutionHasLease, Executing
  <2> QED
    BY <2>1, <2>2 DEF Lifecycle!LifecycleNext, Lifecycle!Succeed, Lifecycle!Move
<1>3. CASE worker[w].pc = "markFailed" /\ MarkFailed(e)
  <2>1. EventStatus' = [EventStatus EXCEPT ![e] = "failed"]
        /\ EventStatus[e] = events[e].status /\ e \in Events
    BY <1>3, <1>t, StatusMove DEF MarkFailed, SetEvent
  <2>2. events[e].status = "processing"
    BY <1>3, <2>1 DEF XInv, ExecutionHasLease, Executing
  <2> QED
    BY <2>1, <2>2 DEF Lifecycle!LifecycleNext, Lifecycle!Fail, Lifecycle!Move
<1> QED
  BY <1>0, <1>1, <1>2, <1>3
     DEF WorkerStep, WorkerFault, Receive, Claimed, NotClaimed, ReadStatus, AttemptSucceeds,
         AttemptFails, FinishProcessed, AddDeadLetter, FinishFailed, CallFails, Ack,
         NackRequeue, WorkerCrash, ConnectionLost, SaveDeadLetter, storeVars

(* Every step of the service is a move of the life cycle or leaves every    *)
(* status alone.                                                            *)
LEMMA NextFollows ==
    ASSUME XInv, [Next]_vars
    PROVE  [Lifecycle!LifecycleNext]_EventStatus
<1>t. events \in [Events -> EventRow]
  BY DEF XInv, IInv, TypeOK, StoreTypeOK
<1>0. UNCHANGED events => UNCHANGED EventStatus
  BY DEF EventStatus
<1>1. ASSUME NEW x \in Events, CreateEvent(x) PROVE Lifecycle!LifecycleNext
  <2>1. EventStatus' = [EventStatus EXCEPT ![x] = "queued"] /\ EventStatus[x] = "absent"
    BY <1>1, <1>t, StatusMove DEF CreateEvent, SaveQueuedWithOutbox
  <2> QED
    BY <2>1 DEF Lifecycle!LifecycleNext, Lifecycle!Accept, Lifecycle!Move
<1>2. ASSUME NEW x \in Events,
             DispatchLeaseExpires(x) \/ ProcessingLeaseExpires(x) \/ RetryDelayElapses(x)
      PROVE  UNCHANGED EventStatus
  BY <1>2, <1>t DEF DispatchLeaseExpires, ProcessingLeaseExpires, RetryDelayElapses,
                    EventStatus, EventRow
<1>3. ASSUME NEW d \in Dispatchers, Dispatch(d) \/ DispatchFault(d)
      PROVE  UNCHANGED EventStatus
  BY <1>0, <1>3, DispatcherLeaves DEF Dispatch, DispatchFault
<1>4. ASSUME NEW w \in Workers, Work(w) \/ WorkFault(w)
      PROVE  Lifecycle!LifecycleNext \/ UNCHANGED EventStatus
  BY <1>4, WorkerFollows DEF Work, WorkFault
<1>5. ASSUME NEW r, ReplayCommit(r)
      PROVE  Lifecycle!LifecycleNext \/ UNCHANGED EventStatus
  <2>1. CASE replayer[r].event \in Events
    <3>1. EventStatus' = [EventStatus EXCEPT ![replayer[r].event] = "queued"]
          /\ EventStatus[replayer[r].event] = "failed"
      BY <1>5, <1>t, <2>1, StatusMove DEF ReplayCommit
    <3> QED
      BY <2>1, <3>1 DEF Lifecycle!LifecycleNext, Lifecycle!Replay, Lifecycle!Move
  <2>2. CASE replayer[r].event \notin Events
    BY <1>5, <1>t, <2>2 DEF ReplayCommit, EventStatus
  <2> QED
    BY <2>1, <2>2
<1>6. ASSUME NEW r, ManualReplay(r) \/ ManualReplayFault(r) \/ AutoRetry(r) \/ AutoRetryFault(r)
      PROVE  Lifecycle!LifecycleNext \/ UNCHANGED EventStatus
  BY <1>0, <1>5, <1>6, ReplayRow
     DEF ManualReplay, ManualReplayFault, AutoRetry, AutoRetryFault
<1>7. CASE UNCHANGED vars
  BY <1>0, <1>7 DEF vars
<1> QED
  BY <1>1, <1>2, <1>3, <1>4, <1>6, <1>7 DEF Next, Step, Fault, RetryFault

(***************************************************************************)
(* The service implements the life cycle of an event: with a processing    *)
(* lease longer than an execution, the unconditional MarkProcessed and     *)
(* MarkFailed never overwrite a decided or replayed event.                 *)
(***************************************************************************)
THEOREM RefinesLifecycle ==
    ASSUME ProcessingLeaseSuffices
    PROVE  Spec => FollowsLifecycle
<1>1. XInv /\ [Next]_vars => XInv'
  BY NextExclusion
<1>2. XInv /\ [Next]_vars => [Lifecycle!LifecycleNext]_EventStatus
  BY NextFollows
<1>3. Init => Lifecycle!LifecycleInit
  BY DEF Init, StoreInit, EventStatus, Lifecycle!LifecycleInit
<1> QED
  BY <1>1, <1>2, <1>3, InitExclusion, PTL
     DEF Spec, FollowsLifecycle, Lifecycle!LifecycleSpec
=============================================================================
