---------------------------- MODULE RetryProofs -----------------------------
(***************************************************************************)
(* Automatic retry forgets a dead letter in no other way than a scheduler  *)
(* that stops, or cannot reschedule, between its claim and its replay, and *)
(* a replay that records replayed_at although it requeued nothing.         *)
(***************************************************************************)
EXTENDS ExclusionProofs, RetryHistory

(* Automatic retry still owes the dead letter of e an attempt.              *)
Owed(e) ==
    /\ deadLetters[e].present
    /\ ~deadLetters[e].replayed
    /\ deadLetters[e].attempts < RetryLimit

OwedIsScheduled == \A e \in Events : Owed(e) => Scheduled(e) \/ dropped[e]

(* A scheduler holds its items and its event as its position says, and runs *)
(* a replay only of the event it holds.                                     *)
SchedulerForm ==
    \A s \in Schedulers :
        /\ scheduler[s].pc \in {"idle", "next"} => scheduler[s].event = NoEvent
        /\ scheduler[s].pc = "idle" => scheduler[s].items = {}
        /\ replayer[s].pc # "idle" =>
              scheduler[s].pc = "replay" /\ scheduler[s].event = replayer[s].event

RInv == TypeOK /\ SchedulerForm /\ OwedIsScheduled

(* What a step other than a scheduler's does to a dead letter.              *)
RowKept(e) ==
    /\ deadLetters'[e] = deadLetters[e] \/ deadLetters'[e].retryAt # "none"
       \/ deadLetters'[e].replayed
    /\ Requeued(e) => deadLetters'[e].replayed

-----------------------------------------------------------------------------
(* The record of a dropped claim lasts until next_retry_at is set or the    *)
(* event is requeued.                                                       *)
LEMMA DroppedStays ==
    ASSUME NEW stopped, RecordDropped(stopped), NEW e \in Events, dropped[e],
           ~Requeued(e), deadLetters'[e].retryAt = "none"
    PROVE  dropped'[e]
BY DEF RecordDropped

(* A claim that a stopping scheduler loses is recorded as dropped.          *)
LEMMA DroppedIsRecorded ==
    ASSUME RecordDropped(TRUE), NEW e \in Events, NEW s \in Schedulers,
           e \in Claims(s), e \notin Claims(s)', deadLetters'[e].retryAt = "none"
    PROVE  dropped'[e]
BY DEF RecordDropped

(* A step that moves no scheduler and keeps every row keeps what is owed    *)
(* scheduled.                                                               *)
LEMMA QuietStep ==
    ASSUME OwedIsScheduled, UNCHANGED scheduler, NEW stopped, RecordDropped(stopped),
           \A e \in Events : RowKept(e)
    PROVE  OwedIsScheduled'
<1> SUFFICES ASSUME NEW e \in Events, Owed(e)', deadLetters'[e].retryAt = "none",
                    \A s \in Schedulers : e \notin Claims(s)'
             PROVE  dropped'[e]
  BY DEF OwedIsScheduled, Scheduled
<1>1. deadLetters'[e] = deadLetters[e] /\ ~Requeued(e)
  BY DEF RowKept, Owed
<1>2. Owed(e) /\ deadLetters[e].retryAt = "none"
  BY <1>1 DEF Owed
<1>3. \A s \in Schedulers : e \notin Claims(s)
  BY DEF Claims
<1>4. dropped[e]
  BY <1>2, <1>3 DEF OwedIsScheduled, Scheduled
<1> QED
  BY <1>1, <1>4, DroppedStays

(* Neither a worker nor a replay transaction loses the schedule of a dead   *)
(* letter that still counts.                                                *)
LEMMA WorkerKeepsRow ==
    ASSUME TypeOK, NEW w \in Workers, WorkerStep(w) \/ WorkerFault(w), NEW e \in Events
    PROVE  RowKept(e)
<1> USE DEF TypeOK, StoreTypeOK, EventRow, DeadLetterRow
<1>1. CASE UNCHANGED storeVars
  BY <1>1 DEF storeVars, RowKept, Requeued
<1>2. CASE \/ ClaimForProcessing(worker[w].event) \/ MarkProcessed(worker[w].event)
           \/ MarkFailed(worker[w].event)
  <2>1. deadLetters' = deadLetters
    BY <1>2 DEF ClaimForProcessing, MarkProcessed, MarkFailed, SetEvent
  <2>2. events'[e] = events[e] \/ events'[e].status # "queued"
    BY <1>2 DEF ClaimForProcessing, MarkProcessed, MarkFailed, SetEvent
  <2> QED
    BY <2>1, <2>2 DEF RowKept, Requeued
<1>3. CASE SaveDeadLetter(worker[w].event)
  BY <1>3 DEF SaveDeadLetter, RowKept, Requeued
<1> QED
  BY <1>1, <1>2, <1>3
     DEF WorkerStep, WorkerFault, Receive, Claimed, NotClaimed, ReadStatus, AttemptSucceeds,
         AttemptFails, FinishProcessed, AddDeadLetter, FinishFailed, CallFails, Ack,
         NackRequeue, WorkerCrash, ConnectionLost

(* ReplayDeadLetter sets replayed_at in the transaction that requeues.      *)
LEMMA ReplayKeepsRow ==
    ASSUME TypeOK, NEW r, ReplayStep(r) \/ ReplayRollback(r), NEW e \in Events
    PROVE  RowKept(e)
<1> USE DEF TypeOK, StoreTypeOK, EventRow, DeadLetterRow
<1>1. CASE UNCHANGED storeVars
  BY <1>1 DEF storeVars, RowKept, Requeued
<1>2. CASE ReplayCommit(r) \/ ReplayCommitMissed(r)
  BY <1>2 DEF ReplayCommit, ReplayCommitMissed, ReplayWrites, RowKept, Requeued
<1> QED
  BY <1>1, <1>2 DEF ReplayStep, ReplayRead, ReplayMiss, ReplayRollback

-----------------------------------------------------------------------------
(* A scheduler's step moves only that scheduler and its replay.             *)
LEMMA OnlyOneScheduler ==
    ASSUME TypeOK, NEW s \in Schedulers, SchedulerStep(s) \/ SchedulerFault(s),
           NEW q \in Schedulers, q # s
    PROVE  scheduler'[q] = scheduler[q] /\ replayer'[q] = replayer[q]
<1> USE SchedulersAssumption DEF SchedulersAssumption
<1>1. scheduler'[q] = scheduler[q]
  BY DEF TypeOK, SchedulerTypeOK, SchedulerStep, SchedulerFault, ClaimDue, RetryItem,
         RetryRefused, Take, RetryMiss, RetryCommit, Settle, Reschedule, RetryError,
         RescheduleError, SchedulerCrash
<1>2. replayer'[q] = replayer[q]
  BY DEF TypeOK, ReplayTypeOK, SchedulerStep, SchedulerFault, ClaimDue, RetryItem,
         RetryRefused, RetryMiss, RetryCommit, Reschedule, RetryError, RescheduleError,
         SchedulerCrash, ReplayRead, ReplayMiss, ReplayCommit, ReplayCommitMissed,
         ReplayRollback, ReplayDone
<1> QED
  BY <1>1, <1>2

(* SchedulerForm is kept by the scheduler that moves.                       *)
LEMMA SchedulerKeepsForm ==
    ASSUME TypeOK, SchedulerForm, NEW s \in Schedulers,
           SchedulerStep(s) \/ SchedulerFault(s)
    PROVE  SchedulerForm'
<1> DEFINE Form(q) ==
        /\ scheduler'[q].pc \in {"idle", "next"} => scheduler'[q].event = NoEvent
        /\ scheduler'[q].pc = "idle" => scheduler'[q].items = {}
        /\ replayer'[q].pc # "idle" =>
              scheduler'[q].pc = "replay" /\ scheduler'[q].event = replayer'[q].event
<1> USE SchedulersAssumption DEF SchedulersAssumption
<1>s. scheduler \in [Schedulers -> SchedulerState] /\ replayer \in [Replayers -> ReplayState]
  BY DEF TypeOK, SchedulerTypeOK, ReplayTypeOK
<1>q. s \in Replayers
  OBVIOUS
<1>d. ASSUME Settle(s), replayer'[s].pc = "idle" PROVE Form(s)
  BY <1>d, <1>s DEF Settle, SchedulerIdle, SchedulerState
<1>i. ASSUME ReplayDone(s) PROVE replayer'[s].pc = "idle"
  BY <1>i, <1>s, <1>q DEF ReplayDone, ReplayIdle
<1>1. ASSUME NEW S \in SUBSET Events, ClaimDue(s, S) PROVE Form(s)
  BY <1>1, <1>s DEF ClaimDue, SchedulerForm
<1>2. ASSUME NEW e \in Events, RetryItem(s, e) PROVE Form(s)
  BY <1>2, <1>s, <1>q DEF RetryItem, Take, ReplayRead
<1>3. ASSUME NEW e \in Events, Take(s, e, "reschedule"), UNCHANGED replayer PROVE Form(s)
  BY <1>3, <1>s DEF Take, SchedulerForm
<1>4. ASSUME RetryMiss(s) PROVE Form(s)
  BY <1>4, <1>s, <1>q DEF RetryMiss, ReplayMiss, SchedulerForm, ReplayState
<1>5. ASSUME RetryCommit(s) PROVE Form(s)
  BY <1>5, <1>d, <1>i DEF RetryCommit, ReplayCommit, ReplayCommitMissed
<1>6. ASSUME Reschedule(s) \/ RescheduleError(s) PROVE Form(s)
  <2>1. replayer'[s].pc = "idle"
    BY <1>6 DEF Reschedule, RescheduleError, SchedulerForm
  <2> QED
    BY <1>6, <1>d, <2>1 DEF Reschedule, RescheduleError
<1>7. ASSUME ReplayRollback(s) \/ ReplayCommit(s) \/ ReplayCommitMissed(s),
             scheduler' = [scheduler EXCEPT ![s].pc = "reschedule"]
      PROVE  Form(s)
  <2>1. replayer'[s].pc = "idle"
    BY <1>7, <1>i DEF ReplayRollback, ReplayCommit, ReplayCommitMissed
  <2> QED
    BY <1>7, <1>s, <2>1 DEF SchedulerState
<1>8. ASSUME SchedulerCrash(s) PROVE Form(s)
  BY <1>8, <1>i, <1>s DEF SchedulerCrash, SchedulerIdle
<1>9. Form(s)
  BY <1>1, <1>2, <1>3, <1>4, <1>5, <1>6, <1>7, <1>8
     DEF SchedulerStep, SchedulerFault, RetryRefused, RetryError
<1> QED
  BY <1>9, OnlyOneScheduler DEF SchedulerForm

(***************************************************************************)
(* What a scheduler's step does to a dead letter it holds: it keeps it, or *)
(* the dead letter is scheduled or no longer owed.  Only a fault lets go   *)
(* of one that is neither.                                                 *)
(***************************************************************************)
LEMMA SchedulerKeepsClaim ==
    ASSUME TypeOK, SchedulerForm, NEW s \in Schedulers, SchedulerStep(s), NEW e \in Events,
           e \in Claims(s), e \notin Claims(s)'
    PROVE  deadLetters'[e].retryAt # "none" \/ ~Owed(e)'
<1> USE SchedulersAssumption DEF SchedulersAssumption
<1>s. scheduler \in [Schedulers -> SchedulerState]
  BY DEF TypeOK, SchedulerTypeOK
<1>r. deadLetters \in [Events -> DeadLetterRow]
  BY DEF TypeOK, StoreTypeOK
<1>t. ASSUME NEW x \in Events, NEW pc, Take(s, x, pc) PROVE FALSE
  BY <1>t, <1>s, EventsAssumption DEF Take, Claims, SchedulerForm, SchedulerState, EventsAssumption
<1>d. ASSUME Settle(s) PROVE e = scheduler[s].event
  BY <1>d, <1>s DEF Settle, Claims, SchedulerIdle, SchedulerState
<1>1. CASE \E S \in SUBSET Events : ClaimDue(s, S)
  BY <1>1 DEF ClaimDue, Claims, SchedulerForm
<1>2. CASE \E x \in Events : RetryItem(s, x) \/ RetryRefused(s, x)
  BY <1>2, <1>t DEF RetryItem, RetryRefused
<1>3. CASE RetryMiss(s)
  BY <1>3 DEF RetryMiss, Claims
<1>4. CASE RetryCommit(s)
  <2>1. e = replayer[s].event
    BY <1>4, <1>d DEF RetryCommit, ReplayCommit, ReplayCommitMissed, SchedulerForm
  <2>2. deadLetters'[e].replayed
    BY <1>4, <1>r, <2>1 DEF RetryCommit, ReplayCommit, ReplayCommitMissed, ReplayWrites,
                            DeadLetterRow
  <2> QED
    BY <2>2 DEF Owed
<1>5. CASE Reschedule(s)
  <2>1. RescheduleDeadLetterRetryWithDelay(e)
    BY <1>5, <1>d DEF Reschedule
  <2>2. CASE deadLetters[e].present /\ ~deadLetters[e].replayed
    BY <1>r, <2>1, <2>2 DEF RescheduleDeadLetterRetryWithDelay, DeadLetterRow
  <2>3. CASE ~(deadLetters[e].present /\ ~deadLetters[e].replayed)
    BY <1>r, <2>1, <2>3 DEF RescheduleDeadLetterRetryWithDelay, DeadLetterRow, Owed
  <2> QED
    BY <2>2, <2>3
<1> QED
  BY <1>1, <1>2, <1>3, <1>4, <1>5 DEF SchedulerStep

(* A scheduler's step keeps a row, schedules or replays it, or claims it.   *)
LEMMA SchedulerKeepsRow ==
    ASSUME TypeOK, NEW s \in Schedulers, SchedulerStep(s) \/ SchedulerFault(s),
           NEW e \in Events, e \notin Claims(s)'
    PROVE  RowKept(e)
<1> USE DEF TypeOK, StoreTypeOK, EventRow, DeadLetterRow
<1>1. CASE UNCHANGED storeVars
  BY <1>1 DEF storeVars, RowKept, Requeued
<1>2. CASE ReplayStep(s) \/ ReplayRollback(s)
  BY <1>2, ReplayKeepsRow
<1>3. ASSUME NEW S \in SUBSET Events, ClaimDue(s, S) PROVE RowKept(e)
  <2>1. e \notin S
    BY <1>3 DEF ClaimDue, Claims, SchedulerTypeOK, SchedulerState
  <2> QED
    BY <1>3, <2>1 DEF ClaimDue, ClaimRetryableDeadLetterDetails, RowKept, Requeued
<1>4. CASE RescheduleDeadLetterRetryWithDelay(scheduler[s].event)
  BY <1>4 DEF RescheduleDeadLetterRetryWithDelay, RowKept, Requeued
<1> QED
  BY <1>1, <1>2, <1>3, <1>4
     DEF SchedulerStep, SchedulerFault, RetryItem, RetryRefused, RetryMiss, RetryCommit,
         Reschedule, RetryError, RescheduleError, SchedulerCrash, ReplayStep

(* A scheduler keeps what is owed scheduled, or its fault is recorded.      *)
LEMMA SchedulerKeepsOwed ==
    ASSUME TypeOK, SchedulerForm, OwedIsScheduled, NEW s \in Schedulers,
           \/ SchedulerStep(s) /\ RecordDropped(FALSE)
           \/ SchedulerFault(s) /\ RecordDropped(TRUE)
    PROVE  OwedIsScheduled'
<1> SUFFICES ASSUME NEW e \in Events, Owed(e)', deadLetters'[e].retryAt = "none",
                    \A q \in Schedulers : e \notin Claims(q)'
             PROVE  dropped'[e]
  BY DEF OwedIsScheduled, Scheduled
<1>1. deadLetters'[e] = deadLetters[e] /\ ~Requeued(e)
  BY SchedulerKeepsRow DEF RowKept, Owed
<1>2. Owed(e) /\ deadLetters[e].retryAt = "none"
  BY <1>1 DEF Owed
<1>3. CASE dropped[e]
  BY <1>1, <1>3, DroppedStays
<1>4. ASSUME NEW q \in Schedulers, e \in Claims(q) PROVE dropped'[e]
  <2>1. q = s
    BY <1>4, OnlyOneScheduler DEF Claims
  <2>2. CASE SchedulerStep(s)
    BY <1>4, <2>1, <2>2, SchedulerKeepsClaim
  <2>3. CASE SchedulerFault(s) /\ RecordDropped(TRUE)
    BY <1>4, <2>1, <2>3, DroppedIsRecorded
  <2> QED
    BY <2>2, <2>3
<1> QED
  BY <1>2, <1>3, <1>4 DEF OwedIsScheduled, Scheduled

-----------------------------------------------------------------------------
(* A freshly migrated database owes nothing that is not recorded.           *)
LEMMA InitRetry == HistoryInit => RInv
<1> SUFFICES ASSUME HistoryInit PROVE SchedulerForm /\ OwedIsScheduled
  BY InitType DEF HistoryInit, RInv
<1>1. SchedulerForm
  BY SchedulersAssumption DEF HistoryInit, Init, SchedulerInit, SchedulerIdle, ReplayInit,
                              ReplayIdle, SchedulerForm, SchedulersAssumption
<1>2. OwedIsScheduled
  BY DEF HistoryInit, Init, StoreInit, OwedIsScheduled, Owed
<1> QED
  BY <1>1, <1>2

(* With its history variable the service takes the steps of the service.    *)
LEMMA HistoryStep == [HistoryNext]_historyVars => [Next]_vars
BY DEF HistoryNext, historyVars, Next

(* Every step keeps the invariant.                                          *)
LEMMA NextRetry == RInv /\ [HistoryNext]_historyVars => RInv'
<1> SUFFICES ASSUME RInv, [HistoryNext]_historyVars
             PROVE  SchedulerForm' /\ OwedIsScheduled'
  BY NextType, HistoryStep DEF RInv
<1> DEFINE Goal == SchedulerForm' /\ OwedIsScheduled'
<1>t. TypeOK /\ SchedulerForm /\ OwedIsScheduled
  BY DEF RInv
<1>f. ASSUME UNCHANGED scheduler, \A s \in Schedulers : replayer'[s] = replayer[s]
      PROVE  SchedulerForm'
  BY <1>f, <1>t DEF SchedulerForm
<1>1. ASSUME NEW x \in Events,
             CreateEvent(x) \/ DispatchLeaseExpires(x) \/ ProcessingLeaseExpires(x)
                \/ RetryDelayElapses(x),
             RecordDropped(FALSE)
      PROVE  Goal
  <2>1. \A e \in Events : RowKept(e)
    <3>1. CASE CreateEvent(x) \/ DispatchLeaseExpires(x)
      BY <1>t, <3>1 DEF CreateEvent, SaveQueuedWithOutbox, DispatchLeaseExpires, RowKept,
                        Requeued, TypeOK, StoreTypeOK, EventRow
    <3>2. CASE ProcessingLeaseExpires(x)
      BY <1>t, <3>2 DEF ProcessingLeaseExpires, RowKept, Requeued, TypeOK, StoreTypeOK, EventRow
    <3>3. CASE RetryDelayElapses(x)
      BY <1>t, <3>3 DEF RetryDelayElapses, RowKept, Requeued, TypeOK, StoreTypeOK, DeadLetterRow
    <3> QED
      BY <1>1, <3>1, <3>2, <3>3
  <2>2. UNCHANGED <<scheduler, replayer>>
    BY <1>1 DEF CreateEvent, DispatchLeaseExpires, ProcessingLeaseExpires, RetryDelayElapses
  <2> QED
    BY <1>1, <1>t, <1>f, <2>1, <2>2, QuietStep
<1>2. ASSUME NEW d \in Dispatchers, Dispatch(d) \/ DispatchFault(d), RecordDropped(FALSE)
      PROVE  Goal
  <2>1. UNCHANGED <<events, deadLetters>>
    BY <1>2, DispatcherLeaves DEF Dispatch, DispatchFault
  <2>2. \A e \in Events : RowKept(e)
    BY <2>1 DEF RowKept, Requeued
  <2> QED
    BY <1>2, <1>t, <1>f, <2>2, QuietStep DEF Dispatch, DispatchFault
<1>3. ASSUME NEW w \in Workers, Work(w) \/ WorkFault(w), RecordDropped(FALSE)
      PROVE  Goal
  <2>1. \A e \in Events : RowKept(e)
    BY <1>3, <1>t, WorkerKeepsRow DEF Work, WorkFault
  <2> QED
    BY <1>3, <1>t, <1>f, <2>1, QuietStep DEF Work, WorkFault
<1>4. ASSUME NEW r \in Replayers \ Schedulers, ManualReplay(r) \/ ManualReplayFault(r),
             RecordDropped(FALSE)
      PROVE  Goal
  <2>1. \A e \in Events : RowKept(e)
    BY <1>4, <1>t, ReplayKeepsRow DEF ManualReplay, ManualReplayFault
  <2>2. \A s \in Schedulers : replayer'[s] = replayer[s]
    BY <1>4, <1>t, SchedulersAssumption
       DEF ManualReplay, ManualReplayFault, ReplayStep, ReplayRead, ReplayMiss, ReplayCommit,
           ReplayCommitMissed, ReplayRollback, ReplayDone, TypeOK, ReplayTypeOK,
           SchedulersAssumption
  <2> QED
    BY <1>4, <1>t, <1>f, <2>1, <2>2, QuietStep DEF ManualReplay, ManualReplayFault
<1>5. ASSUME NEW s \in Schedulers,
             \/ AutoRetry(s) /\ RecordDropped(FALSE)
             \/ AutoRetryFault(s) /\ RecordDropped(TRUE)
      PROVE  Goal
  <2>1. SchedulerForm'
    BY <1>5, <1>t, SchedulerKeepsForm DEF AutoRetry, AutoRetryFault
  <2>2. OwedIsScheduled'
    BY <1>5, <1>t, SchedulerKeepsOwed DEF AutoRetry, AutoRetryFault
  <2> QED
    BY <2>1, <2>2
<1>6. CASE UNCHANGED historyVars
  <2>1. SchedulerForm'
    BY <1>6, <1>f DEF historyVars, vars
  <2>2. OwedIsScheduled'
    BY <1>6, <1>t DEF historyVars, vars, OwedIsScheduled, Owed, Scheduled, Claims
  <2> QED
    BY <2>1, <2>2
<1> QED
  BY <1>1, <1>2, <1>3, <1>4, <1>5, <1>6 DEF HistoryNext, Record, Step, Fault, RetryFault

-----------------------------------------------------------------------------
(* The replays that requeue nothing.                                        *)

AboutToFail(w, e) == worker[w].pc = "markFailed" /\ worker[w].event = e

(* Unless such a replay hid it, an event with replayed_at set is not failed *)
(* and no worker is about to store that it is.                              *)
ReplayedIsRequeued ==
    \A e \in Events : deadLetters[e].replayed /\ ~hidden[e] =>
        events[e].status # "failed" /\ \A w \in Workers : ~AboutToFail(w, e)

(* What a step does to an event whose replay requeued it.                   *)
ReplayKept(e) ==
    \/ ~deadLetters'[e].replayed
    \/ Requeued(e) /\ \A w \in Workers : ~AboutToFail(w, e)'
    \/ /\ ~Requeued(e)
       /\ events'[e].status = "failed" =>
             events[e].status = "failed" \/ \E w \in Workers : AboutToFail(w, e)
       /\ \A w \in Workers : AboutToFail(w, e)' => AboutToFail(w, e)

(* Steps of this form keep ReplayedIsRequeued.                              *)
LEMMA HiddenStep ==
    ASSUME ReplayedIsRequeued, RecordHidden, \A e \in Events : ReplayKept(e)
    PROVE  ReplayedIsRequeued'
<1> SUFFICES ASSUME NEW e \in Events, deadLetters'[e].replayed, ~hidden'[e]
             PROVE  events'[e].status # "failed" /\ \A w \in Workers : ~AboutToFail(w, e)'
  BY DEF ReplayedIsRequeued
<1>1. Requeued(e) \/ (deadLetters[e].replayed /\ ~hidden[e])
  BY DEF RecordHidden
<1>2. CASE Requeued(e)
  BY <1>2 DEF ReplayKept, Requeued
<1>3. CASE ~Requeued(e)
  BY <1>1, <1>3 DEF ReplayKept, ReplayedIsRequeued
<1> QED
  BY <1>2, <1>3

(* A step that moves no worker and no status.                               *)
LEMMA StatusesKept ==
    ASSUME UNCHANGED worker, NEW e \in Events,
           events'[e].status = events[e].status \/ events[e].status = "absent",
           events'[e].status = "failed" => events[e].status = "failed"
    PROVE  ReplayKept(e)
BY DEF ReplayKept, Requeued, AboutToFail

(* A worker stores the failed status only after SaveDeadLetter has cleared  *)
(* replayed_at.                                                             *)
LEMMA WorkerKeepsReplay ==
    ASSUME TypeOK, BusyHasEvent, NEW w \in Workers, WorkerStep(w) \/ WorkerFault(w),
           NEW e \in Events
    PROVE  ReplayKept(e)
<1> DEFINE x == worker[w].event
<1>w. worker \in [Workers -> WorkerState]
  BY DEF TypeOK, WorkerTypeOK
<1>t. events \in [Events -> EventRow] /\ deadLetters \in [Events -> DeadLetterRow]
  BY DEF TypeOK, StoreTypeOK
<1>o. \A v \in Workers : v # w => worker'[v] = worker[v]
  BY <1>w DEF WorkerStep, WorkerFault, Receive, Claimed, NotClaimed, ReadStatus, AttemptSucceeds,
         AttemptFails, FinishProcessed, AddDeadLetter, FinishFailed, CallFails, Ack,
         NackRequeue, WorkerCrash, ConnectionLost, Goto, Release
<1>1. CASE AddDeadLetter(w) /\ e = x
  <2>1. ~deadLetters'[e].replayed
    BY <1>1, <1>t DEF AddDeadLetter, SaveDeadLetter
  <2> QED
    BY <2>1 DEF ReplayKept
<1>2. CASE ~(AddDeadLetter(w) /\ e = x)
  <2>1. AboutToFail(w, e)' => AboutToFail(w, e)
    BY <1>2, <1>w DEF AboutToFail, WorkerState, WorkerStep, WorkerFault, Receive, Claimed,
         NotClaimed, ReadStatus, AttemptSucceeds, AttemptFails, FinishProcessed, AddDeadLetter,
         FinishFailed, CallFails, Ack, NackRequeue, WorkerCrash, ConnectionLost, Goto, Release,
         WorkerIdle
  <2>2. \A v \in Workers : AboutToFail(v, e)' => AboutToFail(v, e)
    BY <1>o, <2>1 DEF AboutToFail
  <2>3. \/ events' = events
        \/ ClaimForProcessing(x) \/ MarkProcessed(x)
        \/ worker[w].pc = "markFailed" /\ MarkFailed(x)
    BY DEF WorkerStep, WorkerFault, Receive, Claimed, NotClaimed, ReadStatus, AttemptSucceeds,
           AttemptFails, FinishProcessed, AddDeadLetter, SaveDeadLetter, FinishFailed, CallFails,
           Ack, NackRequeue, WorkerCrash, ConnectionLost, storeVars
  <2>4. ~Requeued(e)
    BY <1>t, <2>3 DEF Requeued, ClaimForProcessing, MarkProcessed, MarkFailed, SetEvent, EventRow
  <2>5. events'[e].status = "failed" =>
           events[e].status = "failed" \/ AboutToFail(w, e)
    BY <1>t, <2>3 DEF AboutToFail, ClaimForProcessing, MarkProcessed, MarkFailed, SetEvent,
                      EventRow
  <2> QED
    BY <2>2, <2>4, <2>5 DEF ReplayKept
<1> QED
  BY <1>1, <1>2

(* A replay that requeues an event finds no worker on it.                   *)
LEMMA ReplayKeepsReplay ==
    ASSUME TypeOK, ExecutionHasLease, UNCHANGED worker, NEW e \in Events,
           NEW r, UNCHANGED events \/ ReplayCommit(r)
    PROVE  ReplayKept(e)
<1>t. events \in [Events -> EventRow]
  BY DEF TypeOK, StoreTypeOK
<1>1. CASE ReplayCommit(r) /\ e = replayer[r].event
  <2>1. Requeued(e)
    BY <1>1, <1>t DEF ReplayCommit, Requeued
  <2>2. \A w \in Workers : ~Executing(w, e)
    BY <2>1 DEF ExecutionHasLease, Requeued
  <2>3. \A w \in Workers : ~AboutToFail(w, e)'
    BY <2>2 DEF AboutToFail, Executing
  <2> QED
    BY <2>1, <2>3 DEF ReplayKept
<1>2. CASE ~(ReplayCommit(r) /\ e = replayer[r].event)
  <2>1. events'[e] = events[e]
    BY <1>2, <1>t DEF ReplayCommit
  <2> QED
    BY <2>1, StatusesKept
<1> QED
  BY <1>1, <1>2

HInv == RInv /\ IInv /\ (ProcessingLeaseSuffices => XInv /\ ReplayedIsRequeued)

(* No dead letter is replayed initially.                                    *)
LEMMA InitHidden == HistoryInit => HInv
<1>1. HistoryInit => ReplayedIsRequeued
  BY DEF HistoryInit, Init, StoreInit, ReplayedIsRequeued
<1> QED
  BY <1>1, InitRetry, InitInv, InitExclusion DEF HistoryInit, HInv

(* Where leases suffice every step keeps ReplayedIsRequeued.                *)
LEMMA NextReplayed ==
    ASSUME XInv, ReplayedIsRequeued, [HistoryNext]_historyVars
    PROVE  ReplayedIsRequeued'
<1>t. TypeOK /\ BusyHasEvent /\ ExecutionHasLease
  BY DEF XInv, IInv, DeliveryInv
<1>r. events \in [Events -> EventRow]
  BY <1>t DEF TypeOK, StoreTypeOK
<1>1. ASSUME NEW x \in Events, NEW e \in Events,
             CreateEvent(x) \/ DispatchLeaseExpires(x) \/ ProcessingLeaseExpires(x)
                \/ RetryDelayElapses(x)
      PROVE  ReplayKept(e)
  <2>1. UNCHANGED worker
    BY <1>1 DEF CreateEvent, DispatchLeaseExpires, ProcessingLeaseExpires, RetryDelayElapses
  <2>2. CASE CreateEvent(x)
    BY <1>r, <2>1, <2>2, StatusesKept DEF CreateEvent, SaveQueuedWithOutbox
  <2>3. CASE ProcessingLeaseExpires(x)
    <3>1. events'[e].status = events[e].status
      BY <1>r, <2>3 DEF ProcessingLeaseExpires, EventRow
    <3> QED
      BY <2>1, <3>1, StatusesKept
  <2>4. CASE DispatchLeaseExpires(x) \/ RetryDelayElapses(x)
    BY <2>1, <2>4, StatusesKept DEF DispatchLeaseExpires, RetryDelayElapses
  <2> QED
    BY <1>1, <2>2, <2>3, <2>4
<1>2. ASSUME NEW d \in Dispatchers, NEW e \in Events, Dispatch(d) \/ DispatchFault(d)
      PROVE  ReplayKept(e)
  <2>1. UNCHANGED <<events, worker>>
    BY <1>2, DispatcherLeaves DEF Dispatch, DispatchFault
  <2> QED
    BY <2>1, StatusesKept
<1>3. ASSUME NEW w \in Workers, NEW e \in Events, Work(w) \/ WorkFault(w)
      PROVE  ReplayKept(e)
  BY <1>3, <1>t, WorkerKeepsReplay DEF Work, WorkFault
<1>4. ASSUME NEW r, NEW e \in Events,
             ManualReplay(r) \/ ManualReplayFault(r) \/ AutoRetry(r) \/ AutoRetryFault(r)
      PROVE  ReplayKept(e)
  <2>1. UNCHANGED worker
    BY <1>4 DEF ManualReplay, ManualReplayFault, AutoRetry, AutoRetryFault
  <2>2. UNCHANGED events \/ ReplayCommit(r)
    BY <1>4, ReplayRow DEF ManualReplay, ManualReplayFault, AutoRetry, AutoRetryFault
  <2> QED
    BY <1>t, <2>1, <2>2, ReplayKeepsReplay
<1>5. CASE UNCHANGED historyVars
  BY <1>5 DEF historyVars, vars, ReplayedIsRequeued, AboutToFail
<1>6. CASE HistoryNext
  <2>1. RecordHidden /\ (Step \/ Fault \/ RetryFault)
    BY <1>6 DEF HistoryNext, Record
  <2>2. \A e \in Events : ReplayKept(e)
    BY <1>1, <1>2, <1>3, <1>4, <2>1 DEF Step, Fault, RetryFault
  <2> QED
    BY <2>1, <2>2, HiddenStep
<1> QED
  BY <1>5, <1>6

(* Every step keeps the whole invariant.                                    *)
LEMMA NextHidden == HInv /\ [HistoryNext]_historyVars => HInv'
<1> SUFFICES ASSUME HInv, [HistoryNext]_historyVars PROVE HInv'
  OBVIOUS
<1>1. RInv' /\ IInv'
  BY NextRetry, NextInv, HistoryStep DEF HInv
<1>2. ASSUME ProcessingLeaseSuffices PROVE XInv' /\ ReplayedIsRequeued'
  BY <1>2, NextExclusion, NextReplayed, HistoryStep DEF HInv
<1> QED
  BY <1>1, <1>2 DEF HInv

(***************************************************************************)
(* For any number of events, schedulers, manual replays and workers, stale *)
(* ones included: a failed event with attempts left that was not replayed  *)
(* is scheduled or held by a scheduler (dlq_retry.go, retry), unless a     *)
(* scheduler stopped, or could not reschedule it, after claiming it; and   *)
(* where processing leases suffice, a failed event has replayed_at only    *)
(* because a replay that requeued nothing recorded it.                     *)
(***************************************************************************)
THEOREM NothingElseForgets == HistorySpec => []ForgottenOnlyIfLost
<1>1. HistorySpec => []HInv
  BY InitHidden, NextHidden, PTL DEF HistorySpec
<1>2. HInv => ForgottenOnlyIfLost
  BY DEF HInv, IInv, RInv, FailedIsReplayable, OwedIsScheduled, Owed, ReplayedIsRequeued,
         ForgottenOnlyIfLost
<1> QED
  BY <1>1, <1>2, PTL
=============================================================================
