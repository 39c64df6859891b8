-------------------------- MODULE WebhookProcessor --------------------------
(***************************************************************************)
(* The service: HTTP acceptance, the outbox dispatchers, the workers and   *)
(* the replays of any number of replicas, over one database and one queue. *)
(* Leases expire at any time; the two constants say whether an             *)
(* installation keeps its leases longer than the work done under them.     *)
(***************************************************************************)
EXTENDS OutboxDispatcher, Worker, DLQRetryScheduler

CONSTANTS
    DispatchLeaseSuffices,     \* OUTBOX_DISPATCH_LEASE_SECONDS covers a batch
    ProcessingLeaseSuffices    \* PROCESSING_LEASE_SECONDS covers an execution

ASSUME LeaseAssumption ==
    /\ DispatchLeaseSuffices \in BOOLEAN
    /\ ProcessingLeaseSuffices \in BOOLEAN

(***************************************************************************)
(* History: a replay reopened the message of the event while a dispatch    *)
(* reservation was still on the row, and the row has not been claimed anew.*)
(***************************************************************************)
VARIABLE overtaken

vars == <<events, outbox, deadLetters, ready, dispatcher, worker, replayer,
          scheduler, overtaken>>

TypeOK ==
    /\ StoreTypeOK
    /\ BrokerTypeOK
    /\ DispatcherTypeOK
    /\ WorkerTypeOK
    /\ ReplayTypeOK
    /\ SchedulerTypeOK
    /\ overtaken \in [Events -> BOOLEAN]

Init ==
    /\ StoreInit
    /\ BrokerInit
    /\ DispatcherInit
    /\ WorkerInit
    /\ ReplayInit
    /\ SchedulerInit
    /\ overtaken = [e \in Events |-> FALSE]

-----------------------------------------------------------------------------
(* History: set by the replay, cleared by the next claim of the row.        *)
RecordOvertaken ==
    overtaken' = [e \in Events |->
        /\ ~(outbox[e].lease # "live" /\ outbox'[e].lease = "live")
        /\ \/ overtaken[e]
           \/ /\ events[e].status = "failed"
              /\ events'[e].status = "queued"
              /\ outbox[e].token # NoToken]

(* POST /events; a known id is answered 409 and changes nothing.            *)
CreateEvent(e) ==
    /\ SaveQueuedWithOutbox(e)
    /\ UNCHANGED <<ready, dispatcher, worker, replayer, scheduler>>
    /\ RecordOvertaken

DispatchLeaseExpires(e) ==
    /\ outbox[e].lease = "live"
    /\ DispatchLeaseSuffices => \A d \in Dispatchers : e \notin InHand(d)
    /\ outbox' = [outbox EXCEPT ![e].lease = "expired"]
    /\ UNCHANGED <<events, deadLetters, ready, dispatcher, worker, replayer, scheduler>>
    /\ RecordOvertaken

ProcessingLeaseExpires(e) ==
    /\ events[e].lease = "live"
    /\ ProcessingLeaseSuffices => \A w \in Workers : ~Executing(w, e)
    /\ events' = [events EXCEPT ![e].lease = "expired"]
    /\ UNCHANGED <<outbox, deadLetters, ready, dispatcher, worker, replayer, scheduler>>
    /\ RecordOvertaken

RetryDelayElapses(e) ==
    /\ deadLetters[e].retryAt = "later"
    /\ deadLetters' = [deadLetters EXCEPT ![e].retryAt = "due"]
    /\ UNCHANGED <<events, outbox, ready, dispatcher, worker, replayer, scheduler>>
    /\ RecordOvertaken

Dispatch(d) ==
    DispatcherStep(d) /\ UNCHANGED <<worker, replayer, scheduler>> /\ RecordOvertaken

Work(w) ==
    WorkerStep(w) /\ UNCHANGED <<dispatcher, replayer, scheduler>> /\ RecordOvertaken

ManualReplay(r) ==
    ReplayStep(r) /\ UNCHANGED <<ready, dispatcher, worker, scheduler>> /\ RecordOvertaken

AutoRetry(s) ==
    SchedulerStep(s) /\ UNCHANGED <<ready, dispatcher, worker>> /\ RecordOvertaken

ManualReplayFault(r) ==
    ReplayRollback(r) /\ UNCHANGED <<ready, dispatcher, worker, scheduler>> /\ RecordOvertaken

DispatchFault(d) ==
    DispatcherFault(d) /\ UNCHANGED <<worker, replayer, scheduler>> /\ RecordOvertaken

WorkFault(w) ==
    WorkerFault(w) /\ UNCHANGED <<dispatcher, replayer, scheduler>> /\ RecordOvertaken

AutoRetryFault(s) ==
    SchedulerFault(s) /\ UNCHANGED <<ready, dispatcher, worker>> /\ RecordOvertaken

Step ==
    \/ \E e \in Events : CreateEvent(e)
    \/ \E e \in Events : DispatchLeaseExpires(e)
    \/ \E e \in Events : ProcessingLeaseExpires(e)
    \/ \E e \in Events : RetryDelayElapses(e)
    \/ \E d \in Dispatchers : Dispatch(d)
    \/ \E w \in Workers : Work(w)
    \/ \E r \in Replayers \ Schedulers : ManualReplay(r)
    \/ \E s \in Schedulers : AutoRetry(s)

Fault ==
    \/ \E d \in Dispatchers : DispatchFault(d)
    \/ \E w \in Workers : WorkFault(w)
    \/ \E r \in Replayers \ Schedulers : ManualReplayFault(r)

RetryFault == \E s \in Schedulers : AutoRetryFault(s)

Next == Step \/ Fault \/ RetryFault

Spec == Init /\ [][Next]_vars

-----------------------------------------------------------------------------
Unfinished(e) == events[e].status \in {"queued", "processing"}

(* A copy of e is in the queue or with a worker that has not decided yet to *)
(* give it up.                                                              *)
InFlight(e) ==
    \/ ready[e] > 0
    \/ \E w \in Workers : /\ worker[w].event = e
                          /\ worker[w].live
                          /\ worker[w].pc \notin {"idle", "ack", "drop"}

(* Something will still bring e to a worker.                                *)
Carried(e) == outbox[e].state = "pending" \/ InFlight(e)

(***************************************************************************)
(* No accepted event is lost between the database and the broker: one that *)
(* is queued or processing has an open outbox message or a copy that will  *)
(* be delivered (again).                                                   *)
(***************************************************************************)
NoEventStranded == \A e \in Events : Unfinished(e) => Carried(e)

(***************************************************************************)
(* The only way to lose one: a replay reopens the outbox message while a   *)
(* dispatcher still has a reservation on it (ReplayDeadLetter leaves the   *)
(* dispatch token in place), and that dispatcher then marks it published.  *)
(* Crashes, lost confirms, redeliveries, stale workers and concurrent      *)
(* replays never do.                                                       *)
(***************************************************************************)
StrandedOnlyIfOvertaken ==
    \A e \in Events : Unfinished(e) => Carried(e) \/ overtaken[e]

(* A busy worker has an event; an idle one has no delivery.                 *)
BusyHasEvent ==
    \A w \in Workers :
        IF worker[w].pc = "idle" THEN ~worker[w].live ELSE worker[w].event \in Events

(* A dispatcher about to mark its message published, under a reservation it *)
(* still holds, has a copy in flight unless the event is decided or the row *)
(* was overtaken.                                                           *)
ConfirmedCopyKept ==
    \A e \in Events : \A d \in Dispatchers :
        /\ dispatcher[d].pc = "markPublished"
        /\ dispatcher[d].msg = e
        /\ outbox[e].token = d
        /\ Unfinished(e)
        => InFlight(e) \/ overtaken[e]

(* A worker about to store the failed status has stored the dead letter.    *)
DeadLetterFirst ==
    \A w \in Workers : worker[w].pc = "markFailed" => deadLetters[worker[w].event].present

(***************************************************************************)
(* What StrandedOnlyIfOvertaken and FailedIsReplayable rest on: the order  *)
(* of steps in DispatchPending (confirm, then published_at) and in         *)
(* processEventWithRetry (dead letter, then status) holds up against       *)
(* everything the other processes do in between.                           *)
(***************************************************************************)
DeliveryInv == BusyHasEvent /\ ConfirmedCopyKept /\ DeadLetterFirst

(***************************************************************************)
(* Workers claim an event before they run it: no two of them run the same  *)
(* event at the same time, however many copies of it were delivered.       *)
(***************************************************************************)
ExclusiveExecution ==
    \A e \in Events : \A v, w \in Workers :
        Executing(v, e) /\ Executing(w, e) => v = w

(***************************************************************************)
(* What it rests on: while a worker runs an event, the event is processing *)
(* under a lease that has not expired, so nobody else may claim it.        *)
(***************************************************************************)
ExecutionHasLease ==
    \A e \in Events : \A w \in Workers :
        Executing(w, e) => events[e].status = "processing" /\ events[e].lease = "live"

(***************************************************************************)
(* Dispatchers hold distinct batches: a message claimed by one is in no    *)
(* other's hand, until it is settled or its reservation expires.           *)
(***************************************************************************)
DistinctBatches ==
    \A c, d \in Dispatchers : c # d => InHand(c) \cap InHand(d) = {}

(***************************************************************************)
(* A failed event can be replayed: its dead letter was stored before the   *)
(* status, by whichever of the workers that ran it.                        *)
(***************************************************************************)
FailedIsReplayable ==
    \A e \in Events : events[e].status = "failed" => deadLetters[e].present

(***************************************************************************)
(* Recording a replay (replayed_at) and putting the event back to queued   *)
(* happen together.                                                        *)
(***************************************************************************)
ReplayRequeues ==
    [][\A e \in Events :
         ~deadLetters[e].replayed /\ deadLetters'[e].replayed
            => events'[e].status = "queued"]_vars

(***************************************************************************)
(* Automatic retry goes on until the attempts are used up: a failed event  *)
(* whose dead letter waits for a replay and has attempts left is scheduled *)
(* or in a scheduler's hand.                                               *)
(***************************************************************************)
RetryNotForgotten ==
    \A e \in Events \ LegacyFailed :
        /\ events[e].status = "failed"
        /\ ~deadLetters[e].replayed
        /\ deadLetters[e].attempts < RetryLimit
        => \/ deadLetters[e].retryAt # "none"
           \/ \E s \in Schedulers : e \in Claims(s)

EventStatus == [e \in Events |-> events[e].status]

Lifecycle == INSTANCE EventLifecycle WITH status <- EventStatus

(***************************************************************************)
(* The statuses of the events table follow the life cycle: no stale worker *)
(* or replay takes a processed event back, and a failed one leaves that    *)
(* state only by a replay.                                                 *)
(***************************************************************************)
FollowsLifecycle == Lifecycle!LifecycleSpec
=============================================================================
