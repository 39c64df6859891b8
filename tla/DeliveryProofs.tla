--------------------------- MODULE DeliveryProofs ---------------------------
(***************************************************************************)
(* An accepted event is lost in no other way than the overtaken            *)
(* reservation, and a failed event can always be replayed.                 *)
(***************************************************************************)
EXTENDS WebhookProcessorProofs

IInv == TypeOK /\ DeliveryInv /\ StrandedOnlyIfOvertaken /\ FailedIsReplayable

-----------------------------------------------------------------------------
(* The mark is cleared only by a claim of the row.                          *)
LEMMA OvertakenStays ==
    ASSUME RecordOvertaken, NEW e \in Events, overtaken[e],
           outbox'[e].lease = "live" => outbox[e].lease = "live"
    PROVE  overtaken'[e]
BY DEF RecordOvertaken

(* What a worker's step does to an event: it never reopens a decided one,   *)
(* and a copy in flight stays in flight unless the event is decided.        *)
LEMMA WorkerKeepsCopy ==
    ASSUME TypeOK, BusyHasEvent, NEW w \in Workers, NEW e \in Events,
           WorkerStep(w) \/ WorkerFault(w)
    PROVE  /\ Unfinished(e)' => Unfinished(e)
           /\ InFlight(e) /\ Unfinished(e)' => InFlight(e)'
           /\ UNCHANGED outbox
<1> USE DEF TypeOK, WorkerTypeOK, WorkerState, BrokerTypeOK, Calls
<1>u. ASSUME UNCHANGED storeVars
      PROVE  (Unfinished(e)' <=> Unfinished(e)) /\ UNCHANGED outbox
  BY <1>u DEF storeVars, Unfinished
<1>g. ASSUME NEW pc \in Calls \cup {"execute", "requeue"}, Goto(w, pc), UNCHANGED ready,
             worker[w].pc \notin {"idle", "ack", "drop"}
      PROVE  InFlight(e) => InFlight(e)'
  BY <1>g DEF Goto, InFlight
<1>r. ASSUME ReturnDelivery(w), Release(w)
      PROVE  InFlight(e) => InFlight(e)'
  BY <1>r DEF ReturnDelivery, Release, WorkerIdle, Requeue, InFlight, BusyHasEvent
<1>1. ASSUME NEW x \in Events, Receive(w, x)
      PROVE  InFlight(e) => InFlight(e)'
  <2>1. CASE x = e
    BY <1>1, <2>1 DEF Receive, Deliver, InFlight
  <2>2. CASE x # e
    BY <1>1, <2>2 DEF Receive, Deliver, InFlight, BusyHasEvent
  <2> QED
    BY <2>1, <2>2
<1>2. CASE \E x \in Events : Receive(w, x)
  BY <1>1, <1>2, <1>u DEF Receive
<1>3. CASE Claimed(w)
  <2>1. Unfinished(e)' <=> Unfinished(e)
    BY <1>3 DEF Claimed, ClaimableForProcessing, ClaimForProcessing, SetEvent, Unfinished,
                StoreTypeOK, EventRow
  <2>2. InFlight(e) => InFlight(e)'
    BY <1>3 DEF Claimed, InFlight
  <2> QED
    BY <1>3, <2>1, <2>2 DEF Claimed, ClaimForProcessing, SetEvent
<1>4. CASE NotClaimed(w) \/ AttemptSucceeds(w)
  BY <1>4, <1>u, <1>g DEF NotClaimed, AttemptSucceeds
<1>5. CASE AttemptFails(w)
  <2>1. InFlight(e) => InFlight(e)'
    BY <1>5 DEF AttemptFails, Goto, InFlight
  <2> QED
    BY <1>5, <1>u, <2>1 DEF AttemptFails
<1>6. CASE ReadStatus(w)
  <2>1. CASE worker[w].event = e
    BY <1>6, <1>u, <2>1 DEF ReadStatus, Final, Unfinished, Goto, InFlight
  <2>2. CASE worker[w].event # e
    BY <1>6, <1>u, <2>2 DEF ReadStatus, Goto, InFlight
  <2> QED
    BY <2>1, <2>2
<1>7. CASE FinishProcessed(w) \/ FinishFailed(w)
  <2>1. CASE worker[w].event = e
    BY <1>7, <2>1 DEF FinishProcessed, FinishFailed, MarkProcessed, MarkFailed, SetEvent,
                      Unfinished, StoreTypeOK, EventRow
  <2>2. CASE worker[w].event # e
    <3>1. Unfinished(e)' <=> Unfinished(e)
      BY <1>7, <2>2 DEF FinishProcessed, FinishFailed, MarkProcessed, MarkFailed, SetEvent,
                        Unfinished, StoreTypeOK, EventRow
    <3>2. InFlight(e) => InFlight(e)'
      BY <1>7, <2>2 DEF FinishProcessed, FinishFailed, Goto, InFlight
    <3> QED
      BY <1>7, <3>1, <3>2
         DEF FinishProcessed, FinishFailed, MarkProcessed, MarkFailed, SetEvent
  <2> QED
    BY <2>1, <2>2
<1>8. CASE AddDeadLetter(w)
  BY <1>8, <1>g DEF AddDeadLetter, SaveDeadLetter, Unfinished
<1>9. CASE CallFails(w)
  <2>1. InFlight(e) => InFlight(e)'
    BY <1>9, <1>g DEF CallFails
  <2>2. (Unfinished(e)' => Unfinished(e)) /\ UNCHANGED outbox
    BY <1>9, <1>u DEF CallFails, ClaimableForProcessing, ClaimForProcessing, MarkProcessed,
                      MarkFailed, SaveDeadLetter, SetEvent, Unfinished, StoreTypeOK, EventRow
  <2> QED
    BY <2>1, <2>2
<1>10. CASE Ack(w)
  <2>1. InFlight(e) => InFlight(e)'
    BY <1>10 DEF Ack, Release, WorkerIdle, InFlight
  <2> QED
    BY <1>10, <1>u, <2>1 DEF Ack
<1>11. CASE NackRequeue(w) \/ WorkerCrash(w)
  BY <1>11, <1>u, <1>r DEF NackRequeue, WorkerCrash
<1>12. CASE ConnectionLost(w)
  <2>1. InFlight(e) => InFlight(e)'
    BY <1>12 DEF ConnectionLost, Requeue, InFlight, BusyHasEvent
  <2> QED
    BY <1>12, <1>u, <2>1 DEF ConnectionLost
<1> QED
  BY <1>2, <1>3, <1>4, <1>5, <1>6, <1>7, <1>8, <1>9, <1>10, <1>11, <1>12
     DEF WorkerStep, WorkerFault

(* A worker's step keeps BusyHasEvent and the order dead letter first,      *)
(* failed status second.                                                    *)
LEMMA WorkerKeepsOrder ==
    ASSUME TypeOK, BusyHasEvent, DeadLetterFirst, FailedIsReplayable,
           NEW w \in Workers, WorkerStep(w) \/ WorkerFault(w)
    PROVE  BusyHasEvent' /\ DeadLetterFirst' /\ FailedIsReplayable'
<1> USE DEF TypeOK, WorkerTypeOK, WorkerState, Calls
<1>b. BusyHasEvent'
  <2>1. ASSUME NEW pc \in Calls \cup {"execute", "ack", "requeue", "drop"},
               worker[w].pc # "idle", Goto(w, pc)
        PROVE  BusyHasEvent'
    BY <2>1 DEF Goto, BusyHasEvent
  <2>2. ASSUME Release(w) PROVE BusyHasEvent'
    BY <2>2 DEF Release, WorkerIdle, BusyHasEvent
  <2>3. CASE \E x \in Events : Receive(w, x)
    BY <2>3 DEF Receive, BusyHasEvent
  <2>4. CASE Claimed(w)
    BY <2>4 DEF Claimed, BusyHasEvent
  <2>5. CASE NotClaimed(w) \/ AttemptSucceeds(w) \/ FinishProcessed(w) \/ AddDeadLetter(w)
             \/ FinishFailed(w) \/ CallFails(w)
    BY <2>1, <2>5
       DEF NotClaimed, AttemptSucceeds, FinishProcessed, AddDeadLetter, FinishFailed, CallFails
  <2>6. CASE ReadStatus(w)
    BY <2>1, <2>6 DEF ReadStatus
  <2>7. CASE AttemptFails(w)
    BY <2>1, <2>7 DEF AttemptFails, BusyHasEvent
  <2>8. CASE Ack(w) \/ NackRequeue(w) \/ WorkerCrash(w)
    BY <2>2, <2>8 DEF Ack, NackRequeue, WorkerCrash
  <2>9. CASE ConnectionLost(w)
    BY <2>9 DEF ConnectionLost, BusyHasEvent
  <2> QED
    BY <2>3, <2>4, <2>5, <2>6, <2>7, <2>8, <2>9 DEF WorkerStep, WorkerFault
<1>p. ASSUME NEW e \in Events, deadLetters[e].present PROVE deadLetters'[e].present
  <2>1. UNCHANGED deadLetters \/ SaveDeadLetter(worker[w].event)
    BY DEF WorkerStep, WorkerFault, Receive, Claimed, NotClaimed, ReadStatus,
           AttemptSucceeds, AttemptFails, FinishProcessed, AddDeadLetter, FinishFailed,
           CallFails, Ack, NackRequeue, WorkerCrash, ConnectionLost, ClaimForProcessing,
           MarkProcessed, MarkFailed, SetEvent, storeVars
  <2> QED
    BY <1>p, <2>1 DEF SaveDeadLetter, StoreTypeOK
<1>d. DeadLetterFirst'
  <2> SUFFICES ASSUME NEW v \in Workers, worker'[v].pc = "markFailed"
               PROVE  deadLetters'[worker'[v].event].present
    BY DEF DeadLetterFirst
  <2>1. CASE AddDeadLetter(w) /\ v = w
    BY <2>1 DEF AddDeadLetter, SaveDeadLetter, Goto, BusyHasEvent, StoreTypeOK
  <2>2. CASE ~(AddDeadLetter(w) /\ v = w)
    <3>1. worker[v].pc = "markFailed" /\ worker'[v].event = worker[v].event
      BY <2>2 DEF WorkerStep, WorkerFault, Receive, Claimed, NotClaimed, ReadStatus,
                  AttemptSucceeds, AttemptFails, FinishProcessed, AddDeadLetter,
                  FinishFailed, CallFails, Ack, NackRequeue, WorkerCrash, ConnectionLost,
                  Goto, Release, WorkerIdle
    <3> QED
      BY <1>p, <3>1 DEF DeadLetterFirst, BusyHasEvent
  <2> QED
    BY <2>1, <2>2
<1>f. FailedIsReplayable'
  <2> SUFFICES ASSUME NEW e \in Events, events'[e].status = "failed"
               PROVE  deadLetters'[e].present
    BY DEF FailedIsReplayable
  <2>1. \/ events[e].status = "failed"
        \/ worker[w].pc = "markFailed" /\ worker[w].event = e
    <3>1. \/ UNCHANGED events
          \/ ClaimForProcessing(worker[w].event)
          \/ MarkProcessed(worker[w].event)
          \/ worker[w].pc = "markFailed" /\ MarkFailed(worker[w].event)
      BY DEF WorkerStep, WorkerFault, Receive, Claimed, NotClaimed, ReadStatus,
             AttemptSucceeds, AttemptFails, FinishProcessed, AddDeadLetter, FinishFailed,
             CallFails, Ack, NackRequeue, WorkerCrash, ConnectionLost, SaveDeadLetter,
             storeVars
    <3> QED
      BY <3>1 DEF ClaimForProcessing, MarkProcessed, MarkFailed, SetEvent, StoreTypeOK
  <2> QED
    BY <1>p, <2>1 DEF FailedIsReplayable, DeadLetterFirst
<1> QED
  BY <1>b, <1>d, <1>f

(* No step or fault of a worker (worker.go) breaks the delivery invariant.  *)
LEMMA WorkerStepInv ==
    ASSUME IInv, NEW w \in Workers, Work(w) \/ WorkFault(w)
    PROVE  DeliveryInv' /\ StrandedOnlyIfOvertaken' /\ FailedIsReplayable'
<1>w. WorkerStep(w) \/ WorkerFault(w)
  BY DEF Work, WorkFault
<1>t. TypeOK /\ BusyHasEvent
  BY DEF IInv, DeliveryInv
<1>k. ASSUME NEW e \in Events
      PROVE  /\ Unfinished(e)' => Unfinished(e)
             /\ InFlight(e) /\ Unfinished(e)' => InFlight(e)'
             /\ outbox' = outbox
             /\ overtaken[e] => overtaken'[e]
  <2>1. /\ Unfinished(e)' => Unfinished(e)
        /\ InFlight(e) /\ Unfinished(e)' => InFlight(e)'
        /\ outbox' = outbox
    BY <1>w, <1>t, WorkerKeepsCopy
  <2> QED
    BY <2>1, OvertakenStays DEF Work, WorkFault
<1>1. BusyHasEvent' /\ DeadLetterFirst' /\ FailedIsReplayable'
  BY <1>w, WorkerKeepsOrder DEF IInv, DeliveryInv
<1>2. ConfirmedCopyKept'
  <2>1. dispatcher' = dispatcher
    BY DEF Work, WorkFault
  <2> QED
    BY <1>k, <2>1 DEF IInv, DeliveryInv, ConfirmedCopyKept
<1>3. StrandedOnlyIfOvertaken'
  BY <1>k DEF IInv, StrandedOnlyIfOvertaken, Carried
<1> QED
  BY <1>1, <1>2, <1>3 DEF DeliveryInv

-----------------------------------------------------------------------------
(* A dispatcher changes neither the events nor the workers, and only adds   *)
(* copies; what it may take away is the open outbox message.                *)
LEMMA DispatcherLeaves ==
    ASSUME NEW d \in Dispatchers, DispatcherStep(d) \/ DispatcherFault(d)
    PROVE  events' = events /\ deadLetters' = deadLetters
BY DEF DispatcherStep, DispatcherFault, ClaimBatch, ClaimBatchLost, PublishConfirmed,
       PublishFailed, ConfirmLost, MarkOutboxPublished, ReservationLost,
       RecordPublishFailure, MarkError, DispatcherCrash, ClaimPendingOutbox, SetPublished,
       MarkOutboxFailed, storeVars

(* A dispatcher takes no copy out of the queue and none from a worker:      *)
(* Publish only adds to the queue.                                          *)
LEMMA DispatcherKeepsCopy ==
    ASSUME TypeOK, NEW d \in Dispatchers, NEW e \in Events, InFlight(e),
           DispatcherStep(d) \/ DispatcherFault(d), UNCHANGED worker
    PROVE  InFlight(e)'
<1>1. ready'[e] = ready[e] \/ ready'[e] = ready[e] + 1
  BY DEF DispatcherStep, DispatcherFault, ClaimBatch, ClaimBatchLost, PublishConfirmed,
         PublishFailed, ConfirmLost, MarkOutboxPublished, ReservationLost,
         RecordPublishFailure, MarkError, DispatcherCrash, Publish, TypeOK, BrokerTypeOK
<1>2. ready[e] \in Nat
  BY DEF TypeOK, BrokerTypeOK
<1> QED
  BY <1>1, <1>2 DEF InFlight

(* The outbox row of an event after a dispatcher's step: untouched, claimed *)
(* while pending, released to pending, or published by the dispatcher that  *)
(* holds its reservation and has published the message.                     *)
LEMMA DispatcherRow ==
    ASSUME TypeOK, NEW d \in Dispatchers, NEW e \in Events,
           DispatcherStep(d) \/ DispatcherFault(d)
    PROVE  \/ outbox'[e] = outbox[e]
           \/ /\ outbox'[e].state = "pending"
              /\ outbox'[e].token = d /\ dispatcher[d].pc = "idle"
              /\ dispatcher'[d].pc # "markPublished"
           \/ outbox'[e].state = "pending" /\ outbox'[e].token = NoToken
              /\ outbox'[e].lease = "none"
           \/ /\ outbox'[e].token = NoToken /\ outbox'[e].lease = "none"
              /\ dispatcher[d].pc = "markPublished" /\ dispatcher[d].msg = e
              /\ outbox[e].token = d
<1> USE DEF TypeOK, StoreTypeOK, OutboxRow, DispatcherTypeOK, DispatcherState
<1>1. CASE \E S \in SUBSET Events : ClaimBatch(d, S) \/ ClaimBatchLost(d, S)
  <2>1. PICK S \in SUBSET Events : ClaimBatch(d, S) \/ ClaimBatchLost(d, S)
    BY <1>1
  <2>2. dispatcher[d].pc = "idle" /\ dispatcher'[d].pc # "markPublished"
    BY <2>1 DEF ClaimBatch, ClaimBatchLost
  <2>3. CASE e \in S
    <3>1. outbox[e].state = "pending"
          /\ outbox'[e] = [outbox[e] EXCEPT !.token = d, !.lease = "live"]
      BY <2>1, <2>3 DEF ClaimBatch, ClaimBatchLost, ClaimPendingOutbox, Claimable
    <3>2. outbox'[e].state = "pending" /\ outbox'[e].token = d
      BY <3>1
    <3> QED
      BY <2>2, <3>2
  <2>4. CASE e \notin S
    BY <2>1, <2>4 DEF ClaimBatch, ClaimBatchLost, ClaimPendingOutbox
  <2> QED
    BY <2>3, <2>4
<1>2. CASE \E x \in Events : PublishConfirmed(d, x) \/ PublishFailed(d, x) \/ ConfirmLost(d, x)
  BY <1>2 DEF PublishConfirmed, PublishFailed, ConfirmLost, storeVars
<1>p. ASSUME SetPublished(dispatcher[d].msg) PROVE
        outbox'[e] = outbox[e] \/ (/\ dispatcher[d].msg = e
                                  /\ outbox'[e].token = NoToken /\ outbox'[e].lease = "none")
  BY <1>p DEF SetPublished
<1>m. ASSUME MarkOutboxFailed(dispatcher[d].msg) PROVE
        outbox'[e] = outbox[e] \/ (/\ outbox'[e].state = "pending"
                                  /\ outbox'[e].token = NoToken /\ outbox'[e].lease = "none")
  BY <1>m DEF MarkOutboxFailed, PendingRow
<1>3. CASE MarkOutboxPublished(d) \/ ReservationLost(d) \/ DispatcherCrash(d)
  BY <1>3, <1>p
     DEF MarkOutboxPublished, ReservationLost, DispatcherCrash, HoldsReservation, storeVars
<1>4. CASE RecordPublishFailure(d)
  BY <1>4, <1>m DEF RecordPublishFailure, storeVars
<1>5. CASE MarkError(d)
  BY <1>5, <1>p, <1>m DEF MarkError, HoldsReservation, storeVars
<1> QED
  BY <1>1, <1>2, <1>3, <1>4, <1>5 DEF DispatcherStep, DispatcherFault

(* A dispatcher comes to markPublished only with a copy just published.     *)
LEMMA DispatcherConfirmed ==
    ASSUME TypeOK, NEW d \in Dispatchers, NEW c \in Dispatchers, NEW e \in Events,
           DispatcherStep(d) \/ DispatcherFault(d), UNCHANGED worker,
           dispatcher'[c].pc = "markPublished", dispatcher'[c].msg = e
    PROVE  \/ InFlight(e)'
           \/ dispatcher[c].pc = "markPublished" /\ dispatcher[c].msg = e
<1> USE DEF TypeOK, DispatcherTypeOK, DispatcherState
<1>1. ASSUME NEW x \in Events, PublishConfirmed(d, x)
      PROVE  InFlight(x)'
  BY <1>1 DEF PublishConfirmed, Publish, InFlight, BrokerTypeOK
<1>2. CASE c # d
  BY <1>2 DEF DispatcherStep, DispatcherFault, ClaimBatch, ClaimBatchLost, PublishConfirmed,
              PublishFailed, ConfirmLost, MarkOutboxPublished, ReservationLost,
              RecordPublishFailure, MarkError, DispatcherCrash, Taken, Advance, Abandon
<1>3. CASE c = d
  <2>1. ASSUME Abandon(d) \/ Advance(d) PROVE FALSE
    BY <1>3, <2>1 DEF Abandon, Advance, DispatcherIdle
  <2>2. ASSUME NEW S, ClaimBatch(d, S) \/ ClaimBatchLost(d, S) PROVE FALSE
    BY <1>3, <2>2 DEF ClaimBatch, ClaimBatchLost
  <2>3. ASSUME NEW x, PublishFailed(d, x) \/ ConfirmLost(d, x) PROVE FALSE
    BY <1>3, <2>3 DEF PublishFailed, ConfirmLost, Taken
  <2>4. PICK x \in Events : PublishConfirmed(d, x)
    BY <2>1, <2>2, <2>3
       DEF DispatcherStep, DispatcherFault, MarkOutboxPublished, ReservationLost,
           RecordPublishFailure, MarkError, DispatcherCrash
  <2>5. x = e
    BY <1>3, <2>4 DEF PublishConfirmed, Taken
  <2> QED
    BY <1>1, <2>4, <2>5
<1> QED
  BY <1>2, <1>3

(* No step or fault of a dispatcher (outbox.go) breaks the delivery         *)
(* invariant: a row is closed only after its copy was confirmed.            *)
LEMMA DispatcherStepInv ==
    ASSUME IInv, NEW d \in Dispatchers, Dispatch(d) \/ DispatchFault(d)
    PROVE  DeliveryInv' /\ StrandedOnlyIfOvertaken' /\ FailedIsReplayable'
<1>t. TypeOK /\ ConfirmedCopyKept /\ StrandedOnlyIfOvertaken
  BY DEF IInv, DeliveryInv
<1>d. /\ DispatcherStep(d) \/ DispatcherFault(d)
      /\ worker' = worker
      /\ RecordOvertaken
  BY DEF Dispatch, DispatchFault
<1>l. events' = events /\ deadLetters' = deadLetters
  BY <1>d, DispatcherLeaves
<1>k. ASSUME NEW e \in Events
      PROVE  (InFlight(e) => InFlight(e)') /\ (Unfinished(e)' <=> Unfinished(e))
  BY <1>d, <1>l, <1>t, DispatcherKeepsCopy DEF Unfinished
<1>1. BusyHasEvent'
  BY <1>d DEF IInv, DeliveryInv, BusyHasEvent
<1>2. ASSUME NEW e \in Events, Unfinished(e)'
      PROVE  Carried(e)' \/ overtaken'[e]
  <2>1. CASE outbox'[e] = outbox[e]
    BY <1>2, <1>d, <1>k, <1>t, <2>1, OvertakenStays DEF StrandedOnlyIfOvertaken, Carried
  <2>2. CASE outbox'[e].state = "pending"
    BY <2>2 DEF Carried
  <2>3. CASE /\ outbox'[e].token = NoToken /\ outbox'[e].lease = "none"
             /\ dispatcher[d].pc = "markPublished" /\ dispatcher[d].msg = e
             /\ outbox[e].token = d
    <3>1. InFlight(e) \/ overtaken[e]
      BY <1>2, <1>k, <1>t, <2>3 DEF ConfirmedCopyKept
    <3> QED
      BY <1>d, <1>k, <2>3, <3>1, OvertakenStays DEF Carried
  <2> QED
    BY <1>d, <1>t, <2>1, <2>2, <2>3, DispatcherRow
<1>3. ASSUME NEW e \in Events, NEW c \in Dispatchers,
             dispatcher'[c].pc = "markPublished", dispatcher'[c].msg = e,
             outbox'[e].token = c, Unfinished(e)'
      PROVE  InFlight(e)' \/ overtaken'[e]
  <2>0. NoToken # c
    BY StoreAssumption DEF StoreAssumption
  <2>1. outbox'[e] = outbox[e]
    BY <1>3, <1>d, <1>t, <2>0, DispatcherRow
  <2>2. CASE dispatcher[c].pc = "markPublished" /\ dispatcher[c].msg = e
    <3>1. InFlight(e) \/ overtaken[e]
      BY <1>3, <1>k, <1>t, <2>1, <2>2 DEF ConfirmedCopyKept
    <3> QED
      BY <1>d, <1>k, <2>1, <3>1, OvertakenStays
  <2> QED
    BY <1>3, <1>d, <1>t, <2>2, DispatcherConfirmed
<1>4. DeadLetterFirst' /\ FailedIsReplayable'
  BY <1>d, <1>l DEF IInv, DeliveryInv, DeadLetterFirst, FailedIsReplayable
<1>5. StrandedOnlyIfOvertaken'
  BY <1>2 DEF StrandedOnlyIfOvertaken
<1>6. ConfirmedCopyKept'
  BY <1>3 DEF ConfirmedCopyKept
<1> QED
  BY <1>1, <1>4, <1>5, <1>6 DEF DeliveryInv

-----------------------------------------------------------------------------
(* Steps on the tables alone.  What any of them does to the rows of e: it   *)
(* leaves the event as decided as it was and its message as open, or opens  *)
(* the message afresh, or replays the event.                                *)
Keeps(e) ==
    /\ Unfinished(e)' => Unfinished(e)
    /\ outbox[e].state = "pending" => outbox'[e].state = "pending"
    /\ outbox'[e].token = outbox[e].token
    /\ outbox'[e].lease = "live" => outbox[e].lease = "live"

Opens(e) == outbox'[e].state = "pending" /\ outbox'[e].token = NoToken

Replays(e) ==
    /\ events[e].status = "failed" /\ events'[e].status = "queued"
    /\ outbox'[e].state = "pending" /\ outbox'[e].token = outbox[e].token
    /\ outbox'[e].lease = "live" => outbox[e].lease = "live"

TableStep(e) ==
    /\ Keeps(e) \/ Opens(e) \/ Replays(e)
    /\ deadLetters[e].present => deadLetters'[e].present
    /\ events'[e].status = "failed" => events[e].status = "failed"

(* A transaction on the tables that keeps, opens or replays an event, and   *)
(* moves no worker and no dispatcher, keeps the delivery invariant.         *)
LEMMA TableStepInv ==
    ASSUME IInv, \A e \in Events : TableStep(e),
           UNCHANGED <<ready, dispatcher, worker>>, RecordOvertaken
    PROVE  DeliveryInv' /\ StrandedOnlyIfOvertaken' /\ FailedIsReplayable'
<1>f. \A e \in Events : InFlight(e)' <=> InFlight(e)
  BY DEF InFlight
<1>1. BusyHasEvent'
  BY DEF IInv, DeliveryInv, BusyHasEvent
<1>2. DeadLetterFirst'
  BY DEF IInv, DeliveryInv, DeadLetterFirst, BusyHasEvent, TableStep
<1>3. FailedIsReplayable'
  BY DEF IInv, FailedIsReplayable, TableStep
<1>4. StrandedOnlyIfOvertaken'
  <2> SUFFICES ASSUME NEW e \in Events, Unfinished(e)'
               PROVE  Carried(e)' \/ overtaken'[e]
    BY DEF StrandedOnlyIfOvertaken
  <2>1. CASE Keeps(e)
    BY <1>f, <2>1, OvertakenStays DEF Keeps, IInv, StrandedOnlyIfOvertaken, Carried
  <2>2. CASE Opens(e) \/ Replays(e)
    BY <2>2 DEF Opens, Replays, Carried
  <2> QED
    BY <2>1, <2>2 DEF TableStep
<1>5. ConfirmedCopyKept'
  <2> SUFFICES ASSUME NEW e \in Events, NEW d \in Dispatchers,
                      dispatcher[d].pc = "markPublished", dispatcher[d].msg = e,
                      outbox'[e].token = d, Unfinished(e)'
               PROVE  InFlight(e)' \/ overtaken'[e]
    BY DEF ConfirmedCopyKept
  <2>0. d # NoToken
    BY StoreAssumption DEF StoreAssumption
  <2>1. CASE Keeps(e)
    BY <1>f, <2>1, OvertakenStays DEF Keeps, IInv, DeliveryInv, ConfirmedCopyKept
  <2>2. CASE Opens(e)
    BY <2>0, <2>2 DEF Opens
  <2>3. CASE Replays(e)
    BY <2>0, <2>3 DEF Replays, RecordOvertaken
  <2> QED
    BY <2>1, <2>2, <2>3 DEF TableStep
<1> QED
  BY <1>1, <1>2, <1>3, <1>4, <1>5 DEF DeliveryInv

(* The replay transaction and the scheduler's statements are table steps.   *)
LEMMA ReplayIsTableStep ==
    ASSUME TypeOK, NEW r, ReplayStep(r) \/ ReplayRollback(r), NEW e \in Events
    PROVE  TableStep(e)
<1> USE DEF TypeOK, StoreTypeOK, EventRow, OutboxRow, DeadLetterRow
<1>1. CASE UNCHANGED storeVars
  BY <1>1 DEF storeVars, TableStep, Keeps, Unfinished
<1>2. CASE ReplayCommit(r) /\ replayer[r].event = e
  <2>1. outbox'[e] = ReopenedRow(e)
    BY <1>2 DEF ReplayCommit, ReplayWrites
  <2>2. Opens(e) \/ Replays(e)
    BY <1>2, <2>1 DEF ReplayCommit, ReopenedRow, PendingRow, Opens, Replays
  <2> QED
    BY <1>2, <2>2 DEF ReplayCommit, ReplayWrites, TableStep
<1>3. CASE ReplayCommitMissed(r) /\ replayer[r].event = e
  <2>1. outbox'[e] = ReopenedRow(e) /\ events' = events
    BY <1>3 DEF ReplayCommitMissed, ReplayWrites
  <2>2. Opens(e) \/ Keeps(e)
    BY <2>1 DEF ReopenedRow, PendingRow, Opens, Keeps, Unfinished
  <2> QED
    BY <1>3, <2>1, <2>2 DEF ReplayCommitMissed, ReplayWrites, TableStep
<1>4. CASE (ReplayCommit(r) \/ ReplayCommitMissed(r)) /\ replayer[r].event # e
  BY <1>4 DEF ReplayCommit, ReplayCommitMissed, ReplayWrites, TableStep, Keeps, Unfinished
<1> QED
  BY <1>1, <1>2, <1>3, <1>4 DEF ReplayStep, ReplayRead, ReplayMiss, ReplayRollback

(* Every step and fault of a retry scheduler (dlq_retry.go) is such a       *)
(* transaction.                                                             *)
LEMMA SchedulerIsTableStep ==
    ASSUME TypeOK, NEW s, SchedulerStep(s) \/ SchedulerFault(s), NEW e \in Events
    PROVE  TableStep(e)
<1>1. CASE UNCHANGED storeVars
  BY <1>1 DEF storeVars, TableStep, Keeps, Unfinished
<1>2. CASE ReplayStep(s) \/ ReplayRollback(s)
  BY <1>2, ReplayIsTableStep
<1>3. ASSUME NEW S \in SUBSET Events, ClaimRetryableDeadLetterDetails(S)
      PROVE  TableStep(e)
  <2>1. deadLetters'[e].present = deadLetters[e].present
    BY <1>3 DEF ClaimRetryableDeadLetterDetails, TypeOK, StoreTypeOK, DeadLetterRow
  <2> QED
    BY <1>3, <2>1 DEF ClaimRetryableDeadLetterDetails, TableStep, Keeps, Unfinished
<1>4. CASE RescheduleDeadLetterRetryWithDelay(scheduler[s].event)
  BY <1>4 DEF RescheduleDeadLetterRetryWithDelay, TableStep, Keeps, Unfinished, TypeOK,
              StoreTypeOK, DeadLetterRow
<1> QED
  BY <1>1, <1>2, <1>3, <1>4
     DEF SchedulerStep, SchedulerFault, ClaimDue, RetryItem, RetryRefused, RetryMiss,
         RetryCommit, Reschedule, RetryError, RescheduleError, SchedulerCrash, ReplayStep

-----------------------------------------------------------------------------
(* The invariant holds in a freshly migrated database with an idle service. *)
LEMMA InitInv == Init => IInv
<1> SUFFICES ASSUME Init PROVE IInv
  OBVIOUS
<1>1. BusyHasEvent /\ DeadLetterFirst
  BY DEF Init, WorkerInit, WorkerIdle, BusyHasEvent, DeadLetterFirst
<1>2. ConfirmedCopyKept
  BY DEF Init, DispatcherInit, DispatcherIdle, ConfirmedCopyKept
<1>3. StrandedOnlyIfOvertaken /\ FailedIsReplayable
  BY DEF Init, StoreInit, StrandedOnlyIfOvertaken, FailedIsReplayable, Unfinished
<1> QED
  BY <1>1, <1>2, <1>3, InitType DEF IInv, DeliveryInv

(* Every step of the service keeps the invariant.                           *)
LEMMA NextInv == IInv /\ [Next]_vars => IInv'
<1> SUFFICES ASSUME IInv, [Next]_vars
             PROVE  DeliveryInv' /\ StrandedOnlyIfOvertaken' /\ FailedIsReplayable'
  BY NextType DEF IInv
<1> DEFINE Goal == DeliveryInv' /\ StrandedOnlyIfOvertaken' /\ FailedIsReplayable'
<1>t. TypeOK
  BY DEF IInv
<1>1. ASSUME NEW x \in Events, CreateEvent(x) PROVE Goal
  <2>1. \A e \in Events : TableStep(e)
    BY <1>1, <1>t DEF CreateEvent, SaveQueuedWithOutbox, PendingRow, TableStep, Keeps, Opens,
                      Unfinished, TypeOK, StoreTypeOK, EventRow, OutboxRow
  <2> QED
    BY <1>1, <2>1, TableStepInv DEF CreateEvent
<1>2. ASSUME NEW x \in Events, DispatchLeaseExpires(x) PROVE Goal
  <2>1. \A e \in Events : TableStep(e)
    BY <1>2, <1>t DEF DispatchLeaseExpires, TableStep, Keeps, Unfinished, TypeOK,
                      StoreTypeOK, OutboxRow
  <2> QED
    BY <1>2, <2>1, TableStepInv DEF DispatchLeaseExpires
<1>3. ASSUME NEW x \in Events, ProcessingLeaseExpires(x) PROVE Goal
  <2>1. \A e \in Events : TableStep(e)
    BY <1>3, <1>t DEF ProcessingLeaseExpires, TableStep, Keeps, Unfinished, TypeOK,
                      StoreTypeOK, EventRow
  <2> QED
    BY <1>3, <2>1, TableStepInv DEF ProcessingLeaseExpires
<1>4. ASSUME NEW x \in Events, RetryDelayElapses(x) PROVE Goal
  <2>1. \A e \in Events : TableStep(e)
    BY <1>4, <1>t DEF RetryDelayElapses, TableStep, Keeps, Unfinished, TypeOK,
                      StoreTypeOK, DeadLetterRow
  <2> QED
    BY <1>4, <2>1, TableStepInv DEF RetryDelayElapses
<1>5. ASSUME NEW d \in Dispatchers, Dispatch(d) \/ DispatchFault(d) PROVE Goal
  BY <1>5, DispatcherStepInv
<1>6. ASSUME NEW w \in Workers, Work(w) \/ WorkFault(w) PROVE Goal
  BY <1>6, WorkerStepInv
<1>7. ASSUME NEW r \in Replayers, ManualReplay(r) \/ ManualReplayFault(r) PROVE Goal
  <2>1. \A e \in Events : TableStep(e)
    BY <1>7, <1>t, ReplayIsTableStep DEF ManualReplay, ManualReplayFault
  <2> QED
    BY <1>7, <2>1, TableStepInv DEF ManualReplay, ManualReplayFault
<1>8. ASSUME NEW s \in Schedulers, AutoRetry(s) \/ AutoRetryFault(s) PROVE Goal
  <2>1. \A e \in Events : TableStep(e)
    BY <1>8, <1>t, SchedulerIsTableStep DEF AutoRetry, AutoRetryFault
  <2> QED
    BY <1>8, <2>1, TableStepInv DEF AutoRetry, AutoRetryFault
<1>9. CASE UNCHANGED vars
  <2>1. BusyHasEvent' /\ DeadLetterFirst' /\ FailedIsReplayable'
    BY <1>9 DEF vars, IInv, DeliveryInv, BusyHasEvent, DeadLetterFirst, FailedIsReplayable
  <2>2. ConfirmedCopyKept' /\ StrandedOnlyIfOvertaken'
    BY <1>9 DEF vars, IInv, DeliveryInv, ConfirmedCopyKept, StrandedOnlyIfOvertaken,
                Unfinished, Carried, InFlight
  <2> QED
    BY <2>1, <2>2 DEF DeliveryInv
<1> QED
  BY <1>1, <1>2, <1>3, <1>4, <1>5, <1>6, <1>7, <1>8, <1>9
     DEF Next, Step, Fault, RetryFault

(* The invariant holds in every behaviour of the service.                   *)
LEMMA InvHolds == Spec => []IInv
BY InitInv, NextInv, PTL DEF Spec

(***************************************************************************)
(* For any number of events, replicas, copies and faults, and whatever the *)
(* leases: an accepted event that is not yet processed or failed still has *)
(* an open outbox message or a copy on its way, except after a replay that *)
(* overtook a dispatch reservation (event_store.go, ReplayDeadLetter).     *)
(***************************************************************************)
THEOREM NothingElseStrands == Spec => []StrandedOnlyIfOvertaken
<1>1. IInv => StrandedOnlyIfOvertaken
  BY DEF IInv
<1> QED
  BY <1>1, InvHolds, PTL

(***************************************************************************)
(* Every failed event has its dead letter and so can be replayed, also     *)
(* with stale workers and with crashes between the two writes of           *)
(* processEventWithRetry.                                                  *)
(***************************************************************************)
THEOREM FailedCanBeReplayed == Spec => []FailedIsReplayable
<1>1. IInv => FailedIsReplayable
  BY DEF IInv
<1> QED
  BY <1>1, InvHolds, PTL

(***************************************************************************)
(* The strengthening both rest on: a message about to be marked published  *)
(* under a reservation still held has a copy in flight.                    *)
(***************************************************************************)
THEOREM DeliveryInvariant == Spec => []DeliveryInv
<1>1. IInv => DeliveryInv
  BY DEF IInv
<1> QED
  BY <1>1, InvHolds, PTL
=============================================================================
