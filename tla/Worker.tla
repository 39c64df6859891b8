------------------------------- MODULE Worker -------------------------------
(***************************************************************************)
(* worker.go: handleDelivery and processEventWithRetry.  A worker holds at *)
(* most one delivery; "live" says that the channel it came on is still     *)
(* open, so that an ack or nack reaches the broker.  Deliveries waiting in *)
(* the events channel have no place of their own.  While the channel they  *)
(* came on is open they behave like ready copies; afterwards like          *)
(* deliveries already with a worker that has not begun and whose "live" is *)
(* FALSE.  QueueContract, which the queue client implements, allows no     *)
(* other.                                                                  *)
(***************************************************************************)
EXTENDS EventStore, Broker

CONSTANTS
    Workers,
    MaxRetries     \* MAX_RETRIES

ASSUME WorkerAssumption == MaxRetries \in Nat

VARIABLE worker

Calls == {"claim", "readStatus", "markProcessed", "saveDeadLetter", "markFailed"}

WorkerState == [pc : Calls \cup {"idle", "execute", "ack", "requeue", "drop"},
                event : Events \cup {NoEvent},
                attempt : Nat,
                live : BOOLEAN]

WorkerIdle == [pc |-> "idle", event |-> NoEvent, attempt |-> 0, live |-> FALSE]

WorkerTypeOK == worker \in [Workers -> WorkerState]

WorkerInit == worker = [w \in Workers |-> WorkerIdle]

maxAttempts == MaxRetries + 1

(* Worker w runs event e under a claim it took.                             *)
Executing(w, e) ==
    /\ worker[w].event = e
    /\ worker[w].pc \in {"execute", "markProcessed", "saveDeadLetter", "markFailed"}

Goto(w, next) == worker' = [worker EXCEPT ![w].pc = next]

-----------------------------------------------------------------------------
Receive(w, e) ==
    /\ worker[w].pc = "idle"
    /\ Deliver(e)
    /\ worker' = [worker EXCEPT ![w] =
          [pc |-> "claim", event |-> e, attempt |-> 0, live |-> TRUE]]
    /\ UNCHANGED storeVars

Claimed(w) ==
    LET e == worker[w].event IN
    /\ worker[w].pc = "claim"
    /\ ClaimableForProcessing(e)
    /\ ClaimForProcessing(e)
    /\ worker' = [worker EXCEPT ![w].pc = "execute", ![w].attempt = 1]
    /\ UNCHANGED ready

(* The UPDATE matched no row; the status is read by a second statement.     *)
NotClaimed(w) ==
    /\ worker[w].pc = "claim"
    /\ ~ClaimableForProcessing(worker[w].event)
    /\ Goto(w, "readStatus")
    /\ UNCHANGED <<storeVars, ready>>

(* Faulty variant: a delivery of an event in progress is acknowledged.      *)
ReadStatusAcksInProgress(w) ==
    /\ worker[w].pc = "readStatus"
    /\ Goto(w, IF events[worker[w].event].status = "absent" THEN "drop" ELSE "ack")
    /\ UNCHANGED <<storeVars, ready>>

ReadStatus(w) ==
    LET status == events[worker[w].event].status IN
    /\ worker[w].pc = "readStatus"
    /\ Goto(w, IF status \in Final THEN "ack"
               ELSE IF status = "absent" THEN "drop"
               ELSE "requeue")
    /\ UNCHANGED <<storeVars, ready>>

AttemptSucceeds(w) ==
    /\ worker[w].pc = "execute"
    /\ Goto(w, "markProcessed")
    /\ UNCHANGED <<storeVars, ready>>

(* Faulty variant: the status is stored without the dead letter.            *)
AttemptFailsUnrecorded(w) ==
    /\ worker[w].pc = "execute"
    /\ IF worker[w].attempt = maxAttempts
       THEN Goto(w, "markFailed")
       ELSE worker' = [worker EXCEPT ![w].attempt = @ + 1]
    /\ UNCHANGED <<storeVars, ready>>

AttemptFails(w) ==
    /\ worker[w].pc = "execute"
    /\ IF worker[w].attempt = maxAttempts
       THEN Goto(w, "saveDeadLetter")
       ELSE worker' = [worker EXCEPT ![w].attempt = @ + 1]
    /\ UNCHANGED <<storeVars, ready>>

FinishProcessed(w) ==
    /\ worker[w].pc = "markProcessed"
    /\ MarkProcessed(worker[w].event)
    /\ Goto(w, "ack")
    /\ UNCHANGED ready

AddDeadLetter(w) ==
    /\ worker[w].pc = "saveDeadLetter"
    /\ SaveDeadLetter(worker[w].event)
    /\ Goto(w, "markFailed")
    /\ UNCHANGED ready

FinishFailed(w) ==
    /\ worker[w].pc = "markFailed"
    /\ MarkFailed(worker[w].event)
    /\ Goto(w, "ack")
    /\ UNCHANGED ready

(* A database call returns an error, its statement not applied or applied.  *)
(* Every such path ends in nack with requeue.                               *)
CallFails(w) ==
    LET e == worker[w].event IN
    /\ worker[w].pc \in Calls
    /\ \/ UNCHANGED storeVars
       \/ /\ worker[w].pc = "claim"
          /\ ClaimableForProcessing(e)
          /\ ClaimForProcessing(e)
       \/ worker[w].pc = "markProcessed" /\ MarkProcessed(e)
       \/ worker[w].pc = "saveDeadLetter" /\ SaveDeadLetter(e)
       \/ worker[w].pc = "markFailed" /\ MarkFailed(e)
    /\ Goto(w, "requeue")
    /\ UNCHANGED ready

-----------------------------------------------------------------------------
(* An ack or nack of a delivery whose channel is gone is only logged.       *)

Release(w) == worker' = [worker EXCEPT ![w] = WorkerIdle]

ReturnDelivery(w) ==
    IF worker[w].live THEN Requeue(worker[w].event) ELSE UNCHANGED ready

Ack(w) ==
    /\ worker[w].pc \in {"ack", "drop"}
    /\ Release(w)
    /\ UNCHANGED <<storeVars, ready>>

NackRequeue(w) ==
    /\ worker[w].pc = "requeue"
    /\ ReturnDelivery(w)
    /\ Release(w)
    /\ UNCHANGED storeVars

WorkerCrash(w) ==
    /\ worker[w].pc # "idle"
    /\ ReturnDelivery(w)
    /\ Release(w)
    /\ UNCHANGED storeVars

(* The broker connection drops: the broker requeues the delivery and the    *)
(* worker, unaware, goes on with it.                                        *)
ConnectionLost(w) ==
    /\ worker[w].live
    /\ Requeue(worker[w].event)
    /\ worker' = [worker EXCEPT ![w].live = FALSE]
    /\ UNCHANGED storeVars

-----------------------------------------------------------------------------
WorkerStep(w) ==
    \/ \E e \in Events : Receive(w, e)
    \/ Claimed(w)
    \/ NotClaimed(w)
    \/ ReadStatus(w)
    \/ AttemptSucceeds(w)
    \/ AttemptFails(w)
    \/ FinishProcessed(w)
    \/ AddDeadLetter(w)
    \/ FinishFailed(w)
    \/ Ack(w)
    \/ NackRequeue(w)

WorkerFault(w) ==
    \/ CallFails(w)
    \/ WorkerCrash(w)
    \/ ConnectionLost(w)
=============================================================================
