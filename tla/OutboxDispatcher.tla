-------------------------- MODULE OutboxDispatcher --------------------------
(***************************************************************************)
(* outbox.go: DispatchPending, run by one goroutine of every replica.  A   *)
(* call of the store or of the broker is one step.  RETURNING promises no  *)
(* order, so the claimed batch is a set.  A dispatcher's name serves as    *)
(* its dispatch token: it draws a fresh one for each claim, but never      *)
(* compares any but the last with a row.                                   *)
(***************************************************************************)
EXTENDS EventStore, Broker

VARIABLE dispatcher    \* pc, the messages still to publish, the current one

DispatcherState == [pc : {"idle", "publish", "markPublished", "markFailed"},
                    batch : SUBSET Events,
                    msg : Events \cup {NoEvent}]

DispatcherIdle == [pc |-> "idle", batch |-> {}, msg |-> NoEvent]

DispatcherTypeOK == dispatcher \in [Dispatchers -> DispatcherState]

DispatcherInit == dispatcher = [d \in Dispatchers |-> DispatcherIdle]

(* The messages dispatcher d has claimed and not yet settled.               *)
InHand(d) == dispatcher[d].batch \cup ({dispatcher[d].msg} \ {NoEvent})

-----------------------------------------------------------------------------
ClaimBatch(d, S) ==
    /\ dispatcher[d].pc = "idle"
    /\ ClaimPendingOutbox(d, S)
    /\ dispatcher' = [dispatcher EXCEPT ![d] =
          [pc |-> "publish", batch |-> S, msg |-> NoEvent]]
    /\ UNCHANGED ready

(* The rows are reserved but the call returns an error: a scan, decode or   *)
(* connection error after the statement ran.                                *)
ClaimBatchLost(d, S) ==
    /\ dispatcher[d].pc = "idle"
    /\ ClaimPendingOutbox(d, S)
    /\ UNCHANGED <<dispatcher, ready>>

Taken(d, e, next) ==
    dispatcher' = [dispatcher EXCEPT ![d] =
        [pc |-> next, batch |-> @.batch \ {e}, msg |-> e]]

PublishConfirmed(d, e) ==
    /\ dispatcher[d].pc = "publish"
    /\ e \in dispatcher[d].batch
    /\ Publish(e)
    /\ Taken(d, e, "markPublished")
    /\ UNCHANGED storeVars

(* Faulty variant: the error of the publication is not looked at.           *)
PublishFailureIgnored(d, e) ==
    /\ dispatcher[d].pc = "publish"
    /\ e \in dispatcher[d].batch
    /\ Taken(d, e, "markPublished")
    /\ UNCHANGED <<storeVars, ready>>

(* The broker refused the message, or never saw it.                         *)
PublishFailed(d, e) ==
    /\ dispatcher[d].pc = "publish"
    /\ e \in dispatcher[d].batch
    /\ Taken(d, e, "markFailed")
    /\ UNCHANGED <<storeVars, ready>>

(* The message is in the queue but its confirmation did not arrive.         *)
ConfirmLost(d, e) ==
    /\ dispatcher[d].pc = "publish"
    /\ e \in dispatcher[d].batch
    /\ Publish(e)
    /\ Taken(d, e, "markFailed")
    /\ UNCHANGED storeVars

Abandon(d) == dispatcher' = [dispatcher EXCEPT ![d] = DispatcherIdle]

(* On to the next message, or out of the loop.                              *)
Advance(d) ==
    dispatcher' = [dispatcher EXCEPT ![d] =
        IF @.batch = {} THEN DispatcherIdle
        ELSE [pc |-> "publish", batch |-> @.batch, msg |-> NoEvent]]

MarkOutboxPublished(d) ==
    LET e == dispatcher[d].msg IN
    /\ dispatcher[d].pc = "markPublished"
    /\ HoldsReservation(d, e)
    /\ SetPublished(e)
    /\ Advance(d)
    /\ UNCHANGED ready

(* No row matched: the error "reservation expired".  The rest of the batch  *)
(* keeps its reservation until the lease passes.                            *)
ReservationLost(d) ==
    /\ dispatcher[d].pc = "markPublished"
    /\ ~HoldsReservation(d, dispatcher[d].msg)
    /\ Abandon(d)
    /\ UNCHANGED <<storeVars, ready>>

(* After a failed publication the loop always breaks.                       *)
RecordPublishFailure(d) ==
    LET e == dispatcher[d].msg IN
    /\ dispatcher[d].pc = "markFailed"
    /\ IF HoldsReservation(d, e) THEN MarkOutboxFailed(e) ELSE UNCHANGED storeVars
    /\ Abandon(d)
    /\ UNCHANGED ready

(* MarkOutboxPublished or MarkOutboxFailed returns an error, its statement  *)
(* not applied or applied; a cancelled context ends the loop the same way.  *)
MarkError(d) ==
    LET e == dispatcher[d].msg IN
    /\ dispatcher[d].pc \in {"markPublished", "markFailed"}
    /\ \/ UNCHANGED storeVars
       \/ /\ HoldsReservation(d, e)
          /\ \/ dispatcher[d].pc = "markPublished" /\ SetPublished(e)
             \/ dispatcher[d].pc = "markFailed" /\ MarkOutboxFailed(e)
    /\ Abandon(d)
    /\ UNCHANGED ready

DispatcherCrash(d) ==
    /\ dispatcher[d].pc # "idle"
    /\ Abandon(d)
    /\ UNCHANGED <<storeVars, ready>>

-----------------------------------------------------------------------------
DispatcherStep(d) ==
    \/ \E S \in SUBSET Events : ClaimBatch(d, S)
    \/ \E e \in Events : PublishConfirmed(d, e)
    \/ MarkOutboxPublished(d)
    \/ ReservationLost(d)
    \/ RecordPublishFailure(d)

DispatcherFault(d) ==
    \/ \E S \in SUBSET Events : ClaimBatchLost(d, S)
    \/ \E e \in Events : PublishFailed(d, e) \/ ConfirmLost(d, e)
    \/ MarkError(d)
    \/ DispatcherCrash(d)
=============================================================================
