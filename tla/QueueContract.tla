--------------------------- MODULE QueueContract ----------------------------
(***************************************************************************)
(* What a worker may assume of EventConsumer (queue.go), whatever buffers, *)
(* channels and connections lie between it and the broker: a delivery it   *)
(* can settle is of a message that waits; its ack or nack works until the  *)
(* connection is lost, which sends everything held back to wait, or to     *)
(* another replica; and a message this replica takes off the queue is gone *)
(* by the ack of the one worker that holds it, or as no event.  Broker and *)
(* Worker of the service model rest on this.                               *)
(***************************************************************************)
CONSTANTS Messages, Undecodable, Workers, NoMessage

VARIABLES
    held,     \* the message each worker handles
    live,     \* the workers whose ack or nack reaches the broker
    away,     \* messages other replicas hold or took off the queue
    gone      \* messages this replica took off the queue

contractVars == <<held, live, away, gone>>

ContractInit ==
    /\ held = [w \in Workers |-> NoMessage]
    /\ live = {}
    /\ away = {}
    /\ gone = {}

(* Neither settled here nor in the hands of a worker that can settle it.    *)
Open == Messages \ (gone \cup {held[w] : w \in live})

Waiting == Open \ away

(* The connection may be lost between the buffer and the worker: then the   *)
(* worker handles a message that waits again, or that another replica got.  *)
Deliver(w) ==
    /\ held[w] = NoMessage
    /\ \/ /\ \E m \in Waiting : held' = [held EXCEPT ![w] = m]
          /\ live' = live \cup {w}
       \/ /\ \E m \in Open : held' = [held EXCEPT ![w] = m]
          /\ live' = live
    /\ UNCHANGED <<away, gone>>

Return(w) ==
    /\ held[w] # NoMessage
    /\ held' = [held EXCEPT ![w] = NoMessage]
    /\ live' = live \ {w}
    /\ UNCHANGED away

Settle(w) == Return(w) /\ gone' = gone \cup (IF w \in live THEN {held[w]} ELSE {})

Requeue(w) == Return(w) /\ UNCHANGED gone

Reject ==
    /\ \E m \in Waiting \cap Undecodable : gone' = gone \cup {m}
    /\ UNCHANGED <<held, live, away>>

Disconnect == live' = {} /\ UNCHANGED <<held, away, gone>>

OtherReplica ==
    /\ \/ \E m \in Waiting : away' = away \cup {m}
       \/ \E m \in away : away' = away \ {m}
    /\ UNCHANGED <<held, live, gone>>

Exit ==
    /\ held' = [w \in Workers |-> NoMessage]
    /\ live' = {}
    /\ UNCHANGED <<away, gone>>

ContractNext ==
    \/ \E w \in Workers : Deliver(w) \/ Settle(w) \/ Requeue(w)
    \/ Reject
    \/ Disconnect
    \/ OtherReplica
    \/ Exit

ContractSpec == ContractInit /\ [][ContractNext]_contractVars
=============================================================================
