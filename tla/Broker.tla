------------------------------- MODULE Broker -------------------------------
(***************************************************************************)
(* The durable RabbitMQ queue webhook.events, as rabbitmq_queue.go uses    *)
(* it.  Messages are persistent and copies of one event are alike, so the  *)
(* queue is the number of ready copies of each event; a delivery that is   *)
(* not yet acknowledged is kept with the worker that holds it.             *)
(***************************************************************************)
EXTENDS Models, Naturals

CONSTANTS
    Orphans,      \* events with a message left from before the database was reset
    MaxCopies     \* bound: ready copies of an event beyond which nothing is published

ASSUME BrokerAssumption == MaxCopies \in Nat /\ Orphans \subseteq Events

VARIABLE ready

BrokerTypeOK == ready \in [Events -> Nat]

BrokerInit == ready = [e \in Events |-> IF e \in Orphans THEN 1 ELSE 0]

Publish(e) ==
    /\ ready[e] < MaxCopies
    /\ ready' = [ready EXCEPT ![e] = @ + 1]

Deliver(e) ==
    /\ ready[e] > 0
    /\ ready' = [ready EXCEPT ![e] = @ - 1]

(* nack with requeue, or the channel of an unacknowledged delivery closed.  *)
Requeue(e) == ready' = [ready EXCEPT ![e] = @ + 1]
=============================================================================
