-------------------------- MODULE GracefulShutdown --------------------------
(***************************************************************************)
(* main.go: one replica from start to exit.  Its HTTP server, outbox       *)
(* dispatcher, workers and queue client run until a signal, and main then  *)
(* stops them in order: the server, for at most the shutdown timeout; the  *)
(* dispatchers; the consume loop; the workers; the connections.  Of a      *)
(* process only what main waits for and what it does with the queue client *)
(* is kept; the retry scheduler, stopped together with the dispatcher,     *)
(* does nothing with it.                                                   *)
(***************************************************************************)
EXTENDS RabbitMQEventQueue

CONSTANT MaxFaults    \* bound: lost connections, cancelled consumers, failed
                      \* dials, messages other replicas get

ASSUME ShutdownAssumption == MaxFaults \in Nat

VARIABLES
    main,          \* where main is
    dispatcher,    \* DispatchPending, one publication at a time
    worker,        \* the delivery each worker handles
    decided,       \* history: messages taken from the queue by a worker's ack or reject
    faults

processVars == <<main, dispatcher, worker, decided>>
vars == <<queueVars, processVars, faults>>

TypeOK ==
    /\ QueueTypeOK
    /\ main \in {"running", "shutdown", "dispatchers", "consumer", "workers",
                 "close", "done", "exited"}
    /\ dispatcher \in {"waiting", "connect", "confirm", "stopped"}
    /\ worker \in [Workers -> [pc : {"receive", "handle", "stopped"},
                               delivery : Delivery \cup {NoDelivery}]]
    /\ decided \subseteq Messages
    /\ faults \in 0 .. MaxFaults

Receiving == [pc |-> "receive", delivery |-> NoDelivery]

Init ==
    /\ QueueInit
    /\ main = "running"
    /\ dispatcher = "waiting"
    /\ worker = [w \in Workers |-> Receiving]
    /\ decided = {}
    /\ faults = 0

Alive == main \notin {"done", "exited"}

(* dispatcherContext is done.                                               *)
DispatchersCancelled == main \notin {"running", "shutdown"}

-----------------------------------------------------------------------------
(* The dispatcher.  Once its context is done a poll claims nothing, and a   *)
(* message that was confirmed is the last of its batch.                     *)

At(pc) ==
    /\ dispatcher' = pc
    /\ UNCHANGED <<main, worker, decided>>

Poll ==
    /\ dispatcher = "waiting"
    /\ ~DispatchersCancelled
    /\ At("connect")
    /\ UNCHANGED <<queueVars, faults>>

Connect ==
    /\ dispatcher = "connect"
    /\ EnsurePublisher
    /\ At("confirm")
    /\ UNCHANGED faults

ConnectFails ==
    /\ dispatcher = "connect"
    /\ publisher # "open"
    /\ InvalidatePublisher
    /\ At("waiting")
    /\ UNCHANGED faults

(* The broker answers, with a confirmation or a nack.                       *)
Confirmed ==
    /\ dispatcher = "confirm"
    /\ publisher = "open"
    /\ \/ ~DispatchersCancelled /\ At("connect")
       \/ At("waiting")
    /\ UNCHANGED <<queueVars, faults>>

(* Faulty variant: the confirmation is awaited without the context.         *)
ConfirmAwaited ==
    /\ dispatcher = "confirm"
    /\ publisher # "open"
    /\ InvalidatePublisher
    /\ At("waiting")
    /\ UNCHANGED faults

ConfirmAbandoned ==
    /\ dispatcher = "confirm"
    /\ publisher # "open" \/ DispatchersCancelled
    /\ InvalidatePublisher
    /\ At("waiting")
    /\ UNCHANGED faults

DispatcherStops ==
    /\ dispatcher = "waiting"
    /\ DispatchersCancelled
    /\ At("stopped")
    /\ UNCHANGED <<queueVars, faults>>

DispatcherStep == Connect \/ ConfirmAbandoned \/ DispatcherStops

-----------------------------------------------------------------------------
(* worker: range over Events(), which ends once the channel is closed and   *)
(* empty.                                                                   *)

WorkerAt(w, pc, d) ==
    /\ worker' = [worker EXCEPT ![w] = [pc |-> pc, delivery |-> d]]
    /\ UNCHANGED <<main, dispatcher, faults>>

Take(w) ==
    /\ worker[w].pc = "receive"
    /\ events # <<>>
    /\ WorkerAt(w, "handle", Head(events))
    /\ events' = Tail(events)
    /\ UNCHANGED <<brokerVars, consumerVars, loop, publisher, cancelled, decided>>

(* handleDelivery acks, or rejects without requeue an event that is not     *)
(* stored.                                                                  *)
Decide(w) ==
    LET d == worker[w].delivery IN
    /\ worker[w].pc = "handle"
    /\ Ack(d)
    /\ decided' = decided \cup (settled' \ settled)
    /\ WorkerAt(w, "receive", NoDelivery)
    /\ UNCHANGED <<consumerVars, loopVars, publisher, cancelled>>

SendBack(w) ==
    /\ worker[w].pc = "handle"
    /\ NackRequeue(worker[w].delivery)
    /\ WorkerAt(w, "receive", NoDelivery)
    /\ UNCHANGED <<consumerVars, loopVars, publisher, cancelled, decided>>

WorkerStops(w) ==
    /\ worker[w].pc = "receive"
    /\ events = <<>>
    /\ loop.pc = "done"
    /\ WorkerAt(w, "stopped", NoDelivery)
    /\ UNCHANGED <<queueVars, decided>>

WorkerStep(w) == Take(w) \/ Decide(w) \/ SendBack(w) \/ WorkerStops(w)

-----------------------------------------------------------------------------
Goto(pc) ==
    /\ main' = pc
    /\ UNCHANGED <<dispatcher, worker, decided, faults>>

Signal == main = "running" /\ Goto("shutdown") /\ UNCHANGED queueVars

(* ListenAndServe fails and main calls os.Exit: everything of the process   *)
(* is gone, and the broker takes back what was unacknowledged.              *)
ServerFails ==
    /\ main = "running"
    /\ main' = "exited"
    /\ ready' = ready \cup Unacked
    /\ prefetched' = {}
    /\ subscribed' = FALSE
    /\ consumer' = "none"
    /\ publisher' = "none"
    /\ events' = <<>>
    /\ LoopAt("done")
    /\ dispatcher' = "stopped"
    /\ worker' = [w \in Workers |-> [pc |-> "stopped", delivery |-> NoDelivery]]
    /\ UNCHANGED <<elsewhere, settled, channelNo, cancelled, decided, faults>>

(* server.Shutdown returns when no request is left or its time is up; the   *)
(* requests themselves use neither the queue nor the workers.               *)
ServerShutdown == main = "shutdown" /\ Goto("dispatchers") /\ UNCHANGED queueVars

(* Faulty variant: main does not wait for the dispatcher.                   *)
DispatchersNotAwaited ==
    main = "dispatchers" /\ Goto("consumer") /\ StopConsuming

DispatchersStopped ==
    /\ main = "dispatchers"
    /\ dispatcher = "stopped"
    /\ Goto("consumer")
    /\ StopConsuming

ConsumerStopped ==
    /\ main = "consumer"
    /\ loop.pc = "done"
    /\ Goto("workers")
    /\ UNCHANGED queueVars

(* Faulty variant: main does not wait for the workers.                      *)
WorkersNotAwaited == main = "workers" /\ Goto("close") /\ UNCHANGED queueVars

WorkersStopped ==
    /\ main = "workers"
    /\ \A w \in Workers : worker[w].pc = "stopped"
    /\ Goto("close")
    /\ UNCHANGED queueVars

(* Close needs publishMu, which publish holds while it awaits a confirm.    *)
CloseQueue ==
    /\ main = "close"
    /\ dispatcher # "confirm"
    /\ Close
    /\ Goto("done")

MainStep ==
    \/ ServerShutdown
    \/ DispatchersStopped
    \/ ConsumerStopped
    \/ WorkersStopped
    \/ CloseQueue

-----------------------------------------------------------------------------
Fault ==
    /\ Alive
    /\ faults < MaxFaults
    /\ \/ ConsumerLost
       \/ ConsumerCancelled
       \/ PublisherLost
       \/ OpenConsumerFails
       \/ \E m \in Messages : TakenElsewhere(m)
    /\ faults' = faults + 1
    /\ UNCHANGED processVars

Consume == LoopStep \/ SeeCancel

Next ==
    \/ Signal
    \/ ServerFails
    \/ MainStep
    \/ Poll
    \/ ConnectFails
    \/ Confirmed
    \/ DispatcherStep
    \/ \E w \in Workers : WorkerStep(w)
    \/ Alive /\ (\E m \in Messages : Push(m)) /\ UNCHANGED <<processVars, faults>>
    \/ Alive /\ (\E m \in Messages : BackFromElsewhere(m)) /\ UNCHANGED <<processVars, faults>>
    \/ Alive /\ Unsubscribe /\ UNCHANGED <<processVars, faults>>
    \/ Consume /\ UNCHANGED <<processVars, faults>>
    \/ Fault

(***************************************************************************)
(* Goroutines run, calls of the store and attempts to connect return and   *)
(* timers fire.  No fairness for the broker's confirmations, for faults or *)
(* for the signal.                                                         *)
(***************************************************************************)
Fairness ==
    /\ WF_vars(MainStep)
    /\ WF_vars(DispatcherStep)
    /\ \A w \in Workers : WF_vars(WorkerStep(w))
    /\ WF_vars(LoopStep /\ UNCHANGED <<processVars, faults>>)
    /\ WF_vars(SeeCancel /\ UNCHANGED <<processVars, faults>>)

Spec == Init /\ [][Next]_vars /\ Fairness

-----------------------------------------------------------------------------
(* The number of deliveries of m, wherever they are, that can settle it.    *)
LiveCopies(m) ==
    LET Settles(d) == d # NoDelivery /\ d.msg = m /\ Live(d) IN
    Cardinality({x \in prefetched : x = m /\ consumer = "open"})
    + Cardinality({d \in {loop.delivery} : Settles(d)})
    + Cardinality({i \in DOMAIN events : Settles(events[i])})
    + Cardinality({w \in Workers : Settles(worker[w].delivery)})

(***************************************************************************)
(* No delivery is lost or leaked in the client, reconnections, a full      *)
(* channel and shutdown included: a message the broker counts as           *)
(* unacknowledged has exactly one delivery that can still settle it (a     *)
(* forgotten one would occupy the prefetch for ever), and one that left    *)
(* the queue did so by the ack or reject of a worker, or is no event.      *)
(***************************************************************************)
DeliveriesAccounted ==
    /\ settled \subseteq decided \cup Undecodable
    /\ \A m \in Messages : LiveCopies(m) = IF m \in Unacked THEN 1 ELSE 0

(***************************************************************************)
(* Workers acknowledge on an open channel: once a shutdown has cancelled   *)
(* consumption, a consumer channel that works is closed only after the     *)
(* last delivery was handled.  One interleaving is excepted, and the model *)
(* has it: the broker cancelled the consumer, the loop found the context   *)
(* alive, and the shutdown began before it closed the channel it is about  *)
(* to replace; what the workers hold then goes back to the queue.          *)
(***************************************************************************)
ClosedOnlyWhenIdle ==
    [][cancelled /\ loop.pc # "close" /\ consumer = "open" /\ consumer' = "none" =>
         events = <<>> /\ \A w \in Workers : worker[w].pc = "stopped"]_vars

(***************************************************************************)
(* When main returns, every goroutine it started has ended, no connection  *)
(* is left open (one opened while the shutdown began included), and what   *)
(* was not decided is back in the queue.                                   *)
(***************************************************************************)
CleanStop ==
    main = "done" =>
        /\ loop.pc = "done" /\ dispatcher = "stopped"
        /\ \A w \in Workers : worker[w].pc = "stopped"
        /\ consumer = "none" /\ publisher = "none"
        /\ Unacked = {}

(***************************************************************************)
(* A signal ends the process: a loop blocked on a full channel, a publish  *)
(* without confirmation, an attempt to connect or a pause between two      *)
(* attempts hold the shutdown up for a while only.                         *)
(***************************************************************************)
ShutdownTerminates == main = "shutdown" ~> main = "done"

(***************************************************************************)
(* The replica consumes again after its connection or channel was lost, or *)
(* its consumer cancelled by the broker, unless a shutdown begins.         *)
(***************************************************************************)
Reconnects ==
    LET Consuming == consumer = "open" /\ subscribed IN
    ~Consuming ~> Consuming \/ main # "running"

-----------------------------------------------------------------------------
(* The delivery of a worker as the contract of the queue sees it.           *)
HeldMessage ==
    [w \in Workers |-> IF worker[w].delivery = NoDelivery THEN NoDelivery
                       ELSE worker[w].delivery.msg]

LiveWorkers == {w \in Workers : worker[w].delivery # NoDelivery /\ Live(worker[w].delivery)}

Contract == INSTANCE QueueContract
    WITH NoMessage <- NoDelivery, held <- HeldMessage, live <- LiveWorkers,
         away <- elsewhere, gone <- settled

(***************************************************************************)
(* Reconnections, buffered deliveries of dead channels and the shutdown    *)
(* show a worker nothing but the contract of EventConsumer: a delivery it  *)
(* can settle is of a message nobody else has; one left over in events may *)
(* be of a message that another replica has handled since, but not of one  *)
(* this replica settled or another of its workers can settle; and an ack   *)
(* on a dead channel settles nothing.                                      *)
(***************************************************************************)
KeepsContract == Contract!ContractSpec
=============================================================================
