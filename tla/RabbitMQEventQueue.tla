------------------------- MODULE RabbitMQEventQueue -------------------------
(***************************************************************************)
(* rabbitmq_queue.go: the queue client of one replica.  consumeLoop keeps  *)
(* a consumer connection open and forwards its deliveries to the bounded   *)
(* Go channel events; publish opens its own connection when it needs one.  *)
(* A delivery remembers the AMQP channel it came on, because an ack or     *)
(* nack works on that channel only.  The broker and the client library     *)
(* are external: the broker pushes up to the prefetch, and takes back what *)
(* is unacknowledged when the channel closes.  The queue is shared: the    *)
(* other replicas take messages from it, and may give them back.           *)
(***************************************************************************)
EXTENDS Naturals, Sequences, FiniteSets

CONSTANTS
    Messages,       \* the messages in the durable queue
    Undecodable,    \* those whose body is not an event
    NoDelivery,
    Workers,        \* WORKER_COUNT goroutines, also the prefetch
    QueueSize       \* QUEUE_SIZE, the capacity of events

ASSUME QueueAssumption ==
    /\ Undecodable \subseteq Messages
    /\ IsFiniteSet(Messages)
    /\ IsFiniteSet(Workers) /\ Workers # {}
    /\ QueueSize \in Nat \ {0}
    /\ NoDelivery \notin Messages \cup [msg : Messages, channel : Nat]

VARIABLES
    ready,         \* broker: messages waiting for a consumer
    elsewhere,     \* broker: messages other replicas hold or took off the queue
    settled,       \* broker: messages this replica acknowledged or rejected
    prefetched,    \* library: deliveries received and not yet forwarded
    subscribed,    \* library: the consumer has not been cancelled
    channelNo,     \* number of the current consumer channel
    consumer,      \* the consumer connection and channel
    publisher,     \* the publisher connection and channel
    events,        \* the Go channel; closed once the loop is done
    loop,          \* consumeLoop: pc, and the delivery it is sending
    cancelled      \* consumeContext is done

brokerVars == <<ready, elsewhere, settled>>
consumerVars == <<prefetched, subscribed, channelNo, consumer>>
loopVars == <<events, loop>>
queueVars == <<brokerVars, consumerVars, loopVars, publisher, cancelled>>

(* A channel and its connection; "dead": the channel is closed, whether its *)
(* connection is or not.                                                    *)
Connections == {"none", "open", "dead"}

Delivery == [msg : Messages, channel : Nat]

QueueTypeOK ==
    /\ ready \subseteq Messages
    /\ elsewhere \subseteq Messages
    /\ settled \subseteq Messages
    /\ prefetched \subseteq Messages
    /\ subscribed \in BOOLEAN
    /\ channelNo \in Nat
    /\ consumer \in Connections
    /\ publisher \in Connections
    /\ events \in Seq(Delivery)
    /\ loop \in [pc : {"head", "dial", "forward", "send", "close", "wait", "done"},
                 delivery : Delivery \cup {NoDelivery}]
    /\ cancelled \in BOOLEAN
    /\ Len(events) <= QueueSize
    /\ Cardinality(Messages \ (ready \cup elsewhere \cup settled)) <= Cardinality(Workers)

QueueInit ==
    /\ ready = Messages
    /\ elsewhere = {}
    /\ settled = {}
    /\ prefetched = {}
    /\ subscribed = FALSE
    /\ channelNo = 0
    /\ consumer = "none"
    /\ publisher = "none"
    /\ events = <<>>
    /\ loop = [pc |-> "head", delivery |-> NoDelivery]
    /\ cancelled = FALSE

(* What the broker counts as delivered to this replica.                     *)
Unacked == Messages \ (ready \cup elsewhere \cup settled)

(* Faulty variant: acks go to whichever consumer channel is open.           *)
LiveOnAnyChannel(d) == consumer = "open"

(* An ack or nack of d would reach the broker.                              *)
Live(d) == d.channel = channelNo /\ consumer = "open"

LoopAt(pc) == loop' = [pc |-> pc, delivery |-> NoDelivery]

-----------------------------------------------------------------------------
(* Broker and client library.                                              *)

(* Faulty variant: the prefetch is not set.                                 *)
PushUnlimited(m) ==
    /\ consumer = "open" /\ subscribed
    /\ m \in ready
    /\ ready' = ready \ {m}
    /\ prefetched' = prefetched \cup {m}
    /\ UNCHANGED <<loopVars, elsewhere, settled, subscribed, channelNo, consumer, publisher, cancelled>>

Push(m) ==
    /\ consumer = "open" /\ subscribed
    /\ m \in ready
    /\ Cardinality(Unacked) < Cardinality(Workers)
    /\ ready' = ready \ {m}
    /\ prefetched' = prefetched \cup {m}
    /\ UNCHANGED <<loopVars, elsewhere, settled, subscribed, channelNo, consumer, publisher, cancelled>>

(* A consumer of another replica gets m, and may settle it at any time.     *)
TakenElsewhere(m) ==
    /\ m \in ready
    /\ ready' = ready \ {m}
    /\ elsewhere' = elsewhere \cup {m}
    /\ UNCHANGED <<settled, consumerVars, loopVars, publisher, cancelled>>

(* It requeued m instead, or lost its connection.                           *)
BackFromElsewhere(m) ==
    /\ m \in elsewhere
    /\ ready' = ready \cup {m}
    /\ elsewhere' = elsewhere \ {m}
    /\ UNCHANGED <<settled, consumerVars, loopVars, publisher, cancelled>>

(* The library cancels the consumer when consumeContext is done.            *)
Unsubscribe ==
    /\ cancelled /\ subscribed
    /\ subscribed' = FALSE
    /\ UNCHANGED <<brokerVars, loopVars, prefetched, channelNo, consumer, publisher, cancelled>>

ConsumerLost ==
    /\ consumer = "open"
    /\ consumer' = "dead"
    /\ ready' = ready \cup Unacked
    /\ subscribed' = FALSE
    /\ UNCHANGED <<loopVars, elsewhere, settled, prefetched, channelNo, publisher, cancelled>>

(* The broker cancels the consumer, as on a failover of the queue.          *)
ConsumerCancelled ==
    /\ consumer = "open" /\ subscribed
    /\ subscribed' = FALSE
    /\ UNCHANGED <<brokerVars, loopVars, prefetched, channelNo, consumer, publisher, cancelled>>

PublisherLost ==
    /\ publisher = "open"
    /\ publisher' = "dead"
    /\ UNCHANGED <<brokerVars, consumerVars, loopVars, cancelled>>

-----------------------------------------------------------------------------
(* What a holder of delivery d does with it.                               *)

Ack(d) ==
    /\ settled' = IF Live(d) THEN settled \cup {d.msg} ELSE settled
    /\ UNCHANGED <<ready, elsewhere>>

NackRequeue(d) ==
    /\ ready' = IF Live(d) THEN ready \cup {d.msg} ELSE ready
    /\ UNCHANGED <<elsewhere, settled>>

-----------------------------------------------------------------------------
(* consumeLoop.                                                            *)

LoopHead ==
    /\ loop.pc = "head"
    /\ LoopAt(IF cancelled THEN "done" ELSE "dial")
    /\ UNCHANGED <<brokerVars, consumerVars, publisher, events, cancelled>>

(* openConsumer and setConsumer; Close waits for the loop, so nobody looks  *)
(* at the connection in between.  A cancelled context does not stop it.     *)
OpenConsumer ==
    /\ loop.pc = "dial"
    /\ consumer' = "open"
    /\ channelNo' = channelNo + 1
    /\ subscribed' = TRUE
    /\ prefetched' = {}
    /\ LoopAt("forward")
    /\ UNCHANGED <<brokerVars, publisher, events, cancelled>>

(* Every error path of openConsumer closes what it opened.                  *)
OpenConsumerFails ==
    /\ loop.pc = "dial"
    /\ LoopAt("wait")
    /\ UNCHANGED <<brokerVars, consumerVars, publisher, events, cancelled>>

(* An undecodable message is rejected for good.  A delivery the library had *)
(* buffered may still be received after its channel is gone.                *)
Receive(m) ==
    LET d == [msg |-> m, channel |-> channelNo] IN
    /\ loop.pc = "forward"
    /\ m \in prefetched
    /\ prefetched' = prefetched \ {m}
    /\ IF m \in Undecodable
       THEN Ack(d) /\ UNCHANGED loop
       ELSE loop' = [pc |-> "send", delivery |-> d] /\ UNCHANGED brokerVars
    /\ UNCHANGED <<subscribed, channelNo, consumer, publisher, events, cancelled>>

Send ==
    /\ loop.pc = "send"
    /\ Len(events) < QueueSize
    /\ events' = Append(events, loop.delivery)
    /\ LoopAt("forward")
    /\ UNCHANGED <<brokerVars, consumerVars, publisher, cancelled>>

(* Faulty variant: the delivery in hand is rejected for good.               *)
RejectInHand(d) == Ack(d)

ReturnInHand(d) == NackRequeue(d)

(* consumeContext is done: the delivery in hand is sent back, the loop ends *)
(* and closes events, and the connection stays open for the workers' acks.  *)
SeeCancel ==
    /\ cancelled
    /\ loop.pc \in {"forward", "send", "wait"}
    /\ IF loop.pc = "send" THEN ReturnInHand(loop.delivery) ELSE UNCHANGED brokerVars
    /\ LoopAt("done")
    /\ UNCHANGED <<consumerVars, publisher, events, cancelled>>

(* The library closes the deliveries channel, after a cancellation only     *)
(* when what it had buffered was received.                                  *)
NoMoreDeliveries == consumer # "open" \/ (~subscribed /\ prefetched = {})

(* Faulty variant: the loop ends with its first connection.                 *)
DeliveriesClosedForGood ==
    /\ loop.pc = "forward"
    /\ NoMoreDeliveries
    /\ prefetched' = {}
    /\ LoopAt("done")
    /\ UNCHANGED <<brokerVars, subscribed, channelNo, consumer, publisher, events, cancelled>>

(* forwardDeliveries returns, and the loop looks at consumeContext once.    *)
DeliveriesClosed ==
    /\ loop.pc = "forward"
    /\ NoMoreDeliveries
    /\ prefetched' = {}
    /\ LoopAt(IF cancelled THEN "done" ELSE "close")
    /\ UNCHANGED <<brokerVars, subscribed, channelNo, consumer, publisher, events, cancelled>>

(* clearConsumer and close, which gives back what is unacknowledged; the    *)
(* context may have been cancelled since the loop looked at it.             *)
CloseConsumer ==
    /\ loop.pc = "close"
    /\ ready' = ready \cup Unacked
    /\ consumer' = "none"
    /\ LoopAt("wait")
    /\ UNCHANGED <<elsewhere, settled, prefetched, subscribed, channelNo, publisher, events, cancelled>>

RetryTimer ==
    /\ loop.pc = "wait"
    /\ LoopAt("head")
    /\ UNCHANGED <<brokerVars, consumerVars, publisher, events, cancelled>>

LoopStep ==
    \/ LoopHead
    \/ OpenConsumer
    \/ \E m \in Messages : Receive(m)
    \/ Send
    \/ DeliveriesClosed
    \/ CloseConsumer
    \/ RetryTimer

-----------------------------------------------------------------------------
(* publish: ensurePublisherLocked dials when there is no open channel.      *)
EnsurePublisher ==
    /\ publisher' = "open"
    /\ UNCHANGED <<brokerVars, consumerVars, loopVars, cancelled>>

InvalidatePublisher ==
    /\ publisher' = "none"
    /\ UNCHANGED <<brokerVars, consumerVars, loopVars, cancelled>>

-----------------------------------------------------------------------------
StopConsuming ==
    /\ cancelled' = TRUE
    /\ UNCHANGED <<brokerVars, consumerVars, loopVars, publisher>>

(* Runs after the loop is done; the broker takes back what is unacknowledged. *)
Close ==
    /\ loop.pc = "done"
    /\ ready' = ready \cup Unacked
    /\ prefetched' = {}
    /\ subscribed' = FALSE
    /\ consumer' = "none"
    /\ publisher' = "none"
    /\ UNCHANGED <<loopVars, elsewhere, settled, channelNo, cancelled>>
=============================================================================
