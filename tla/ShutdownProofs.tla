--------------------------- MODULE ShutdownProofs ---------------------------
(***************************************************************************)
(* The queue client and the shutdown of one replica: no delivery is lost   *)
(* or leaked, a channel that works is closed only when nobody needs it,    *)
(* and main returns with everything stopped.  Seen from the workers, the   *)
(* client implements QueueContract.                                        *)
(***************************************************************************)
EXTENDS GracefulShutdown, FiniteSetTheorems, SequenceTheorems, TLAPS

(* A delivery is where its holder's pc says, and came on a channel that was *)
(* opened.                                                                  *)
Opened(d) == d \in Delivery /\ d.channel <= channelNo

DeliveryPlaces ==
    /\ IF loop.pc = "send" THEN Opened(loop.delivery) ELSE loop.delivery = NoDelivery
    /\ \A i \in 1 .. Len(events) : Opened(events[i])
    /\ \A w \in Workers : IF worker[w].pc = "handle" THEN Opened(worker[w].delivery)
                          ELSE worker[w].delivery = NoDelivery

TInv == TypeOK /\ DeliveryPlaces

(* Who has stopped, by where main is.                                       *)
StopOrder ==
    /\ cancelled => main \in {"consumer", "workers", "close", "done"}
    /\ main \in {"consumer", "workers", "close", "done", "exited"} => dispatcher = "stopped"
    /\ main \in {"workers", "close", "done", "exited"} => loop.pc = "done"
    /\ main \in {"close", "done", "exited"} => \A w \in Workers : worker[w].pc = "stopped"
    /\ \A w \in Workers : worker[w].pc = "stopped" => loop.pc = "done" /\ events = <<>>
    /\ main \in {"done", "exited"} => consumer = "none" /\ publisher = "none"

(* The broker has taken back everything unless a channel is open, and the   *)
(* loop does not dial with an open one.                                     *)
TakenBack ==
    /\ ready \cap settled = {}
    /\ elsewhere \cap (ready \cup settled) = {}
    /\ consumer # "open" => Unacked = {}
    /\ loop.pc \in {"head", "dial", "wait"} => consumer # "open"

-----------------------------------------------------------------------------
(* A delivery that can settle m: where it may be.                           *)
Carries(d, m) == d # NoDelivery /\ d.msg = m /\ Live(d)

Buffered(m) == m \in prefetched /\ consumer = "open"

SendingIt(m) == Carries(loop.delivery, m)

Queued(i, m) == i \in 1 .. Len(events) /\ Carries(events[i], m)

Handled(w, m) == Carries(worker[w].delivery, m)

(* At most one place has it, only while m is unacknowledged.                *)
OneCopy(m) ==
    /\ Buffered(m) => /\ m \in Unacked /\ ~SendingIt(m)
                      /\ \A i : ~Queued(i, m)
                      /\ \A w \in Workers : ~Handled(w, m)
    /\ SendingIt(m) => /\ m \in Unacked
                       /\ \A i : ~Queued(i, m)
                       /\ \A w \in Workers : ~Handled(w, m)
    /\ \A i : Queued(i, m) => /\ m \in Unacked
                              /\ \A j : Queued(j, m) => j = i
                              /\ \A w \in Workers : ~Handled(w, m)
    /\ \A w \in Workers : Handled(w, m) => /\ m \in Unacked
                                           /\ \A v \in Workers : Handled(v, m) => v = w

(* One place has it while m is unacknowledged.                              *)
SomeCopy(m) ==
    m \in Unacked => \/ Buffered(m)
                     \/ SendingIt(m)
                     \/ \E i : Queued(i, m)
                     \/ \E w \in Workers : Handled(w, m)

Copies == \A m \in Messages : OneCopy(m) /\ SomeCopy(m)

SInv ==
    /\ TInv
    /\ StopOrder
    /\ TakenBack
    /\ Copies
    /\ settled \subseteq decided \cup Undecodable

-----------------------------------------------------------------------------
(* What a channel holds after a send and after a receive.                   *)
LEMMA ChannelSteps ==
    ASSUME NEW s \in Seq(Delivery)
    PROVE  /\ Len(s) \in Nat /\ DOMAIN s = 1 .. Len(s)
           /\ \A i \in 1 .. Len(s) : s[i] \in Delivery
           /\ \A e \in Delivery : /\ Append(s, e) \in Seq(Delivery)
                                  /\ Len(Append(s, e)) = Len(s) + 1
                                  /\ Append(s, e)[Len(s) + 1] = e
                                  /\ \A i \in 1 .. Len(s) : Append(s, e)[i] = s[i]
           /\ s # <<>> => /\ Len(s) >= 1 /\ Head(s) = s[1] /\ Head(s) \in Delivery
                          /\ Tail(s) \in Seq(Delivery) /\ Len(Tail(s)) = Len(s) - 1
                          /\ \A i \in 1 .. Len(s) - 1 : Tail(s)[i] = s[i + 1]
<1> HIDE DEF Delivery
<1>1. Len(s) \in Nat /\ DOMAIN s = 1 .. Len(s) /\ \A i \in 1 .. Len(s) : s[i] \in Delivery
  BY LenProperties, ElementOfSeq
<1>2. \A e \in Delivery : /\ Append(s, e) \in Seq(Delivery)
                          /\ Len(Append(s, e)) = Len(s) + 1
                          /\ Append(s, e)[Len(s) + 1] = e
                          /\ \A i \in 1 .. Len(s) : Append(s, e)[i] = s[i]
  BY <1>1, AppendProperties
<1>3. ASSUME s # <<>>
      PROVE  /\ Len(s) >= 1 /\ Head(s) = s[1] /\ Head(s) \in Delivery
             /\ Tail(s) \in Seq(Delivery) /\ Len(Tail(s)) = Len(s) - 1
             /\ \A i \in 1 .. Len(s) - 1 : Tail(s)[i] = s[i + 1]
  BY <1>1, <1>3, HeadTailProperties, EmptySeq
<1> QED
  BY <1>1, <1>2, <1>3

(* The prefetch bounds what is unacknowledged.                              *)
LEMMA PrefetchKept ==
    ASSUME TypeOK, Unacked' \subseteq Unacked
    PROVE  Cardinality(Messages \ (ready \cup elsewhere \cup settled))' <= Cardinality(Workers)
<1>1. IsFiniteSet(Unacked)
  BY QueueAssumption, FS_Subset DEF QueueAssumption, Unacked
<1>2. /\ Cardinality(Unacked) \in Nat /\ Cardinality(Unacked') \in Nat
      /\ Cardinality(Unacked') <= Cardinality(Unacked)
  BY <1>1, FS_Subset, FS_CardinalityType
<1>3. Cardinality(Workers) \in Nat
  BY QueueAssumption, FS_CardinalityType DEF QueueAssumption
<1> QED
  BY <1>2, <1>3 DEF Unacked, TypeOK, QueueTypeOK

(* The broker pushes only below the prefetch.                               *)
LEMMA PrefetchPushed ==
    ASSUME TypeOK, NEW m \in Messages, Push(m)
    PROVE  Cardinality(Messages \ (ready \cup elsewhere \cup settled))' <= Cardinality(Workers)
<1>1. IsFiniteSet(Unacked) /\ IsFiniteSet(Unacked \cup {m})
  BY QueueAssumption, FS_Subset, FS_AddElement DEF QueueAssumption, Unacked
<1>2. /\ Cardinality(Unacked) \in Nat
      /\ Cardinality(Unacked \cup {m}) <= Cardinality(Unacked) + 1
      /\ Cardinality(Unacked \cup {m}) \in Nat
  BY <1>1, FS_AddElement, FS_CardinalityType
<1>3. Cardinality(Workers) \in Nat
  BY QueueAssumption, FS_CardinalityType DEF QueueAssumption
<1>4. Unacked' \in SUBSET (Unacked \cup {m})
  BY DEF Push, Unacked
<1>5. Cardinality(Unacked') <= Cardinality(Unacked \cup {m}) /\ Cardinality(Unacked') \in Nat
  BY <1>1, <1>4, FS_Subset, FS_CardinalityType
<1>6. Cardinality(Unacked) < Cardinality(Workers)
  BY DEF Push
<1> QED
  BY <1>2, <1>3, <1>5, <1>6 DEF Unacked

(* The fields of the records of the loop and the workers.                   *)
LEMMA Fields ==
    ASSUME TInv
    PROVE  /\ loop.pc \in {"head", "dial", "forward", "send", "close", "wait", "done"}
           /\ loop.delivery \in Delivery \cup {NoDelivery}
           /\ \A w \in Workers : /\ worker[w].pc \in {"receive", "handle", "stopped"}
                                 /\ worker[w].delivery \in Delivery \cup {NoDelivery}
           /\ events \in Seq(Delivery) /\ channelNo \in Nat
           /\ NoDelivery \notin Delivery
<1> USE DEF TInv, TypeOK, QueueTypeOK
<1>1. \A w \in Workers : worker[w] \in [pc : {"receive", "handle", "stopped"},
                                        delivery : Delivery \cup {NoDelivery}]
  OBVIOUS
<1>2. NoDelivery \notin Delivery
  BY QueueAssumption DEF QueueAssumption, Delivery
<1> HIDE DEF Delivery
<1> QED
  BY <1>1, <1>2

(* Steps of the consume loop keep the types.                                *)
LEMMA LoopTypes ==
    ASSUME TInv, Consume, UNCHANGED <<processVars, faults>>
    PROVE  TInv'
<1> USE DEF processVars, brokerVars, consumerVars, loopVars, LoopAt
<1>1. /\ ready' \subseteq Messages /\ settled' \subseteq Messages /\ prefetched' \subseteq Messages
      /\ elsewhere' \subseteq Messages /\ Unacked' \subseteq Unacked
  <2>1. CASE SeeCancel
    BY <2>1, Fields DEF TInv, TypeOK, QueueTypeOK, SeeCancel, ReturnInHand, NackRequeue, Unacked,
                        DeliveryPlaces, Opened, Delivery
  <2>2. CASE LoopStep
    BY <2>2 DEF TInv, TypeOK, QueueTypeOK, LoopStep, LoopHead, OpenConsumer, Receive, Send,
                DeliveriesClosed, CloseConsumer, RetryTimer, Ack, Unacked
  <2> QED
    BY <2>1, <2>2 DEF Consume
<1>2. Cardinality(Messages \ (ready \cup elsewhere \cup settled))' <= Cardinality(Workers)
  BY <1>1, PrefetchKept DEF TInv
<1>3. /\ subscribed' \in BOOLEAN /\ channelNo' \in Nat /\ channelNo' >= channelNo
      /\ consumer' \in Connections /\ publisher' \in Connections /\ cancelled' \in BOOLEAN
  <2> USE DEF Consume, SeeCancel, LoopStep, LoopHead, OpenConsumer,
              Receive, Send, DeliveriesClosed, CloseConsumer, RetryTimer
  <2>1. channelNo' = channelNo \/ channelNo' = channelNo + 1
    OBVIOUS
  <2>2. subscribed' = subscribed \/ subscribed' = TRUE
    OBVIOUS
  <2>3. cancelled' = cancelled /\ publisher' = publisher
    OBVIOUS
  <2>4. consumer' = consumer \/ consumer' \in {"open", "none"}
    OBVIOUS
  <2> HIDE DEF Consume
  <2>5. channelNo' \in Nat /\ channelNo' >= channelNo
    BY <2>1, Fields
  <2> QED
    BY <2>2, <2>3, <2>4, <2>5 DEF TInv, TypeOK, QueueTypeOK, Connections
<1>4. /\ events' \in Seq(Delivery) /\ Len(events') <= QueueSize
      /\ \A j \in 1 .. Len(events') : Opened(events'[j])
  <2>1. CASE Send
    BY <2>1, Fields, ChannelSteps, QueueAssumption
       DEF TInv, TypeOK, QueueTypeOK, Send, DeliveryPlaces, Opened, QueueAssumption
  <2>2. CASE events' = events
    BY <2>2 DEF TInv, TypeOK, QueueTypeOK, DeliveryPlaces
  <2> QED
    BY <2>1, <2>2 DEF Consume, SeeCancel, LoopStep, LoopHead, OpenConsumer, Receive,
                      DeliveriesClosed, CloseConsumer, RetryTimer
<1>5. /\ loop' \in [pc : {"head", "dial", "forward", "send", "close", "wait", "done"},
                    delivery : Delivery \cup {NoDelivery}]
      /\ IF loop'.pc = "send" THEN Opened(loop'.delivery) ELSE loop'.delivery = NoDelivery
  <2>1. ASSUME NEW m \in Messages, loop' = [pc |-> "send", delivery |-> [msg |-> m, channel |-> channelNo]]
        PROVE  <1>5!1 /\ <1>5!2
    BY <2>1, Fields DEF Opened, Delivery
  <2>2. CASE loop' = loop
    BY <2>2 DEF TInv, TypeOK, QueueTypeOK, DeliveryPlaces
  <2>3. ASSUME NEW pc \in {"head", "dial", "forward", "close", "wait", "done"},
               loop' = [pc |-> pc, delivery |-> NoDelivery]
        PROVE  <1>5!1 /\ <1>5!2
    BY <2>3
  <2> QED
    BY <2>1, <2>2, <2>3
       DEF Consume, SeeCancel, LoopStep, LoopHead, OpenConsumer, Receive, Send,
           DeliveriesClosed, CloseConsumer, RetryTimer
<1>6. \A d : Opened(d) => Opened(d)'
  BY <1>3, Fields DEF Opened, Delivery
<1>7. DeliveryPlaces'
  BY <1>3, <1>4, <1>5, <1>6, Fields DEF TInv, DeliveryPlaces, Opened
<1> QED
  BY <1>1, <1>2, <1>3, <1>4, <1>5, <1>7 DEF TInv, TypeOK, QueueTypeOK

(* Steps of a worker keep the types.                                        *)
LEMMA WorkerTypes ==
    ASSUME TInv, NEW w \in Workers, WorkerStep(w)
    PROVE  TInv'
<1> USE DEF WorkerStep, WorkerAt, brokerVars, consumerVars, loopVars, queueVars
<1>1. /\ loop' = loop /\ channelNo' = channelNo /\ main' = main /\ dispatcher' = dispatcher
      /\ faults' = faults /\ prefetched' = prefetched /\ subscribed' = subscribed
      /\ consumer' = consumer /\ publisher' = publisher /\ cancelled' = cancelled
  BY DEF Take, Decide, SendBack, WorkerStops
<1>2. /\ ready' \subseteq Messages /\ settled' \subseteq Messages /\ decided' \subseteq Messages
      /\ elsewhere' \subseteq Messages /\ Unacked' \subseteq Unacked
  <2>1. worker[w].pc = "handle" => worker[w].delivery.msg \in Messages
    BY DEF TInv, DeliveryPlaces, Opened, Delivery
  <2> QED
    BY <2>1 DEF TInv, TypeOK, QueueTypeOK, Take, Decide, SendBack, WorkerStops, Ack, NackRequeue,
                Unacked
<1>3. Cardinality(Messages \ (ready \cup elsewhere \cup settled))' <= Cardinality(Workers)
  BY <1>2, PrefetchKept DEF TInv
<1>4. /\ events' \in Seq(Delivery) /\ Len(events') <= QueueSize
      /\ \A i \in 1 .. Len(events') : Opened(events'[i])
  <2>1. CASE Take(w)
    <3>1. /\ events' \in Seq(Delivery) /\ Len(events) \in Nat /\ Len(events') = Len(events) - 1
          /\ \A i \in 1 .. Len(events) - 1 : events'[i] = events[i + 1]
      BY <2>1, Fields, ChannelSteps DEF Take
    <3>2. Len(events) <= QueueSize /\ \A i \in 1 .. Len(events) : Opened(events[i])
      BY DEF TInv, TypeOK, QueueTypeOK, DeliveryPlaces
    <3>3. Len(events') <= QueueSize
      BY <3>1, <3>2, QueueAssumption DEF QueueAssumption
    <3>4. ASSUME NEW i \in 1 .. Len(events') PROVE Opened(events'[i])
      <4>1. i \in 1 .. Len(events) - 1 /\ i + 1 \in 1 .. Len(events)
        BY <3>1
      <4> QED
        BY <3>1, <3>2, <4>1
    <3> QED
      BY <3>1, <3>3, <3>4
  <2>2. CASE events' = events
    BY <2>2 DEF TInv, TypeOK, QueueTypeOK, DeliveryPlaces
  <2> QED
    BY <2>1, <2>2 DEF Decide, SendBack, WorkerStops
<1>5. PICK pc \in {"receive", "handle", "stopped"} :
        \E d \in Delivery \cup {NoDelivery} :
            /\ worker' = [worker EXCEPT ![w] = [pc |-> pc, delivery |-> d]]
            /\ IF pc = "handle" THEN Opened(d) ELSE d = NoDelivery
  <2>1. events # <<>> => Opened(Head(events)) /\ Head(events) \in Delivery
    BY Fields, ChannelSteps DEF TInv, DeliveryPlaces
  <2> QED
    BY <2>1 DEF Take, Decide, SendBack, WorkerStops
<1>6. PICK d \in Delivery \cup {NoDelivery} :
        /\ worker' = [worker EXCEPT ![w] = [pc |-> pc, delivery |-> d]]
        /\ IF pc = "handle" THEN Opened(d) ELSE d = NoDelivery
  BY <1>5
<1>7. /\ worker' \in [Workers -> [pc : {"receive", "handle", "stopped"},
                                  delivery : Delivery \cup {NoDelivery}]]
      /\ worker'[w] = [pc |-> pc, delivery |-> d]
      /\ \A v \in Workers \ {w} : worker'[v] = worker[v]
  BY <1>6 DEF TInv, TypeOK
<1>8. DeliveryPlaces'
  BY <1>1, <1>4, <1>6, <1>7 DEF TInv, DeliveryPlaces, Opened
<1> QED
  BY <1>1, <1>2, <1>3, <1>4, <1>7, <1>8 DEF TInv, TypeOK, QueueTypeOK

(* All other steps.                                                         *)
LEMMA OtherTypes ==
    ASSUME TInv,
           \/ Signal \/ ServerFails \/ MainStep \/ Poll \/ ConnectFails \/ Confirmed
           \/ DispatcherStep
           \/ (\E m \in Messages : Push(m)) /\ UNCHANGED <<processVars, faults>>
           \/ (\E m \in Messages : BackFromElsewhere(m)) /\ UNCHANGED <<processVars, faults>>
           \/ Unsubscribe /\ UNCHANGED <<processVars, faults>>
           \/ Fault
    PROVE  TInv'
<1> USE DEF processVars, brokerVars, consumerVars, loopVars, queueVars, Goto, At, LoopAt,
            MainStep, DispatcherStep
<1>1. CASE \/ Signal \/ ServerShutdown \/ DispatchersStopped \/ ConsumerStopped
           \/ WorkersStopped \/ Poll \/ Connect \/ ConnectFails \/ Confirmed
           \/ ConfirmAbandoned \/ DispatcherStops
  <2>1. /\ UNCHANGED <<brokerVars, consumerVars, loopVars, worker, decided, faults>>
        /\ publisher' \in {publisher, "open", "none"} /\ cancelled' \in {cancelled, TRUE}
        /\ main' \in {main, "shutdown", "dispatchers", "consumer", "workers", "close"}
        /\ dispatcher' \in {dispatcher, "connect", "confirm", "waiting", "stopped"}
    BY <1>1 DEF Signal, ServerShutdown, DispatchersStopped, ConsumerStopped, WorkersStopped,
                Poll, Connect, ConnectFails, Confirmed, ConfirmAbandoned, DispatcherStops,
                StopConsuming, EnsurePublisher, InvalidatePublisher
  <2>2. DeliveryPlaces'
    BY <2>1 DEF TInv, DeliveryPlaces, Opened
  <2>3. cancelled' \in BOOLEAN
    BY <2>1, Zenon DEF TInv, TypeOK, QueueTypeOK
  <2>4. /\ publisher' \in Connections
        /\ main' \in {"running", "shutdown", "dispatchers", "consumer", "workers",
                      "close", "done", "exited"}
        /\ dispatcher' \in {"waiting", "connect", "confirm", "stopped"}
    BY <2>1 DEF TInv, TypeOK, QueueTypeOK, Connections
  <2>5. TypeOK'
    BY <2>1, <2>3, <2>4 DEF TInv, TypeOK, QueueTypeOK
  <2> QED
    BY <2>2, <2>5 DEF TInv
<1>2. CASE CloseQueue \/ ServerFails
  <2>1. /\ ready' \subseteq Messages /\ UNCHANGED <<elsewhere, settled>>
        /\ Unacked' \subseteq Unacked
    BY <1>2 DEF CloseQueue, Close, ServerFails, Unacked, TInv, TypeOK, QueueTypeOK
  <2>2. Cardinality(Messages \ (ready \cup elsewhere \cup settled))' <= Cardinality(Workers)
    BY <2>1, PrefetchKept DEF TInv
  <2>3. CASE CloseQueue
    <3>1. /\ UNCHANGED <<loopVars, settled, channelNo, cancelled, dispatcher, worker, decided, faults>>
          /\ main' = "done" /\ prefetched' = {} /\ subscribed' = FALSE
          /\ consumer' = "none" /\ publisher' = "none"
      BY <2>3 DEF CloseQueue, Close
    <3>2. DeliveryPlaces'
      BY <3>1 DEF TInv, DeliveryPlaces, Opened
    <3> QED
      BY <2>1, <2>2, <3>1, <3>2 DEF TInv, TypeOK, QueueTypeOK, Connections
  <2>4. CASE ServerFails
    <3>1. /\ UNCHANGED <<settled, channelNo, cancelled, decided, faults>>
          /\ main' = "exited" /\ prefetched' = {} /\ subscribed' = FALSE
          /\ consumer' = "none" /\ publisher' = "none" /\ events' = <<>>
          /\ loop' = [pc |-> "done", delivery |-> NoDelivery] /\ dispatcher' = "stopped"
          /\ worker' = [w \in Workers |-> [pc |-> "stopped", delivery |-> NoDelivery]]
      BY <2>4 DEF ServerFails
    <3>2. events' \in Seq(Delivery) /\ Len(events') = 0 /\ Len(events') <= QueueSize
      BY <3>1, EmptySeq, QueueAssumption DEF QueueAssumption
    <3>3. DeliveryPlaces'
      BY <3>1, <3>2 DEF DeliveryPlaces
    <3> QED
      BY <2>1, <2>2, <3>1, <3>2, <3>3 DEF TInv, TypeOK, QueueTypeOK, Connections
  <2> QED
    BY <1>2, <2>3, <2>4
<1>3. CASE (\E m \in Messages : Push(m)) /\ UNCHANGED <<processVars, faults>>
  <2>1. PICK m \in Messages : Push(m)
    BY <1>3
  <2>2. Cardinality(Messages \ (ready \cup elsewhere \cup settled))' <= Cardinality(Workers)
    BY <2>1, PrefetchPushed DEF TInv
  <2>3. DeliveryPlaces'
    BY <1>3, <2>1 DEF TInv, DeliveryPlaces, Opened, Push
  <2> QED
    BY <1>3, <2>1, <2>2, <2>3 DEF TInv, TypeOK, QueueTypeOK, Push
<1>4. CASE Unsubscribe /\ UNCHANGED <<processVars, faults>>
  <2>1. DeliveryPlaces'
    BY <1>4 DEF TInv, DeliveryPlaces, Opened, Unsubscribe
  <2> QED
    BY <1>4, <2>1 DEF TInv, TypeOK, QueueTypeOK, Unsubscribe
<1>5. CASE Fault
  <2>1. /\ ready' \subseteq Messages /\ elsewhere' \subseteq Messages
        /\ settled' = settled /\ Unacked' \subseteq Unacked
        /\ UNCHANGED <<prefetched, channelNo, events, cancelled, processVars>>
        /\ subscribed' \in {subscribed, FALSE}
        /\ consumer' \in {consumer, "dead"} /\ publisher' \in {publisher, "dead"}
        /\ loop' = loop \/ loop' = [pc |-> "wait", delivery |-> NoDelivery]
    BY <1>5 DEF Fault, ConsumerLost, ConsumerCancelled, PublisherLost, OpenConsumerFails,
                TakenElsewhere, Unacked, TInv, TypeOK, QueueTypeOK
  <2>2. Cardinality(Messages \ (ready \cup elsewhere \cup settled))' <= Cardinality(Workers)
    BY <2>1, PrefetchKept DEF TInv
  <2>3. faults' \in 0 .. MaxFaults
    BY <1>5, ShutdownAssumption DEF Fault, TInv, TypeOK, ShutdownAssumption
  <2>4. DeliveryPlaces'
    BY <2>1 DEF TInv, DeliveryPlaces, Opened
  <2>5. consumer' \in Connections /\ publisher' \in Connections /\ subscribed' \in BOOLEAN
    BY <2>1 DEF TInv, TypeOK, QueueTypeOK, Connections
  <2> QED
    BY <2>1, <2>2, <2>3, <2>4, <2>5 DEF TInv, TypeOK, QueueTypeOK
<1>6. CASE (\E m \in Messages : BackFromElsewhere(m)) /\ UNCHANGED <<processVars, faults>>
  <2>1. /\ ready' \subseteq Messages /\ elsewhere' \subseteq Messages
        /\ Unacked' \subseteq Unacked
        /\ UNCHANGED <<settled, consumerVars, loopVars, publisher, cancelled>>
    BY <1>6 DEF BackFromElsewhere, Unacked, TInv, TypeOK, QueueTypeOK
  <2>2. Cardinality(Messages \ (ready \cup elsewhere \cup settled))' <= Cardinality(Workers)
    BY <2>1, PrefetchKept DEF TInv
  <2>3. DeliveryPlaces'
    BY <1>6, <2>1 DEF TInv, DeliveryPlaces, Opened
  <2> QED
    BY <1>6, <2>1, <2>2, <2>3 DEF TInv, TypeOK, QueueTypeOK
<1> QED
  BY <1>1, <1>2, <1>3, <1>4, <1>5, <1>6

(* Types and places of deliveries at the start.                             *)
LEMMA InitTypes == Init => TInv
<1> SUFFICES ASSUME Init PROVE TInv
  OBVIOUS
<1> USE DEF Init, QueueInit, Receiving
<1>1. events \in Seq(Delivery) /\ Len(events) = 0 /\ Len(events) <= QueueSize
  BY EmptySeq, QueueAssumption DEF QueueAssumption
<1>2. DeliveryPlaces
  BY <1>1 DEF DeliveryPlaces
<1>3. Messages \ (ready \cup elsewhere \cup settled) = {}
  OBVIOUS
<1>4. Cardinality(Messages \ (ready \cup elsewhere \cup settled)) <= Cardinality(Workers)
  <2> HIDE DEF Init
  <2>1. Cardinality(Messages \ (ready \cup elsewhere \cup settled)) = 0
    BY <1>3, FS_EmptySet
  <2>2. Cardinality(Workers) \in Nat
    BY FS_CardinalityType, QueueAssumption DEF QueueAssumption
  <2> QED
    BY <2>1, <2>2
<1>5. QueueTypeOK
  BY <1>1, <1>4 DEF QueueTypeOK, Connections
<1>6. worker \in [Workers -> [pc : {"receive", "handle", "stopped"},
                             delivery : Delivery \cup {NoDelivery}]]
  OBVIOUS
<1>7. faults \in 0 .. MaxFaults
  BY ShutdownAssumption DEF ShutdownAssumption
<1> QED
  BY <1>2, <1>5, <1>6, <1>7 DEF TInv, TypeOK

(* Every step keeps the types and the places of deliveries.                 *)
LEMMA NextTypes == TInv /\ [Next]_vars => TInv'
<1> SUFFICES ASSUME TInv, [Next]_vars PROVE TInv'
  OBVIOUS
<1>1. CASE UNCHANGED vars
  <2> USE <1>1 DEF vars, queueVars, processVars, brokerVars, consumerVars, loopVars
  <2>1. DeliveryPlaces'
    BY DEF TInv, DeliveryPlaces, Opened
  <2> QED
    BY <2>1 DEF TInv, TypeOK, QueueTypeOK
<1> QED
  BY <1>1, LoopTypes, WorkerTypes, OtherTypes DEF Next

-----------------------------------------------------------------------------
(* The order of the shutdown, by every step.                                *)
LEMMA NextStopOrder ==
    ASSUME TInv, TInv', StopOrder, [Next]_vars
    PROVE  StopOrder'
<1> USE DEF vars, queueVars, processVars, brokerVars, consumerVars, loopVars, Goto, At, LoopAt
<1>1. CASE UNCHANGED vars
  BY <1>1 DEF StopOrder
<1>2. CASE Signal \/ ServerShutdown \/ DispatchersStopped \/ ConsumerStopped \/ WorkersStopped
  BY <1>2 DEF StopOrder, Signal, ServerShutdown, DispatchersStopped, ConsumerStopped,
              WorkersStopped, StopConsuming
<1>3. CASE CloseQueue
  BY <1>3 DEF StopOrder, CloseQueue, Close
<1>4. CASE ServerFails
  BY <1>4 DEF StopOrder, ServerFails
<1>5. CASE Poll \/ Connect \/ ConnectFails \/ Confirmed \/ ConfirmAbandoned \/ DispatcherStops
  <2>1. /\ UNCHANGED <<cancelled, main, loop, events, worker, consumer>>
        /\ dispatcher # "stopped"
    BY <1>5 DEF Poll, Connect, ConnectFails, Confirmed, ConfirmAbandoned,
                DispatcherStops, EnsurePublisher, InvalidatePublisher
  <2>2. main \notin {"consumer", "workers", "close", "done", "exited"}
    BY <2>1 DEF StopOrder
  <2> QED
    BY <2>1, <2>2 DEF StopOrder
<1>6. ASSUME NEW w \in Workers, WorkerStep(w) PROVE StopOrder'
  <2>1. /\ UNCHANGED <<main, dispatcher, loop, consumer, publisher, cancelled>>
        /\ worker[w].pc # "stopped" /\ events = <<>> => events' = <<>>
        /\ worker'[w].pc = "stopped" => loop.pc = "done" /\ events' = <<>>
        /\ \A v \in Workers \ {w} : worker'[v] = worker[v]
    <3>1. CASE Take(w)
      BY <3>1 DEF WorkerAt, Take, consumerVars, TInv, TypeOK
    <3>2. CASE Decide(w) \/ SendBack(w)
      BY <3>2 DEF WorkerAt, Decide, SendBack, consumerVars, loopVars, TInv, TypeOK
    <3>3. CASE WorkerStops(w)
      BY <3>3 DEF WorkerAt, WorkerStops, queueVars, consumerVars, loopVars, TInv, TypeOK
    <3> QED
      BY <1>6, <3>1, <3>2, <3>3 DEF WorkerStep
  <2>2. worker[w].pc # "stopped" /\ (\E v \in Workers : worker[v].pc = "stopped") => events' = <<>>
    BY <2>1 DEF StopOrder
  <2>3. worker[w].pc # "stopped"
    BY <1>6 DEF WorkerStep, Take, Decide, SendBack, WorkerStops
  <2> QED
    BY <2>1, <2>2, <2>3 DEF StopOrder
<1>7. CASE \/ Alive /\ (\E m \in Messages : Push(m)) /\ UNCHANGED <<processVars, faults>>
           \/ Alive /\ (\E m \in Messages : BackFromElsewhere(m)) /\ UNCHANGED <<processVars, faults>>
           \/ Alive /\ Unsubscribe /\ UNCHANGED <<processVars, faults>>
           \/ Fault
  <2>1. /\ Alive /\ UNCHANGED <<processVars, events, cancelled>>
        /\ loop.pc = "done" => loop' = loop
    BY <1>7 DEF Push, BackFromElsewhere, Unsubscribe, Fault, ConsumerLost, ConsumerCancelled,
                PublisherLost, OpenConsumerFails, TakenElsewhere
  <2> QED
    BY <2>1 DEF StopOrder, Alive
<1>8. CASE Consume /\ UNCHANGED <<processVars, faults>>
  <2>1. loop.pc # "done" /\ UNCHANGED <<publisher, cancelled, processVars>>
    BY <1>8 DEF Consume, SeeCancel, LoopStep, LoopHead, OpenConsumer, Receive, Send,
                DeliveriesClosed, CloseConsumer, RetryTimer
  <2> QED
    BY <2>1 DEF StopOrder
<1> QED
  BY <1>1, <1>2, <1>3, <1>4, <1>5, <1>6, <1>7, <1>8 DEF Next, MainStep, DispatcherStep

(* An ack or nack of a holder's delivery takes m only where it was live.    *)
LEMMA NextTakenBack ==
    ASSUME TInv, TInv', TakenBack, [Next]_vars,
           \A m \in Messages : OneCopy(m)
    PROVE  TakenBack'
<1> USE DEF vars, queueVars, processVars, brokerVars, consumerVars, loopVars, Goto, At, LoopAt
<1>1. CASE UNCHANGED queueVars
  BY <1>1 DEF TakenBack, Unacked
<1>2. CASE CloseQueue \/ ServerFails
  BY <1>2 DEF TakenBack, Unacked, CloseQueue, Close, ServerFails, TInv, TypeOK, QueueTypeOK
<1>3. CASE DispatchersStopped \/ Connect \/ ConnectFails \/ ConfirmAbandoned
  BY <1>3 DEF TakenBack, Unacked, DispatchersStopped, Connect, ConnectFails, ConfirmAbandoned,
              StopConsuming, EnsurePublisher, InvalidatePublisher
<1>4. ASSUME NEW w \in Workers, WorkerStep(w) PROVE TakenBack'
  <2> USE DEF WorkerAt
  <2>1. CASE Take(w) \/ WorkerStops(w)
    BY <2>1 DEF TakenBack, Unacked, Take, WorkerStops
  <2>2. ASSUME worker[w].pc = "handle", Live(worker[w].delivery)
        PROVE  worker[w].delivery.msg \in Unacked
    <3>1. worker[w].delivery # NoDelivery /\ worker[w].delivery.msg \in Messages
      BY <2>2, Fields DEF TInv, DeliveryPlaces, Opened, Delivery
    <3> QED
      BY <2>2, <3>1 DEF OneCopy, Handled, Carries
  <2>3. CASE Decide(w)
    BY <2>2, <2>3 DEF TakenBack, Unacked, Decide, Ack, Live
  <2>4. CASE SendBack(w)
    BY <2>2, <2>4 DEF TakenBack, Unacked, SendBack, NackRequeue, Live
  <2> QED
    BY <1>4, <2>1, <2>3, <2>4 DEF WorkerStep
<1>5. CASE (\E m \in Messages : Push(m) \/ BackFromElsewhere(m)) \/ Unsubscribe
  BY <1>5 DEF TakenBack, Unacked, Push, BackFromElsewhere, Unsubscribe
<1>6. CASE Fault
  <2>1. CASE ConsumerLost
    BY <2>1 DEF TakenBack, Unacked, ConsumerLost, TInv, TypeOK, QueueTypeOK
  <2>2. CASE ConsumerCancelled \/ PublisherLost
    BY <2>2 DEF TakenBack, Unacked, ConsumerCancelled, PublisherLost
  <2>3. CASE OpenConsumerFails
    BY <2>3 DEF TakenBack, Unacked, OpenConsumerFails
  <2>4. ASSUME NEW m \in Messages, TakenElsewhere(m) PROVE TakenBack'
    BY <2>4 DEF TakenBack, Unacked, TakenElsewhere
  <2> QED
    BY <1>6, <2>1, <2>2, <2>3, <2>4 DEF Fault
<1>7. CASE SeeCancel
  <2>1. ASSUME loop.pc = "send", Live(loop.delivery) PROVE loop.delivery.msg \in Unacked
    <3>1. loop.delivery # NoDelivery /\ loop.delivery.msg \in Messages
      BY <2>1, Fields DEF TInv, DeliveryPlaces, Opened, Delivery
    <3> QED
      BY <2>1, <3>1 DEF OneCopy, SendingIt, Carries
  <2> QED
    BY <1>7, <2>1 DEF TakenBack, Unacked, SeeCancel, ReturnInHand, NackRequeue, Live
<1>8. ASSUME NEW m \in Messages, Receive(m) PROVE TakenBack'
  <2>1. consumer = "open" => m \in Unacked
    BY <1>8 DEF Receive, OneCopy, Buffered
  <2> QED
    BY <1>8, <2>1 DEF TakenBack, Unacked, Receive, Ack, Live
<1>9. CASE LoopHead \/ OpenConsumer \/ Send \/ RetryTimer
  BY <1>9 DEF TakenBack, Unacked, LoopHead, OpenConsumer, Send, RetryTimer
<1>10. CASE DeliveriesClosed
  BY <1>10 DEF TakenBack, Unacked, DeliveriesClosed
<1>11. CASE CloseConsumer
  <2>1. /\ loop'.pc = "wait" /\ consumer' = "none" /\ ready' = ready \cup Unacked
        /\ UNCHANGED <<elsewhere, settled>>
    BY <1>11 DEF CloseConsumer
  <2> QED
    BY <2>1 DEF TakenBack, Unacked
<1> QED
  BY <1>1, <1>2, <1>3, <1>4, <1>5, <1>6, <1>7, <1>8, <1>9, <1>10, <1>11
     DEF Next, MainStep, DispatcherStep, Consume, LoopStep, Signal, ServerShutdown,
         ConsumerStopped, WorkersStopped, Poll, Confirmed, DispatcherStops

-----------------------------------------------------------------------------
(* The channel is closed, or was never open: nothing can settle anything.   *)
LEMMA ClosedHasNone ==
    ASSUME consumer' # "open", Unacked' = {}
    PROVE  Copies'
BY DEF Copies, OneCopy, SomeCopy, Buffered, SendingIt, Queued, Handled, Carries, Live

(* No delivery moves.                                                       *)
LEMMA CopiesStay ==
    ASSUME Copies, Unacked' = Unacked, UNCHANGED <<channelNo, consumer, events>>,
           loop'.delivery = loop.delivery,
           \A w \in Workers : worker'[w].delivery = worker[w].delivery,
           \A m \in Messages : Buffered(m)' = Buffered(m)
    PROVE  Copies'
<1> SUFFICES ASSUME NEW m \in Messages PROVE OneCopy(m)' /\ SomeCopy(m)'
  BY DEF Copies
<1>1. /\ SendingIt(m)' = SendingIt(m)
      /\ \A i : Queued(i, m)' = Queued(i, m)
      /\ \A w \in Workers : Handled(w, m)' = Handled(w, m)
  BY DEF SendingIt, Queued, Handled, Carries, Live
<1>2. Buffered(m)' = Buffered(m) /\ OneCopy(m) /\ SomeCopy(m)
  BY DEF Copies
<1> QED
  BY <1>1, <1>2 DEF OneCopy, SomeCopy

(* The broker pushes a message: its first copy is in the library's buffer.  *)
LEMMA PushCopies ==
    ASSUME TInv, TakenBack, Copies, NEW n \in Messages, Push(n), UNCHANGED processVars
    PROVE  Copies'
<1> SUFFICES ASSUME NEW m \in Messages PROVE OneCopy(m)' /\ SomeCopy(m)'
  BY DEF Copies
<1>1. /\ Buffered(m)' = (Buffered(m) \/ m = n)
      /\ SendingIt(m)' = SendingIt(m)
      /\ \A i : Queued(i, m)' = Queued(i, m)
      /\ \A w \in Workers : Handled(w, m)' = Handled(w, m)
  BY DEF Push, Buffered, SendingIt, Queued, Handled, Carries, Live, loopVars, processVars
<1>2. n \notin Unacked /\ Unacked' = Unacked \cup {n}
  BY DEF Push, TakenBack, Unacked
<1>3. OneCopy(m) /\ SomeCopy(m)
  BY DEF Copies
<1> QED
  BY <1>1, <1>2, <1>3 DEF OneCopy, SomeCopy

(* A worker takes a delivery from the channel.                              *)
LEMMA TakeCopies ==
    ASSUME TInv, Copies, NEW w \in Workers, Take(w)
    PROVE  Copies'
<1> SUFFICES ASSUME NEW m \in Messages PROVE OneCopy(m)' /\ SomeCopy(m)'
  BY DEF Copies
<1>1. /\ Len(events) \in Nat /\ Len(events) >= 1 /\ Len(events') = Len(events) - 1
      /\ \A i \in 1 .. Len(events) - 1 : events'[i] = events[i + 1]
      /\ worker'[w].delivery = events[1] /\ worker[w].delivery = NoDelivery
      /\ \A v \in Workers \ {w} : worker'[v] = worker[v]
  BY Fields, ChannelSteps DEF Take, WorkerAt, TInv, TypeOK, DeliveryPlaces
<1>2. UNCHANGED <<brokerVars, consumerVars, loop>>
  BY DEF Take
<1>3. /\ Buffered(m)' = Buffered(m) /\ SendingIt(m)' = SendingIt(m) /\ Unacked' = Unacked
      /\ \A v \in Workers \ {w} : Handled(v, m)' = Handled(v, m)
      /\ Handled(w, m)' = Queued(1, m) /\ ~Handled(w, m)
  <2> USE <1>1, <1>2 DEF brokerVars, consumerVars
  <2>1. Buffered(m)' = Buffered(m) /\ SendingIt(m)' = SendingIt(m) /\ Unacked' = Unacked
    BY DEF Buffered, SendingIt, Carries, Live, Unacked
  <2>2. \A v \in Workers \ {w} : Handled(v, m)' = Handled(v, m)
    BY DEF Handled, Carries, Live
  <2>3. Handled(w, m)' = Queued(1, m) /\ ~Handled(w, m)
    <3>1. 1 \in 1 .. Len(events)
      OBVIOUS
    <3> QED
      BY <3>1 DEF Handled, Queued, Carries, Live
  <2> QED
    BY <2>1, <2>2, <2>3
<1>4. /\ \A i : Queued(i, m)' => i + 1 # 1 /\ Queued(i + 1, m) /\ i \in Nat
      /\ \A i : Queued(i, m) => i = 1 \/ (i \in Nat /\ Queued(i - 1, m)')
  <2>1. \A e : Carries(e, m)' = Carries(e, m)
    BY <1>2 DEF Carries, Live, consumerVars
  <2>2. ASSUME NEW i, Queued(i, m)' PROVE i + 1 # 1 /\ Queued(i + 1, m) /\ i \in Nat
    <3>1. i \in 1 .. Len(events) - 1 /\ Carries(events'[i], m)
      BY <1>1, <2>1, <2>2 DEF Queued, Carries, Live
    <3>2. i \in Nat /\ i + 1 # 1 /\ i + 1 \in 1 .. Len(events)
      BY <1>1, <3>1
    <3> QED
      BY <1>1, <3>1, <3>2 DEF Queued
  <2>3. ASSUME NEW i, Queued(i, m), i # 1 PROVE i \in Nat /\ Queued(i - 1, m)'
    <3>1. i \in 1 .. Len(events) /\ Carries(events[i], m)
      BY <2>3 DEF Queued
    <3>n. Len(events) \in Nat /\ Len(events') = Len(events) - 1
      BY <1>1
    <3>2. /\ i \in Nat /\ i - 1 \in 1 .. Len(events) - 1 /\ i - 1 \in 1 .. Len(events')
          /\ (i - 1) + 1 = i
      BY <2>3, <3>1, <3>n
    <3>3. Carries(events'[i - 1], m)
      BY <1>1, <3>1, <3>2
    <3> QED
      BY <1>2, <3>2, <3>3 DEF Queued, Carries, Live, consumerVars
  <2> QED
    BY <2>2, <2>3
<1>5. \A i, j : Queued(i, m)' /\ Queued(j, m)' => i = j
  BY <1>4 DEF Copies, OneCopy
<1>6. Queued(1, m) => \A i : ~Queued(i, m)'
  BY <1>4 DEF Copies, OneCopy
<1>7. OneCopy(m) /\ SomeCopy(m)
  BY DEF Copies
<1>8. (\E i : Queued(i, m)) <=> Queued(1, m) \/ \E i : Queued(i, m)'
  BY <1>4
<1> HIDE DEF Queued
<1> QED
  BY <1>3, <1>5, <1>6, <1>7, <1>8 DEF OneCopy, SomeCopy

(* A worker acks, rejects or sends back what it handled.                    *)
LEMMA WorkerReturnCopies ==
    ASSUME TInv, Copies, TakenBack, NEW w \in Workers, Decide(w) \/ SendBack(w)
    PROVE  Copies'
<1> SUFFICES ASSUME NEW m \in Messages PROVE OneCopy(m)' /\ SomeCopy(m)'
  BY DEF Copies
<1> DEFINE d == worker[w].delivery
<1>1. UNCHANGED <<consumerVars, loopVars>>
  BY DEF Decide, SendBack
<1>2. /\ worker'[w].delivery = NoDelivery
      /\ \A v \in Workers \ {w} : worker'[v] = worker[v]
  BY DEF Decide, SendBack, WorkerAt, TInv, TypeOK
<1>3. d # NoDelivery /\ d.msg \in Messages
  BY Fields DEF Decide, SendBack, TInv, DeliveryPlaces, Opened, Delivery
<1>4. /\ Buffered(m)' = Buffered(m) /\ SendingIt(m)' = SendingIt(m)
      /\ \A i : Queued(i, m)' = Queued(i, m)
      /\ \A v \in Workers \ {w} : Handled(v, m)' = Handled(v, m)
      /\ ~Handled(w, m)' /\ Handled(w, m) = (d.msg = m /\ Live(d))
  BY <1>1, <1>2, <1>3
     DEF Buffered, SendingIt, Queued, Handled, Carries, Live, consumerVars, loopVars
<1>5. Live(d) => d.msg \in Unacked
  BY <1>3 DEF Copies, OneCopy, Handled, Carries
<1>6. Unacked' = IF Live(d) THEN Unacked \ {d.msg} ELSE Unacked
  BY <1>5 DEF Decide, SendBack, Ack, NackRequeue, Unacked
<1>7. OneCopy(m) /\ SomeCopy(m)
  BY DEF Copies
<1> HIDE DEF d
<1> QED
  BY <1>4, <1>6, <1>7 DEF OneCopy, SomeCopy

(* The loop receives a delivery, and rejects it when it is no event.        *)
LEMMA ReceiveCopies ==
    ASSUME TInv, Copies, NEW n \in Messages, Receive(n), UNCHANGED processVars
    PROVE  Copies'
<1> SUFFICES ASSUME NEW m \in Messages PROVE OneCopy(m)' /\ SomeCopy(m)'
  BY DEF Copies
<1>1. /\ Buffered(m)' = (Buffered(m) /\ m # n)
      /\ \A i : Queued(i, m)' = Queued(i, m)
      /\ \A w \in Workers : Handled(w, m)' = Handled(w, m)
  BY DEF Receive, Buffered, Queued, Handled, Carries, Live, processVars
<1>2. n \in prefetched /\ ~SendingIt(m)
  BY Fields DEF Receive, SendingIt, Carries, TInv, DeliveryPlaces
<1>3. OneCopy(m) /\ SomeCopy(m) /\ OneCopy(n)
  BY DEF Copies
<1>4. CASE n \in Undecodable
  <2>1. ~SendingIt(m)'
    BY <1>2, <1>4 DEF Receive, SendingIt, Carries, Live
  <2>2. Unacked' = IF consumer = "open" THEN Unacked \ {n} ELSE Unacked
    BY <1>4 DEF Receive, Ack, Live, Unacked
  <2>3. Buffered(n) = (consumer = "open")
    BY <1>2 DEF Buffered
  <2>4. consumer # "open" => ~Buffered(m)
    BY DEF Buffered
  <2> QED
    BY <1>1, <1>2, <1>3, <2>1, <2>2, <2>3, <2>4 DEF OneCopy, SomeCopy
<1>5. CASE n \notin Undecodable
  <2>1. [msg |-> n, channel |-> channelNo] \in Delivery
    BY Fields DEF Delivery
  <2>2. SendingIt(m)' = (m = n /\ consumer = "open")
    <3>1. /\ loop'.delivery = [msg |-> n, channel |-> channelNo]
          /\ channelNo' = channelNo /\ consumer' = consumer
      BY <1>5 DEF Receive
    <3>2. NoDelivery \notin Delivery
      BY Fields
    <3>3. loop'.delivery # NoDelivery
      BY <2>1, <3>1, <3>2, Zenon
    <3>4. \A d : d = [msg |-> n, channel |-> channelNo] => d.msg = n /\ d.channel = channelNo
      OBVIOUS
    <3>5. loop'.delivery.msg = n /\ loop'.delivery.channel = channelNo'
      BY <3>1, <3>4, Zenon
    <3> QED
      BY <3>1, <3>3, <3>5 DEF SendingIt, Carries, Live
  <2>3. Unacked' = Unacked
    BY <1>5 DEF Receive, Unacked, brokerVars
  <2>4. Buffered(n) = (consumer = "open") /\ (consumer # "open" => ~Buffered(m))
    BY <1>2 DEF Buffered
  <2> QED
    BY <1>1, <1>2, <1>3, <2>2, <2>3, <2>4 DEF OneCopy, SomeCopy
<1> QED
  BY <1>4, <1>5

(* The loop sends its delivery to the workers.                              *)
LEMMA SendCopies ==
    ASSUME TInv, Copies, Send, UNCHANGED processVars
    PROVE  Copies'
<1> SUFFICES ASSUME NEW m \in Messages PROVE OneCopy(m)' /\ SomeCopy(m)'
  BY DEF Copies
<1>1. UNCHANGED <<brokerVars, consumerVars, processVars>>
  BY DEF Send
<1>2. /\ Len(events) \in Nat /\ Len(events') = Len(events) + 1
      /\ events'[Len(events) + 1] = loop.delivery
      /\ \A i \in 1 .. Len(events) : events'[i] = events[i]
      /\ loop'.delivery = NoDelivery
  <2>1. loop.delivery \in Delivery
    BY DEF Send, TInv, DeliveryPlaces, Opened
  <2>2. events' = Append(events, loop.delivery) /\ loop'.delivery = NoDelivery
    BY DEF Send, LoopAt
  <2>3. events \in Seq(Delivery)
    BY Fields
  <2> HIDE DEF Delivery
  <2> QED
    BY <2>1, <2>2, <2>3, ChannelSteps
<1>3. /\ Buffered(m)' = Buffered(m) /\ Unacked' = Unacked /\ ~SendingIt(m)'
      /\ \A w \in Workers : Handled(w, m)' = Handled(w, m)
  <2>1. Buffered(m)' = Buffered(m) /\ Unacked' = Unacked
    BY <1>1 DEF Buffered, Unacked, brokerVars, consumerVars
  <2>2. ~SendingIt(m)'
    BY <1>1, <1>2 DEF SendingIt, Carries
  <2>3. \A w \in Workers : Handled(w, m)' = Handled(w, m)
    BY <1>1 DEF Handled, Carries, Live, consumerVars, processVars
  <2> QED
    BY <2>1, <2>2, <2>3
<1>4. \A i : Queued(i, m)' <=> Queued(i, m) \/ (i = Len(events) + 1 /\ SendingIt(m))
  BY <1>1, <1>2 DEF Queued, SendingIt, Carries, Live, consumerVars
<1>5. OneCopy(m) /\ SomeCopy(m)
  BY DEF Copies
<1> QED
  BY <1>3, <1>4, <1>5 DEF OneCopy, SomeCopy

(* The loop sees the cancellation with a delivery in hand.                  *)
LEMMA ReturnCopies ==
    ASSUME TInv, Copies, SeeCancel, loop.pc = "send", UNCHANGED processVars
    PROVE  Copies'
<1> SUFFICES ASSUME NEW m \in Messages PROVE OneCopy(m)' /\ SomeCopy(m)'
  BY DEF Copies
<1> DEFINE d == loop.delivery
<1>1. UNCHANGED <<consumerVars, events, processVars>> /\ loop'.delivery = NoDelivery
  BY DEF SeeCancel, LoopAt
<1>2. d # NoDelivery /\ d.msg \in Messages
  BY Fields DEF TInv, DeliveryPlaces, Opened, Delivery
<1>3. /\ Buffered(m)' = Buffered(m) /\ ~SendingIt(m)'
      /\ \A i : Queued(i, m)' = Queued(i, m)
      /\ \A w \in Workers : Handled(w, m)' = Handled(w, m)
      /\ SendingIt(m) = (d.msg = m /\ Live(d))
  BY <1>1, <1>2
     DEF Buffered, SendingIt, Queued, Handled, Carries, Live, consumerVars, processVars
<1>4. Live(d) => d.msg \in Unacked
  BY <1>2 DEF Copies, OneCopy, SendingIt, Carries
<1>5. Unacked' = IF Live(d) THEN Unacked \ {d.msg} ELSE Unacked
  BY <1>4 DEF SeeCancel, ReturnInHand, NackRequeue, Unacked
<1>6. OneCopy(m) /\ SomeCopy(m)
  BY DEF Copies
<1> HIDE DEF d
<1> QED
  BY <1>3, <1>5, <1>6 DEF OneCopy, SomeCopy

(* A new channel: every delivery that exists came on an older one.          *)
LEMMA OpenCopies ==
    ASSUME TInv, TakenBack, OpenConsumer, UNCHANGED processVars
    PROVE  Copies'
<1> SUFFICES ASSUME NEW m \in Messages PROVE OneCopy(m)' /\ SomeCopy(m)'
  BY DEF Copies
<1>1. Unacked' = {}
  BY DEF OpenConsumer, TakenBack, Unacked, brokerVars
<1>2. channelNo' = channelNo + 1 /\ prefetched' = {} /\ events' = events /\ worker' = worker
      /\ loop'.delivery = NoDelivery /\ channelNo \in Nat
  BY Fields DEF OpenConsumer, LoopAt, processVars
<1>3. \A e : Opened(e) => ~Live(e)'
  BY <1>2 DEF Opened, Delivery, Live
<1>4. /\ ~Buffered(m)' /\ ~SendingIt(m)'
      /\ \A i : ~Queued(i, m)'
      /\ \A w \in Workers : ~Handled(w, m)'
  <2>1. \A i \in 1 .. Len(events) : ~Live(events[i])'
    BY <1>2, <1>3 DEF TInv, DeliveryPlaces, Live
  <2>2. \A w \in Workers : worker[w].delivery = NoDelivery \/ ~Live(worker[w].delivery)'
    BY <1>2, <1>3 DEF TInv, DeliveryPlaces, Live
  <2> QED
    BY <1>2, <2>1, <2>2 DEF Buffered, SendingIt, Queued, Handled, Carries, Live
<1> QED
  BY <1>1, <1>4 DEF OneCopy, SomeCopy

(* Every step keeps one delivery for each unacknowledged message.           *)
LEMMA NextCopies ==
    ASSUME TInv, TInv', TakenBack, Copies, [Next]_vars
    PROVE  Copies'
<1> USE DEF vars, queueVars, processVars, brokerVars, consumerVars, loopVars, Goto, At, LoopAt
<1>1. CASE UNCHANGED <<brokerVars, consumerVars, loopVars, worker>>
  BY <1>1, CopiesStay DEF Buffered, Unacked
<1>2. CASE Signal \/ ServerShutdown \/ DispatchersStopped \/ ConsumerStopped \/ WorkersStopped
           \/ Poll \/ Connect \/ ConnectFails \/ Confirmed \/ ConfirmAbandoned \/ DispatcherStops
  BY <1>1, <1>2
     DEF Signal, ServerShutdown, DispatchersStopped, ConsumerStopped, WorkersStopped,
         Poll, Connect, ConnectFails, Confirmed, ConfirmAbandoned, DispatcherStops,
         StopConsuming, EnsurePublisher, InvalidatePublisher
<1>3. CASE CloseQueue \/ ServerFails
  <2>1. consumer' # "open" /\ Unacked' = {}
    BY <1>3 DEF CloseQueue, Close, ServerFails, Unacked
  <2> QED
    BY <2>1, ClosedHasNone
<1>4. ASSUME NEW w \in Workers, WorkerStep(w) PROVE Copies'
  <2>1. CASE WorkerStops(w)
    <3>1. \A v \in Workers : worker'[v].delivery = worker[v].delivery
      BY <2>1 DEF WorkerStops, WorkerAt, TInv, TypeOK, DeliveryPlaces
    <3> QED
      BY <2>1, <3>1, CopiesStay DEF WorkerStops, Buffered, Unacked
  <2> QED
    BY <1>4, <2>1, TakeCopies, WorkerReturnCopies DEF WorkerStep
<1>5. CASE (\E m \in Messages : Push(m)) /\ UNCHANGED <<processVars, faults>>
  BY <1>5, PushCopies
<1>6. CASE Unsubscribe /\ UNCHANGED <<processVars, faults>>
  BY <1>6, CopiesStay DEF Unsubscribe, Buffered, Unacked
<1>7. CASE Fault
  <2>1. CASE ConsumerLost
    <3>1. consumer' # "open" /\ Unacked' = {}
      BY <2>1 DEF ConsumerLost, Unacked
    <3> QED
      BY <3>1, ClosedHasNone
  <2>2. CASE ConsumerCancelled \/ PublisherLost
    BY <1>7, <2>2, CopiesStay DEF Fault, ConsumerCancelled, PublisherLost, Buffered, Unacked
  <2>3. CASE OpenConsumerFails
    <3>1. loop'.delivery = loop.delivery
      BY <2>3 DEF OpenConsumerFails, TInv, DeliveryPlaces
    <3> QED
      BY <1>7, <2>3, <3>1, CopiesStay DEF Fault, OpenConsumerFails, Buffered, Unacked
  <2>4. ASSUME NEW m \in Messages, TakenElsewhere(m) PROVE Copies'
    <3>1. Unacked' = Unacked
      BY <2>4 DEF TakenElsewhere, Unacked
    <3> QED
      BY <1>7, <2>4, <3>1, CopiesStay DEF Fault, TakenElsewhere, Buffered
  <2> QED
    BY <1>7, <2>1, <2>2, <2>3, <2>4 DEF Fault
<1>8. CASE Consume /\ UNCHANGED <<processVars, faults>>
  <2>1. CASE LoopHead \/ RetryTimer \/ (SeeCancel /\ loop.pc # "send")
    <3>1. loop'.delivery = loop.delivery
      <4>1. loop.pc # "send" /\ loop'.delivery = NoDelivery
        BY <2>1 DEF LoopHead, RetryTimer, SeeCancel
      <4> QED
        BY <4>1 DEF TInv, DeliveryPlaces
    <3>2. UNCHANGED <<brokerVars, consumerVars, events, worker>>
      BY <1>8, <2>1 DEF LoopHead, RetryTimer, SeeCancel
    <3> QED
      BY <3>1, <3>2, CopiesStay DEF Buffered, Unacked
  <2>2. CASE DeliveriesClosed
    <3>1. loop'.delivery = loop.delivery
      <4>1. loop.pc # "send" /\ loop'.delivery = NoDelivery
        BY <2>2 DEF DeliveriesClosed
      <4> QED
        BY <4>1 DEF TInv, DeliveryPlaces
    <3>2. \A m \in Messages : Buffered(m)' = Buffered(m)
      BY <2>2 DEF DeliveriesClosed, NoMoreDeliveries, Buffered
    <3>3. UNCHANGED <<brokerVars, channelNo, consumer, events, worker>>
      BY <1>8, <2>2 DEF DeliveriesClosed
    <3> QED
      BY <3>1, <3>2, <3>3, CopiesStay DEF Unacked
  <2>3. CASE CloseConsumer
    <3>1. consumer' # "open" /\ Unacked' = {}
      BY <2>3 DEF CloseConsumer, Unacked
    <3> QED
      BY <3>1, ClosedHasNone
  <2> QED
    BY <1>8, <2>1, <2>2, <2>3, ReceiveCopies, SendCopies, ReturnCopies, OpenCopies
       DEF Consume, LoopStep
<1>9. ASSUME NEW m \in Messages, BackFromElsewhere(m), UNCHANGED processVars PROVE Copies'
  <2>1. Unacked' = Unacked
    BY <1>9 DEF BackFromElsewhere, Unacked
  <2> QED
    BY <1>9, <2>1, CopiesStay DEF BackFromElsewhere, Buffered
<1> QED
  BY <1>1, <1>2, <1>3, <1>4, <1>5, <1>6, <1>7, <1>8, <1>9 DEF Next, MainStep, DispatcherStep

(* A message leaves the queue by a worker's decision or as no event.        *)
LEMMA NextDecided ==
    ASSUME settled \subseteq decided \cup Undecodable, [Next]_vars
    PROVE  (settled \subseteq decided \cup Undecodable)'
<1> USE DEF vars, queueVars, processVars, brokerVars, consumerVars, loopVars, Goto, At
<1>1. CASE UNCHANGED <<settled, decided>>
  BY <1>1
<1>2. ASSUME NEW w \in Workers, Decide(w)
      PROVE  (settled \subseteq decided \cup Undecodable)'
  BY <1>2 DEF Decide
<1>3. ASSUME NEW m \in Messages, Receive(m), UNCHANGED processVars
      PROVE  (settled \subseteq decided \cup Undecodable)'
  BY <1>3 DEF Receive, Ack
<1>4. \/ UNCHANGED <<settled, decided>>
      \/ \E w \in Workers : Decide(w)
      \/ \E m \in Messages : Receive(m) /\ UNCHANGED processVars
  BY DEF Next, Signal, ServerFails, MainStep, ServerShutdown, DispatchersStopped,
         ConsumerStopped, WorkersStopped, CloseQueue, Close, StopConsuming, Poll, ConnectFails,
         Confirmed, DispatcherStep, Connect, ConfirmAbandoned, DispatcherStops,
         EnsurePublisher, InvalidatePublisher, WorkerStep, Take, SendBack, NackRequeue,
         WorkerStops, WorkerAt, Push, BackFromElsewhere, TakenElsewhere, Unsubscribe, Fault,
         ConsumerLost, ConsumerCancelled, PublisherLost, OpenConsumerFails, Consume, SeeCancel, ReturnInHand, LoopStep,
         LoopHead, OpenConsumer, Send, DeliveriesClosed, CloseConsumer, RetryTimer
<1> QED
  BY <1>1, <1>2, <1>3, <1>4

-----------------------------------------------------------------------------
(* The start, and every step.                                               *)
LEMMA InitSInv == Init => SInv
<1> SUFFICES ASSUME Init PROVE SInv
  OBVIOUS
<1>1. TInv
  BY InitTypes
<1> USE DEF Init, QueueInit, Receiving
<1>2. StopOrder
  BY DEF StopOrder
<1>3. TakenBack
  BY DEF TakenBack, Unacked
<1>4. Copies
  BY DEF Copies, OneCopy, SomeCopy, Buffered, SendingIt, Queued, Handled, Carries, Live, Unacked
<1> QED
  BY <1>1, <1>2, <1>3, <1>4 DEF SInv

(* Every step keeps SInv.                                                   *)
LEMMA NextSInv == SInv /\ [Next]_vars => SInv'
<1> SUFFICES ASSUME SInv, [Next]_vars PROVE SInv'
  OBVIOUS
<1>1. TInv'
  BY NextTypes DEF SInv
<1>2. StopOrder'
  BY <1>1, NextStopOrder DEF SInv
<1>3. TakenBack'
  BY <1>1, NextTakenBack DEF SInv, Copies
<1>4. Copies'
  BY <1>1, NextCopies DEF SInv
<1>5. (settled \subseteq decided \cup Undecodable)'
  BY NextDecided DEF SInv
<1> QED
  BY <1>1, <1>2, <1>3, <1>4, <1>5 DEF SInv

(* SInv in every state.                                                     *)
LEMMA AlwaysSInv == Spec => []SInv
BY InitSInv, NextSInv, PTL DEF Spec

(* How many elements a set has whose elements are all the same.             *)
LEMMA AtMostOne ==
    ASSUME NEW S, \A x, y \in S : x = y
    PROVE  Cardinality(S) = IF S = {} THEN 0 ELSE 1
<1>1. ASSUME NEW x \in S PROVE S = {x}
  BY <1>1
<1> QED
  BY <1>1, FS_EmptySet, FS_Singleton

(* One copy, counted.                                                       *)
LEMMA Counted ==
    ASSUME TInv, NEW m \in Messages, OneCopy(m), SomeCopy(m)
    PROVE  LiveCopies(m) = IF m \in Unacked THEN 1 ELSE 0
<1> DEFINE A == {x \in prefetched : x = m /\ consumer = "open"}
           B == {d \in {loop.delivery} : Carries(d, m)}
           E == {i \in DOMAIN events : Carries(events[i], m)}
           W == {w \in Workers : Carries(worker[w].delivery, m)}
<1>1. LiveCopies(m) = Cardinality(A) + Cardinality(B) + Cardinality(E) + Cardinality(W)
  BY DEF LiveCopies, Carries
<1>2. \A i : i \in E <=> Queued(i, m)
  BY Fields, ChannelSteps DEF Queued
<1>3. \A w \in Workers : w \in W <=> Handled(w, m)
  BY DEF Handled
<1>4. (A = {} <=> ~Buffered(m)) /\ (B = {} <=> ~SendingIt(m))
      /\ (E = {} <=> \A i : ~Queued(i, m)) /\ (W = {} <=> \A w \in Workers : ~Handled(w, m))
  <2>1. A = {} <=> ~Buffered(m)
    BY DEF Buffered
  <2>2. B = {} <=> ~SendingIt(m)
    BY DEF SendingIt
  <2>3. E = {} <=> \A i : ~Queued(i, m)
    BY <1>2
  <2>4. W = {} <=> \A w \in Workers : ~Handled(w, m)
    BY <1>3
  <2> QED
    BY <2>1, <2>2, <2>3, <2>4
<1>5. /\ Cardinality(A) = IF Buffered(m) THEN 1 ELSE 0
      /\ Cardinality(B) = IF SendingIt(m) THEN 1 ELSE 0
  <2>1. \A x, y \in A : x = y
    OBVIOUS
  <2>2. \A x, y \in B : x = y
    OBVIOUS
  <2> HIDE DEF A, B
  <2> QED
    BY <1>4, <2>1, <2>2, AtMostOne
<1>6. Cardinality(E) = IF \E i : Queued(i, m) THEN 1 ELSE 0
  <2>1. \A x, y \in E : x = y
    BY <1>2 DEF OneCopy
  <2> HIDE DEF E
  <2> QED
    BY <1>4, <2>1, AtMostOne
<1>7. Cardinality(W) = IF \E w \in Workers : Handled(w, m) THEN 1 ELSE 0
  <2>1. \A x, y \in W : x = y
    BY <1>3 DEF OneCopy
  <2> HIDE DEF W
  <2> QED
    BY <1>4, <2>1, AtMostOne
<1> HIDE DEF A, B, E, W
<1> QED
  BY <1>1, <1>5, <1>6, <1>7 DEF OneCopy, SomeCopy

(***************************************************************************)
(* For every number of messages and workers, every channel capacity and    *)
(* any number of lost connections: a message that the broker counts as     *)
(* unacknowledged has exactly one delivery in the queue client that can    *)
(* settle it, every other message has none, and a message leaves the queue *)
(* only by a worker's ack or reject, or because it is no event.            *)
(***************************************************************************)
THEOREM NoDeliveryLost == Spec => []DeliveriesAccounted
<1>1. SInv => DeliveriesAccounted
  BY Counted DEF SInv, Copies, DeliveriesAccounted
<1> QED
  BY <1>1, AlwaysSInv, PTL

(***************************************************************************)
(* The channel events never holds more than QUEUE_SIZE deliveries, no more *)
(* than WORKER_COUNT messages are unacknowledged, and every variable has   *)
(* its type.                                                               *)
(***************************************************************************)
THEOREM ShutdownTypeCorrect == Spec => []TypeOK
<1>1. SInv => TypeOK
  BY DEF SInv, TInv
<1> QED
  BY <1>1, AlwaysSInv, PTL

(***************************************************************************)
(* When main returns, the consume loop, the dispatcher and every worker    *)
(* have ended, no connection is open and the broker has back what was not  *)
(* decided.                                                                *)
(***************************************************************************)
THEOREM ReturnsClean == Spec => []CleanStop
<1>1. SInv => CleanStop
  BY DEF SInv, StopOrder, TakenBack, CleanStop
<1> QED
  BY <1>1, AlwaysSInv, PTL

(***************************************************************************)
(* Once consumption is cancelled, a consumer channel that works is closed  *)
(* only when the channel events is empty and every worker has ended: main  *)
(* never closes one under a worker, and the consume loop only the one that *)
(* it had decided to replace before the cancellation.                      *)
(***************************************************************************)
THEOREM ChannelOutlivesWorkers == Spec => ClosedOnlyWhenIdle
<1> DEFINE Idle == events = <<>> /\ \A w \in Workers : worker[w].pc = "stopped"
           Closes == cancelled /\ loop.pc # "close" /\ consumer = "open" /\ consumer' = "none"
<1>1. SInv /\ [Next]_vars => [Closes => Idle]_vars
  <2> SUFFICES ASSUME SInv, Next, Closes PROVE Idle
    OBVIOUS
  <2>1. CloseQueue \/ ServerFails
    BY DEF Next, Signal, MainStep, ServerShutdown, DispatchersStopped,
           ConsumerStopped, WorkersStopped, StopConsuming, Poll, ConnectFails,
           Confirmed, DispatcherStep, Connect, ConfirmAbandoned, DispatcherStops,
           EnsurePublisher, InvalidatePublisher, WorkerStep, Take, Decide, SendBack,
           WorkerStops, WorkerAt, Push, BackFromElsewhere, TakenElsewhere, Unsubscribe, Fault,
           ConsumerLost, ConsumerCancelled, PublisherLost, OpenConsumerFails, Consume, SeeCancel, LoopStep, LoopHead,
           OpenConsumer, Receive, Send, DeliveriesClosed, CloseConsumer, RetryTimer, Goto, At,
           queueVars, consumerVars
  <2>2. main = "close"
    BY <2>1 DEF SInv, StopOrder, ServerFails, CloseQueue
  <2> QED
    BY <2>2, QueueAssumption DEF SInv, StopOrder, QueueAssumption
<1>2. SInv /\ [Next]_vars => [cancelled /\ loop.pc # "close" /\ consumer = "open" /\ consumer' = "none" =>
         events = <<>> /\ \A w \in Workers : worker[w].pc = "stopped"]_vars
  BY <1>1
<1> HIDE DEF Idle, Closes
<1> QED
  BY <1>2, AlwaysSInv, PTL DEF Spec, ClosedOnlyWhenIdle
-----------------------------------------------------------------------------
(* The contract of the queue.  On the way from the library's buffer through *)
(* the loop and the channel to the workers, the deliveries of one message   *)
(* are in the order of the channels they came on, the newest last.          *)
Older(d, e) == d.msg = e.msg => d.channel < e.channel

OlderThanBuffer(d) == d.msg \in prefetched => d.channel < channelNo

Places == 1 .. Len(events)

InOrder ==
    /\ \A i, j \in Places : i < j => Older(events[i], events[j])
    /\ \A i \in Places : OlderThanBuffer(events[i])
    /\ loop.pc = "send" => /\ \A i \in Places : Older(events[i], loop.delivery)
                           /\ OlderThanBuffer(loop.delivery)
    /\ \A w \in Workers : worker[w].pc = "handle" =>
          /\ \A i \in Places : Older(worker[w].delivery, events[i])
          /\ loop.pc = "send" => Older(worker[w].delivery, loop.delivery)
          /\ OlderThanBuffer(worker[w].delivery)

(* What is on its way to a worker is not settled, and is an event.          *)
StillWaits ==
    /\ prefetched \cap settled = {}
    /\ \A i \in Places : events[i].msg \notin settled \cup Undecodable
    /\ loop.pc = "send" => loop.delivery.msg \notin settled \cup Undecodable
    /\ \A w \in Workers : worker[w].pc = "handle" => worker[w].delivery.msg \notin Undecodable

QInv == SInv /\ InOrder /\ StillWaits

(* No delivery of the same message lies behind one of the newest channel.   *)
LEMMA NewestIsLast ==
    ASSUME NEW c \in Nat, NEW d, NEW e,
           d.channel = c, e.channel \in Nat, e.channel <= c, Older(d, e)
    PROVE  e.msg # d.msg
<1>1. ~(d.channel < e.channel)
  OBVIOUS
<1> QED
  BY <1>1 DEF Older

(* No delivery advances, and what is settled is not on its way.             *)
LEMMA OrderStays ==
    ASSUME InOrder, StillWaits,
           \A i \in Places' : i \in Places /\ events'[i] = events[i],
           loop'.pc = "send" => loop' = loop,
           \A w \in Workers : worker'[w].pc = "handle" => worker'[w] = worker[w],
           prefetched' \subseteq prefetched,
           channelNo' = channelNo \/ prefetched' = {},
           \A m \in settled' : \/ m \in settled
                               \/ /\ m \notin prefetched'
                                  /\ \A i \in Places : events[i].msg # m
                                  /\ loop.pc = "send" => loop.delivery.msg # m
    PROVE  InOrder' /\ StillWaits'
<1>1. \A d : OlderThanBuffer(d) => OlderThanBuffer(d)'
  BY DEF OlderThanBuffer
<1>2. \A d, e : Older(d, e)' <=> Older(d, e)
  BY DEF Older
<1>3. StillWaits'
  <2>1. prefetched' \cap settled' = {}
    BY DEF StillWaits
  <2>2. \A i \in Places' : events'[i].msg \notin settled' \cup Undecodable
    BY DEF StillWaits
  <2>3. loop'.pc = "send" => loop'.delivery.msg \notin settled' \cup Undecodable
    BY DEF StillWaits
  <2>4. \A w \in Workers : worker'[w].pc = "handle" => worker'[w].delivery.msg \notin Undecodable
    BY DEF StillWaits
  <2> QED
    BY <2>1, <2>2, <2>3, <2>4 DEF StillWaits
<1>4. InOrder'
  <2>1. \A i, j \in Places' : i < j => Older(events'[i], events'[j])
    BY DEF InOrder
  <2>2. \A i \in Places' : OlderThanBuffer(events[i])'
    BY <1>1 DEF InOrder, OlderThanBuffer
  <2>3. loop'.pc = "send" => /\ \A i \in Places' : Older(events'[i], loop'.delivery)
                             /\ OlderThanBuffer(loop.delivery)'
    BY <1>1 DEF InOrder, OlderThanBuffer
  <2>4. ASSUME NEW w \in Workers, worker'[w].pc = "handle"
        PROVE  /\ \A i \in Places' : Older(worker'[w].delivery, events'[i])
               /\ loop'.pc = "send" => Older(worker'[w].delivery, loop'.delivery)
               /\ OlderThanBuffer(worker[w].delivery)'
    BY <1>1, <2>4 DEF InOrder, OlderThanBuffer
  <2> QED
    BY <1>2, <2>1, <2>2, <2>3, <2>4 DEF InOrder, Older
<1> QED
  BY <1>3, <1>4

(* The broker pushes a message: whatever delivery of it is about is of a    *)
(* channel before this one.                                                 *)
LEMMA PushOrder ==
    ASSUME SInv, InOrder, StillWaits, NEW n \in Messages, Push(n), UNCHANGED processVars
    PROVE  InOrder' /\ StillWaits'
<1>1. /\ UNCHANGED <<events, loop, settled, channelNo, worker>>
      /\ consumer = "open" /\ prefetched' = prefetched \cup {n} /\ n \notin Unacked
      /\ n \notin settled
  BY DEF Push, loopVars, processVars, SInv, TakenBack, Unacked
<1>2. ~SendingIt(n) /\ (\A i : ~Queued(i, n)) /\ \A w \in Workers : ~Handled(w, n)
  BY <1>1 DEF SInv, Copies, OneCopy
<1>3. ASSUME NEW d, Opened(d), ~Carries(d, n), d.msg = n PROVE d.channel < channelNo
  <2>1. d # NoDelivery /\ d.channel \in Nat /\ d.channel <= channelNo /\ channelNo \in Nat
    BY <1>3, Fields DEF Opened, Delivery, SInv
  <2> QED
    BY <1>1, <1>3, <2>1 DEF Carries, Live
<1>4. /\ \A i \in Places : events[i].msg = n => events[i].channel < channelNo
      /\ loop.pc = "send" => (loop.delivery.msg = n => loop.delivery.channel < channelNo)
      /\ \A w \in Workers : worker[w].pc = "handle" =>
            (worker[w].delivery.msg = n => worker[w].delivery.channel < channelNo)
  BY <1>2, <1>3
     DEF SInv, TInv, DeliveryPlaces, Places, Queued, SendingIt, Handled
<1>5. \A d : OlderThanBuffer(d)' <=> OlderThanBuffer(d) /\ (d.msg = n => d.channel < channelNo)
  BY <1>1 DEF OlderThanBuffer
<1>6. StillWaits'
  BY <1>1 DEF StillWaits, Places
<1>7. InOrder'
  <2>1. \A i \in Places : OlderThanBuffer(events[i])'
    BY <1>1, <1>4, <1>5 DEF InOrder, OlderThanBuffer
  <2>2. loop.pc = "send" => OlderThanBuffer(loop.delivery)'
    BY <1>1, <1>4, <1>5 DEF InOrder, OlderThanBuffer
  <2>3. \A w \in Workers : worker[w].pc = "handle" => OlderThanBuffer(worker[w].delivery)'
    BY <1>1, <1>4, <1>5 DEF InOrder, OlderThanBuffer
  <2> HIDE DEF OlderThanBuffer
  <2> QED
    BY <1>1, <2>1, <2>2, <2>3 DEF InOrder, Older, Places
<1> QED
  BY <1>6, <1>7

(* A worker takes the oldest delivery.                                      *)
LEMMA TakeOrder ==
    ASSUME SInv, InOrder, StillWaits, NEW w \in Workers, Take(w)
    PROVE  InOrder' /\ StillWaits'
<1>1. /\ Len(events) \in Nat /\ Len(events) >= 1 /\ Len(events') = Len(events) - 1
      /\ \A i \in 1 .. Len(events) - 1 : events'[i] = events[i + 1]
      /\ worker'[w].delivery = events[1]
      /\ \A v \in Workers \ {w} : worker'[v] = worker[v]
  BY Fields, ChannelSteps DEF SInv, Take, WorkerAt, TInv, TypeOK
<1>2. UNCHANGED <<settled, prefetched, channelNo, loop>>
  BY DEF Take, brokerVars, consumerVars
<1>3. /\ 1 \in Places
      /\ \A i \in Places' : i + 1 \in Places /\ events'[i] = events[i + 1] /\ 1 < i + 1
      /\ \A i, j \in Places' : i < j => i + 1 < j + 1
  BY <1>1 DEF Places
<1>4. \A d : OlderThanBuffer(d)' <=> OlderThanBuffer(d)
  BY <1>2 DEF OlderThanBuffer
<1>5. StillWaits'
  <2>1. \A i \in Places' : events'[i].msg \notin settled' \cup Undecodable
    BY <1>2, <1>3 DEF StillWaits
  <2>2. \A v \in Workers : worker'[v].pc = "handle" => worker'[v].delivery.msg \notin Undecodable
    BY <1>1, <1>3 DEF StillWaits
  <2> QED
    BY <1>2, <2>1, <2>2 DEF StillWaits
<1>6. InOrder'
  <2>1. \A i, j \in Places' : i < j => Older(events'[i], events'[j])
    BY <1>3 DEF InOrder
  <2>2. \A i \in Places' : OlderThanBuffer(events'[i])
    BY <1>3 DEF InOrder
  <2>3. loop.pc = "send" => /\ \A i \in Places' : Older(events'[i], loop.delivery)
                            /\ OlderThanBuffer(loop.delivery)
    BY <1>3 DEF InOrder
  <2>4. ASSUME NEW v \in Workers, worker'[v].pc = "handle"
        PROVE  /\ \A i \in Places' : Older(worker'[v].delivery, events'[i])
               /\ loop.pc = "send" => Older(worker'[v].delivery, loop.delivery)
               /\ OlderThanBuffer(worker'[v].delivery)
    <3>1. CASE v = w
      BY <1>1, <1>3, <3>1 DEF InOrder
    <3>2. CASE v # w
      BY <1>1, <1>3, <2>4, <3>2 DEF InOrder
    <3> QED
      BY <3>1, <3>2
  <2> QED
    BY <1>2, <2>1, <2>2, <2>3, <2>4 DEF InOrder, Older, OlderThanBuffer
<1> QED
  BY <1>5, <1>6

(* The loop receives a delivery: of an event, it holds the newest; of no    *)
(* event, nothing else on the way is of its message.                        *)
LEMMA ReceiveOrder ==
    ASSUME SInv, InOrder, StillWaits, NEW n \in Messages, Receive(n), UNCHANGED processVars
    PROVE  InOrder' /\ StillWaits'
<1>1. /\ UNCHANGED <<events, channelNo, worker>> /\ loop.pc = "forward"
      /\ n \in prefetched /\ prefetched' = prefetched \ {n}
  BY DEF Receive, processVars
<1>2. CASE n \in Undecodable
  <2>1. loop' = loop /\ settled' \subseteq settled \cup {n}
    BY <1>2 DEF Receive, Ack
  <2> QED
    BY <1>1, <1>2, <2>1, OrderStays DEF StillWaits, Places
<1>3. CASE n \notin Undecodable
  <2>1. /\ loop'.pc = "send" /\ loop'.delivery.msg = n /\ loop'.delivery.channel = channelNo
        /\ settled' = settled
    BY <1>3 DEF Receive, brokerVars
  <2>2. \A d : OlderThanBuffer(d) => OlderThanBuffer(d)' /\ Older(d, loop'.delivery)
    BY <1>1, <2>1 DEF OlderThanBuffer, Older
  <2>3. OlderThanBuffer(loop.delivery)'
    BY <1>1, <2>1 DEF OlderThanBuffer
  <2>4. StillWaits'
    BY <1>1, <1>3, <2>1 DEF StillWaits, Places
  <2>5. InOrder'
    <3>1. \A i \in Places : OlderThanBuffer(events[i])' /\ Older(events[i], loop'.delivery)
      BY <1>1, <2>2 DEF InOrder, OlderThanBuffer
    <3>2. \A w \in Workers : worker[w].pc = "handle" =>
            OlderThanBuffer(worker[w].delivery)' /\ Older(worker[w].delivery, loop'.delivery)
      BY <1>1, <2>2 DEF InOrder, OlderThanBuffer
    <3> HIDE DEF OlderThanBuffer
    <3> QED
      BY <1>1, <2>3, <3>1, <3>2 DEF InOrder, Older, Places
  <2> QED
    BY <2>4, <2>5
<1> QED
  BY <1>2, <1>3

(* The loop sends its delivery: it is the newest in the channel.            *)
LEMMA SendOrder ==
    ASSUME SInv, InOrder, StillWaits, Send, UNCHANGED processVars
    PROVE  InOrder' /\ StillWaits'
<1>1. UNCHANGED <<settled, prefetched, channelNo, worker>> /\ loop.pc = "send" /\ loop'.pc # "send"
  BY DEF Send, LoopAt, brokerVars, consumerVars, processVars
<1>2. /\ Len(events) \in Nat /\ Len(events') = Len(events) + 1
      /\ events'[Len(events) + 1] = loop.delivery
      /\ \A i \in 1 .. Len(events) : events'[i] = events[i]
  <2>1. loop.delivery \in Delivery
    BY DEF Send, SInv, TInv, DeliveryPlaces, Opened
  <2>2. events' = Append(events, loop.delivery)
    BY DEF Send
  <2>3. events \in Seq(Delivery)
    BY Fields DEF SInv
  <2> HIDE DEF Delivery
  <2> QED
    BY <2>1, <2>2, <2>3, ChannelSteps
<1>3. /\ \A i \in Places' : IF i \in Places THEN events'[i] = events[i]
                            ELSE events'[i] = loop.delivery
      /\ \A i, j \in Places' : i < j => i \in Places
  BY <1>2 DEF Places
<1>4. \A d : OlderThanBuffer(d)' <=> OlderThanBuffer(d)
  BY <1>1 DEF OlderThanBuffer
<1>5. StillWaits'
  <2>1. \A i \in Places' : events'[i].msg \notin settled \cup Undecodable
    BY <1>1, <1>3 DEF StillWaits
  <2> QED
    BY <1>1, <2>1 DEF StillWaits
<1>6. InOrder'
  <2>1. \A i, j \in Places' : i < j => Older(events'[i], events'[j])
    BY <1>1, <1>3 DEF InOrder
  <2>2. \A i \in Places' : OlderThanBuffer(events'[i])
    BY <1>1, <1>3 DEF InOrder
  <2>3. ASSUME NEW v \in Workers, worker[v].pc = "handle"
        PROVE  /\ \A i \in Places' : Older(worker[v].delivery, events'[i])
               /\ OlderThanBuffer(worker[v].delivery)
    BY <1>1, <1>3, <2>3 DEF InOrder
  <2> QED
    BY <1>1, <2>1, <2>2, <2>3 DEF InOrder, Older, OlderThanBuffer
<1> QED
  BY <1>5, <1>6

(* A worker that can settle its message has the only delivery about.        *)
LEMMA DecideOrder ==
    ASSUME SInv, InOrder, StillWaits, NEW w \in Workers, Decide(w) \/ SendBack(w)
    PROVE  InOrder' /\ StillWaits'
<1> DEFINE d == worker[w].delivery
<1>1. /\ UNCHANGED <<events, loop, prefetched, channelNo, consumer>>
      /\ worker[w].pc = "handle"
      /\ settled' = settled \/ (Live(d) /\ settled' = settled \cup {d.msg})
  BY DEF Decide, SendBack, Ack, NackRequeue, consumerVars, loopVars
<1>2. \A v \in Workers : worker'[v].pc = "handle" => worker'[v] = worker[v]
  <2>1. CASE Decide(w)
    BY <2>1 DEF Decide, WorkerAt, SInv, TInv, TypeOK
  <2>2. CASE SendBack(w)
    BY <2>2 DEF SendBack, WorkerAt, SInv, TInv, TypeOK
  <2> QED
    BY <2>1, <2>2
<1>3. ASSUME Live(d)
      PROVE  /\ d.msg \notin prefetched
             /\ \A i \in Places : events[i].msg # d.msg
             /\ loop.pc = "send" => loop.delivery.msg # d.msg
  <2>1. d.channel = channelNo /\ channelNo \in Nat
    BY <1>3, Fields DEF Live, SInv
  <2>2. d.msg \notin prefetched
    <3>1. OlderThanBuffer(d)
      BY <1>1 DEF InOrder
    <3> HIDE DEF d
    <3> QED
      BY <2>1, <3>1 DEF OlderThanBuffer
  <2>3. ASSUME NEW e, Opened(e), Older(d, e) PROVE e.msg # d.msg
    <3>1. e.channel \in Nat /\ e.channel <= channelNo
      BY <2>3 DEF Opened, Delivery
    <3> HIDE DEF d
    <3> QED
      BY <2>1, <2>3, <3>1, NewestIsLast
  <2> HIDE DEF d
  <2>4. \A i \in Places : Opened(events[i]) /\ Older(d, events[i])
    BY <1>1 DEF SInv, TInv, DeliveryPlaces, InOrder, Places, d
  <2>5. loop.pc = "send" => Opened(loop.delivery) /\ Older(d, loop.delivery)
    BY <1>1 DEF SInv, TInv, DeliveryPlaces, InOrder, d
  <2> QED
    BY <2>2, <2>3, <2>4, <2>5
<1> HIDE DEF d
<1> QED
  BY <1>1, <1>2, <1>3, OrderStays DEF Places

(* Every step keeps the deliveries in order.                                *)
LEMMA NextOrder ==
    ASSUME SInv, InOrder, StillWaits, [Next]_vars
    PROVE  InOrder' /\ StillWaits'
<1> USE DEF vars, queueVars, processVars, brokerVars, consumerVars, loopVars, Goto, At, LoopAt
<1>1. ASSUME settled' = settled, prefetched' \subseteq prefetched,
             channelNo' = channelNo \/ prefetched' = {},
             events' = events \/ events' = <<>>,
             loop'.pc = "send" => loop' = loop,
             \A w \in Workers : worker'[w].pc = "handle" => worker'[w] = worker[w]
      PROVE  InOrder' /\ StillWaits'
  <2>1. \A i \in Places' : i \in Places /\ events'[i] = events[i]
    <3>1. CASE events' = events
      BY <3>1 DEF Places
    <3>2. CASE events' = <<>>
      BY <3>2 DEF Places
    <3> QED
      BY <1>1, <3>1, <3>2
  <2> QED
    BY <1>1, <2>1, OrderStays
<1>2. CASE \/ UNCHANGED vars
           \/ Signal \/ ServerShutdown \/ DispatchersStopped \/ ConsumerStopped \/ WorkersStopped
           \/ Poll \/ Connect \/ ConnectFails \/ Confirmed \/ ConfirmAbandoned \/ DispatcherStops
  <2>1. UNCHANGED <<settled, prefetched, channelNo, events, loop, worker>>
    BY <1>2
       DEF Signal, ServerShutdown, DispatchersStopped, ConsumerStopped, WorkersStopped,
           Poll, Connect, ConnectFails, Confirmed, ConfirmAbandoned, DispatcherStops,
           StopConsuming, EnsurePublisher, InvalidatePublisher
  <2> QED
    BY <1>1, <2>1
<1>3. CASE CloseQueue
  BY <1>1, <1>3 DEF CloseQueue, Close
<1>4. CASE ServerFails
  BY <1>1, <1>4 DEF ServerFails
<1>5. ASSUME NEW w \in Workers, WorkerStops(w) PROVE InOrder' /\ StillWaits'
  BY <1>1, <1>5 DEF WorkerStops, WorkerAt, SInv, TInv, TypeOK
<1>6. ASSUME NEW w \in Workers, WorkerStep(w) PROVE InOrder' /\ StillWaits'
  BY <1>5, <1>6, TakeOrder, DecideOrder DEF WorkerStep
<1>7. CASE (\E m \in Messages : Push(m)) /\ UNCHANGED <<processVars, faults>>
  BY <1>7, PushOrder
<1>8. CASE \/ (\E m \in Messages : BackFromElsewhere(m)) /\ UNCHANGED <<processVars, faults>>
           \/ Unsubscribe /\ UNCHANGED <<processVars, faults>>
  <2>1. UNCHANGED <<settled, prefetched, channelNo, events, loop, worker>>
    BY <1>8 DEF BackFromElsewhere, Unsubscribe
  <2> QED
    BY <1>1, <2>1
<1>9. CASE Fault
  <2>1. /\ UNCHANGED <<settled, prefetched, channelNo, events, worker>>
        /\ loop' = loop \/ loop'.pc # "send"
    <3>1. CASE OpenConsumerFails
      BY <1>9, <3>1 DEF Fault, OpenConsumerFails
    <3>2. CASE ConsumerCancelled \/ PublisherLost
      BY <1>9, <3>2 DEF Fault, ConsumerCancelled, PublisherLost
    <3>3. CASE ConsumerLost \/ \E m \in Messages : TakenElsewhere(m)
      BY <1>9, <3>3 DEF Fault, ConsumerLost, TakenElsewhere
    <3> QED
      BY <1>9, <3>1, <3>2, <3>3 DEF Fault
  <2> QED
    BY <1>1, <2>1
<1>10. CASE Consume /\ UNCHANGED <<processVars, faults>>
  <2>1. CASE LoopHead \/ RetryTimer \/ SeeCancel \/ DeliveriesClosed \/ CloseConsumer \/ OpenConsumer
    <3>1. /\ UNCHANGED <<settled, events, worker>> /\ loop'.pc # "send"
          /\ prefetched' \subseteq prefetched /\ (channelNo' = channelNo \/ prefetched' = {})
      <4>w. worker' = worker
        BY <1>10
      <4>1. CASE LoopHead
        BY <4>1, <4>w DEF LoopHead
      <4>2. CASE RetryTimer
        BY <4>2, <4>w DEF RetryTimer
      <4>3. CASE SeeCancel
        BY <4>3, <4>w DEF SeeCancel, ReturnInHand, NackRequeue
      <4>4. CASE DeliveriesClosed
        BY <4>4, <4>w DEF DeliveriesClosed
      <4>5. CASE CloseConsumer
        BY <4>5, <4>w DEF CloseConsumer
      <4>6. CASE OpenConsumer
        BY <4>6, <4>w DEF OpenConsumer
      <4> QED
        BY <2>1, <4>1, <4>2, <4>3, <4>4, <4>5, <4>6
    <3> QED
      BY <1>1, <3>1
  <2> QED
    BY <1>10, <2>1, ReceiveOrder, SendOrder DEF Consume, LoopStep
<1> QED
  BY <1>2, <1>3, <1>4, <1>6, <1>7, <1>8, <1>9, <1>10 DEF Next, MainStep, DispatcherStep

(* QInv in every state.                                                     *)
LEMMA AlwaysQInv == Spec => []QInv
<1>1. Init => QInv
  <2> SUFFICES ASSUME Init PROVE QInv
    OBVIOUS
  <2>1. /\ Places = {} /\ loop.pc # "send" /\ prefetched = {}
        /\ \A w \in Workers : worker[w].pc # "handle"
    BY DEF Init, QueueInit, Places, Receiving
  <2> QED
    BY <2>1, InitSInv DEF QInv, InOrder, StillWaits
<1>2. QInv /\ [Next]_vars => QInv'
  BY NextSInv, NextOrder DEF QInv
<1> QED
  BY <1>1, <1>2, PTL DEF Spec

-----------------------------------------------------------------------------
(* The refinement mapping, worker by worker.                                *)
LEMMA WorkerView ==
    ASSUME TInv, NEW w \in Workers
    PROVE  /\ worker[w].pc = "handle" <=> worker[w].delivery # NoDelivery
           /\ worker[w].delivery # NoDelivery =>
                 /\ HeldMessage[w] = worker[w].delivery.msg
                 /\ HeldMessage[w] \in Messages /\ HeldMessage[w] # NoDelivery
           /\ worker[w].delivery = NoDelivery => HeldMessage[w] = NoDelivery
           /\ w \in LiveWorkers <=> worker[w].delivery # NoDelivery /\ Live(worker[w].delivery)
<1>1. worker[w].pc = "handle" <=> worker[w].delivery # NoDelivery
  BY Fields DEF TInv, DeliveryPlaces, Opened
<1>2. worker[w].delivery # NoDelivery => worker[w].delivery.msg \in Messages
  BY Fields DEF Delivery
<1>3. \A m \in Messages : m # NoDelivery
  BY QueueAssumption DEF QueueAssumption
<1> QED
  BY <1>1, <1>2, <1>3 DEF HeldMessage, LiveWorkers

(* Nothing a worker can see changes.                                        *)
LEMMA ViewStays ==
    ASSUME \A w \in Workers : worker'[w].delivery = worker[w].delivery,
           UNCHANGED <<channelNo, consumer, elsewhere, settled>>
    PROVE  UNCHANGED Contract!contractVars
<1>1. HeldMessage' = HeldMessage
  BY DEF HeldMessage
<1>2. LiveWorkers' = LiveWorkers
  BY DEF LiveWorkers, Live
<1> QED
  BY <1>1, <1>2 DEF Contract!contractVars

(* The channel is gone.                                                     *)
LEMMA ViewDisconnected ==
    ASSUME \A w \in Workers : worker'[w].delivery = worker[w].delivery,
           consumer' # "open", UNCHANGED <<elsewhere, settled>>
    PROVE  Contract!ContractNext
<1>1. HeldMessage' = HeldMessage
  BY DEF HeldMessage
<1>2. LiveWorkers' = {}
  BY DEF LiveWorkers, Live
<1> QED
  BY <1>1, <1>2 DEF Contract!ContractNext, Contract!Disconnect

(* A worker's step changes its own entry only.                              *)
LEMMA OthersView ==
    ASSUME TInv, TInv', NEW w \in Workers,
           \A v \in Workers \ {w} : worker'[v] = worker[v],
           UNCHANGED <<channelNo, consumer>>
    PROVE  /\ HeldMessage' = [HeldMessage EXCEPT ![w] = HeldMessage'[w]]
           /\ LiveWorkers' \ {w} = LiveWorkers \ {w}
<1>1. \A v \in Workers \ {w} : HeldMessage'[v] = HeldMessage[v]
  BY DEF HeldMessage
<1>2. /\ HeldMessage = [v \in Workers |-> HeldMessage[v]]
      /\ HeldMessage' = [v \in Workers |-> HeldMessage'[v]]
  BY DEF HeldMessage
<1>3. LiveWorkers' \ {w} = LiveWorkers \ {w}
  BY DEF LiveWorkers, Live
<1> HIDE DEF HeldMessage
<1> QED
  BY <1>1, <1>2, <1>3

(* A worker is given a message that nobody has, or by a stale delivery one  *)
(* that no worker here can settle.                                          *)
LEMMA TakeDelivers ==
    ASSUME QInv, TInv', NEW w \in Workers, Take(w)
    PROVE  Contract!ContractNext
<1> DEFINE d == events[1]
<1>1. TInv /\ InOrder /\ StillWaits
  BY DEF QInv, SInv
<1>2. /\ worker[w].delivery = NoDelivery /\ worker'[w].delivery = d
      /\ \A v \in Workers \ {w} : worker'[v] = worker[v]
      /\ 1 \in Places /\ Opened(d)
  <2>1. worker[w].delivery = NoDelivery
    BY <1>1 DEF Take, WorkerAt, TInv, DeliveryPlaces
  <2>2. /\ worker'[w].delivery = d
        /\ \A v \in Workers \ {w} : worker'[v] = worker[v]
    BY <1>1, Fields, ChannelSteps DEF Take, WorkerAt, TInv, TypeOK
  <2>3. 1 \in Places
    <3>1. events \in Seq(Delivery) /\ events # <<>>
      BY <1>1, Fields DEF Take
    <3>2. Len(events) \in Nat /\ Len(events) >= 1
      BY <3>1, ChannelSteps
    <3> QED
      BY <3>2 DEF Places
  <2> HIDE DEF d
  <2>4. Opened(d)
    BY <1>1, <2>3 DEF TInv, DeliveryPlaces, Places, d
  <2> QED
    BY <2>1, <2>2, <2>3, <2>4
<1>3. UNCHANGED <<channelNo, consumer, elsewhere, settled>>
  BY DEF Take, brokerVars, consumerVars
<1>4. /\ d \in Delivery /\ d # NoDelivery /\ d.msg \in Messages
      /\ d.channel \in Nat /\ d.channel <= channelNo /\ channelNo \in Nat
  BY <1>1, <1>2, Fields DEF Opened, Delivery
<1>5. HeldMessage[w] = NoDelivery /\ HeldMessage'[w] = d.msg /\ w \notin LiveWorkers
  <2>1. HeldMessage'[w] = d.msg
    BY <1>2, <1>4 DEF HeldMessage
  <2> QED
    BY <1>1, <1>2, <2>1, WorkerView
<1>6. ASSUME NEW v \in LiveWorkers PROVE HeldMessage[v] # d.msg
  <2>1. /\ v \in Workers /\ worker[v].delivery # NoDelivery /\ worker[v].delivery.channel = channelNo
        /\ worker[v].pc = "handle" /\ HeldMessage[v] = worker[v].delivery.msg
    <3>1. /\ v \in Workers /\ worker[v].delivery # NoDelivery
          /\ worker[v].delivery.channel = channelNo
      BY DEF LiveWorkers, Live
    <3> QED
      BY <1>1, <3>1, WorkerView
  <2>2. Older(worker[v].delivery, d)
    BY <1>1, <1>2, <2>1 DEF InOrder
  <2> HIDE DEF d
  <2>3. d.msg # worker[v].delivery.msg
    BY <1>4, <2>1, <2>2, NewestIsLast
  <2> QED
    BY <2>1, <2>3
<1>7. d.msg \in Contract!Open
  <2>1. d.msg \notin settled
    BY <1>1, <1>2 DEF StillWaits
  <2> HIDE DEF d
  <2> QED
    BY <1>4, <1>6, <2>1 DEF Contract!Open
<1>8. HeldMessage' = [HeldMessage EXCEPT ![w] = d.msg]
  BY <1>1, <1>2, <1>3, <1>5, OthersView
<1>9. CASE Live(d)
  <2>1. Queued(1, d.msg)
    BY <1>2, <1>4, <1>9 DEF Queued, Carries, Places
  <2>2. d.msg \in Unacked
    BY <1>4, <2>1 DEF QInv, SInv, Copies, OneCopy
  <2> HIDE DEF d
  <2>3. d.msg \in Contract!Waiting
    BY <1>7, <2>2 DEF Contract!Waiting, Unacked
  <2>4. w \in LiveWorkers'
    BY <1>2, <1>3, <1>4, <1>9 DEF LiveWorkers, Live
  <2>5. LiveWorkers' = LiveWorkers \cup {w}
    BY <1>1, <1>2, <1>3, <2>4, OthersView
  <2> QED
    BY <1>3, <1>5, <1>8, <2>3, <2>5 DEF Contract!Deliver, Contract!ContractNext
<1>10. CASE ~Live(d)
  <2> HIDE DEF d
  <2>1. w \notin LiveWorkers'
    BY <1>2, <1>3, <1>4, <1>10 DEF LiveWorkers, Live
  <2>2. LiveWorkers' = LiveWorkers
    <3>1. LiveWorkers' \ {w} = LiveWorkers \ {w}
      BY <1>1, <1>2, <1>3, OthersView
    <3> QED
      BY <1>5, <2>1, <3>1
  <2> QED
    BY <1>3, <1>5, <1>7, <1>8, <2>2 DEF Contract!Deliver, Contract!ContractNext
<1> QED
  BY <1>9, <1>10

(* An ack settles the message of a live delivery, a nack returns it, and    *)
(* neither does anything with a stale one.                                  *)
LEMMA DecideSettles ==
    ASSUME QInv, TInv', NEW w \in Workers, Decide(w) \/ SendBack(w)
    PROVE  Contract!ContractNext
<1>1. TInv
  BY DEF QInv, SInv
<1>2. /\ worker[w].pc = "handle" /\ worker'[w].delivery = NoDelivery
      /\ \A v \in Workers \ {w} : worker'[v] = worker[v]
  <2>1. CASE Decide(w)
    BY <1>1, <2>1 DEF Decide, WorkerAt, TInv, TypeOK
  <2>2. CASE SendBack(w)
    BY <1>1, <2>2 DEF SendBack, WorkerAt, TInv, TypeOK
  <2> QED
    BY <2>1, <2>2
<1>3. UNCHANGED <<channelNo, consumer, elsewhere>>
  <2>1. CASE Decide(w)
    BY <2>1 DEF Decide, Ack, consumerVars
  <2>2. CASE SendBack(w)
    BY <2>2 DEF SendBack, NackRequeue, consumerVars
  <2> QED
    BY <2>1, <2>2
<1>4. /\ HeldMessage[w] = worker[w].delivery.msg /\ HeldMessage[w] # NoDelivery
      /\ w \in LiveWorkers <=> Live(worker[w].delivery)
  BY <1>1, <1>2, WorkerView
<1>5. HeldMessage'[w] = NoDelivery /\ w \notin LiveWorkers'
  BY <1>2 DEF HeldMessage, LiveWorkers
<1>6. HeldMessage' = [HeldMessage EXCEPT ![w] = NoDelivery] /\ LiveWorkers' = LiveWorkers \ {w}
  BY <1>1, <1>2, <1>3, <1>5, OthersView
<1>7. Contract!Return(w)
  BY <1>3, <1>4, <1>6 DEF Contract!Return
<1>8. CASE Decide(w)
  <2>1. settled' = settled \cup (IF w \in LiveWorkers THEN {HeldMessage[w]} ELSE {})
    BY <1>4, <1>8 DEF Decide, Ack
  <2> QED
    BY <1>7, <2>1 DEF Contract!ContractNext, Contract!Settle
<1>9. CASE SendBack(w)
  <2>1. settled' = settled
    BY <1>9 DEF SendBack, NackRequeue
  <2> QED
    BY <1>7, <2>1 DEF Contract!ContractNext, Contract!Requeue
<1> QED
  BY <1>8, <1>9

(* A message that is no event is rejected while it waits.                   *)
LEMMA ReceiveRejects ==
    ASSUME QInv, NEW n \in Messages, Receive(n), UNCHANGED processVars
    PROVE  Contract!ContractNext \/ UNCHANGED Contract!contractVars
<1>1. TInv /\ StillWaits
  BY DEF QInv, SInv
<1>2. UNCHANGED <<channelNo, consumer, elsewhere, worker>> /\ n \in prefetched
  BY DEF Receive, Ack, brokerVars, processVars
<1>3. HeldMessage' = HeldMessage /\ LiveWorkers' = LiveWorkers
  BY <1>2 DEF HeldMessage, LiveWorkers, Live
<1>4. \/ settled' = settled
      \/ n \in Undecodable /\ consumer = "open" /\ settled' = settled \cup {n}
  BY DEF Receive, Ack, Live, brokerVars
<1>5. ASSUME n \in Undecodable, consumer = "open" PROVE n \in Contract!Waiting
  <2>1. ASSUME NEW v \in LiveWorkers PROVE HeldMessage[v] # n
    <3>1. v \in Workers /\ worker[v].pc = "handle" /\ HeldMessage[v] = worker[v].delivery.msg
      BY <1>1, WorkerView DEF LiveWorkers
    <3> QED
      BY <1>1, <1>5, <3>1 DEF StillWaits
  <2>2. n \in Unacked
    BY <1>2, <1>5 DEF QInv, SInv, Copies, OneCopy, Buffered
  <2> QED
    BY <2>1, <2>2 DEF Contract!Waiting, Contract!Open, Unacked
<1>6. CASE settled' = settled
  BY <1>2, <1>3, <1>6 DEF Contract!contractVars
<1>7. CASE n \in Undecodable /\ consumer = "open" /\ settled' = settled \cup {n}
  BY <1>2, <1>3, <1>5, <1>7 DEF Contract!ContractNext, Contract!Reject
<1> QED
  BY <1>4, <1>6, <1>7

(* Another replica gets a message that waits, or gives one back.            *)
LEMMA ElsewhereView ==
    ASSUME QInv, NEW m \in Messages, TakenElsewhere(m) \/ BackFromElsewhere(m),
           UNCHANGED processVars
    PROVE  Contract!ContractNext
<1>1. UNCHANGED <<channelNo, consumer, settled, worker>>
  BY DEF TakenElsewhere, BackFromElsewhere, consumerVars, processVars
<1>2. HeldMessage' = HeldMessage /\ LiveWorkers' = LiveWorkers
  BY <1>1 DEF HeldMessage, LiveWorkers, Live
<1>3. CASE TakenElsewhere(m)
  <2>1. m \in ready /\ elsewhere' = elsewhere \cup {m} /\ m \notin Unacked
    BY <1>3 DEF TakenElsewhere, Unacked
  <2>2. m \notin settled /\ m \notin elsewhere
    BY <2>1 DEF QInv, SInv, TakenBack
  <2>3. ASSUME NEW v \in LiveWorkers PROVE HeldMessage[v] # m
    <3>1. /\ v \in Workers /\ Carries(worker[v].delivery, HeldMessage[v])
          /\ HeldMessage[v] \in Messages
      BY WorkerView DEF QInv, SInv, LiveWorkers, Carries
    <3>2. HeldMessage[v] \in Unacked
      BY <3>1 DEF QInv, SInv, Copies, OneCopy, Handled
    <3> QED
      BY <2>1, <3>2
  <2>4. m \in Contract!Waiting
    BY <2>2, <2>3 DEF Contract!Waiting, Contract!Open
  <2> QED
    BY <1>1, <1>2, <2>1, <2>4 DEF Contract!ContractNext, Contract!OtherReplica
<1>4. CASE BackFromElsewhere(m)
  BY <1>1, <1>2, <1>4 DEF BackFromElsewhere, Contract!ContractNext, Contract!OtherReplica
<1> QED
  BY <1>3, <1>4

(* Every step is one of the contract, or shows the workers nothing.         *)
LEMMA NextContract ==
    ASSUME QInv, TInv', [Next]_vars
    PROVE  Contract!ContractNext \/ UNCHANGED Contract!contractVars
<1> USE DEF vars, queueVars, processVars, brokerVars, consumerVars, loopVars, Goto, At, LoopAt
<1>0. TInv /\ TakenBack
  BY DEF QInv, SInv
<1>1. CASE UNCHANGED <<worker, channelNo, consumer, elsewhere, settled>>
  BY <1>1, ViewStays
<1>2. CASE UNCHANGED <<worker, elsewhere, settled>> /\ consumer' # "open"
  BY <1>2, ViewDisconnected
<1>3. CASE \/ UNCHANGED vars
           \/ Signal \/ ServerShutdown \/ DispatchersStopped \/ ConsumerStopped \/ WorkersStopped
           \/ Poll \/ Connect \/ ConnectFails \/ Confirmed \/ ConfirmAbandoned \/ DispatcherStops
  BY <1>1, <1>3
     DEF Signal, ServerShutdown, DispatchersStopped, ConsumerStopped, WorkersStopped,
         Poll, Connect, ConnectFails, Confirmed, ConfirmAbandoned, DispatcherStops,
         StopConsuming, EnsurePublisher, InvalidatePublisher
<1>4. CASE CloseQueue
  BY <1>2, <1>4 DEF CloseQueue, Close
<1>5. CASE ServerFails
  <2>1. /\ HeldMessage' = [w \in Workers |-> NoDelivery] /\ LiveWorkers' = {}
        /\ UNCHANGED <<elsewhere, settled>>
    BY <1>5 DEF ServerFails, HeldMessage, LiveWorkers
  <2> QED
    BY <2>1 DEF Contract!ContractNext, Contract!Exit
<1>6. ASSUME NEW w \in Workers, WorkerStep(w)
      PROVE  Contract!ContractNext \/ UNCHANGED Contract!contractVars
  <2>1. CASE WorkerStops(w)
    <3>1. \A v \in Workers : worker'[v].delivery = worker[v].delivery
      BY <1>0, <2>1 DEF WorkerStops, WorkerAt, TInv, TypeOK, DeliveryPlaces
    <3> QED
      BY <2>1, <3>1, ViewStays DEF WorkerStops
  <2> QED
    BY <1>6, <2>1, TakeDelivers, DecideSettles DEF WorkerStep
<1>7. CASE \/ (\E m \in Messages : Push(m)) /\ UNCHANGED <<processVars, faults>>
           \/ Unsubscribe /\ UNCHANGED <<processVars, faults>>
  BY <1>1, <1>7 DEF Push, Unsubscribe
<1>8. CASE Fault
  <2>1. CASE ConsumerLost \/ ConsumerCancelled \/ PublisherLost \/ OpenConsumerFails
    <3>1. /\ UNCHANGED <<worker, channelNo, elsewhere, settled>>
          /\ consumer' = consumer \/ consumer' # "open"
      BY <1>8, <2>1 DEF Fault, ConsumerLost, ConsumerCancelled, PublisherLost, OpenConsumerFails
    <3> QED
      BY <1>1, <1>2, <3>1
  <2> QED
    BY <1>8, <2>1, ElsewhereView DEF Fault
<1>9. CASE Consume /\ UNCHANGED <<processVars, faults>>
  <2>1. CASE LoopHead \/ RetryTimer \/ SeeCancel \/ Send \/ DeliveriesClosed \/ CloseConsumer
    <3>1. /\ UNCHANGED <<worker, channelNo, elsewhere, settled>>
          /\ consumer' = consumer \/ consumer' # "open"
      BY <1>9, <2>1 DEF LoopHead, RetryTimer, SeeCancel, ReturnInHand, NackRequeue, Send,
                        DeliveriesClosed, CloseConsumer
    <3> QED
      BY <1>1, <1>2, <3>1
  <2>2. CASE OpenConsumer
    <3>1. /\ UNCHANGED <<worker, elsewhere, settled>> /\ channelNo' = channelNo + 1
          /\ consumer # "open" /\ channelNo \in Nat
      BY <1>0, <1>9, <2>2, Fields DEF OpenConsumer, TakenBack
    <3>2. LiveWorkers = {}
      BY <3>1 DEF LiveWorkers, Live
    <3>3. ASSUME NEW w \in Workers, worker[w].delivery # NoDelivery
          PROVE  worker[w].delivery.channel # channelNo'
      <4>1. Opened(worker[w].delivery)
        BY <1>0, <3>3 DEF TInv, DeliveryPlaces
      <4>2. worker[w].delivery.channel \in Nat /\ worker[w].delivery.channel <= channelNo
        BY <4>1 DEF Opened, Delivery
      <4>3. channelNo' = channelNo + 1 /\ channelNo \in Nat
        BY <3>1
      <4>4. ASSUME NEW i \in Nat, NEW j \in Nat, i <= j PROVE i # j + 1
        BY <4>4
      <4> QED
        BY <4>2, <4>3, <4>4, Zenon
    <3>4. LiveWorkers' = {}
      BY <3>1, <3>3 DEF LiveWorkers, Live
    <3>5. HeldMessage' = HeldMessage
      BY <3>1 DEF HeldMessage
    <3> QED
      BY <3>1, <3>2, <3>4, <3>5 DEF Contract!contractVars
  <2> QED
    BY <1>9, <2>1, <2>2, ReceiveRejects DEF Consume, LoopStep
<1>10. CASE (\E m \in Messages : BackFromElsewhere(m)) /\ UNCHANGED <<processVars, faults>>
  BY <1>10, ElsewhereView
<1> QED
  BY <1>3, <1>4, <1>5, <1>6, <1>7, <1>8, <1>9, <1>10 DEF Next, MainStep, DispatcherStep

(***************************************************************************)
(* For any number of messages and workers, any channel capacity and any    *)
(* number of lost connections, the queue client of a replica implements    *)
(* QueueContract, whatever other replicas take from the queue: buffers,    *)
(* dead channels, reconnections and the shutdown show a worker a delivery  *)
(* of a message nobody else has, whose ack works until the connection is   *)
(* lost, or one that outlived its channel and settles nothing.  The latter *)
(* is never of a message that this replica settled or that another of its  *)
(* workers can settle.                                                     *)
(***************************************************************************)
THEOREM ClientKeepsContract == Spec => KeepsContract
<1>1. Init => Contract!ContractInit
  BY DEF Init, QueueInit, Receiving, Contract!ContractInit, HeldMessage, LiveWorkers
<1>2. QInv /\ QInv' /\ [Next]_vars => [Contract!ContractNext]_(Contract!contractVars)
  <2>1. QInv' => TInv'
    BY DEF QInv, SInv
  <2> QED
    BY <2>1, NextContract
<1> QED
  BY <1>1, <1>2, AlwaysQInv, PTL DEF Spec, KeepsContract, Contract!ContractSpec
=============================================================================
