------------------------- MODULE CoreTransportQueue -------------------------
(***************************************************************************)
(* The bounded transport queue of core_mqtt.cpp.  The data-queue task, the *)
(* MQTT event handler and the command handlers enqueue under the queue     *)
(* mutex; the queue task pops one message under it, lets it go, and only   *)
(* then takes the client mutex to publish.  Every message is QoS 0.        *)
(***************************************************************************)
EXTENDS Integers, Sequences

CONSTANTS
  MqttQueueLimit,   \* kMqttQueueLimit
  MaxMessages       \* messages sent in one behaviour

ASSUME LimitAssumption == MqttQueueLimit \in Nat \ {0} /\ MaxMessages \in Nat

VARIABLES
  mqtt_queue,       \* the deque, messages numbered in enqueue order
  enqueued,         \* number of the last message enqueued
  popped,           \* the queue task's local message, 0 when it has none
  mqtt_connected,   \* RuntimeState flag
  client_set,       \* is mqtt_client non-null?
  link,             \* can esp-mqtt send (external)?
  published         \* last message that left the device

vars == <<mqtt_queue, enqueued, popped, mqtt_connected, client_set, link, published>>

TypeOK ==
  /\ mqtt_queue \in Seq(Nat) /\ Len(mqtt_queue) <= MqttQueueLimit
  /\ enqueued \in Nat /\ popped \in Nat /\ published \in Nat
  /\ mqtt_connected \in BOOLEAN /\ client_set \in BOOLEAN /\ link \in BOOLEAN

Init ==
  /\ mqtt_queue = <<>> /\ enqueued = 0 /\ popped = 0 /\ published = 0
  /\ mqtt_connected = FALSE /\ client_set = FALSE /\ link = FALSE

\* Mutant: the newest message makes room.
RoomByNewest ==
  IF Len(mqtt_queue) >= MqttQueueLimit
    THEN SubSeq(mqtt_queue, 1, Len(mqtt_queue) - 1) ELSE mqtt_queue

\* A full deque drops its oldest message.
Room == IF Len(mqtt_queue) >= MqttQueueLimit THEN Tail(mqtt_queue) ELSE mqtt_queue

mqtt_enqueue_message ==
  /\ enqueued < MaxMessages
  /\ enqueued' = enqueued + 1
  /\ mqtt_queue' = Append(Room, enqueued')
  /\ UNCHANGED <<popped, mqtt_connected, client_set, link, published>>

\* Mutant: front() without pop_front().
PeekOnly ==
  /\ popped = 0 /\ mqtt_connected
  /\ mqtt_queue # <<>>
  /\ popped' = Head(mqtt_queue)
  /\ UNCHANGED <<mqtt_queue, enqueued, mqtt_connected, client_set, link, published>>

Pop ==
  /\ popped = 0 /\ mqtt_connected
  /\ mqtt_queue # <<>>
  /\ popped' = Head(mqtt_queue)
  /\ mqtt_queue' = Tail(mqtt_queue)
  /\ UNCHANGED <<enqueued, mqtt_connected, client_set, link, published>>

\* Lines 198-212: nobody looks at the result of the publish, and without a
\* client or a link a QoS 0 message is gone.
Publish ==
  /\ popped # 0
  /\ published' = IF client_set /\ link THEN popped ELSE published
  /\ popped' = 0
  /\ UNCHANGED <<mqtt_queue, enqueued, mqtt_connected, client_set, link>>

\* The supervisor, the event handlers and the network (see CoreMqtt).
SessionChanges ==
  /\ mqtt_connected' \in BOOLEAN /\ client_set' \in BOOLEAN /\ link' \in BOOLEAN
  /\ link' => client_set'
  /\ UNCHANGED <<mqtt_queue, enqueued, popped, published>>

Next == mqtt_enqueue_message \/ Pop \/ Publish \/ SessionChanges

Spec == Init /\ [][Next]_vars

-----------------------------------------------------------------------------
(* Properties *)

\* The deque holds the newest messages without a gap: only the oldest make room,
\* and the one the task has popped is older than all of them.
NewestWithoutGap ==
  /\ \A i \in 1..Len(mqtt_queue) : mqtt_queue[i] = enqueued - Len(mqtt_queue) + i
  /\ Len(mqtt_queue) <= enqueued
  /\ popped + Len(mqtt_queue) <= enqueued
  /\ popped # 0 => published < popped
  /\ published + Len(mqtt_queue) <= enqueued

Transit == {mqtt_queue[i] : i \in 1..Len(mqtt_queue)} \cup ({popped} \ {0})

Fifo == INSTANCE LossyFifo
          WITH sent <- enqueued, transit <- Transit, delivered <- published

\* Messages may be lost, but leave the device once and in the order enqueued.
LossyInOrder == Fifo!Spec
=============================================================================
