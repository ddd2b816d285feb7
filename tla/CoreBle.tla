------------------------------ MODULE CoreBle ------------------------------
(***************************************************************************)
(* BLE provisioning transport (core_ble.cpp): the phone's writes arrive in *)
(* the NimBLE host's task, which copies them into a queue; ble_rx_task     *)
(* handles one command after another and answers through the value of the  *)
(* TX characteristic.  notify only marks the value: the host's task reads  *)
(* it later, and setValue (NimBLEAttValue.cpp) empties it first.           *)
(*                                                                         *)
(* What the commands do to the configuration is the subject of             *)
(* CoreCredentials; here a command is ignored (a malformed legacy          *)
(* payload), answered, answered after waiting for the cloud, or answered   *)
(* and followed by a restart (CHECK_AUTH).                                 *)
(***************************************************************************)
EXTENDS Naturals, Sequences

CONSTANTS kBleQueueDepth,
          Polls,         \* rounds of a wait that fit into kProvisioningTimeoutMs
          MaxWrites,     \* bound on the payloads the phone writes
          MaxBleRestarts

Kinds == {"ignored", "plain", "waiting", "check_auth"}
Empty == 0               \* an empty value; an answer is the number of its payload

VARIABLES
  ble_init,        \* where init_ble_service is after it started advertising
  g_ble_rx_queue,  \* the queue was created
  rx_queue,        \* payloads in the static storage of the queue
  on_write,        \* onWrite in the host's task: its step and payload
  rx_task,         \* ble_rx_task: its step, payload, kind and rounds waited
  tx_value, updated,     \* the TX characteristic and its mark in the host
  client,          \* a phone is connected
  written, pending,      \* payloads written; those in the queue that were accepted
  last_sent,       \* the last answer a phone received
  ble_restarts

boot == <<ble_init, g_ble_rx_queue, rx_queue>>
tx == <<tx_value, updated>>
phone == <<client, written>>
ble == <<boot, on_write, rx_task, tx, phone, pending, last_sent, ble_restarts>>

NoWrite == [step |-> "idle", n |-> 0]
NoCommand == [step |-> "receive", n |-> 0, kind |-> "ignored", waited |-> 0]

Booting ==
  /\ ble_init' = "check" /\ g_ble_rx_queue' = FALSE /\ rx_queue' = <<>>
  /\ on_write' = NoWrite /\ rx_task' = [NoCommand EXCEPT !.step = "none"]
  /\ tx_value' = Empty /\ updated' = FALSE /\ client' = FALSE /\ pending' = {}

BleInit ==
  /\ ble_init = "check" /\ g_ble_rx_queue = FALSE /\ rx_queue = <<>>
  /\ on_write = NoWrite /\ rx_task = [NoCommand EXCEPT !.step = "none"]
  /\ tx_value = Empty /\ updated = FALSE /\ client = FALSE /\ pending = {}
  /\ written = 0 /\ last_sent = 0 /\ ble_restarts = 0

-----------------------------------------------------------------------------
(* init_ble_service, once the device advertises *)

\* xQueueCreateStatic sets up the one static queue, which empties it.
CreatesQueue == g_ble_rx_queue' = TRUE /\ rx_queue' = <<>>

InitChecks ==
  /\ ble_init = "check"
  /\ ble_init' = IF g_ble_rx_queue THEN "task" ELSE "create"
  /\ UNCHANGED <<g_ble_rx_queue, rx_queue, on_write, rx_task, tx, phone, pending, last_sent,
                 ble_restarts>>

InitCreates ==
  /\ ble_init = "create" /\ ble_init' = "task" /\ CreatesQueue
  /\ UNCHANGED <<on_write, rx_task, tx, phone, pending, last_sent, ble_restarts>>

InitStartsTask ==
  /\ ble_init = "task" /\ ble_init' = "done"
  /\ rx_task' = NoCommand
  /\ UNCHANGED <<g_ble_rx_queue, rx_queue, on_write, tx, phone, pending, last_sent, ble_restarts>>

-----------------------------------------------------------------------------
(* The NimBLE host's task *)

HostFree == on_write.step = "idle"

PhoneConnects ==
  /\ HostFree /\ ~client /\ client' = TRUE
  /\ UNCHANGED <<boot, on_write, rx_task, tx, written, pending, last_sent, ble_restarts>>

\* What is queued or being answered stays; the next phone gets the answer.
PhoneDisconnects ==
  /\ HostFree /\ client /\ client' = FALSE /\ updated' = FALSE
  /\ UNCHANGED <<boot, on_write, rx_task, tx_value, written, pending, last_sent, ble_restarts>>

PhoneWrites ==
  /\ HostFree /\ client /\ written < MaxWrites
  /\ written' = written + 1
  /\ on_write' = [step |-> IF g_ble_rx_queue THEN "send" ELSE "create", n |-> written']
  /\ UNCHANGED <<boot, rx_task, tx, client, pending, last_sent, ble_restarts>>

WriteCreates ==
  /\ on_write.step = "create"
  /\ CreatesQueue /\ on_write' = [on_write EXCEPT !.step = "send"]
  /\ UNCHANGED <<ble_init, rx_task, tx, phone, pending, last_sent, ble_restarts>>

\* Mutant: the payload goes to the front.
Enqueued(n) == <<n>> \o rx_queue

Queued(n) == Append(rx_queue, n)

\* No memory or no room: the payload is dropped without an answer.
WriteSends ==
  /\ on_write.step = "send" /\ on_write' = NoWrite
  /\ \/ /\ Len(rx_queue) < kBleQueueDepth
        /\ rx_queue' = Queued(on_write.n)
        /\ pending' = IF ble_init = "done" THEN pending \cup {on_write.n} ELSE pending
     \/ UNCHANGED <<rx_queue, pending>>
  /\ UNCHANGED <<ble_init, g_ble_rx_queue, rx_task, tx, phone, last_sent, ble_restarts>>

\* The mark is taken and the value read for a notification, some time after notify.
HostSends ==
  /\ HostFree /\ client /\ updated /\ updated' = FALSE
  /\ last_sent' = IF tx_value = Empty THEN last_sent ELSE tx_value
  /\ UNCHANGED <<boot, on_write, rx_task, tx_value, phone, pending, ble_restarts>>

-----------------------------------------------------------------------------
(* ble_rx_task *)

At(step) == rx_task.step = step
Goes(step) == rx_task' = [rx_task EXCEPT !.step = step]
Elsewhere == UNCHANGED <<ble_init, g_ble_rx_queue, on_write, phone, last_sent, ble_restarts>>
Done(n) == pending' = pending \ {n}

ble_rx_task ==
  /\ At("receive") /\ rx_queue # <<>>
  /\ rx_queue' = Tail(rx_queue)
  /\ \E kind \in Kinds :
       rx_task' = [step |-> "handle", n |-> Head(rx_queue), kind |-> kind, waited |-> 0]
  /\ UNCHANGED <<tx, pending>> /\ Elsewhere

handle_json_payload ==
  /\ At("handle")
  /\ CASE rx_task.kind = "ignored" -> rx_task' = NoCommand /\ Done(rx_task.n)
       [] rx_task.kind = "plain" -> Goes("answer") /\ UNCHANGED pending
       [] OTHER -> Goes("wait") /\ UNCHANGED pending
  /\ UNCHANGED <<rx_queue, tx>> /\ Elsewhere

\* wait_for_device_code, wait_for_access_token: until the answer of the cloud is there
\* or the time is over, when CHECK_AUTH has failed and no restart follows.
Waits ==
  /\ At("wait")
  /\ \/ Goes("answer")
     \/ rx_task.waited < Polls /\ rx_task' = [rx_task EXCEPT !.waited = @ + 1]
     \/ rx_task.waited = Polls /\ rx_task' = [rx_task EXCEPT !.step = "answer", !.kind = "plain"]
  /\ UNCHANGED <<rx_queue, tx, pending>> /\ Elsewhere

\* setValue makes the value empty, and then appends outside the same critical section.
AnswerEmpties ==
  /\ At("answer") /\ Goes("append")
  /\ tx_value' = Empty
  /\ UNCHANGED <<rx_queue, updated, pending>> /\ Elsewhere

\* An answer longer than the characteristic allows is not appended.
AnswerAppends ==
  /\ At("append") /\ Goes("notify")
  /\ tx_value' \in {rx_task.n, Empty}
  /\ UNCHANGED <<rx_queue, updated, pending>> /\ Elsewhere

\* ble_gatts_chr_updated marks the value for the subscribed phone, if there is one.
AnswerNotifies ==
  /\ At("notify")
  /\ updated' = (updated \/ client)
  /\ IF rx_task.kind = "check_auth" THEN Goes("restart") ELSE rx_task' = NoCommand
  /\ Done(rx_task.n)
  /\ UNCHANGED <<rx_queue, tx_value>> /\ Elsewhere

\* 300 ms after the answer of a CHECK_AUTH that succeeded.
BleRestarts ==
  /\ At("restart") /\ ble_restarts < MaxBleRestarts
  /\ Booting /\ ble_restarts' = ble_restarts + 1
  /\ UNCHANGED <<written, last_sent>>

Handles == handle_json_payload \/ Waits \/ AnswerEmpties \/ AnswerAppends \/ AnswerNotifies

BleNext ==
  \/ InitChecks \/ InitCreates \/ InitStartsTask
  \/ PhoneConnects \/ PhoneDisconnects \/ PhoneWrites \/ WriteCreates \/ WriteSends \/ HostSends
  \/ ble_rx_task \/ Handles \/ BleRestarts

\* ble_rx_task is scheduled; a wait ends on its clock.
BleFairness == WF_ble(ble_rx_task) /\ WF_ble(Handles)

BleSpec == BleInit /\ [][BleNext]_ble /\ BleFairness

-----------------------------------------------------------------------------
(* Properties *)

\* Every payload that was accepted is handled, behind commands that wait for the cloud,
\* or a restart forgets it.
Answered ==
  \A n \in 1 .. MaxWrites : n \in pending ~> n \notin pending \/ rx_task.step = "restart"

\* The phone that waits for its answer may get none, or the one of a later command
\* twice, but never goes back: whatever is being set while the host reads, a
\* notification carries a whole answer, and not one to an earlier command.
AnswersForward ==
  /\ Answered
  /\ [][last_sent' # last_sent => last_sent' > last_sent /\ last_sent' <= written]_ble
=============================================================================
