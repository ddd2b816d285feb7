------------------------- MODULE NimBLEL2CAPChannel -------------------------
(***************************************************************************)
(* One connection oriented L2CAP channel of esp-nimble-cpp                 *)
(* (NimBLEL2CAPChannel.cpp, NimBLEL2CAPServer.cpp): a writer's task that   *)
(* cuts a message into fragments of the smaller MTU, sends them one by     *)
(* one, tries again when the host is busy, and waits when the channel has  *)
(* stalled; and the host's task, which handles the channel's events.       *)
(*                                                                         *)
(* The host (external) takes a fragment, with or without stalling, or      *)
(* refuses it, and always while it is stalled; a stall ends with an event, *)
(* or with the channel.  A fragment is its number.                         *)
(*                                                                         *)
(* The file is compiled with CONFIG_BT_NIMBLE_L2CAP_COC_MAX_NUM only,      *)
(* which this firmware's sdkconfig sets to 0.                              *)
(***************************************************************************)
EXTENDS Naturals, Sequences

CONSTANTS RetryCounter,
          MaxFragments     \* bound on the fragments of all messages together

VARIABLES
  channel,               \* "none", "open"
  stalled,
  waiting_data,          \* m_pTaskData: a writer's task data are in place
  task_bit,              \* the writer's task notification bit
  writer,                \* "idle", "next", "waits", "sends", "delays"
  retries,
  message,               \* fragments left of the message being written
  numbered,              \* fragments handed to write so far
  host_stalled,
  received               \* what the host took, in its order

channel_state == <<channel, stalled, waiting_data, task_bit>>
write_call == <<writer, retries, message>>
l2cap == <<channel_state, write_call, numbered, host_stalled, received>>

L2capInit ==
  /\ channel = "none" /\ stalled = FALSE /\ waiting_data = FALSE /\ task_bit = FALSE
  /\ writer = "idle" /\ retries = 0 /\ message = <<>> /\ numbered = 0
  /\ host_stalled = FALSE /\ received = <<>>

-----------------------------------------------------------------------------
(* The writer's task *)

\* The rest of the message is not sent.
Returns == writer' = "idle" /\ message' = <<>> /\ UNCHANGED retries

\* Without a channel write returns false.
WriteBegins(n) ==
  /\ writer = "idle" /\ channel = "open" /\ numbered + n <= MaxFragments
  /\ writer' = "next" /\ message' = [i \in 1 .. n |-> numbered + i]
  /\ numbered' = numbered + n
  /\ UNCHANGED <<channel_state, retries, host_stalled, received>>

\* The next fragment: after a stall its task data are put in place first.
FragmentBegins ==
  /\ writer = "next" /\ message # <<>>
  /\ IF stalled
       THEN writer' = "waits" /\ waiting_data' = TRUE /\ UNCHANGED retries
       ELSE writer' = "sends" /\ retries' = RetryCounter /\ UNCHANGED waiting_data
  /\ UNCHANGED <<channel, stalled, task_bit, message, numbered, host_stalled, received>>

\* Whoever set the bit; the flags of the task data are not looked at.
Wakes ==
  /\ writer = "waits" /\ task_bit
  /\ task_bit' = FALSE /\ waiting_data' = FALSE /\ stalled' = FALSE
  /\ writer' = "sends" /\ retries' = RetryCounter
  /\ UNCHANGED <<channel, message, numbered, host_stalled, received>>

\* The peer's MTU may have become smaller than the fragment, or the pool be empty.
CannotSend ==
  /\ writer = "sends" /\ Returns
  /\ UNCHANGED <<channel_state, numbered, host_stalled, received>>

FragmentDone == writer' = "next" /\ message' = Tail(message) /\ UNCHANGED retries

Taken == channel = "open" /\ ~host_stalled /\ received' = Append(received, Head(message))

FragmentTaken ==
  /\ writer = "sends" /\ Taken /\ FragmentDone
  /\ UNCHANGED <<channel_state, numbered, host_stalled>>

\* Mutant: tried again, as when the host is busy.
RetriesStalled ==
  /\ writer = "sends" /\ Taken
  /\ host_stalled' = TRUE /\ stalled' = TRUE
  /\ writer' = "delays" /\ retries' = retries - 1
  /\ UNCHANGED <<channel, waiting_data, task_bit, message, numbered>>

\* BLE_HS_ESTALLED: the host has it; the next fragment waits.
FragmentStalls ==
  /\ writer = "sends" /\ Taken /\ FragmentDone
  /\ host_stalled' = TRUE /\ stalled' = TRUE
  /\ UNCHANGED <<channel, waiting_data, task_bit, numbered>>

\* BLE_HS_ENOMEM, EAGAIN, EBUSY.
HostBusy ==
  /\ writer = "sends"
  /\ writer' = "delays" /\ retries' = retries - 1
  /\ UNCHANGED <<channel_state, message, numbered, host_stalled, received>>

DelayEnds ==
  /\ writer = "delays"
  /\ IF retries > 0 THEN writer' = "sends" /\ UNCHANGED <<retries, message>>
                    ELSE Returns
  /\ UNCHANGED <<channel_state, numbered, host_stalled, received>>

\* Any other error is a positive number, which write does not take for one.
HostRefuses ==
  /\ writer = "sends" /\ FragmentDone
  /\ UNCHANGED <<channel_state, numbered, host_stalled, received>>

WriteEnds ==
  /\ writer = "next" /\ message = <<>> /\ Returns
  /\ UNCHANGED <<channel_state, numbered, host_stalled, received>>

Writes ==
  \/ FragmentBegins \/ Wakes \/ CannotSend \/ FragmentTaken \/ FragmentStalls
  \/ HostBusy \/ DelayEnds \/ HostRefuses \/ WriteEnds

-----------------------------------------------------------------------------
(* The host's task *)

\* A connection of this side or an accepted one.  stalled keeps its value.
HandleConnection ==
  /\ channel = "none" /\ channel' = "open"
  /\ UNCHANGED <<stalled, waiting_data, task_bit, write_call, numbered, host_stalled, received>>

\* A waiting writer is not released.
HandleDisconnection ==
  /\ channel = "open" /\ channel' = "none" /\ host_stalled' = FALSE
  /\ UNCHANGED <<stalled, waiting_data, task_bit, write_call, numbered, received>>

\* Without a writer that waits nothing is kept of it.
HandleTxUnstalled ==
  /\ host_stalled /\ host_stalled' = FALSE
  /\ task_bit' = (task_bit \/ waiting_data)
  /\ UNCHANGED <<channel, stalled, waiting_data, write_call, numbered, received>>

L2capNext ==
  \/ \E n \in 1 .. MaxFragments : WriteBegins(n)
  \/ Writes
  \/ HandleConnection \/ HandleDisconnection \/ HandleTxUnstalled

L2capSpec == L2capInit /\ [][L2capNext]_l2cap

-----------------------------------------------------------------------------
(* Properties *)

\* Through stalls, retries, refusals, disconnections and messages that were given up, the
\* host gets every fragment at most once and later fragments later: what the peer puts
\* together may have gaps, never repetitions.
AtMostOnceInOrder == \A i, j \in DOMAIN received : i < j => received[i] < received[j]
=============================================================================
