--------------------------- MODULE CoreDevice_proofs ---------------------------
(***************************************************************************)
(* Proofs about the components that MCCoreDevice checks side by side: the  *)
(* transport queue, for every limit of it, the clock, the token's timer,   *)
(* the button, the upgrade and the Wi-Fi flags.                            *)
(***************************************************************************)
EXTENDS MCCoreDevice, CoreStorage_proofs, TLAPS

-----------------------------------------------------------------------------
(* CoreTransportQueue *)

USE LimitAssumption

\* What makes room leaves a deque that is a suffix of the old one.
LEMMA RoomFacts ==
  ASSUME TypeOK
  PROVE  /\ Room \in Seq(Nat)
         /\ Len(Room) < MqttQueueLimit
         /\ Len(Room) <= Len(mqtt_queue)
         /\ \A i \in 1..Len(Room) :
              Room[i] = mqtt_queue[Len(mqtt_queue) - Len(Room) + i]
<1>1. CASE Len(mqtt_queue) >= MqttQueueLimit
  <2>1. mqtt_queue # <<>>
    BY <1>1 DEF TypeOK
  <2>2. /\ Tail(mqtt_queue) \in Seq(Nat)
        /\ Len(Tail(mqtt_queue)) = Len(mqtt_queue) - 1
        /\ \A i \in 1..Len(Tail(mqtt_queue)) : Tail(mqtt_queue)[i] = mqtt_queue[i + 1]
    BY <2>1 DEF TypeOK
  <2>3. QED
    BY <1>1, <2>1, <2>2 DEF TypeOK, Room
<1>2. CASE ~(Len(mqtt_queue) >= MqttQueueLimit)
  BY <1>2 DEF TypeOK, Room
<1>3. QED
  BY <1>1, <1>2

\* A step keeps the types, the bound of the deque included.
LEMMA TypeStep == TypeOK /\ [Next]_vars => TypeOK'
<1> SUFFICES ASSUME TypeOK, [Next]_vars PROVE TypeOK'
  OBVIOUS
<1>1. CASE mqtt_enqueue_message
  <2>1. /\ mqtt_queue' \in Seq(Nat) /\ Len(mqtt_queue') <= MqttQueueLimit
        /\ enqueued' \in Nat
    BY <1>1, RoomFacts DEF mqtt_enqueue_message, TypeOK
  <2>2. QED
    BY <1>1, <2>1 DEF mqtt_enqueue_message, TypeOK
<1>2. CASE Pop
  BY <1>2 DEF Pop, TypeOK
<1>3. CASE Publish
  BY <1>3 DEF Publish, TypeOK
<1>4. CASE SessionChanges
  BY <1>4 DEF SessionChanges, TypeOK
<1>5. CASE UNCHANGED vars
  BY <1>5 DEF vars, TypeOK
<1>6. QED
  BY <1>1, <1>2, <1>3, <1>4, <1>5 DEF Next

LEMMA TypeStarts == Init => TypeOK
<1>1. Init => /\ mqtt_connected \in BOOLEAN /\ client_set \in BOOLEAN
              /\ link \in BOOLEAN
  BY Zenon DEF Init
<1> QED  BY <1>1 DEF Init, TypeOK

\* Every variable keeps its type, and the deque its limit.
THEOREM TypeCorrect == Spec => []TypeOK
  BY TypeStarts, TypeStep, PTL DEF Spec

\* Appending to what Room leaves keeps the numbers of the deque contiguous.
LEMMA GapStep == TypeOK /\ NewestWithoutGap /\ [Next]_vars => NewestWithoutGap'
<1> SUFFICES ASSUME TypeOK, NewestWithoutGap, [Next]_vars PROVE NewestWithoutGap'
  OBVIOUS
<1> USE DEF TypeOK, NewestWithoutGap
<1>1. CASE mqtt_enqueue_message
  <2>1. /\ Len(mqtt_queue') = Len(Room) + 1
        /\ mqtt_queue'[Len(Room) + 1] = enqueued'
        /\ \A i \in 1..Len(Room) : mqtt_queue'[i] = Room[i]
    BY <1>1, RoomFacts DEF mqtt_enqueue_message
  <2>2. Len(Room) \in Nat /\ Len(mqtt_queue) \in Nat /\ Len(Room) <= Len(mqtt_queue)
    BY RoomFacts
  <2>3. ASSUME NEW i \in 1..Len(Room) PROVE Room[i] = enqueued - Len(Room) + i
    <3>1. Len(mqtt_queue) - Len(Room) + i \in 1..Len(mqtt_queue)
      BY <2>2
    <3>2. QED
      BY <2>2, <3>1, RoomFacts
  <2>4. ASSUME NEW i \in 1..Len(mqtt_queue')
        PROVE  mqtt_queue'[i] = enqueued' - Len(mqtt_queue') + i
    <3>1. CASE i \in 1..Len(Room)
      BY <1>1, <2>1, <2>2, <2>3, <3>1 DEF mqtt_enqueue_message
    <3>2. CASE i = Len(Room) + 1
      BY <1>1, <2>1, <2>2, <3>2 DEF mqtt_enqueue_message
    <3>3. QED
      BY <2>1, <2>2, <3>1, <3>2
  <2>5. QED
    BY <1>1, <2>1, <2>2, <2>4 DEF mqtt_enqueue_message
<1>2. CASE Pop
  <2>1. /\ Len(mqtt_queue') = Len(mqtt_queue) - 1
        /\ popped' = enqueued - Len(mqtt_queue) + 1
        /\ \A i \in 1..Len(mqtt_queue') : mqtt_queue'[i] = mqtt_queue[i + 1]
    BY <1>2 DEF Pop
  <2>2. QED
    BY <1>2, <2>1 DEF Pop
<1>3. CASE Publish
  BY <1>3 DEF Publish
<1>4. CASE SessionChanges
  BY <1>4 DEF SessionChanges
<1>5. CASE UNCHANGED vars
  BY <1>5 DEF vars
<1>6. QED
  BY <1>1, <1>2, <1>3, <1>4, <1>5 DEF Next

\* The deque always holds the newest messages without a gap.
THEOREM NewestAlwaysWithoutGap == Spec => []NewestWithoutGap
<1>1. Init => NewestWithoutGap
  BY DEF Init, NewestWithoutGap
<1>2. QED
  BY <1>1, GapStep, TypeCorrect, PTL DEF Spec

\* A step of the queue is a step of the lossy FIFO, or changes nothing of it.
LEMMA FifoStep ==
  TypeOK /\ NewestWithoutGap /\ [Next]_vars
    => [Fifo!Send \/ Fifo!Deliver \/ Fifo!Lose]_Fifo!fifoVars
<1> SUFFICES ASSUME TypeOK, NewestWithoutGap, [Next]_vars
             PROVE  [Fifo!Send \/ Fifo!Deliver \/ Fifo!Lose]_Fifo!fifoVars
  OBVIOUS
<1> USE DEF TypeOK, NewestWithoutGap
<1>1. CASE mqtt_enqueue_message
  <2> DEFINE lost == Transit \ Transit'
  <2>1. /\ Len(mqtt_queue') = Len(Room) + 1
        /\ mqtt_queue'[Len(Room) + 1] = enqueued'
        /\ \A i \in 1..Len(Room) : mqtt_queue'[i] = Room[i]
    BY <1>1, RoomFacts DEF mqtt_enqueue_message
  <2>2. enqueued' \in Transit'
    BY <2>1, RoomFacts DEF Transit
  <2>3. ASSUME NEW m \in Transit', m # enqueued' PROVE m \in Transit
    <3>1. CASE m = popped' /\ popped' # 0
      BY <1>1, <2>3, <3>1 DEF mqtt_enqueue_message, Transit
    <3>2. ASSUME NEW i \in 1..Len(mqtt_queue'), m = mqtt_queue'[i] PROVE m \in Transit
      <4>1. i \in 1..Len(Room) /\ m = Room[i]
        BY <2>1, <2>3, <3>2, RoomFacts
      <4>2. /\ Len(mqtt_queue) - Len(Room) + i \in 1..Len(mqtt_queue)
            /\ m = mqtt_queue[Len(mqtt_queue) - Len(Room) + i]
        BY <4>1, RoomFacts
      <4>3. m \in {mqtt_queue[j] : j \in 1..Len(mqtt_queue)}
        BY <4>2, Zenon
      <4>4. QED
        BY <4>3, Zenon DEF Transit
    <3>3. QED
      BY <2>3, <3>1, <3>2 DEF Transit
  <2>4. Transit' = (Transit \ lost) \cup {enqueued'}
    BY <2>2, <2>3
  <2>5. lost \in SUBSET Transit
    OBVIOUS
  <2>6. Fifo!Send
    BY <1>1, <2>4, <2>5 DEF mqtt_enqueue_message, Fifo!Send
  <2>7. QED
    BY <2>6
<1>2. CASE Pop
  <2>1. /\ Len(mqtt_queue') = Len(mqtt_queue) - 1
        /\ popped' = mqtt_queue[1]
        /\ \A i \in 1..Len(mqtt_queue') : mqtt_queue'[i] = mqtt_queue[i + 1]
    BY <1>2 DEF Pop
  <2>2. Transit' = Transit
    <3>1. ASSUME NEW m \in Transit' PROVE m \in Transit
      BY <1>2, <2>1, <3>1 DEF Pop, Transit
    <3>2. ASSUME NEW i \in 1..Len(mqtt_queue) PROVE mqtt_queue[i] \in Transit'
      <4>1. CASE i = 1
        BY <1>2, <2>1, <4>1 DEF Pop, Transit
      <4>2. CASE i # 1
        <5>1. i - 1 \in 1..Len(mqtt_queue') /\ mqtt_queue'[i - 1] = mqtt_queue[i]
          BY <2>1, <4>2
        <5>2. QED
          BY <5>1 DEF Transit
      <4>3. QED
        BY <4>1, <4>2
    <3>3. QED
      BY <1>2, <3>1, <3>2 DEF Pop, Transit
  <2>3. QED
    BY <1>2, <2>2 DEF Pop, Fifo!fifoVars
<1>3. CASE Publish
  <2>1. popped \in Transit /\ Transit' = Transit \ {popped}
    BY <1>3 DEF Publish, Transit
  <2>2. CASE client_set /\ link
    <3>1. \A n \in Transit : popped <= n
      BY DEF Transit
    <3>2. Fifo!Deliver
      BY <1>3, <2>1, <2>2, <3>1 DEF Publish, Fifo!Deliver
    <3>3. QED
      BY <3>2
  <2>3. CASE ~(client_set /\ link)
    <3>1. {popped} \in SUBSET Transit
      BY <2>1
    <3>2. Fifo!Lose
      BY <1>3, <2>1, <2>3, <3>1 DEF Publish, Fifo!Lose
    <3>3. QED
      BY <3>2
  <2>4. QED
    BY <2>2, <2>3
<1>4. CASE SessionChanges
  BY <1>4 DEF SessionChanges, Transit, Fifo!fifoVars
<1>5. CASE UNCHANGED vars
  BY <1>5 DEF vars, Transit, Fifo!fifoVars
<1>6. QED
  BY <1>1, <1>2, <1>3, <1>4, <1>5 DEF Next

\* The transport queue implements the lossy FIFO: messages leave the device at
\* most once and in the order they were enqueued.
THEOREM ImplementsLossyFifo == Spec => LossyInOrder
<1>1. Init => Fifo!Init
  BY DEF Init, Transit, Fifo!Init
<1>2. QED
  BY <1>1, FifoStep, TypeCorrect, NewestAlwaysWithoutGap, PTL
     DEF Spec, LossyInOrder, Fifo!Spec

HIDE LimitAssumption

-----------------------------------------------------------------------------
(* CoreTime *)

USE TimeAssumption

\* NeverAhead alone is not inductive: a restart takes the clock from the snapshot, and
\* the snapshot comes from a clock that was read some time before it is stored.
NothingAhead == clock <= now /\ saved_time <= now /\ read <= now
TimeInv == TimeTypeOK /\ NothingAhead

LEMMA TimeInvStarts == TimeInit => TimeInv
<1> SUFFICES ASSUME TimeInit PROVE TimeInv
  OBVIOUS
<1>1. {net, sync_due, sntp} \subseteq BOOLEAN
  BY Zenon DEF TimeInit
<1> QED  BY <1>1 DEF TimeInit, TimeInv, TimeTypeOK, NothingAhead

\* The snapshot is of a valid clock and an earlier boot lasted less than that: the
\* difference that restore_time_from_nvs computes does not wrap below zero.
LEMMA RestoredBehind ==
  ASSUME TimeInv, NEW ran_for \in 0..Horizon, ran_for <= now
  PROVE  Restored(ran_for) \in 0..Horizon /\ Restored(ran_for) <= now
<1>1. CASE saved_time = 0 \/ rtc_offset = 0
  BY <1>1 DEF Restored
<1>2. CASE ~(saved_time = 0 \/ rtc_offset = 0)
  <2>1. saved_time \in ValidFrom..Horizon /\ rtc_offset \in 0..(Horizon - FirstBoot)
    BY <1>2 DEF TimeInv, TimeTypeOK
  <2> QED  BY <1>2, <2>1 DEF Restored, TimeInv, TimeTypeOK, NothingAhead
<1> QED  BY <1>1, <1>2

LEMMA TimeInvKept == TimeInv /\ [TimeNext]_time => TimeInv'
<1> SUFFICES ASSUME TimeInv, [TimeNext]_time PROVE TimeInv'
  OBVIOUS
<1> USE DEF TimeInv, TimeTypeOK, NothingAhead, passing, snapshot, syncing
<1>1. CASE Tick
  BY <1>1 DEF Tick
<1>2. CASE NetChanges
  <2>1. net' \in BOOLEAN
    BY <1>2, Zenon DEF NetChanges
  <2> QED  BY <1>2, <2>1 DEF NetChanges
<1>3. CASE PeriodElapses
  BY <1>3 DEF PeriodElapses
<1>4. CASE StartsSync
  BY <1>4 DEF StartsSync
<1>5. CASE SyncBegins
  BY <1>5 DEF SyncBegins
<1>6. CASE SyncChecks
  <2>1. CASE has_valid_time
    BY <1>6, <2>1 DEF SyncChecks, has_valid_time
  <2>2. CASE ~has_valid_time
    BY <1>6, <2>2 DEF SyncChecks
  <2> QED  BY <2>1, <2>2
<1>7. CASE SavesTime
  <2>1. CASE saved_time' = read /\ sync' = "save_offset" /\ UNCHANGED <<sntp, read>>
    BY <1>7, <2>1 DEF SavesTime
  <2>2. CASE Finished /\ UNCHANGED saved_time
    <3>1. UNCHANGED <<net, sync_due>> /\ sntp' = FALSE
      BY <1>7, <2>2 DEF SavesTime, Finished
    <3>2. {net', sync_due', sntp'} \subseteq BOOLEAN
      BY <3>1, Zenon
    <3> QED  BY <1>7, <2>2, <3>1, <3>2 DEF SavesTime, Finished
  <2> QED  BY <1>7, <2>1, <2>2 DEF SavesTime
<1>8. CASE SavesOffset
  <2>1. UNCHANGED <<net, sync_due>> /\ sntp' = FALSE
    BY <1>8 DEF SavesOffset, Finished
  <2>2. {net', sync_due', sntp'} \subseteq BOOLEAN
    BY <2>1, Zenon
  <2> QED  BY <1>8, <2>1, <2>2 DEF SavesOffset, Finished
<1>9. CASE SntpAnswers
  BY <1>9 DEF SntpAnswers
<1>10. CASE SyncWaits
  BY <1>10 DEF SyncWaits
<1>11. CASE SyncTimesOut
  <2>1. UNCHANGED <<net, sync_due>> /\ sntp' = FALSE
    BY <1>11 DEF SyncTimesOut, Finished
  <2>2. {net', sync_due', sntp'} \subseteq BOOLEAN
    BY <2>1, Zenon
  <2> QED  BY <1>11, <2>1, <2>2 DEF SyncTimesOut, Finished
<1>12. CASE TimeRestart \/ PowerCycle
  <2>1. PICK ran_for \in {0, clock} : Reboots(ran_for)
    BY <1>12 DEF TimeRestart, PowerCycle
  <2>2. ran_for \in 0..Horizon /\ ran_for <= now
    BY <2>1
  <2>3. Restored(ran_for) \in 0..Horizon /\ Restored(ran_for) <= now
    BY <2>2, RestoredBehind
  <2>4. {net', sync_due', sntp'} \subseteq BOOLEAN
    BY <2>1, Zenon DEF Reboots
  <2> QED  BY <2>1, <2>3, <2>4 DEF Reboots
<1>13. CASE UNCHANGED time
  BY <1>13 DEF time
<1> QED
  BY <1>1, <1>2, <1>3, <1>4, <1>5, <1>6, <1>7, <1>8, <1>9, <1>10, <1>11, <1>12, <1>13
  DEF TimeNext, SyncRuns

LEMMA TimeCorrect == TimeSpec => []TimeInv
  BY TimeInvStarts, TimeInvKept, PTL DEF TimeSpec

\* The clock, the snapshot and what the task has read stay in their ranges: neither
\* the difference of two uptimes nor a half-saved snapshot makes them wrap.
THEOREM TimeTypeCorrect == TimeSpec => []TimeTypeOK
  BY TimeCorrect, PTL DEF TimeInv

\* Whatever restarts cut a save in half, no clock that counts as valid is ahead of the
\* truth (restore_time_from_nvs, save_time_to_nvs).
THEOREM NeverAheadAlways == TimeSpec => []NeverAhead
<1>1. TimeInv => NeverAhead
  BY DEF TimeInv, NothingAhead, NeverAhead
<1> QED  BY <1>1, TimeCorrect, PTL

HIDE TimeAssumption

-----------------------------------------------------------------------------
(* CoreCommands *)

USE CommandsAssumption

(***************************************************************************)
(* The inductive invariant.  The marked slot differs from the one that     *)
(* runs only between esp_ota_set_boot_partition and the restart, when it   *)
(* holds a whole image, and no second upgrade can begin there.             *)
(***************************************************************************)
Typed ==
  /\ handling \in [command : {"none", "upgrade", "restart", "clear", "temp"}]
  /\ image \in [Slots -> Nat] /\ running \in Slots /\ boot \in Slots
Marked ==
  \/ handling.command = "restart"
  \/ handling.command = "upgrade" /\ ota \in {"cleanup ok", "leave ok"}
Bootable ==
  /\ image[running] = ImageBlocks /\ image[boot] = ImageBlocks
  /\ boot # running => Marked
Whole == ota = "mark" => image[1 - running] = ImageBlocks

\* What each step of perform_ota_update still holds.
Nothing == ota_in_progress = FALSE /\ ota_client = FALSE /\ ota_handle = FALSE
Held ==
  /\ handling.command # "upgrade" => ota = "none" /\ Nothing
  /\ ota = "none" => Nothing
  /\ ota \in {"leave", "leave ok"} => ota_client = FALSE
  /\ ota_handle # FALSE => ota \in {"read", "end", "abort"}
UpgradeInv == Typed /\ Bootable /\ Whole /\ Held

LEMMA OtherSlot == running \in Slots => 1 - running \in Slots /\ 1 - running # running
  BY DEF Slots

LEMMA UpgradeInvStarts == CommandsInit => UpgradeInv
<1> SUFFICES ASSUME CommandsInit PROVE UpgradeInv
  OBVIOUS
<1>1. Typed
  BY DEF CommandsInit, Idle, Slots, Typed
<1>2. Bootable /\ Whole
  BY DEF CommandsInit, OtaInit, Idle, Slots, Bootable, Whole
<1>3. Held
  BY DEF CommandsInit, OtaInit, Idle, Held, Nothing
<1> QED  BY <1>1, <1>2, <1>3 DEF UpgradeInv

\* The message decides on one of five commands.
LEMMA EffectTyped ==
  ASSUME NEW m \in Messages
  PROVE  Effect(m) \in [command : {"none", "upgrade", "restart", "clear", "temp"}]
  BY DEF Effect, RpcEffect, Asks, Idle

LEMMA UpgradeInvKept == UpgradeInv /\ [CommandsNext]_commands => UpgradeInv'
<1> SUFFICES ASSUME UpgradeInv, [CommandsNext]_commands PROVE UpgradeInv'
  OBVIOUS
<1> USE DEF UpgradeInv, Typed, Bootable, Marked, Whole, Held, Nothing, marked, update, Rest, At,
            Goto, Idle, Asks
<1>1. ASSUME NEW m \in Messages, handle_core_mqtt_route(m) PROVE UpgradeInv'
  BY <1>1, EffectTyped DEF handle_core_mqtt_route
<1>2. CASE TempHandled
  BY <1>2 DEF TempHandled
<1>3. CASE clear_credentials
  BY <1>3 DEF clear_credentials
<1>4. CASE OtaRefused
  BY <1>4 DEF OtaRefused
<1>5. CASE OtaStarts
  BY <1>5 DEF OtaStarts
<1>6. CASE OtaOpens
  BY <1>6 DEF OtaOpens
<1>7. CASE OtaBegins
  <2>1. /\ At("begin") /\ handling' = handling /\ boot = running
        /\ UNCHANGED <<ota_in_progress, ota_client, boot, running>>
    BY <1>7 DEF OtaBegins
  <2>2. CASE /\ image' = [image EXCEPT ![Next_update_partition] = 0]
             /\ ota_handle' = TRUE /\ ota' = "read"
    <3>1. image'[running] = image[running] /\ image' \in [Slots -> Nat]
      BY <2>1, <2>2, OtherSlot DEF Next_update_partition
    <3> QED  BY <2>1, <2>2, <3>1
  <2>3. CASE UNCHANGED <<image, ota_handle>> /\ ota' = "cleanup"
    BY <2>1, <2>3
  <2> QED  BY <1>7, <2>2, <2>3 DEF OtaBegins
<1>8. CASE OtaWrites
  BY <1>8, OtherSlot DEF OtaWrites, Next_update_partition
<1>9. CASE OtaFails \/ OtaStreamEnds
  BY <1>9 DEF OtaFails, OtaStreamEnds
<1>10. CASE OtaEnds
  BY <1>10 DEF OtaEnds, Next_update_partition
<1>11. CASE OtaAborts
  BY <1>11 DEF OtaAborts
<1>12. CASE OtaMarks
  BY <1>12, OtherSlot DEF OtaMarks, Next_update_partition
<1>13. CASE OtaCleansUp
  BY <1>13 DEF OtaCleansUp
<1>14. CASE OtaLeaves
  <2>1. UNCHANGED <<image, boot, running, ota_client, ota_handle>>
        /\ ota' = "none" /\ ota_in_progress' = FALSE
    BY <1>14 DEF OtaLeaves
  <2>2. CASE At("leave") /\ handling' = Idle
    BY <2>1, <2>2
  <2>3. CASE At("leave ok") /\ handling' = Asks("restart")
    BY <2>1, <2>3
  <2> QED  BY <1>14, <2>2, <2>3 DEF OtaLeaves
<1>15. CASE CommandRestart \/ PowerLoss
  <2>1. Booted
    BY <1>15 DEF CommandRestart, PowerLoss
  <2> QED  BY <2>1 DEF Booted
<1>16. CASE UNCHANGED commands
  BY <1>16 DEF commands
<1> QED
  BY <1>1, <1>2, <1>3, <1>4, <1>5, <1>6, <1>7, <1>8, <1>9, <1>10, <1>11, <1>12, <1>13, <1>14,
     <1>15, <1>16
  DEF CommandsNext, CommandSteps, OtaSteps

LEMMA UpgradeCorrect == CommandsSpec => []UpgradeInv
  BY UpgradeInvStarts, UpgradeInvKept, PTL DEF CommandsSpec

\* No upgrade, cut off at any step by an error or by power loss, leaves the device
\* without an image to boot (perform_ota_update).
THEOREM AlwaysBootableProved == CommandsSpec => []AlwaysBootable
<1>1. UpgradeInv => AlwaysBootable
  BY DEF UpgradeInv, Bootable, AlwaysBootable
<1> QED  BY <1>1, UpgradeCorrect, PTL

\* Every way out of perform_ota_update releases the flag, the client and the session.
THEOREM UpgradeLeavesNothingProved == CommandsSpec => []UpgradeLeavesNothing
<1>1. UpgradeInv => UpgradeLeavesNothing
  BY Zenon DEF UpgradeInv, Held, Nothing, UpgradeLeavesNothing
<1> QED  BY <1>1, UpgradeCorrect, PTL

\* What the check of UpgradeEndsWell adds to these is only that the commands end.
THEOREM UpgradeEndsWellIfItEnds == CommandsSpec /\ CommandsEnd => UpgradeEndsWell
  BY AlwaysBootableProved, UpgradeLeavesNothingProved, PTL DEF UpgradeEndsWell

HIDE CommandsAssumption

-----------------------------------------------------------------------------
(* CoreTokenTimer *)

\* What k failed requests cost.
Slack(k) == k * (Period + RequestTime)

\* The age of the token now, or at the next round if the loop sleeps, stays below ten
\* elevenths of its life, one answer, one period and what failed since; unless a period
\* has not passed since the first tokens.  The device's own count lags by one request.
TokenBudget ==
  11 * (token_age + next_round)
    < 10 * Lifetime + 11 * (RequestTime + Period + Slack(failed) + (IF request = Never THEN 0 ELSE request))
Counted == success_age # Never => success_age <= token_age /\ token_age <= success_age + RequestTime
CooldownOver ==
  \/ attempt_age = Never \/ attempt_age + next_round >= Cooldown
  \/ request # Never
  \/ token_age + next_round <= Period
InRequest ==
  /\ request # Never => next_round = 0
  /\ issued # Never => request # Never /\ issued <= request
TokenInv == TokenTypeOK /\ TokenBudget /\ Counted /\ CooldownOver /\ InRequest

LEMMA SlackFacts ==
  ASSUME NEW k \in 0..Failures
  PROVE  /\ Slack(k) \in Nat /\ Slack(k + 1) = Slack(k) + Period + RequestTime
         /\ Slack(k) <= Slack(Failures)
<1>1. {Period, RequestTime, Failures} \subseteq Nat
  BY TokenAssumption
<1>2. \A a, b, c \in Nat : a <= b => a * c <= b * c /\ a * c \in Nat
  OBVIOUS
<1>3. \A a, c \in Nat : (a + 1) * c = a * c + c
  OBVIOUS
<1> QED  BY <1>1, <1>2, <1>3 DEF Slack

\* The lifetime has room for all of it (proactive_refresh_due).
LEMMA FreshEnough == TokenInv => token_age <= Lifetime
<1> SUFFICES ASSUME TokenInv PROVE token_age <= Lifetime
  OBVIOUS
<1>1. Slack(failed) <= Slack(Failures) /\ Slack(failed) \in Nat /\ Slack(Failures) \in Nat
  BY SlackFacts, TokenAssumption DEF TokenInv, TokenTypeOK
<1>2. Lifetime >= 11 * (Period + 2 * RequestTime + Slack(Failures))
  BY TokenAssumption DEF Slack
<1>3. 11 * token_age < 10 * Lifetime + 11 * (2 * RequestTime + Period + Slack(Failures))
  BY <1>1, TokenAssumption DEF TokenInv, TokenBudget, TokenTypeOK, Never
<1> QED  BY <1>1, <1>2, <1>3, TokenAssumption DEF TokenInv, TokenTypeOK

LEMMA TokenInvStarts == TokenInit => TokenInv
<1> SUFFICES ASSUME TokenInit PROVE TokenInv
  OBVIOUS
<1>1. failed \in 0..Failures
  BY TokenAssumption DEF TokenInit
<1>2. Slack(failed) \in Nat
  BY <1>1, SlackFacts
<1>3. TokenTypeOK
  BY TokenAssumption DEF TokenInit, TokenTypeOK, Oldest, Never
<1>4. /\ token_age = 0 /\ success_age = 0 /\ attempt_age = 0 /\ next_round \in 0..Period
      /\ request = Never /\ issued = Never
  BY DEF TokenInit
<1>5. TokenBudget
  BY <1>2, <1>4, TokenAssumption DEF TokenBudget
<1>6. Counted /\ CooldownOver /\ InRequest
  BY <1>4, TokenAssumption DEF Counted, CooldownOver, InRequest
<1> QED  BY <1>3, <1>5, <1>6 DEF TokenInv

LEMMA TokenInvKept == TokenInv /\ [TokenNext]_timer => TokenInv'
<1> SUFFICES ASSUME TokenInv, [TokenNext]_timer PROVE TokenInv'
  OBVIOUS
<1> USE TokenAssumption DEF TokenInv, TokenTypeOK, TokenBudget, Counted, CooldownOver, InRequest, Never
<1>0. /\ token_age <= Lifetime /\ Oldest = Lifetime + Period /\ Slack(failed) \in Nat
      /\ Lifetime >= 11 * (Period + 2 * RequestTime + Slack(failed))
  <2>1. Slack(failed) <= Slack(Failures) /\ Slack(failed) \in Nat /\ Slack(Failures) \in Nat
    BY SlackFacts
  <2>2. Lifetime >= 11 * (Period + 2 * RequestTime + Slack(Failures))
    BY DEF Slack
  <2> QED  BY <2>1, <2>2, FreshEnough DEF Oldest
<1>1. CASE TokenTick
  <2>1. UNCHANGED <<session, failed>> /\ token_age' = token_age + 1
    BY <1>0, <1>1 DEF TokenTick, Aged
  <2>2. success_age' = IF success_age = Never THEN Never ELSE success_age + 1
    BY <1>0, <1>1 DEF TokenTick, Aged
  <2>3. /\ attempt_age' \in {Never} \cup 0..Oldest
        /\ attempt_age = Never => attempt_age' = Never
        /\ attempt_age # Never =>
             \/ attempt_age' = attempt_age + 1
             \/ attempt_age' = attempt_age /\ attempt_age >= Cooldown
    <3>1. attempt_age' = Aged(attempt_age)
      BY <1>1 DEF TokenTick
    <3>2. attempt_age \in {Never} \cup 0..Oldest /\ Oldest \in Nat /\ Oldest >= Cooldown
      BY <1>0
    <3>3. CASE attempt_age \in {Never, Oldest}
      BY <3>1, <3>2, <3>3 DEF Aged
    <3>4. CASE attempt_age \notin {Never, Oldest}
      <4>1. attempt_age' = attempt_age + 1
        BY <3>1, <3>4 DEF Aged
      <4>2. attempt_age \in 0..Oldest - 1
        BY <3>2, <3>4
      <4>3. attempt_age' \in 0..Oldest /\ attempt_age # -1
        BY <3>2, <4>1, <4>2
      <4> QED  BY <4>1, <4>3
    <3> QED  BY <3>3, <3>4
  <2>4. CASE request = Never
    <3>1. /\ request' = Never /\ issued' = Never /\ next_round' = next_round - 1
          /\ next_round' \in 0..Period /\ next_round > 0
      BY <1>1, <2>4 DEF TokenTick, Aged
    <3>2. Slack(failed') = Slack(failed)
      BY <2>1
    <3> QED  BY <1>0, <2>1, <2>2, <2>3, <2>4, <3>1, <3>2
  <2>5. CASE request # Never
    <3>1. /\ request' = request + 1 /\ request' \in 0..RequestTime /\ next_round' = next_round
          /\ issued' = IF issued = Never THEN Never ELSE issued + 1
      BY <1>0, <1>1, <2>5 DEF TokenTick, Aged
    <3>2. Slack(failed') = Slack(failed)
      BY <2>1
    <3> QED  BY <1>0, <2>1, <2>2, <2>3, <2>5, <3>1, <3>2
  <2> QED  BY <2>4, <2>5
<1>2. CASE RoundRefreshes
  <2>1. Slack(failed') = Slack(failed)
    BY <1>2 DEF RoundRefreshes
  <2> QED  BY <1>0, <1>2, <2>1 DEF RoundRefreshes
<1>3. CASE RoundSkips
  <2>1. /\ UNCHANGED <<ages, request, issued, session, failed>>
        /\ next_round = 0 /\ request = Never /\ next_round' = Period /\ ~RefreshDue
    BY <1>3 DEF RoundSkips
  <2>2. Slack(failed') = Slack(failed)
    BY <2>1
  <2>3. 11 * token_age < 10 * Lifetime + 11 * (RequestTime + Slack(failed))
    <3>1. CASE cooldown_elapsed
      BY <1>0, <2>1, <3>1 DEF RefreshDue, proactive_refresh_due, refresh_timing_unknown
    <3>2. CASE ~cooldown_elapsed
      BY <1>0, <2>1, <3>2 DEF cooldown_elapsed
    <3> QED  BY <3>1, <3>2
  <2> QED  BY <1>0, <2>1, <2>2, <2>3 DEF ages
<1>4. CASE CloudIssues
  <2>1. UNCHANGED <<ages, next_round, request, failed>> /\ Slack(failed') = Slack(failed)
    BY <1>4 DEF CloudIssues
  <2> QED  BY <1>0, <1>4, <2>1 DEF CloudIssues, ages
<1>5. CASE AnswerArrives
  <2>1. /\ issued # Never /\ token_age' = issued /\ success_age' = 0 /\ attempt_age' = 0
        /\ request' = Never /\ issued' = Never /\ next_round' = Period /\ failed' = 0
        /\ session' = session
    BY <1>5 DEF AnswerArrives, Stamps
  <2>2. Slack(failed') \in Nat
    BY <2>1, SlackFacts
  <2> QED  BY <1>0, <2>1, <2>2
<1>6. CASE RequestLost
  <2>1. /\ UNCHANGED <<token_age, success_age, attempt_age, session>> /\ request # Never
        /\ request' = Never /\ issued' = Never /\ next_round' = Period
        /\ failed' = failed + 1 /\ failed' \in 0..Failures
    BY <1>6 DEF RequestLost, ages
  <2>2. Slack(failed') = Slack(failed) + Period + RequestTime
    BY <2>1, SlackFacts
  <2> QED  BY <1>0, <2>1, <2>2
<1>7. CASE SessionFlaps
  <2>1. UNCHANGED <<ages, next_round, request, issued, failed>> /\ Slack(failed') = Slack(failed)
    BY <1>7 DEF SessionFlaps
  <2>2. session' \in BOOLEAN
    BY <1>7 DEF SessionFlaps
  <2> QED  BY <2>1, <2>2 DEF ages
<1>8. CASE TokenRestart
  <2>1. /\ success_age' = Never /\ attempt_age' = Never /\ next_round' = 0
        /\ request' = Never /\ issued' = Never /\ token_age' = token_age
        /\ failed' = failed + (IF request = Never THEN 0 ELSE 1) /\ failed' \in 0..Failures
    BY <1>8 DEF TokenRestart
  <2>0. session' \in BOOLEAN
    BY <1>8, Zenon DEF TokenRestart
  <2>2. CASE request = Never
    <3>1. failed' = failed /\ Slack(failed') = Slack(failed)
      BY <2>1, <2>2
    <3> QED  BY <1>0, <2>0, <2>1, <2>2, <3>1
  <2>3. CASE request # Never
    <3>1. Slack(failed') = Slack(failed) + Period + RequestTime
      BY <2>1, <2>3, SlackFacts
    <3> QED  BY <1>0, <2>0, <2>1, <2>3, <3>1
  <2> QED  BY <2>2, <2>3
<1>9. CASE UNCHANGED timer
  <2>1. Slack(failed') = Slack(failed) /\ UNCHANGED <<token_age, success_age, attempt_age, next_round, request, issued, session, failed>>
    BY <1>9 DEF timer, ages
  <2> QED  BY <2>1
<1> QED
  BY <1>1, <1>2, <1>3, <1>4, <1>5, <1>6, <1>7, <1>8, <1>9 DEF TokenNext

\* The access token is renewed before it expires, for every lifetime, period, request
\* time and number of failures in a row that leave the room of TokenAssumption.
THEOREM TokenAlwaysFresh == TokenSpec => []TokenStaysFresh
<1>1. TokenInv => TokenStaysFresh
  BY FreshEnough DEF TokenStaysFresh
<1> QED  BY <1>1, TokenInvStarts, TokenInvKept, PTL DEF TokenSpec

-----------------------------------------------------------------------------
(* CoreButton *)

\* Where the button and what the task thinks of it stand to each other: the task learns
\* of a press and of its end less than a period late.
Pressed == level /\ last_pressed =>
  press_age <= level_age /\ level_age < press_age + PollPeriod
PressUnseen == level /\ ~last_pressed => level_age + next_poll < PollPeriod
ReleaseUnseen == ~level /\ last_pressed =>
  /\ level_age + next_poll < PollPeriod
  /\ press_age <= press_length + level_age /\ press_length < press_age + PollPeriod
Released == ~level /\ ~last_pressed =>
  resetting \/ press_length < FactoryReset + PollPeriod
Resetting == resetting =>
  ~level /\ ~last_pressed /\ press_length + PollPeriod > FactoryReset
ButtonInv == ButtonTypeOK /\ Pressed /\ PressUnseen /\ ReleaseUnseen /\ Released /\ Resetting

\* An age that is no longer told apart stays on its side of every other.
LEMMA OlderFacts ==
  ASSUME NEW age \in 0..MaxAge
  PROVE  /\ MaxAge \in Nat /\ MaxAge = FactoryReset + 2 * PollPeriod
         /\ Older(age) \in 0..MaxAge
         /\ \/ Older(age) = age + 1
            \/ Older(age) = age /\ age = MaxAge
  BY ButtonAssumption DEF Older, MaxAge

LEMMA ButtonInvStarts == ButtonInit => ButtonInv
<1> SUFFICES ASSUME ButtonInit PROVE ButtonInv
  OBVIOUS
<1>1. /\ MaxAge \in Nat /\ 0 \in 0..MaxAge /\ 0 \in 0..PollPeriod
      /\ 0 < FactoryReset + PollPeriod
  BY ButtonAssumption DEF MaxAge
<1>2. ~level /\ ~last_pressed /\ ~hold_feedback_armed /\ ~resetting
  BY DEF ButtonInit
<1>3. ButtonTypeOK
  BY <1>1 DEF ButtonInit, ButtonTypeOK
<1>4. press_length = 0
  BY DEF ButtonInit
<1> QED
  BY <1>1, <1>2, <1>3, <1>4
     DEF ButtonInv, Pressed, PressUnseen, ReleaseUnseen, Released, Resetting

LEMMA ButtonInvKept == ButtonInv /\ [ButtonNext]_button => ButtonInv'
<1> SUFFICES ASSUME ButtonInv, [ButtonNext]_button PROVE ButtonInv'
  OBVIOUS
<1> USE ButtonAssumption
    DEF ButtonInv, ButtonTypeOK, Pressed, PressUnseen, ReleaseUnseen, Released, Resetting
<1>0. MaxAge \in Nat /\ MaxAge = FactoryReset + 2 * PollPeriod
  BY DEF MaxAge
<1>1. CASE ButtonTick
  <2>1. /\ ~resetting /\ next_poll > 0 /\ next_poll' = next_poll - 1
        /\ UNCHANGED <<last_pressed, hold_feedback_armed, led_mode, resetting>>
    BY <1>1 DEF ButtonTick
  <2>2. /\ press_age' \in 0..MaxAge
        /\ ~last_pressed => press_age' = 0
        /\ last_pressed => \/ press_age' = press_age + 1
                           \/ press_age' = press_age /\ press_age = MaxAge
    BY <1>0, <1>1, OlderFacts DEF ButtonTick
  <2>3. CASE UNCHANGED <<level, press_length>> /\ level_age' = Older(level_age)
    <3>1. /\ level_age' \in 0..MaxAge
          /\ \/ level_age' = level_age + 1
             \/ level_age' = level_age /\ level_age = MaxAge
      BY <2>3, OlderFacts
    <3> QED  BY <1>0, <2>1, <2>2, <2>3, <3>1
  <2>4. CASE /\ ~level /\ level_age > PollPeriod /\ level' = TRUE /\ level_age' = 0
             /\ UNCHANGED press_length
    BY <1>0, <2>1, <2>2, <2>4
  <2>5. CASE /\ level /\ level' = FALSE /\ level_age' = 0
             /\ press_length' = Older(level_age)
    <3>1. /\ press_length' \in 0..MaxAge
          /\ \/ press_length' = level_age + 1
             \/ press_length' = level_age /\ level_age = MaxAge
      BY <2>5, OlderFacts
    <3>2. ButtonTypeOK'
      <4>1. {level', last_pressed', hold_feedback_armed', resetting'} \subseteq BOOLEAN
        BY <2>1, <2>5, Zenon
      <4>2. /\ {level_age', press_length', press_age'} \subseteq 0..MaxAge
            /\ next_poll' \in 0..PollPeriod /\ led_mode' = led_mode
            /\ last_pressed => press_age' >= press_age
        BY <1>0, <2>1, <2>2, <2>5, <3>1
      <4>3. hold_feedback_armed' => last_pressed' /\ press_age' >= HoldFeedback
        BY <2>1, <4>2
      <4> QED  BY <4>1, <4>2, <4>3
    <3>3. Pressed' /\ PressUnseen' /\ Resetting'
      BY <2>1, <2>5
    <3>4. CASE last_pressed
      BY <1>0, <2>1, <2>2, <2>5, <3>1, <3>2, <3>3, <3>4
    <3>5. CASE ~last_pressed
      BY <1>0, <2>1, <2>2, <2>5, <3>1, <3>2, <3>3, <3>5
    <3> QED  BY <3>4, <3>5
  <2> QED  BY <1>1, <2>3, <2>4, <2>5 DEF ButtonTick
<1>2. CASE PollPressed
  <2>1. /\ ~resetting /\ level /\ next_poll = 0 /\ next_poll' = PollPeriod
        /\ last_pressed' = TRUE /\ press_age' = (IF last_pressed THEN press_age ELSE 0)
        /\ UNCHANGED <<level, level_age, press_length, resetting>>
    BY <1>2 DEF PollPressed, Poll, HeldSoFar, external
  <2>2. /\ press_age' \in 0..MaxAge /\ 0 \in 0..MaxAge /\ PollPeriod \in 0..PollPeriod
    BY <1>0, <2>1
  <2>3. /\ led_mode' \in {"Auto", "ButtonHold", "other"} /\ hold_feedback_armed' \in BOOLEAN
        /\ hold_feedback_armed' => press_age' >= HoldFeedback
    <3>1. CASE HeldSoFar >= HoldFeedback /\ ~hold_feedback_armed
      <4>1. led_mode' = "ButtonHold" /\ hold_feedback_armed' = TRUE /\ press_age' = HeldSoFar
        BY <1>2, <3>1 DEF PollPressed
      <4> QED  BY <3>1, <4>1
    <3>2. CASE ~(HeldSoFar >= HoldFeedback /\ ~hold_feedback_armed)
      <4>1. UNCHANGED <<led_mode, hold_feedback_armed>>
        BY <1>2, <3>2 DEF PollPressed
      <4>2. hold_feedback_armed => press_age' = press_age
        BY <2>1
      <4> QED  BY <4>1, <4>2
    <3> QED  BY <3>1, <3>2
  <2>4. ButtonTypeOK'
    BY <2>1, <2>2, <2>3
  <2> QED  BY <1>0, <2>1, <2>4
<1>3. CASE PollReleased
  <2>1. /\ ~level /\ last_pressed /\ next_poll = 0 /\ next_poll' = PollPeriod
        /\ last_pressed' = FALSE /\ hold_feedback_armed' = FALSE /\ press_age' = 0
        /\ led_mode' = "Auto" /\ resetting' = (press_age >= FactoryReset)
        /\ UNCHANGED <<level, level_age, press_length>>
    BY <1>3 DEF PollReleased, Poll, external
  <2>2. ButtonTypeOK'
    <3>0. resetting' \in BOOLEAN
      BY <2>1
    <3>1. {level', last_pressed', hold_feedback_armed', resetting'} \subseteq BOOLEAN
      BY <2>1, <3>0, Zenon
    <3>2. {level_age', press_length', press_age'} \subseteq 0..MaxAge
      BY <1>0, <2>1
    <3>3. next_poll' \in 0..PollPeriod /\ led_mode' \in {"Auto", "ButtonHold", "other"}
      BY <2>1
    <3> QED  BY <2>1, <3>1, <3>2, <3>3
  <2>3. resetting' <=> press_age >= FactoryReset
    BY <2>1
  <2> QED  BY <1>0, <2>1, <2>2, <2>3
<1>4. CASE PollIdle
  BY <1>4 DEF PollIdle, Poll, external, task
<1>5. CASE OthersSetMode
  BY <1>5 DEF OthersSetMode, external
<1>6. CASE ButtonRestart
  <2>1. /\ resetting /\ next_poll' = 0 /\ press_age' = 0 /\ press_length' = 0
        /\ last_pressed' = FALSE /\ hold_feedback_armed' = FALSE /\ resetting' = FALSE
        /\ led_mode' = "other" /\ UNCHANGED <<level, level_age>>
    BY <1>6 DEF ButtonRestart
  <2>2. ButtonTypeOK'
    <3>1. {level', last_pressed', hold_feedback_armed', resetting'} \subseteq BOOLEAN
      BY <2>1, Zenon
    <3>2. {level_age', press_length', press_age'} \subseteq 0..MaxAge
      BY <1>0, <2>1
    <3>3. next_poll' \in 0..PollPeriod /\ led_mode' \in {"Auto", "ButtonHold", "other"}
      BY <2>1
    <3> QED  BY <2>1, <3>1, <3>2, <3>3
  <2> QED  BY <1>0, <2>1, <2>2
<1>7. CASE UNCHANGED button
  BY <1>7 DEF button, external, task
<1> QED
  BY <1>1, <1>2, <1>3, <1>4, <1>5, <1>6, <1>7 DEF ButtonNext

\* For every period and every pair of thresholds: a reset was asked for by a press that
\* is at most a period short, and a press a period longer than asked for is a reset.
THEOREM ResetMatchesAlways == ButtonSpec => []ResetMatchesPress
<1>1. ButtonInv => ResetMatchesPress
  BY ButtonAssumption
     DEF ButtonInv, ButtonTypeOK, ReleaseUnseen, Released, Resetting, ResetMatchesPress, MaxAge
<1> QED  BY <1>1, ButtonInvStarts, ButtonInvKept, PTL DEF ButtonSpec

-----------------------------------------------------------------------------
(* CoreWifi *)

\* What a flag will be once the handler has gone through events: raised by an event of
\* kind up or TRUE from before, with no lost link after that.
WillBe(flag, up_event, events) ==
  \/ flag /\ \A i \in 1..Len(events) : events[i] # "STA_DISCONNECTED"
  \/ \E i \in 1..Len(events) :
       events[i] = up_event /\ \A j \in (i + 1)..Len(events) : events[j] # "STA_DISCONNECTED"

\* What the handling of one event makes of a flag.
Becomes(flag, up_event, event) ==
  event = up_event \/ (event # "STA_DISCONNECTED" /\ flag)

UpEvents == {"STA_CONNECTED", "GOT_IP"}

LEMMA NoEventPending ==
  ASSUME NEW flag \in BOOLEAN, NEW up_event \in UpEvents
  PROVE  WillBe(flag, up_event, << >>) <=> flag
  BY DEF WillBe

LEMMA EventPosted ==
  ASSUME NEW flag \in BOOLEAN, NEW up_event \in UpEvents, NEW events \in Seq(Events),
         NEW event \in Events
  PROVE  WillBe(flag, up_event, Append(events, event))
           <=> Becomes(WillBe(flag, up_event, events), up_event, event)
<1> DEFINE longer == Append(events, event)
<1>1. /\ Len(events) \in Nat /\ Len(longer) = Len(events) + 1
      /\ longer[Len(events) + 1] = event
      /\ \A i \in 1..Len(events) : longer[i] = events[i]
  OBVIOUS
<1>2. up_event # "STA_DISCONNECTED"
  BY DEF UpEvents
<1> HIDE DEF longer
<1> DEFINE k == Len(events)
<1>3. WillBe(flag, up_event, longer) <=>
        \/ flag /\ \A i \in 1..(k + 1) : longer[i] # "STA_DISCONNECTED"
        \/ \E i \in 1..(k + 1) :
             longer[i] = up_event /\ \A j \in (i + 1)..(k + 1) : longer[j] # "STA_DISCONNECTED"
  BY <1>1 DEF WillBe
<1>4. WillBe(flag, up_event, events) <=>
        \/ flag /\ \A i \in 1..k : longer[i] # "STA_DISCONNECTED"
        \/ \E i \in 1..k :
             longer[i] = up_event /\ \A j \in (i + 1)..k : longer[j] # "STA_DISCONNECTED"
  BY <1>1 DEF WillBe
<1>5. k \in Nat /\ longer[k + 1] = event
  BY <1>1
<1>6. (\A i \in 1..(k + 1) : longer[i] # "STA_DISCONNECTED")
        <=> event # "STA_DISCONNECTED" /\ \A i \in 1..k : longer[i] # "STA_DISCONNECTED"
  <2>1. 1..(k + 1) = 1..k \cup {k + 1}
    BY <1>5
  <2> QED  BY <1>5, <2>1
<1>7. ASSUME NEW i \in 1..k
      PROVE  (\A j \in (i + 1)..(k + 1) : longer[j] # "STA_DISCONNECTED")
               <=> /\ event # "STA_DISCONNECTED"
                   /\ \A j \in (i + 1)..k : longer[j] # "STA_DISCONNECTED"
  <2>1. (i + 1)..(k + 1) = (i + 1)..k \cup {k + 1}
    BY <1>5
  <2> QED  BY <1>5, <2>1
<1>8. \A j \in (k + 2)..(k + 1) : longer[j] # "STA_DISCONNECTED"
  BY <1>5
<1>9. (\E i \in 1..(k + 1) :
         longer[i] = up_event /\ \A j \in (i + 1)..(k + 1) : longer[j] # "STA_DISCONNECTED")
        <=> \/ event = up_event
            \/ /\ event # "STA_DISCONNECTED"
               /\ \E i \in 1..k :
                    longer[i] = up_event /\ \A j \in (i + 1)..k : longer[j] # "STA_DISCONNECTED"
  <2>1. 1..(k + 1) = 1..k \cup {k + 1} /\ (k + 1) + 1 = k + 2
    BY <1>5
  <2>2. (\E i \in 1..(k + 1) :
           longer[i] = up_event /\ \A j \in (i + 1)..(k + 1) : longer[j] # "STA_DISCONNECTED")
          <=> \/ longer[k + 1] = up_event
              \/ \E i \in 1..k :
                   longer[i] = up_event /\ \A j \in (i + 1)..(k + 1) : longer[j] # "STA_DISCONNECTED"
    BY <1>8, <2>1
  <2> QED  BY <1>5, <1>7, <2>2
<1>10. WillBe(flag, up_event, longer) <=> Becomes(WillBe(flag, up_event, events), up_event, event)
  BY <1>2, <1>3, <1>4, <1>6, <1>9 DEF Becomes
<1> QED  BY <1>10 DEF longer

LEMMA EventHandled ==
  ASSUME NEW flag \in BOOLEAN, NEW up_event \in UpEvents, NEW events \in Seq(Events),
         events # << >>
  PROVE  WillBe(flag, up_event, events)
           <=> WillBe(Becomes(flag, up_event, Head(events)), up_event, Tail(events))
<1> DEFINE n == Len(events)
<1>1. /\ n \in Nat /\ n >= 1 /\ Head(events) = events[1] /\ Len(Tail(events)) = n - 1
      /\ \A i \in 1..(n - 1) : Tail(events)[i] = events[i + 1]
  OBVIOUS
<1>2. up_event # "STA_DISCONNECTED"
  BY DEF UpEvents
<1>3. WillBe(Becomes(flag, up_event, Head(events)), up_event, Tail(events)) <=>
        \/ /\ Becomes(flag, up_event, events[1])
           /\ \A i \in 1..(n - 1) : events[i + 1] # "STA_DISCONNECTED"
        \/ \E i \in 1..(n - 1) :
             /\ events[i + 1] = up_event
             /\ \A j \in (i + 1)..(n - 1) : events[j + 1] # "STA_DISCONNECTED"
  BY <1>1 DEF WillBe
<1>4. (\A i \in 1..(n - 1) : events[i + 1] # "STA_DISCONNECTED")
        <=> (\A i \in 2..n : events[i] # "STA_DISCONNECTED")
  <2>1. \A i \in 2..n : i - 1 \in 1..(n - 1) /\ (i - 1) + 1 = i
    BY <1>1
  <2>2. \A i \in 1..(n - 1) : i + 1 \in 2..n
    BY <1>1
  <2> QED  BY <2>1, <2>2
<1>5. ASSUME NEW i \in 1..(n - 1)
      PROVE  (\A j \in (i + 1)..(n - 1) : events[j + 1] # "STA_DISCONNECTED")
               <=> (\A j \in (i + 2)..n : events[j] # "STA_DISCONNECTED")
  <2>1. \A j \in (i + 2)..n : j - 1 \in (i + 1)..(n - 1) /\ (j - 1) + 1 = j
    BY <1>1
  <2>2. \A j \in (i + 1)..(n - 1) : j + 1 \in (i + 2)..n
    BY <1>1
  <2> QED  BY <2>1, <2>2
<1> DEFINE After(i) == \A j \in (i + 1)..n : events[j] # "STA_DISCONNECTED"
<1>6. (\E i \in 1..(n - 1) :
         /\ events[i + 1] = up_event
         /\ \A j \in (i + 1)..(n - 1) : events[j + 1] # "STA_DISCONNECTED")
        <=> \E i \in 2..n : events[i] = up_event /\ After(i)
  <2>1. \A i \in 2..n : i - 1 \in 1..(n - 1) /\ (i - 1) + 1 = i /\ (i - 1) + 2 = i + 1
    BY <1>1
  <2>2. \A i \in 1..(n - 1) : i + 1 \in 2..n /\ (i + 1) + 1 = i + 2
    BY <1>1
  <2> QED  BY <1>5, <2>1, <2>2
<1>7. WillBe(flag, up_event, events) <=>
        \/ flag /\ \A i \in 1..n : events[i] # "STA_DISCONNECTED"
        \/ \E i \in 1..n : events[i] = up_event /\ After(i)
  BY DEF WillBe
<1>8. 1..n = {1} \cup 2..n
  BY <1>1
<1>9. After(1) <=> \A i \in 2..n : events[i] # "STA_DISCONNECTED"
  OBVIOUS
<1> HIDE DEF n, After
<1> QED  BY <1>2, <1>3, <1>4, <1>6, <1>7, <1>8, <1>9 DEF Becomes

\* ReadyMeansOnline speaks of an empty queue; between two of those the flags follow the
\* driver by way of the queue, except that a recovery lowers them before it disconnects.
WillBeConnected == WillBe(wifi_connected, "STA_CONNECTED", wifi_events)
WillBeReady == WillBe(network_ready, "GOT_IP", wifi_events)
FlagsTyped ==
  wifi_events \in Seq(Events) /\ wifi_connected \in BOOLEAN /\ network_ready \in BOOLEAN
FollowDriver ==
  /\ WillBeConnected => driver \in {"associated", "online"}
  /\ WillBeReady => driver = "online"
  /\ recovery \notin {"clear", "disconnect"} =>
       /\ driver \in {"associated", "online"} => WillBeConnected
       /\ driver = "online" => WillBeReady
WifiInv == FlagsTyped /\ FollowDriver

LEMMA Posted ==
  ASSUME FlagsTyped, NEW event \in Events, Post(event), UNCHANGED <<wifi_connected, network_ready>>
  PROVE  /\ FlagsTyped'
         /\ WillBeConnected' <=> Becomes(WillBeConnected, "STA_CONNECTED", event)
         /\ WillBeReady' <=> Becomes(WillBeReady, "GOT_IP", event)
<1>1. wifi_events' = Append(wifi_events, event)
  BY DEF Post
<1>2. FlagsTyped'
  BY <1>1 DEF FlagsTyped
<1>3. {"STA_CONNECTED", "GOT_IP"} \subseteq UpEvents
  BY DEF UpEvents
<1> QED  BY <1>1, <1>2, <1>3, EventPosted DEF FlagsTyped, WillBeConnected, WillBeReady

LEMMA NothingChanged ==
  UNCHANGED <<wifi_events, wifi_connected, network_ready>> /\ FlagsTyped =>
    FlagsTyped' /\ (WillBeConnected' <=> WillBeConnected) /\ (WillBeReady' <=> WillBeReady)
  BY DEF FlagsTyped, WillBeConnected, WillBeReady

\* The recovery lowers a flag: what it will be can only fall.
LEMMA FlagLowered ==
  ASSUME NEW flag \in BOOLEAN, NEW up_event, NEW events, WillBe(FALSE, up_event, events)
  PROVE  WillBe(flag, up_event, events)
  BY DEF WillBe

LEMMA StartedDriver ==
  ASSUME WifiInv, esp_wifi_start, UNCHANGED <<wifi_connected, network_ready>>
  PROVE  /\ FlagsTyped' /\ (WillBeConnected' <=> WillBeConnected) /\ (WillBeReady' <=> WillBeReady)
         /\ \/ driver' = driver
            \/ driver = "stopped" /\ driver' = "idle"
<1>1. CASE driver = "stopped"
  <2>1. driver' = "idle" /\ Post("STA_START") /\ "STA_START" \in Events
    BY <1>1 DEF esp_wifi_start, Events
  <2>2. /\ Becomes(WillBeConnected, "STA_CONNECTED", "STA_START") <=> WillBeConnected
        /\ Becomes(WillBeReady, "GOT_IP", "STA_START") <=> WillBeReady
    BY DEF Becomes
  <2>3. /\ FlagsTyped'
        /\ WillBeConnected' <=> Becomes(WillBeConnected, "STA_CONNECTED", "STA_START")
        /\ WillBeReady' <=> Becomes(WillBeReady, "GOT_IP", "STA_START")
    BY <2>1, Posted DEF WifiInv
  <2> QED  BY <1>1, <2>1, <2>2, <2>3
<1>2. CASE driver # "stopped"
  BY <1>2, NothingChanged DEF esp_wifi_start, WifiInv
<1> QED  BY <1>1, <1>2

LEMMA Rebooted == WifiBoots => WifiInv'
<1> SUFFICES ASSUME WifiBoots PROVE WifiInv'
  OBVIOUS
<1>1. wifi_events' = << >> /\ wifi_connected' = FALSE /\ network_ready' = FALSE /\ driver' = "stopped"
  BY DEF WifiBoots
<1>2. ~WillBe(FALSE, "STA_CONNECTED", << >>) /\ ~WillBe(FALSE, "GOT_IP", << >>)
  BY DEF WillBe
<1>3. ~WillBeConnected' /\ ~WillBeReady'
  BY <1>1, <1>2 DEF WillBeConnected, WillBeReady
<1>4. FlagsTyped'
  <2>1. << >> \in Seq(Events)
    OBVIOUS
  <2> QED  BY <1>1, <2>1, Zenon DEF FlagsTyped
<1> QED  BY <1>1, <1>3, <1>4 DEF WifiInv, FollowDriver

LEMMA WifiInvStarts == WifiInit("configure") => WifiInv
<1> SUFFICES ASSUME WifiInit("configure") PROVE WifiInv
  OBVIOUS
<1>1. wifi_events = << >> /\ wifi_connected = FALSE /\ network_ready = FALSE /\ driver = "stopped"
  BY DEF WifiInit
<1>2. ~WillBe(FALSE, "STA_CONNECTED", << >>) /\ ~WillBe(FALSE, "GOT_IP", << >>)
  BY DEF WillBe
<1>3. ~WillBeConnected /\ ~WillBeReady
  BY <1>1, <1>2 DEF WillBeConnected, WillBeReady
<1>4. FlagsTyped
  <2>1. << >> \in Seq(Events)
    OBVIOUS
  <2> QED  BY <1>1, <2>1, Zenon DEF FlagsTyped
<1> QED  BY <1>1, <1>3, <1>4 DEF WifiInv, FollowDriver

LEMMA WifiInvKept == WifiInv /\ [WifiNext]_wifi => WifiInv'
<1> SUFFICES ASSUME WifiInv, [WifiNext]_wifi PROVE WifiInv'
  OBVIOUS
<1> USE DEF WifiInv, FollowDriver, flags
<1>0. {"STA_CONNECTED", "GOT_IP", "STA_DISCONNECTED", "STA_START"} \subseteq Events
  BY DEF Events
<1>1. CASE Associates
  <2>1. /\ FlagsTyped' /\ WillBeConnected' /\ (WillBeReady' <=> WillBeReady)
    BY <1>0, <1>1, Posted DEF Associates, Becomes
  <2> QED  BY <1>1, <2>1 DEF Associates
<1>2. CASE GetsAddress
  <2>1. /\ FlagsTyped' /\ (WillBeConnected' <=> WillBeConnected) /\ WillBeReady'
    BY <1>0, <1>2, Posted DEF GetsAddress, Becomes
  <2> QED  BY <1>2, <2>1 DEF GetsAddress
<1>3. CASE Loses
  <2>1. FlagsTyped' /\ ~WillBeConnected' /\ ~WillBeReady'
    BY <1>0, <1>3, Posted DEF Loses, Becomes
  <2> QED  BY <1>3, <2>1 DEF Loses
<1>4. CASE wifi_event
  <2> DEFINE event == Head(wifi_events)
  <2>1. /\ wifi_events # << >> /\ wifi_events' = Tail(wifi_events) /\ event \in Events
        /\ wifi_events' \in Seq(Events) /\ wifi_events \in Seq(Events) /\ recovery' = recovery
    BY <1>4 DEF wifi_event, FlagsTyped
  <2>2. SetsFlags(event)
    BY <1>4 DEF wifi_event
  <2>3. /\ wifi_connected' = Becomes(wifi_connected, "STA_CONNECTED", event)
        /\ network_ready' = Becomes(network_ready, "GOT_IP", event)
    BY <2>1, <2>2 DEF SetsFlags, Becomes, Events, FlagsTyped
  <2>4. FlagsTyped'
    BY <2>1, <2>3 DEF FlagsTyped, Becomes
  <2>5. (WillBeConnected' <=> WillBeConnected) /\ (WillBeReady' <=> WillBeReady)
    <3>1. "STA_CONNECTED" \in UpEvents /\ "GOT_IP" \in UpEvents
      BY DEF UpEvents
    <3>2. wifi_connected \in BOOLEAN /\ network_ready \in BOOLEAN
      BY DEF FlagsTyped
    <3>3. WillBeConnected <=>
            WillBe(Becomes(wifi_connected, "STA_CONNECTED", event), "STA_CONNECTED", wifi_events')
      BY <2>1, <3>1, <3>2, EventHandled DEF WillBeConnected
    <3>4. WillBeReady <=>
            WillBe(Becomes(network_ready, "GOT_IP", event), "GOT_IP", wifi_events')
      BY <2>1, <3>1, <3>2, EventHandled DEF WillBeReady
    <3> QED  BY <2>3, <3>3, <3>4 DEF WillBeConnected, WillBeReady
  <2>6. driver' = driver \/ (driver = "idle" /\ driver' = "connecting")
    BY <1>4 DEF wifi_event, esp_wifi_connect
  <2> QED  BY <2>1, <2>4, <2>5, <2>6
<1>5. CASE WifiRestart
  BY <1>5, Rebooted DEF WifiRestart
<1>6. ASSUME NEW network \in Networks, LegacyPayload(network) PROVE WifiInv'
  BY <1>6, NothingChanged DEF LegacyPayload, station
<1>7. ASSUME NEW c \in Connectors, Configures(c) PROVE WifiInv'
  <2>1. \/ WifiBoots
        \/ UNCHANGED <<driver, wifi_events, wifi_connected, network_ready, recovery>>
    BY <1>7 DEF Configures, station
  <2> QED  BY <2>1, Rebooted, NothingChanged
<1>8. ASSUME NEW c \in Connectors, Starts(c) PROVE WifiInv'
  BY <1>8, StartedDriver DEF Starts
<1>9. CASE RecoveryStarts
  <2>1. /\ wifi_events' = wifi_events /\ network_ready' = FALSE /\ driver' = driver
        /\ wifi_connected' = wifi_connected /\ recovery' = "clear"
    BY <1>9 DEF RecoveryStarts, station
  <2>2. FlagsTyped' /\ (WillBeConnected' <=> WillBeConnected) /\ (WillBeReady' => WillBeReady)
    BY <2>1, FlagLowered DEF FlagsTyped, WillBeConnected, WillBeReady
  <2> QED  BY <2>1, <2>2
<1>10. CASE RecoveryClears
  <2>1. /\ wifi_events' = wifi_events /\ network_ready' = network_ready /\ driver' = driver
        /\ wifi_connected' = FALSE /\ recovery' = "disconnect"
    BY <1>10 DEF RecoveryClears, station
  <2>2. FlagsTyped' /\ (WillBeConnected' => WillBeConnected) /\ (WillBeReady' <=> WillBeReady)
    BY <2>1, FlagLowered DEF FlagsTyped, WillBeConnected, WillBeReady
  <2> QED  BY <2>1, <2>2
<1>11. CASE RecoveryDisconnects
  <2>1. CASE driver \in {"connecting", "associated", "online"}
    <3>1. /\ Post("STA_DISCONNECTED") /\ driver' = "idle"
          /\ UNCHANGED <<wifi_connected, network_ready>>
      BY <1>11, <2>1 DEF RecoveryDisconnects
    <3>2. FlagsTyped' /\ ~WillBeConnected' /\ ~WillBeReady'
      BY <1>0, <3>1, Posted DEF Becomes
    <3> QED  BY <3>1, <3>2
  <2>2. CASE driver \notin {"connecting", "associated", "online"}
    BY <1>11, <2>2, NothingChanged DEF RecoveryDisconnects
  <2> QED  BY <2>1, <2>2
<1>12. CASE RecoveryStops
  <2>0. driver' = "stopped" /\ UNCHANGED <<wifi_connected, network_ready>>
    BY <1>12 DEF RecoveryStops
  <2>1. CASE Post("STA_DISCONNECTED")
    <3>2. FlagsTyped' /\ ~WillBeConnected' /\ ~WillBeReady'
      BY <1>0, <2>0, <2>1, Posted DEF Becomes
    <3> QED  BY <2>0, <3>2
  <2>2. CASE driver \notin {"associated", "online"} /\ UNCHANGED wifi_events
    BY <2>0, <2>2, NothingChanged
  <2> QED  BY <1>12, <2>1, <2>2 DEF RecoveryStops
<1>13. CASE RecoveryConfigures
  <2>1. \/ WifiBoots
        \/ /\ UNCHANGED <<driver, wifi_events, wifi_connected, network_ready>>
           /\ recovery = "configure" /\ recovery' = "start"
    BY <1>13 DEF RecoveryConfigures
  <2> QED  BY <2>1, Rebooted, NothingChanged
<1>14. CASE RecoveryEnds
  BY <1>14, StartedDriver DEF RecoveryEnds
<1>15. CASE UNCHANGED wifi
  BY <1>15, NothingChanged DEF wifi, station
<1> QED
  BY <1>1, <1>2, <1>3, <1>4, <1>5, <1>6, <1>7, <1>8, <1>9, <1>10, <1>11, <1>12, <1>13, <1>14,
     <1>15 DEF WifiNext, Recovery

\* For every queue length and set of networks: the flags are right whenever the handler
\* has caught up and no recovery is under way, whoever started or stopped the driver.
THEOREM ReadyAlwaysMeansOnline == WifiSpec => []ReadyMeansOnline
<1>1. WifiInv => ReadyMeansOnline
  <2> SUFFICES ASSUME WifiInv, wifi_events = << >>, recovery = "idle"
               PROVE  /\ network_ready = (driver = "online")
                      /\ wifi_connected = (driver \in {"associated", "online"})
    BY DEF ReadyMeansOnline
  <2>1. wifi_connected \in BOOLEAN /\ network_ready \in BOOLEAN
    BY DEF WifiInv, FlagsTyped
  <2>2. (WillBeConnected <=> wifi_connected) /\ (WillBeReady <=> network_ready)
    BY <2>1, NoEventPending DEF WillBeConnected, WillBeReady, UpEvents
  <2> QED  BY <2>1, <2>2 DEF WifiInv, FollowDriver
<1> QED  BY <1>1, WifiInvStarts, WifiInvKept, PTL DEF WifiSpec

-----------------------------------------------------------------------------
(* The types of the components that MCCoreDevice checks *)

LEMMA CommandsAreTyped ==
  /\ Idle \in [command : {"none", "upgrade", "restart", "clear", "temp"}]
  /\ Asks("restart") \in [command : {"none", "upgrade", "restart", "clear", "temp"}]
  BY DEF Idle, Asks

LEMMA CommandsTypeStarts == CommandsInit => CommandsTypeOK
<1> SUFFICES ASSUME CommandsInit PROVE CommandsTypeOK
  OBVIOUS
<1>1. {ota_in_progress, ota_client, ota_handle, credentials} \subseteq BOOLEAN
  BY Zenon DEF CommandsInit, OtaInit
<1>2. image \in [Slots -> 0..SlotBlocks] /\ {running, boot} \subseteq Slots
  BY CommandsAssumption DEF CommandsInit, Slots
<1>3. handling \in [command : {"none", "upgrade", "restart", "clear", "temp"}]
  BY DEF CommandsInit, Idle
<1> QED  BY <1>1, <1>2, <1>3 DEF CommandsInit, OtaInit, CommandsTypeOK

\* No write goes past the slot, and no command leaves a flag or a slot out of its range.
LEMMA CommandsTypeKept == CommandsTypeOK /\ [CommandsNext]_commands => CommandsTypeOK'
<1> SUFFICES ASSUME CommandsTypeOK, [CommandsNext]_commands PROVE CommandsTypeOK'
  OBVIOUS
<1> USE CommandsAssumption
    DEF CommandsTypeOK, marked, update, Rest, At, Goto
<1>0. running \in Slots /\ Next_update_partition \in Slots
  BY OtherSlot DEF Next_update_partition
<1>1. ASSUME NEW m \in Messages, handle_core_mqtt_route(m) PROVE CommandsTypeOK'
  <2>1. UNCHANGED <<update, marked, running, credentials>>
        /\ handling' \in [command : {"none", "upgrade", "restart", "clear", "temp"}]
    BY <1>1, EffectTyped DEF handle_core_mqtt_route
  <2>2. temp' \in Temps \cup {NoTemp}
    BY <1>1 DEF handle_core_mqtt_route
  <2> QED  BY <2>1, <2>2
<1>2. CASE TempHandled \/ clear_credentials
  <2>1. credentials' \in BOOLEAN /\ UNCHANGED <<update, marked, running, temp>>
    BY <1>2, Zenon DEF TempHandled, clear_credentials
  <2>2. handling' \in [command : {"none", "upgrade", "restart", "clear", "temp"}]
    BY <1>2, CommandsAreTyped DEF TempHandled, clear_credentials
  <2> QED  BY <2>1, <2>2
<1>3. CASE OtaRefused
  BY <1>3, CommandsAreTyped DEF OtaRefused
<1>4. CASE OtaStarts
  BY <1>4 DEF OtaStarts
<1>5. CASE OtaOpens
  BY <1>5 DEF OtaOpens
<1>6. CASE OtaBegins
  <2>1. /\ handling' = handling /\ ota' \in {"read", "cleanup"}
        /\ UNCHANGED <<ota_in_progress, ota_client, boot, running, credentials, temp>>
    BY <1>6 DEF OtaBegins
  <2>2. image' \in [Slots -> 0..SlotBlocks]
    BY <1>0, <1>6 DEF OtaBegins
  <2>3. ota_handle' \in BOOLEAN
    BY <1>6, Zenon DEF OtaBegins
  <2> QED  BY <2>1, <2>2, <2>3
<1>7. CASE OtaWrites
  BY <1>0, <1>7 DEF OtaWrites
<1>8. CASE OtaFails \/ OtaStreamEnds
  BY <1>8 DEF OtaFails, OtaStreamEnds
<1>9. CASE OtaEnds
  BY <1>9 DEF OtaEnds
<1>10. CASE OtaAborts
  BY <1>10 DEF OtaAborts
<1>11. CASE OtaMarks
  BY <1>0, <1>11 DEF OtaMarks
<1>12. CASE OtaCleansUp
  BY <1>12 DEF OtaCleansUp
<1>13. CASE OtaLeaves
  <2>1. handling' \in [command : {"none", "upgrade", "restart", "clear", "temp"}]
    BY <1>13, CommandsAreTyped DEF OtaLeaves
  <2> QED  BY <1>13, <2>1 DEF OtaLeaves
<1>14. CASE CommandRestart \/ PowerLoss
  <2>1. Booted
    BY <1>14 DEF CommandRestart, PowerLoss
  <2>2. {ota_in_progress', ota_client', ota_handle', credentials'} \subseteq BOOLEAN
    BY <2>1, Zenon DEF Booted
  <2> QED  BY <2>1, <2>2, CommandsAreTyped DEF Booted
<1>15. CASE UNCHANGED commands
  BY <1>15 DEF commands
<1> QED
  BY <1>1, <1>2, <1>3, <1>4, <1>5, <1>6, <1>7, <1>8, <1>9, <1>10, <1>11, <1>12, <1>13, <1>14,
     <1>15
  DEF CommandsNext, CommandSteps, OtaSteps

\* A driver joins the network of its settings, so these are somebody's whenever it has
\* started or is about to: WifiTypeOK alone is not inductive.
Settled ==
  /\ driver # "stopped" => sta_config # NoNetwork
  /\ \A c \in Connectors : connector[c] = "start" => sta_config # NoNetwork
  /\ recovery = "start" => sta_config # NoNetwork
  /\ recovery # "idle" => recovery_cfg # NoNetwork
WifiTypeInv == WifiTypeOK /\ Settled

LEMMA WifiTypeStarts ==
  ASSUME NEW main \in {"configure", "done"}, WifiInit(main)
  PROVE  WifiTypeInv
<1>1. wifi_events \in Seq(Events) /\ Len(wifi_events) <= MaxEvents
  BY WifiAssumption DEF WifiInit
<1>2. {wifi_connected, ip_acquired, network_ready} \subseteq BOOLEAN
  BY Zenon DEF WifiInit
<1>3. connector \in [Connectors -> {"done", "configure", "start"}]
      /\ \A c \in Connectors : connector[c] # "start"
  BY DEF WifiInit
<1> QED  BY <1>1, <1>2, <1>3 DEF WifiInit, WifiTypeInv, WifiTypeOK, Settled

LEMMA BootType == WifiTypeInv /\ WifiBoots /\ UNCHANGED wifi_ssid => WifiTypeInv'
<1> SUFFICES ASSUME WifiTypeInv, WifiBoots, UNCHANGED wifi_ssid PROVE WifiTypeInv'
  OBVIOUS
<1>1. wifi_events' \in Seq(Events) /\ Len(wifi_events') <= MaxEvents
  BY WifiAssumption DEF WifiBoots
<1>2. {wifi_connected', ip_acquired', network_ready'} \subseteq BOOLEAN
  BY Zenon DEF WifiBoots
<1>3. connector' \in [Connectors -> {"done", "configure", "start"}]
      /\ \A c \in Connectors : connector'[c] # "start"
  BY DEF WifiBoots
<1> QED  BY <1>1, <1>2, <1>3 DEF WifiBoots, WifiTypeInv, WifiTypeOK, Settled

LEMMA PostType ==
  ASSUME WifiTypeOK, NEW event \in Events, Post(event)
  PROVE  wifi_events' \in Seq(Events) /\ Len(wifi_events') <= MaxEvents
  BY WifiAssumption DEF Post, WifiTypeOK

LEMMA StartType ==
  ASSUME WifiTypeOK, esp_wifi_start
  PROVE  /\ wifi_events' \in Seq(Events) /\ Len(wifi_events') <= MaxEvents
         /\ driver' = IF driver = "stopped" THEN "idle" ELSE driver
<1>1. "STA_START" \in Events
  BY DEF Events
<1> QED  BY <1>1, PostType DEF esp_wifi_start, WifiTypeOK

LEMMA WifiTypeKept == WifiTypeInv /\ [WifiNext]_wifi => WifiTypeInv'
<1> SUFFICES ASSUME WifiTypeInv, [WifiNext]_wifi PROVE WifiTypeInv'
  OBVIOUS
<1> USE WifiAssumption DEF WifiTypeInv, WifiTypeOK, Settled, station, flags
<1>0. {"STA_START", "STA_CONNECTED", "STA_DISCONNECTED", "GOT_IP"} \subseteq Events
  BY DEF Events
<1>1. CASE Associates \/ GetsAddress \/ Loses
  <2>1. wifi_events' \in Seq(Events) /\ Len(wifi_events') <= MaxEvents
    BY <1>0, <1>1, PostType DEF Associates, GetsAddress, Loses
  <2> QED  BY <1>1, <2>1 DEF Associates, GetsAddress, Loses
<1>2. CASE wifi_event
  <2>1. wifi_events' \in Seq(Events) /\ Len(wifi_events') <= MaxEvents
    BY <1>2 DEF wifi_event
  <2>2. {wifi_connected', ip_acquired', network_ready'} \subseteq BOOLEAN
    BY <1>2, Zenon DEF wifi_event, SetsFlags
  <2>3. \/ driver' = driver
        \/ driver = "idle" /\ driver' = "connecting"
    BY <1>2 DEF wifi_event, esp_wifi_connect
  <2> QED  BY <1>2, <2>1, <2>2, <2>3 DEF wifi_event
<1>3. CASE WifiRestart
  BY <1>3, BootType DEF WifiRestart
<1>4. ASSUME NEW network \in Networks, LegacyPayload(network) PROVE WifiTypeInv'
  BY <1>4 DEF LegacyPayload, Connectors
<1>5. ASSUME NEW c \in Connectors, Configures(c) PROVE WifiTypeInv'
  <2>1. CASE wifi_ssid = NoNetwork
    BY <1>5, <2>1 DEF Configures
  <2>2. CASE wifi_ssid # NoNetwork /\ driver = "connecting"
    BY <1>5, <2>2, BootType DEF Configures
  <2>3. CASE wifi_ssid # NoNetwork /\ driver # "connecting"
    BY <1>5, <2>3 DEF Configures
  <2> QED  BY <2>1, <2>2, <2>3
<1>6. ASSUME NEW c \in Connectors, Starts(c) PROVE WifiTypeInv'
  BY <1>6, StartType DEF Starts
<1>7. CASE RecoveryStarts
  <2>1. {wifi_connected', ip_acquired', network_ready'} \subseteq BOOLEAN
    BY <1>7, Zenon DEF RecoveryStarts
  <2> QED  BY <1>7, <2>1 DEF RecoveryStarts
<1>8. CASE RecoveryClears
  <2>1. {wifi_connected', ip_acquired', network_ready'} \subseteq BOOLEAN
    BY <1>8, Zenon DEF RecoveryClears
  <2> QED  BY <1>8, <2>1 DEF RecoveryClears
<1>9. CASE RecoveryDisconnects
  <2>1. wifi_events' \in Seq(Events) /\ Len(wifi_events') <= MaxEvents
    BY <1>0, <1>9, PostType DEF RecoveryDisconnects
  <2> QED  BY <1>9, <2>1 DEF RecoveryDisconnects
<1>10. CASE RecoveryStops
  <2>1. wifi_events' \in Seq(Events) /\ Len(wifi_events') <= MaxEvents
    BY <1>0, <1>10, PostType DEF RecoveryStops
  <2> QED  BY <1>10, <2>1 DEF RecoveryStops
<1>11. CASE RecoveryConfigures
  <2>1. CASE driver = "connecting"
    BY <1>11, <2>1, BootType DEF RecoveryConfigures
  <2>2. CASE driver # "connecting"
    BY <1>11, <2>2 DEF RecoveryConfigures
  <2> QED  BY <2>1, <2>2
<1>12. CASE RecoveryEnds
  BY <1>12, StartType DEF RecoveryEnds
<1>13. CASE UNCHANGED wifi
  BY <1>13 DEF wifi
<1> QED
  BY <1>1, <1>2, <1>3, <1>4, <1>5, <1>6, <1>7, <1>8, <1>9, <1>10, <1>11, <1>12, <1>13
  DEF WifiNext, Recovery

\* A step of the device is a step, or none, of each component.
LEMMA EachItsOwn ==
  ASSUME [DeviceNext]_<<focus, parts>>
  PROVE  /\ [Next]_vars /\ [StorageNext]_storage /\ [WifiNext]_wifi /\ [TimeNext]_time
         /\ [CommandsNext]_commands /\ [ButtonNext]_button /\ [TokenNext]_timer
  BY Zenon DEF DeviceNext, parts

DeviceInv ==
  /\ TypeOK /\ StorageTypeOK /\ WifiTypeInv /\ TimeInv
  /\ CommandsTypeOK /\ ButtonInv /\ TokenInv

\* Every component keeps its types under its own faults, for every limit, size and period
\* of the assumptions: no queue grows past its limit, no block is written past the slot,
\* no age or clock leaves its range, and a link has a network.
THEOREM DeviceTypeCorrect == DeviceSpec => []DeviceTypeOK
<1>1. DeviceInit => DeviceInv
  <2> SUFFICES ASSUME DeviceInit PROVE DeviceInv
    OBVIOUS
  <2>1. WifiTypeInv
    <3>1. CASE focus = "wifi"
      BY <3>1, WifiTypeStarts DEF DeviceInit
    <3>2. CASE focus # "wifi"
      BY <3>2, WifiTypeStarts DEF DeviceInit
    <3> QED  BY <3>1, <3>2
  <2>2. Init /\ StorageInit /\ TimeInit /\ CommandsInit /\ ButtonInit /\ TokenInit
    BY DEF DeviceInit
  <2> QED
    BY <2>1, <2>2, TypeStarts, StorageTypeInit, TimeInvStarts, CommandsTypeStarts,
       ButtonInvStarts, TokenInvStarts DEF DeviceInv
<1>2. DeviceInv /\ [DeviceNext]_<<focus, parts>> => DeviceInv'
  BY EachItsOwn, TypeStep, StorageTypeStep, WifiTypeKept, TimeInvKept, CommandsTypeKept,
     ButtonInvKept, TokenInvKept DEF DeviceInv
<1>3. DeviceInv => DeviceTypeOK
  BY DEF DeviceInv, DeviceTypeOK, WifiTypeInv, TimeInv, ButtonInv, TokenInv
<1> QED  BY <1>1, <1>2, <1>3, PTL DEF DeviceSpec
=============================================================================
