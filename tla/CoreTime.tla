------------------------------ MODULE CoreTime ------------------------------
(***************************************************************************)
(* The wall clock of the device: the snapshot in NVS (save_time_to_nvs,    *)
(* restore_time_from_nvs), the SNTP pass of time_sync_task and the daily   *)
(* period of maintenance_task (core_http.cpp, core_app.cpp).               *)
(*                                                                         *)
(* Time is counted in coarse ticks up to Horizon.  The clock of a device   *)
(* that lost power starts at 0, far below ValidFrom (2017-01-01); a        *)
(* software restart leaves it running.  esp_timer (up) always restarts     *)
(* at 0.                                                                   *)
(***************************************************************************)
EXTENDS Naturals

CONSTANTS
  ValidFrom,   \* 1483228800 in has_valid_time and in sync_time_with_sntp
  FirstBoot,   \* true time when the device boots for the first time
  Horizon,     \* bound: the true time at which the model's clock stops
  MaxHalfSaved \* bound: restarts between the two values of a snapshot

ASSUME TimeAssumption ==
  /\ {ValidFrom, FirstBoot, Horizon, MaxHalfSaved} \subseteq Nat
  /\ FirstBoot < Horizon
  /\ Horizon < FirstBoot + ValidFrom     \* an unset clock does not become valid by running
  \* 2017 is longer ago than the device runs, however often a half-saved snapshot
  \* sets it back by the same offset
  /\ ValidFrom + (1 + MaxHalfSaved) * (Horizon - FirstBoot) <= FirstBoot

VARIABLES
  now,         \* true time
  up,          \* esp_timer_get_time
  clock,       \* the system clock
  saved_time, rtc_offset,      \* NVS namespace "time", 0 when absent
  net,         \* network_ready
  sync_due,    \* last_time_sync_us is 0 or a period ago
  sync,        \* where time_sync_task is; "none" is a null g_time_sync_task
  sntp,        \* the SNTP client polls
  read,        \* the clock as the task read it before saving
  half_saved   \* restarts between the two values, counted for the bound

passing == <<now, up, clock>>
snapshot == <<saved_time, rtc_offset>>
syncing == <<sync_due, sync, sntp, read>>
time == <<passing, snapshot, net, syncing, half_saved>>

TimeTypeOK ==
  /\ now \in FirstBoot..Horizon /\ up \in 0..(now - FirstBoot)
  /\ clock \in 0..Horizon
  /\ saved_time \in {0} \cup ValidFrom..Horizon /\ rtc_offset \in 0..(Horizon - FirstBoot)
  /\ {net, sync_due, sntp} \subseteq BOOLEAN
  /\ sync \in {"none", "start", "check", "delay", "save_time", "save_offset"}
  /\ sync \in {"none", "start"} => ~sntp
  /\ read \in {0} \cup ValidFrom..Horizon
  /\ half_saved \in 0..MaxHalfSaved

has_valid_time == clock >= ValidFrom

TimeInit ==
  /\ now = FirstBoot /\ up = 0 /\ clock = 0
  /\ saved_time = 0 /\ rtc_offset = 0
  /\ net = FALSE
  /\ sync_due = TRUE /\ sync = "none" /\ sntp = FALSE /\ read = 0
  /\ half_saved = 0

Tick ==
  /\ now < Horizon
  /\ now' = now + 1 /\ up' = up + 1 /\ clock' = clock + 1
  /\ UNCHANGED <<snapshot, net, syncing, half_saved>>

NetChanges == net' = ~net /\ UNCHANGED <<passing, snapshot, syncing, half_saved>>

-----------------------------------------------------------------------------
(* maintenance_task: the attempt counts even if xTaskCreate fails *)

PeriodElapses ==
  /\ ~sync_due /\ sync_due' = TRUE
  /\ UNCHANGED <<passing, snapshot, net, sync, sntp, read, half_saved>>

StartsSync ==
  /\ net /\ sync_due /\ sync = "none"
  /\ sync_due' = FALSE
  /\ sync' \in {"start", "none"}
  /\ UNCHANGED <<passing, snapshot, net, sntp, read, half_saved>>

\* Both outcomes happen again and again; creating a task does not always fail.
CreatesSync == StartsSync /\ sync' = "start"

-----------------------------------------------------------------------------
(* sync_time_with_sntp *)

SyncBegins ==
  /\ sync = "start" /\ sync' = "check"
  /\ sntp' = TRUE
  /\ UNCHANGED <<passing, snapshot, net, sync_due, read, half_saved>>

\* External: an answer takes a network round trip, longer than the way from
\* esp_sntp_init to the first check.
SntpAnswers ==
  /\ sntp /\ net /\ sync = "delay"
  /\ clock' = now
  /\ UNCHANGED <<now, up, snapshot, net, syncing, half_saved>>

SyncChecks ==
  /\ sync = "check"
  /\ IF has_valid_time THEN sync' = "save_time" /\ read' = clock
                       ELSE sync' = "delay" /\ UNCHANGED read
  /\ UNCHANGED <<passing, snapshot, net, sync_due, sntp, half_saved>>

SyncWaits ==
  /\ sync = "delay" /\ sync' = "check"
  /\ UNCHANGED <<passing, snapshot, net, sync_due, sntp, read, half_saved>>

\* time_sync_task clears g_time_sync_task and deletes itself.
Finished == sync' = "none" /\ sntp' = FALSE /\ read' = 0

\* Mutant: the client is stopped and the loop goes on.
TimesOutLooping ==
  /\ sync = "delay" /\ sntp' = FALSE
  /\ UNCHANGED <<passing, snapshot, net, sync_due, sync, read, half_saved>>

SyncTimesOut ==
  /\ sync = "delay"
  /\ Finished
  /\ UNCHANGED <<passing, snapshot, net, sync_due, half_saved>>

-----------------------------------------------------------------------------
(* The snapshot *)

\* save_time_to_nvs: nvs_open may fail, and the device may restart between the two
\* nvs_set_u64.
SavesTime ==
  /\ sync = "save_time"
  /\ \/ saved_time' = read /\ sync' = "save_offset" /\ UNCHANGED <<sntp, read>>
     \/ Finished /\ UNCHANGED saved_time
  /\ UNCHANGED <<passing, rtc_offset, net, sync_due, half_saved>>

SavesOffset ==
  /\ sync = "save_offset"
  /\ rtc_offset' = up
  /\ Finished
  /\ UNCHANGED <<passing, saved_time, net, sync_due, half_saved>>

\* Mutant: the offset is added instead of subtracted.
RestoredAhead(running) ==
  IF saved_time = 0 \/ rtc_offset = 0 THEN running ELSE saved_time + rtc_offset

\* restore_time_from_nvs runs in the first tick, when esp_timer reads 0.  It takes
\* rtc_offset for a point of the same count, and sets a running clock back, too.
Restored(running) ==
  IF saved_time = 0 \/ rtc_offset = 0 THEN running ELSE saved_time - rtc_offset

Reboots(running) ==
  /\ up' = 0 /\ clock' = Restored(running)
  /\ half_saved' = half_saved + (IF sync = "save_offset" THEN 1 ELSE 0)
  /\ half_saved' <= MaxHalfSaved
  /\ net' = FALSE
  /\ sync_due' = TRUE /\ sync' = "none" /\ sntp' = FALSE /\ read' = 0
  /\ UNCHANGED <<now, snapshot>>

TimeRestart == Reboots(clock)
PowerCycle == Reboots(0)

-----------------------------------------------------------------------------
SyncRuns == SyncBegins \/ SyncChecks \/ SavesTime \/ SavesOffset

TimeNext ==
  \/ Tick \/ NetChanges \/ PeriodElapses \/ StartsSync
  \/ SyncRuns \/ SntpAnswers \/ SyncWaits \/ SyncTimesOut
  \/ TimeRestart \/ PowerCycle
TimeSpec == TimeInit /\ [][TimeNext]_time

\* The tasks run, task creation and SNTP succeed some time.
TimeFairness ==
  /\ WF_time(PeriodElapses) /\ WF_time(SyncRuns)
  /\ WF_time(SyncWaits \/ SyncTimesOut)
  /\ SF_time(CreatesSync) /\ SF_time(SntpAnswers)
FairTimeSpec == TimeSpec /\ TimeFairness

-----------------------------------------------------------------------------
(* Properties *)

\* Telemetry never leaves with a time in the future: whatever restarts cut a save in
\* half and however old the snapshot is, a restored clock is not ahead of the truth.
NeverAhead == has_valid_time => clock <= now

\* Time becomes valid: once the network stays and restarts end, no timeout, failed
\* task creation or failed save keeps the gate closed.
Calm == <>[]net /\ <>[][~(TimeRestart \/ PowerCycle)]_time
TimeBecomesValid == Calm => <>[]has_valid_time

\* docs/storage-ota.html says "later resync with SNTP": once the network stays, the
\* clock is set from an SNTP answer again and again.  It is not: a pass ends
\* before any answer as soon as the clock is merely valid.
Resyncs == Calm => []<>(clock = now)
=============================================================================
