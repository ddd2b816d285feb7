------------------------- MODULE NimBLEAdvertising -------------------------
(***************************************************************************)
(* Legacy advertising of esp-nimble-cpp (NimBLEAdvertising.cpp) with the   *)
(* host's resets (NimBLEDevice.cpp) and the gap events that start it again *)
(* (NimBLEServer.cpp).  start is called by the application's task and by   *)
(* the host's task, which interleave between its calls of the host; an     *)
(* event handler runs to its end before the host's task takes the next.    *)
(*                                                                         *)
(* The host (external) loses data, advertising and connections when it     *)
(* resets, refuses calls until it is in sync again, and ends advertising   *)
(* when a peer connects.  The payloads are members of AdvData; how they    *)
(* are put together is the subject of NimBLEAdvertisementData.             *)
(***************************************************************************)
EXTENDS Naturals

CONSTANTS AdvData,       \* payloads of the application
          NoData,        \* an empty payload
          MaxLinks,      \* connections the host accepts
          Resets,        \* bound on the host's resets
          Changes        \* bound on the application's changes

StartTasks == {"app", "host"}   \* the application's and the host's

VARIABLES
  host_synced,
  m_advData, m_scanData, m_scanResp, m_advDataSet,
  m_duration,            \* "unset" (BLE_HS_FOREVER before a start), "forever" (0), "timed"
  adv_active, host_data, host_scan,   \* the host's side
  linked,                \* number of connections
  stage,                 \* where each task is inside start
  duration,              \* the argument each task gave to start
  asked,                 \* the application's last call made the device advertise forever
  resets, changes

payloads == <<m_advData, m_scanData, m_scanResp>>
host == <<adv_active, host_data, host_scan, linked>>
calls == <<stage, duration>>
counts == <<resets, changes>>
advertising == <<host_synced, payloads, m_advDataSet, m_duration, host, calls, asked, counts>>

AdvertisingInit ==
  /\ host_synced = TRUE                    \* NimBLEDevice::init waits for it
  /\ m_advData \in AdvData /\ m_scanData = NoData /\ m_scanResp = FALSE
  /\ m_advDataSet = FALSE /\ m_duration = "unset"
  /\ adv_active = FALSE /\ host_data = NoData /\ host_scan = NoData /\ linked = 0
  /\ stage = [t \in StartTasks |-> "idle"]
  /\ duration = [t \in StartTasks |-> "forever"]
  /\ asked = FALSE /\ resets = 0 /\ changes = 0

-----------------------------------------------------------------------------
(* start, one step per call of the host *)

Enter(t, s) == stage' = [stage EXCEPT ![t] = s]

\* Out of sync, start returns false to the application.
Told(t) == asked' = (asked /\ (host_synced \/ t = "host"))

StartChecks(t) ==
  /\ stage[t] = "check"
  /\ Enter(t, IF ~host_synced \/ adv_active THEN "idle"
              ELSE IF m_advDataSet THEN "go" ELSE "data")
  /\ Told(t)
  /\ UNCHANGED <<host_synced, payloads, m_advDataSet, m_duration, host, duration, counts>>

NeedsScan == m_scanResp /\ m_scanData # NoData

StartSetsData(t) ==
  /\ stage[t] = "data"
  /\ IF host_synced
       THEN /\ host_data' = m_advData /\ m_advDataSet' = TRUE
            /\ Enter(t, IF NeedsScan THEN "scan" ELSE "go")
       ELSE /\ Enter(t, "idle") /\ UNCHANGED <<host_data, m_advDataSet>>
  /\ Told(t)
  /\ UNCHANGED <<host_synced, payloads, m_duration, adv_active, host_scan, linked, duration, counts>>

StartSetsScan(t) ==
  /\ stage[t] = "scan"
  /\ IF host_synced
       THEN host_scan' = m_scanData /\ Enter(t, "go")
       ELSE Enter(t, "idle") /\ UNCHANGED host_scan
  /\ Told(t)
  /\ UNCHANGED <<host_synced, payloads, m_advDataSet, m_duration, adv_active, host_data, linked,
                 duration, counts>>

\* The duration is kept for the next sync before the host is asked.
StartGoes(t) ==
  /\ stage[t] = "go" /\ Enter(t, "idle")
  /\ m_duration' = duration[t]
  /\ adv_active' = (adv_active \/ (host_synced /\ linked < MaxLinks))
  /\ UNCHANGED <<host_synced, payloads, m_advDataSet, host_data, host_scan, linked, duration,
                 asked, counts>>

AdvertisingStart(t) == StartChecks(t) \/ StartSetsData(t) \/ StartSetsScan(t) \/ StartGoes(t)

-----------------------------------------------------------------------------
(* The application *)

AppIdle == stage["app"] = "idle"

\* It asks while it sees the host in sync, as init does.
AppStarts(d) ==
  /\ AppIdle /\ host_synced
  /\ stage' = [stage EXCEPT !["app"] = "check"]
  /\ duration' = [duration EXCEPT !["app"] = d]
  /\ asked' = (d = "forever" /\ (~adv_active \/ asked))   \* a running one stays as it is
  /\ UNCHANGED <<host_synced, payloads, m_advDataSet, m_duration, host, counts>>

\* m_duration keeps its value: the next sync starts advertising again.
AppStops ==
  /\ AppIdle /\ host_synced
  /\ adv_active' = FALSE /\ asked' = FALSE
  /\ UNCHANGED <<host_synced, payloads, m_advDataSet, m_duration, host_data, host_scan, linked,
                 calls, counts>>

CountsChange == AppIdle /\ changes < Changes /\ changes' = changes + 1 /\ UNCHANGED resets

\* addServiceUUID, setName, setManufacturerData, ...: into the payload that has room.
ChangesData(d) ==
  /\ CountsChange
  /\ \/ m_advData' = d /\ UNCHANGED m_scanData
     \/ m_scanData' = d /\ UNCHANGED m_advData
  /\ m_advDataSet' = FALSE
  /\ UNCHANGED <<host_synced, m_scanResp, m_duration, host, calls, asked>>

enableScanResponse(enable) ==
  /\ CountsChange
  /\ m_scanResp' = enable /\ m_advDataSet' = FALSE
  /\ UNCHANGED <<host_synced, m_advData, m_scanData, m_duration, host, calls, asked>>

clearAdvertisingData ==
  /\ CountsChange
  /\ \E flagsOnly \in AdvData : m_advData' = flagsOnly
  /\ m_scanData' = NoData /\ m_advDataSet' = FALSE
  /\ UNCHANGED <<host_synced, m_scanResp, m_duration, host, calls, asked>>

\* Without a stop and a start.
refreshAdvertisingData ==
  /\ AppIdle /\ host_synced
  /\ host_data' = m_advData /\ m_advDataSet' = TRUE
  /\ host_scan' = IF m_scanResp THEN m_scanData ELSE host_scan
  /\ UNCHANGED <<host_synced, payloads, m_duration, adv_active, linked, calls, asked, counts>>

-----------------------------------------------------------------------------
(* The host's task *)

HostIdle == stage["host"] = "idle"

\* A handler that calls startAdvertising, whose duration is 0.
HostStarts ==
  /\ stage' = [stage EXCEPT !["host"] = "check"]
  /\ duration' = [duration EXCEPT !["host"] = "forever"]

\* Connections and advertising end with the reason of the reset: every handler tells
\* onReset, and what onDisconnect starts fails as the host is not in sync.
HostResets ==
  /\ host_synced /\ HostIdle /\ resets < Resets
  /\ host_synced' = FALSE /\ resets' = resets + 1
  /\ adv_active' = FALSE /\ linked' = 0
  /\ host_data' = NoData /\ host_scan' = NoData
  /\ UNCHANGED <<payloads, m_advDataSet, m_duration, calls, asked, changes>>

\* Mutant: advertising is left to the application.
SyncOnly ==
  /\ ~host_synced /\ HostIdle
  /\ host_synced' = TRUE /\ m_advDataSet' = FALSE
  /\ UNCHANGED <<payloads, m_duration, host, calls, asked, counts>>

\* onSync, and onHostSync of the advertising.
onHostSync ==
  /\ ~host_synced /\ HostIdle
  /\ host_synced' = TRUE /\ m_advDataSet' = FALSE
  /\ IF m_duration = "forever" THEN HostStarts ELSE UNCHANGED calls
  /\ UNCHANGED <<payloads, m_duration, host, asked, counts>>

Connected ==
  /\ HostIdle /\ adv_active
  /\ adv_active' = FALSE /\ linked' = linked + 1
  /\ UNCHANGED <<host_synced, payloads, m_advDataSet, m_duration, host_data, host_scan, calls,
                 asked, counts>>

\* The connection failed: advertising has ended and the handler starts it.
ConnectFailed ==
  /\ HostIdle /\ adv_active
  /\ adv_active' = FALSE /\ HostStarts
  /\ UNCHANGED <<host_synced, payloads, m_advDataSet, m_duration, host_data, host_scan, linked,
                 asked, counts>>

\* onDisconnect of the application (core_ble.cpp) and m_advertiseOnDisconnect.
Disconnected ==
  /\ HostIdle /\ linked > 0
  /\ linked' = linked - 1 /\ HostStarts
  /\ UNCHANGED <<host_synced, payloads, m_advDataSet, m_duration, adv_active, host_data,
                 host_scan, asked, counts>>

\* A timed advertising is over; only a callback follows.
AdvComplete ==
  /\ HostIdle /\ adv_active /\ m_duration = "timed"
  /\ adv_active' = FALSE
  /\ UNCHANGED <<host_synced, payloads, m_advDataSet, m_duration, host_data, host_scan, linked,
                 calls, asked, counts>>

AdvertisingNext ==
  \/ \E t \in StartTasks : AdvertisingStart(t)
  \/ \E d \in {"forever", "timed"} : AppStarts(d)
  \/ AppStops \/ clearAdvertisingData \/ refreshAdvertisingData
  \/ \E d \in AdvData : ChangesData(d)
  \/ \E enable \in BOOLEAN : enableScanResponse(enable)
  \/ HostResets \/ onHostSync \/ Connected \/ ConnectFailed \/ Disconnected \/ AdvComplete

\* Both tasks are scheduled.
AdvertisingFairness ==
  WF_advertising(AdvertisingStart("app")) /\ WF_advertising(AdvertisingStart("host"))

AdvertisingSpec == AdvertisingInit /\ [][AdvertisingNext]_advertising /\ AdvertisingFairness

-----------------------------------------------------------------------------
(* Properties *)

\* m_advDataSet, which makes start skip the data, is never wrong about what is on air:
\* neither a reset between two calls of start nor a change between them leaves old or
\* no data behind a set flag.  (It is set before the scan response is, so that one may
\* be late while a task is between the two calls.)
OnAirIsCurrent ==
  adv_active /\ m_advDataSet =>
    /\ host_data = m_advData
    /\ NeedsScan /\ (\A t \in StartTasks : stage[t] # "scan") => host_scan = m_scanData

\* And a device that was told to advertise forever is found again: once resets end, it
\* advertises or has a peer again and again, whichever task's start a reset cut short.
Discoverable ==
  /\ []OnAirIsCurrent
  /\ <>[](host_synced /\ asked) => []<>(adv_active \/ linked > 0)
=============================================================================
