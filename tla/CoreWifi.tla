------------------------------ MODULE CoreWifi ------------------------------
(***************************************************************************)
(* The Wi-Fi station of core_mqtt.cpp.  The driver posts events to the     *)
(* default event loop, whose handler sets the flags of RuntimeState and    *)
(* asks for the next connection.  Meanwhile core::init, the BLE worker     *)
(* (legacy payload) and the hard reconnect of the supervisor configure,    *)
(* stop and start the driver from tasks of their own.                      *)
(*                                                                         *)
(* External, from how it is used: esp_wifi_connect does something only on  *)
(* a started driver without a connection; esp_wifi_start reports STA_START *)
(* only when it starts a stopped driver; esp_wifi_set_config is refused    *)
(* while a connection attempt is going on, and ESP_ERROR_CHECK aborts.     *)
(***************************************************************************)
EXTENDS Naturals, Sequences

CONSTANTS
  Networks,       \* what a phone may send as ssid:password
  NoNetwork,      \* no ssid stored
  MaxEvents       \* length of the event loop's queue

ASSUME WifiAssumption == NoNetwork \notin Networks /\ MaxEvents \in Nat \ {0}

Connectors == {"main", "ble"}   \* the tasks that call connect_wifi_if_configured
Events == {"STA_START", "STA_CONNECTED", "STA_DISCONNECTED", "GOT_IP"}

VARIABLES
  wifi_ssid,       \* s.config.wifi_ssid and its password, saved in NVS
  driver, sta_config, joined,      \* external: the driver, its settings, its network
  wifi_events,                     \* posted and not handled yet
  wifi_connected, ip_acquired, network_ready,
  connector,       \* where each connector is in connect_wifi_if_configured
  recovery,        \* where the supervisor is in perform_wifi_hard_reconnect
  recovery_cfg     \* the configuration it copied at its start

station == <<driver, sta_config, joined, wifi_events>>
flags == <<wifi_connected, ip_acquired, network_ready>>
wifi == <<wifi_ssid, station, flags, connector, recovery, recovery_cfg>>

WifiTypeOK ==
  /\ wifi_ssid \in Networks \cup {NoNetwork}
  /\ driver \in {"stopped", "idle", "connecting", "associated", "online"}
  /\ {sta_config, joined, recovery_cfg} \subseteq Networks \cup {NoNetwork}
  /\ driver \in {"associated", "online"} <=> joined # NoNetwork
  /\ wifi_events \in Seq(Events) /\ Len(wifi_events) <= MaxEvents
  /\ {wifi_connected, ip_acquired, network_ready} \subseteq BOOLEAN
  /\ connector \in [Connectors -> {"done", "configure", "start"}]
  /\ recovery \in {"idle", "clear", "disconnect", "stop", "configure", "start"}

\* main: where core::init is, on its way through connect_wifi_if_configured.
WifiInit(main) ==
  /\ wifi_ssid \in Networks \cup {NoNetwork}
  /\ driver = "stopped" /\ sta_config = NoNetwork /\ joined = NoNetwork
  /\ wifi_events = <<>>
  /\ wifi_connected = FALSE /\ ip_acquired = FALSE /\ network_ready = FALSE
  /\ connector = [c \in Connectors |-> IF c = "main" THEN main ELSE "done"]
  /\ recovery = "idle" /\ recovery_cfg = NoNetwork

Post(event) == Len(wifi_events) < MaxEvents /\ wifi_events' = Append(wifi_events, event)

-----------------------------------------------------------------------------
(* The driver (external) *)

Associates ==
  /\ driver = "connecting" /\ driver' = "associated"
  /\ joined' = sta_config
  /\ Post("STA_CONNECTED")
  /\ UNCHANGED <<wifi_ssid, sta_config, flags, connector, recovery, recovery_cfg>>

GetsAddress ==
  /\ driver = "associated" /\ driver' = "online"
  /\ Post("GOT_IP")
  /\ UNCHANGED <<wifi_ssid, sta_config, joined, flags, connector, recovery, recovery_cfg>>

\* The attempt fails, or the link is lost.
Loses ==
  /\ driver \in {"connecting", "associated", "online"} /\ driver' = "idle"
  /\ joined' = NoNetwork
  /\ Post("STA_DISCONNECTED")
  /\ UNCHANGED <<wifi_ssid, sta_config, flags, connector, recovery, recovery_cfg>>

-----------------------------------------------------------------------------
(* The event handler of init_wifi_stack *)

\* Mutant: only the first start connects.
ConnectOnce(event) ==
  driver' = IF driver = "idle" /\ event = "STA_START" THEN "connecting" ELSE driver

esp_wifi_connect(event) == driver' = IF driver = "idle" THEN "connecting" ELSE driver

\* Mutant: a lost link leaves network_ready to the next GOT_IP.
ReadyKept(event) ==
  CASE event = "STA_CONNECTED" -> wifi_connected' = TRUE /\ UNCHANGED <<ip_acquired, network_ready>>
    [] event = "STA_DISCONNECTED" ->
         wifi_connected' = FALSE /\ ip_acquired' = FALSE /\ UNCHANGED network_ready
    [] event = "GOT_IP" -> ip_acquired' = TRUE /\ network_ready' = TRUE /\ UNCHANGED wifi_connected
    [] OTHER -> UNCHANGED flags

SetsFlags(event) ==
  CASE event = "STA_CONNECTED" -> wifi_connected' = TRUE /\ UNCHANGED <<ip_acquired, network_ready>>
    [] event = "STA_DISCONNECTED" ->
         wifi_connected' = FALSE /\ ip_acquired' = FALSE /\ network_ready' = FALSE
    [] event = "GOT_IP" -> ip_acquired' = TRUE /\ network_ready' = TRUE /\ UNCHANGED wifi_connected
    [] OTHER -> UNCHANGED flags

wifi_event ==
  /\ wifi_events # <<>>
  /\ wifi_events' = Tail(wifi_events)
  /\ SetsFlags(Head(wifi_events))
  /\ IF Head(wifi_events) \in {"STA_START", "STA_DISCONNECTED"}
       THEN esp_wifi_connect(Head(wifi_events)) ELSE UNCHANGED driver
  /\ UNCHANGED <<wifi_ssid, sta_config, joined, connector, recovery, recovery_cfg>>

-----------------------------------------------------------------------------
(* Reboot: power loss, a restart, or the abort of ESP_ERROR_CHECK *)

WifiBoots ==
  /\ driver' = "stopped" /\ sta_config' = NoNetwork /\ joined' = NoNetwork
  /\ wifi_events' = <<>>
  /\ wifi_connected' = FALSE /\ ip_acquired' = FALSE /\ network_ready' = FALSE
  /\ connector' = [c \in Connectors |-> IF c = "main" THEN "configure" ELSE "done"]
  /\ recovery' = "idle" /\ recovery_cfg' = NoNetwork

WifiRestart == WifiBoots /\ UNCHANGED wifi_ssid

esp_wifi_start ==
  IF driver = "stopped" THEN driver' = "idle" /\ Post("STA_START")
                        ELSE UNCHANGED <<driver, wifi_events>>

-----------------------------------------------------------------------------
(* connect_wifi_if_configured *)

\* handle_wifi_legacy_payload stores and saves the settings first.
LegacyPayload(network) ==
  /\ connector["ble"] = "done"
  /\ wifi_ssid' = network
  /\ connector' = [connector EXCEPT !["ble"] = "configure"]
  /\ UNCHANGED <<station, flags, recovery, recovery_cfg>>

Configures(c) ==
  /\ connector[c] = "configure"
  /\ IF wifi_ssid = NoNetwork
       THEN connector' = [connector EXCEPT ![c] = "done"] /\ UNCHANGED <<station, flags, recovery, recovery_cfg>>
       ELSE IF driver = "connecting" THEN WifiBoots
       ELSE /\ sta_config' = wifi_ssid
            /\ connector' = [connector EXCEPT ![c] = "start"]
            /\ UNCHANGED <<driver, joined, wifi_events, flags, recovery, recovery_cfg>>
  /\ UNCHANGED wifi_ssid

Starts(c) ==
  /\ connector[c] = "start"
  /\ esp_wifi_start
  /\ connector' = [connector EXCEPT ![c] = "done"]
  /\ UNCHANGED <<wifi_ssid, sta_config, joined, flags, recovery, recovery_cfg>>

-----------------------------------------------------------------------------
(* perform_wifi_hard_reconnect, when the supervisor gives up on the link *)

RecoveryStarts ==
  /\ recovery = "idle" /\ wifi_ssid # NoNetwork
  /\ recovery' = "clear" /\ recovery_cfg' = wifi_ssid
  /\ network_ready' = FALSE
  /\ UNCHANGED <<wifi_ssid, station, wifi_connected, ip_acquired, connector>>

RecoveryClears ==
  /\ recovery = "clear" /\ recovery' = "disconnect"
  /\ ip_acquired' = FALSE /\ wifi_connected' = FALSE
  /\ UNCHANGED <<wifi_ssid, station, network_ready, connector, recovery_cfg>>

RecoveryDisconnects ==
  /\ recovery = "disconnect" /\ recovery' = "stop"
  /\ IF driver \in {"connecting", "associated", "online"}
       THEN driver' = "idle" /\ joined' = NoNetwork /\ Post("STA_DISCONNECTED")
       ELSE UNCHANGED <<driver, joined, wifi_events>>
  /\ UNCHANGED <<wifi_ssid, sta_config, flags, connector, recovery_cfg>>

\* The handler may have connected again: a link that exists is reported as lost,
\* an attempt may be.
RecoveryStops ==
  /\ recovery = "stop" /\ recovery' = "configure"
  /\ driver' = "stopped" /\ joined' = NoNetwork
  /\ \/ driver \in {"connecting", "associated", "online"} /\ Post("STA_DISCONNECTED")
     \/ driver \notin {"associated", "online"} /\ UNCHANGED wifi_events
  /\ UNCHANGED <<wifi_ssid, sta_config, flags, connector, recovery_cfg>>

\* 250 ms later, with the copy from the start.
RecoveryConfigures ==
  /\ recovery = "configure"
  /\ IF driver = "connecting" THEN WifiBoots
     ELSE /\ sta_config' = recovery_cfg
          /\ recovery' = "start"
          /\ UNCHANGED <<driver, joined, wifi_events, flags, connector, recovery_cfg>>
  /\ UNCHANGED wifi_ssid

RecoveryEnds ==
  /\ recovery = "start" /\ recovery' = "idle"
  /\ esp_wifi_start
  /\ recovery_cfg' = NoNetwork
  /\ UNCHANGED <<wifi_ssid, sta_config, joined, flags, connector>>

Recovery == \/ RecoveryClears \/ RecoveryDisconnects \/ RecoveryStops
            \/ RecoveryConfigures \/ RecoveryEnds

WifiNext ==
  \/ Associates \/ GetsAddress \/ Loses \/ wifi_event
  \/ \E network \in Networks : LegacyPayload(network)
  \/ \E c \in Connectors : Configures(c) \/ Starts(c)
  \/ RecoveryStarts \/ Recovery \/ WifiRestart
WifiSpec == WifiInit("configure") /\ [][WifiNext]_wifi

\* The event loop and the tasks run; an attempt ends, some attempt succeeds, and
\* DHCP answers.
WifiFairness ==
  /\ WF_wifi(wifi_event)
  /\ \A c \in Connectors : WF_wifi(Configures(c) \/ Starts(c))
  /\ WF_wifi(Recovery)
  /\ WF_wifi(driver = "connecting" /\ (Associates \/ Loses))
  /\ SF_wifi(Associates) /\ WF_wifi(GetsAddress)

-----------------------------------------------------------------------------
(* Properties *)

\* The flags are written by the event handler and by the supervisor, in any order
\* with the driver; once every event is handled and no recovery is under way they
\* say what the driver is in.  (network_ready gates all traffic.)
ReadyMeansOnline ==
  (wifi_events = <<>> /\ recovery = "idle")
    => /\ network_ready = (driver = "online")
       /\ wifi_connected = (driver \in {"associated", "online"})

\* No interleaving of starts, stops and stale events leaves a started driver with
\* nobody to connect it: once payloads, recoveries, restarts and losses of an
\* established link have ended, a device with settings gets online.
Disturbance ==
  \/ \E network \in Networks : LegacyPayload(network)
  \/ Loses /\ driver # "connecting"
  \/ RecoveryStarts \/ WifiRestart

Rejoins ==
  (<>[][~Disturbance]_wifi /\ <>[](wifi_ssid # NoNetwork)) => []<>network_ready
=============================================================================
