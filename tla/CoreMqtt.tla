------------------------------ MODULE CoreMqtt ------------------------------
(***************************************************************************)
(* The MQTT session of the device: the reconnect supervisor, the transport *)
(* queue task, the Wi-Fi event handler and the esp-mqtt client task, all   *)
(* of core_mqtt.cpp, around one shared client handle.                      *)
(*                                                                         *)
(* A client object is modelled by the life of its handle.  What the        *)
(* esp-mqtt library does is external: one task per started client, which   *)
(* dispatches events to mqtt_event_handler while it holds the API lock of  *)
(* the client; stop, destroy and publish wait for that lock, and a stop    *)
(* delivers no DISCONNECTED event.                                         *)
(***************************************************************************)
EXTENDS Integers, FiniteSets

CONSTANTS
  Clients,                          \* handles the heap can hand out
  Settings,                         \* configurations the device may be given
  NoClient,                         \* nullptr
  TokenRefreshFailureThreshold,     \* kTokenRefreshFailureThreshold
  NetworkRecoveryFailureThreshold,  \* kNetworkRecoveryFailureThreshold
  MaxFailures,                      \* the failure counter saturates here
  ResourcesMayFail                  \* may client init, start and cJSON fail?

ASSUME ClientsAssumption == NoClient \notin Clients

Tokens == {"none", "accepted", "expired"}
Configs == [access_token : Tokens, mqtt_url : BOOLEAN,
            refresh_token : BOOLEAN, wifi : BOOLEAN]

ASSUME SettingsAssumption == Settings \subseteq Configs
ASSUME ThresholdAssumption ==
  /\ TokenRefreshFailureThreshold \in Nat \ {0}
  /\ NetworkRecoveryFailureThreshold \in Nat \ {0}
  /\ MaxFailures \in Nat
  /\ MaxFailures >= TokenRefreshFailureThreshold
  /\ MaxFailures >= NetworkRecoveryFailureThreshold
ASSUME ResourcesAssumption == ResourcesMayFail \in BOOLEAN

VARIABLES
  network_ready, mqtt_connected,    \* atomics of RuntimeState
  mqtt_client, client_mutex,        \* the shared handle and who holds its mutex
  consecutive_mqtt_failures, g_device_info_sent,
  config,                           \* the fields of RuntimeConfig read here
  refresh_ready, recovery_ready,    \* has the cooldown elapsed (or never begun)?
  pc, cfg, held, failures,          \* supervisor: location and locals
  queue_pc, wifi_pc,                \* transport queue task, event loop task
  client, handler, password         \* esp-mqtt: state, dispatched event, token

netVars  == <<network_ready, wifi_pc>>
flagVars == <<mqtt_connected, consecutive_mqtt_failures, g_device_info_sent>>
lockVars == <<mqtt_client, client_mutex, queue_pc>>
cfgVars  == <<config, refresh_ready, recovery_ready>>
supVars  == <<pc, cfg, held, failures>>
libVars  == <<client, handler, password>>
vars == <<netVars, flagVars, lockVars, cfgVars, supVars, libVars>>

ClientStates == {"none", "created", "connecting", "connected", "waiting"}
Events == {"idle", "connected", "identity", "disconnected", "data"}
Locations == {"check", "detach", "stop", "create", "start", "window", "count",
              "refresh", "escalate", "hardDetach", "hardStop", "hardFlags",
              "hardStart"}

TypeOK ==
  /\ network_ready \in BOOLEAN /\ mqtt_connected \in BOOLEAN
  /\ mqtt_client \in Clients \cup {NoClient}
  /\ client_mutex \in {"free", "queue"}
  /\ consecutive_mqtt_failures \in 0..MaxFailures
  /\ g_device_info_sent \in BOOLEAN
  /\ config \in Configs
  /\ refresh_ready \in BOOLEAN /\ recovery_ready \in BOOLEAN
  /\ pc \in Locations
  /\ cfg \in [access_token : Tokens, refresh_token : BOOLEAN]
  /\ held \in Clients \cup {NoClient}
  /\ failures \in 0..MaxFailures
  /\ queue_pc \in {"poll", "popped", "publish"}
  /\ wifi_pc \in {"idle", "got_ip"}
  /\ client \in [Clients -> ClientStates]
  /\ handler \in [Clients -> Events]
  /\ password \in [Clients -> Tokens]

(* Boot: RAM is zero, the configuration is whatever NVS holds. *)
Init ==
  /\ network_ready = FALSE /\ mqtt_connected = FALSE
  /\ mqtt_client = NoClient /\ client_mutex = "free"
  /\ consecutive_mqtt_failures = 0 /\ g_device_info_sent = FALSE
  /\ config \in Settings
  /\ refresh_ready = TRUE /\ recovery_ready = TRUE
  /\ pc = "check" /\ cfg = [access_token |-> "none", refresh_token |-> FALSE]
  /\ held = NoClient /\ failures = 0
  /\ queue_pc = "poll" /\ wifi_pc = "idle"
  /\ client = [c \in Clients |-> "none"]
  /\ handler = [c \in Clients |-> "idle"]
  /\ password = [c \in Clients |-> "none"]

-----------------------------------------------------------------------------
(* The esp-mqtt client task (external). *)

Dispatch(c, s, e) ==
  /\ client' = [client EXCEPT ![c] = s]
  /\ handler' = [handler EXCEPT ![c] = e]
  /\ UNCHANGED <<password, netVars, flagVars, lockVars, cfgVars, supVars>>

Idle(c) == handler[c] = "idle"

ClientConnects(c) ==
  /\ client[c] = "connecting" /\ Idle(c)
  /\ network_ready /\ password[c] = "accepted"
  /\ Dispatch(c, "connected", "connected")

\* A refused or timed-out handshake and a broken link both abort the
\* connection, which dispatches DISCONNECTED and schedules a retry.
ClientAborts(c) ==
  /\ client[c] \in {"connecting", "connected"} /\ Idle(c)
  /\ Dispatch(c, "waiting", "disconnected")

ClientRetries(c) ==
  /\ client[c] = "waiting" /\ Idle(c)
  /\ Dispatch(c, "connecting", "idle")

ClientReceives(c) ==
  /\ client[c] = "connected" /\ Idle(c)
  /\ Dispatch(c, "connected", "data")

-----------------------------------------------------------------------------
(* mqtt_event_handler, in the client task, under the client's API lock. *)

Returns(c, next) ==
  /\ handler' = [handler EXCEPT ![c] = next]
  /\ UNCHANGED <<client, password, netVars, lockVars, cfgVars, supVars>>

\* Mutant: mqtt_handle_connected takes mqtt_client_mutex.
OnConnectedLocking(c) ==
  /\ handler[c] = "connected" /\ client_mutex = "free"
  /\ mqtt_connected' = TRUE
  /\ consecutive_mqtt_failures' = 0
  /\ UNCHANGED g_device_info_sent
  /\ Returns(c, "identity")

\* mqtt_handle_connected and subscribe_commands.
OnConnected(c) ==
  /\ handler[c] = "connected"
  /\ mqtt_connected' = TRUE
  /\ consecutive_mqtt_failures' = 0
  /\ UNCHANGED g_device_info_sent
  /\ Returns(c, "identity")

\* publish_device_identity: skipped when already sent, lost when cJSON fails.
OnIdentity(c) ==
  /\ handler[c] = "identity"
  /\ \/ g_device_info_sent' = TRUE
     \/ ResourcesMayFail /\ UNCHANGED g_device_info_sent
  /\ UNCHANGED <<mqtt_connected, consecutive_mqtt_failures>>
  /\ Returns(c, "idle")

\* Mutant: the online flag is left to the Wi-Fi handler.
OnDisconnectedKeepsOnline(c) ==
  /\ handler[c] = "disconnected"
  /\ g_device_info_sent' = FALSE
  /\ UNCHANGED <<mqtt_connected, consecutive_mqtt_failures>>
  /\ Returns(c, "idle")

\* mqtt_handle_disconnected.
OnDisconnected(c) ==
  /\ handler[c] = "disconnected"
  /\ mqtt_connected' = FALSE
  /\ g_device_info_sent' = FALSE
  /\ UNCHANGED consecutive_mqtt_failures
  /\ Returns(c, "idle")

\* handle_command: what a command does to other state is not modelled here.
OnData(c) ==
  /\ handler[c] = "data"
  /\ UNCHANGED flagVars
  /\ Returns(c, "idle")

-----------------------------------------------------------------------------
(* mqtt_reconnect_task: one action between two points where others can run. *)

Goto(l) == pc' = l

\* Lines 287-322: the gate, then the snapshot of the configuration.
Begin ==
  /\ pc = "check"
  /\ network_ready /\ ~mqtt_connected
  /\ config.access_token # "none" /\ config.mqtt_url
  /\ cfg' = [access_token |-> config.access_token,
             refresh_token |-> config.refresh_token]
  /\ Goto("detach")
  /\ UNCHANGED <<held, failures, netVars, flagVars, lockVars, cfgVars, libVars>>

\* Mutant: the handle is copied but not cleared.
DetachKeepsHandle ==
  /\ pc \in {"detach", "hardDetach"} /\ client_mutex = "free"
  /\ held' = mqtt_client
  /\ Goto(IF pc = "detach" THEN "stop" ELSE "hardStop")
  /\ UNCHANGED <<lockVars, cfg, failures, netVars, flagVars, cfgVars, libVars>>

\* Mutant: the handle is cleared but not copied.
DetachForgetsClient ==
  /\ pc \in {"detach", "hardDetach"} /\ client_mutex = "free"
  /\ mqtt_client' = NoClient
  /\ Goto(IF pc = "detach" THEN "stop" ELSE "hardStop")
  /\ UNCHANGED <<client_mutex, queue_pc, cfg, held, failures,
                 netVars, flagVars, cfgVars, libVars>>

\* destroy_active_mqtt_client, first half: take the handle under the mutex.
DetachClient ==
  /\ pc \in {"detach", "hardDetach"} /\ client_mutex = "free"
  /\ held' = mqtt_client
  /\ mqtt_client' = NoClient
  /\ Goto(IF pc = "detach" THEN "stop" ELSE "hardStop")
  /\ UNCHANGED <<client_mutex, queue_pc, cfg, failures,
                 netVars, flagVars, cfgVars, libVars>>

AfterStop == IF pc = "stop" THEN "create" ELSE "hardFlags"

\* Mutant: destroyed without the stop that waits for the client task.
DestroyWithoutStop ==
  /\ pc \in {"stop", "hardStop"} /\ held # NoClient
  /\ client' = [client EXCEPT ![held] = "none"]
  /\ password' = [password EXCEPT ![held] = "none"]
  /\ held' = NoClient
  /\ Goto(AfterStop)
  /\ UNCHANGED <<handler, cfg, failures, netVars, flagVars, lockVars, cfgVars>>

\* Second half, outside the mutex: stop waits for a running event handler.
StopAndDestroy ==
  /\ pc \in {"stop", "hardStop"}
  /\ held # NoClient /\ Idle(held)
  /\ client' = [client EXCEPT ![held] = "none"]
  /\ password' = [password EXCEPT ![held] = "none"]
  /\ held' = NoClient
  /\ Goto(AfterStop)
  /\ UNCHANGED <<handler, cfg, failures, netVars, flagVars, lockVars, cfgVars>>

NothingToStop ==
  /\ pc \in {"stop", "hardStop"} /\ held = NoClient
  /\ Goto(AfterStop)
  /\ UNCHANGED <<cfg, held, failures, netVars, flagVars, lockVars, cfgVars, libVars>>

\* esp_mqtt_client_init succeeded; the handle is published under the mutex.
CreateClient(c) ==
  /\ pc = "create" /\ client_mutex = "free"
  /\ client[c] = "none"
  /\ client' = [client EXCEPT ![c] = "created"]
  /\ password' = [password EXCEPT ![c] = cfg.access_token]
  /\ mqtt_client' = c
  /\ held' = c
  /\ Goto("start")
  /\ UNCHANGED <<client_mutex, queue_pc, cfg, failures, handler,
                 netVars, flagVars, cfgVars>>

\* esp_mqtt_client_init returned nullptr: the window is waited all the same.
CreateFails ==
  /\ pc = "create" /\ ResourcesMayFail
  /\ Goto("window")
  /\ UNCHANGED <<cfg, held, failures, netVars, flagVars, lockVars, cfgVars, libVars>>

\* The result of esp_mqtt_client_start is not looked at.
StartClient ==
  /\ pc = "start"
  /\ \/ client' = [client EXCEPT ![held] = "connecting"]
     \/ ResourcesMayFail /\ UNCHANGED client
  /\ held' = NoClient
  /\ Goto("window")
  /\ UNCHANGED <<handler, password, cfg, failures,
                 netVars, flagVars, lockVars, cfgVars>>

\* Lines 349-354, the end of the 3 s window.
WindowEnds ==
  /\ pc = "window"
  /\ consecutive_mqtt_failures' =
       IF mqtt_connected THEN 0 ELSE consecutive_mqtt_failures
  /\ Goto(IF mqtt_connected THEN "check" ELSE "count")
  /\ UNCHANGED <<mqtt_connected, g_device_info_sent, cfg, held, failures,
                 netVars, lockVars, cfgVars, libVars>>

Bump(n) == IF n < MaxFailures THEN n + 1 ELSE n

\* fetch_add, then the decision to force a token refresh (356-364).
CountFailure ==
  LET n == Bump(consecutive_mqtt_failures)
      force == /\ n >= TokenRefreshFailureThreshold
               /\ cfg.refresh_token /\ refresh_ready
  IN /\ pc = "count"
     /\ consecutive_mqtt_failures' = n /\ failures' = n
     /\ refresh_ready' = (refresh_ready /\ ~force)
     /\ Goto(IF force THEN "refresh" ELSE "escalate")
     /\ UNCHANGED <<mqtt_connected, g_device_info_sent, config, recovery_ready,
                    cfg, held, netVars, lockVars, libVars>>

\* Mutant: the new token is never stored.
RefreshNotStored ==
  /\ pc = "refresh" /\ config.refresh_token
  /\ refresh_ready' = FALSE
  /\ consecutive_mqtt_failures' = 0
  /\ Goto("check")
  /\ UNCHANGED <<config, recovery_ready, mqtt_connected, g_device_info_sent,
                 cfg, held, failures, netVars, lockVars, libVars>>

\* perform_token_refresh with the tokens of the moment, not of the snapshot.
RefreshSucceeds ==
  /\ pc = "refresh" /\ config.refresh_token
  /\ config' = [config EXCEPT !.access_token = "accepted"]
  /\ refresh_ready' = FALSE
  /\ consecutive_mqtt_failures' = 0
  /\ Goto("check")
  /\ UNCHANGED <<recovery_ready, mqtt_connected, g_device_info_sent,
                 cfg, held, failures, netVars, lockVars, libVars>>

RefreshFails ==
  /\ pc = "refresh"
  /\ Goto("escalate")
  /\ UNCHANGED <<cfg, held, failures, netVars, flagVars, lockVars, cfgVars, libVars>>

\* Lines 372-380 and load_wifi_config.
Escalate ==
  LET hard == failures >= NetworkRecoveryFailureThreshold /\ recovery_ready
  IN /\ pc = "escalate"
     /\ consecutive_mqtt_failures' =
          IF hard THEN 0 ELSE consecutive_mqtt_failures
     /\ Goto(IF hard /\ config.wifi THEN "hardDetach" ELSE "check")
     /\ UNCHANGED <<mqtt_connected, g_device_info_sent, cfg, held, failures,
                    netVars, lockVars, cfgVars, libVars>>

\* Mutant: the hard reconnect leaves the online flag alone.
HardFlagsKeepsOnline ==
  /\ pc = "hardFlags"
  /\ network_ready' = FALSE
  /\ Goto("hardStart")
  /\ UNCHANGED <<flagVars, wifi_pc, cfg, held, failures,
                 lockVars, cfgVars, libVars>>

\* perform_wifi_hard_reconnect once the client is gone.
HardFlags ==
  /\ pc = "hardFlags"
  /\ mqtt_connected' = FALSE
  /\ network_ready' = FALSE
  /\ Goto("hardStart")
  /\ UNCHANGED <<consecutive_mqtt_failures, g_device_info_sent, wifi_pc,
                 cfg, held, failures, lockVars, cfgVars, libVars>>

HardStart ==
  /\ pc = "hardStart"
  /\ recovery_ready' = FALSE
  /\ Goto("check")
  /\ UNCHANGED <<config, refresh_ready, cfg, held, failures,
                 netVars, flagVars, lockVars, libVars>>

-----------------------------------------------------------------------------
(* mqtt_queue_task *)

QueuePops ==
  /\ queue_pc = "poll" /\ mqtt_connected
  /\ queue_pc' = "popped"
  /\ UNCHANGED <<mqtt_client, client_mutex,
                 netVars, flagVars, cfgVars, supVars, libVars>>

\* Lock the client mutex; without a client the popped message is dropped.
QueueLocks ==
  /\ queue_pc = "popped" /\ client_mutex = "free"
  /\ IF mqtt_client = NoClient
       THEN queue_pc' = "poll" /\ UNCHANGED client_mutex
       ELSE queue_pc' = "publish" /\ client_mutex' = "queue"
  /\ UNCHANGED <<mqtt_client, netVars, flagVars, cfgVars, supVars, libVars>>

\* esp_mqtt_client_publish takes the API lock with the mutex held.
QueuePublishes ==
  /\ queue_pc = "publish"
  /\ mqtt_client # NoClient /\ Idle(mqtt_client)
  /\ queue_pc' = "poll" /\ client_mutex' = "free"
  /\ UNCHANGED <<mqtt_client, netVars, flagVars, cfgVars, supVars, libVars>>

-----------------------------------------------------------------------------
(* The event loop task: wifi_event of init_wifi_stack. *)

StaDisconnected ==
  /\ wifi_pc = "idle"
  /\ network_ready' = FALSE
  /\ mqtt_connected' = FALSE
  /\ UNCHANGED <<wifi_pc, consecutive_mqtt_failures, g_device_info_sent,
                 lockVars, cfgVars, supVars, libVars>>

StaGotIp ==
  /\ wifi_pc = "idle"
  /\ network_ready' = TRUE
  /\ wifi_pc' = "got_ip"
  /\ UNCHANGED <<flagVars, lockVars, cfgVars, supVars, libVars>>

\* esp_mqtt_client_reconnect only acts on a client that waits for its retry.
Reconnected ==
  [c \in Clients |-> IF c = mqtt_client /\ client[c] = "waiting"
                       THEN "connecting" ELSE client[c]]

\* mqtt_request_reconnect, the last call of the GOT_IP branch.
RequestReconnect ==
  /\ wifi_pc = "got_ip" /\ client_mutex = "free"
  /\ wifi_pc' = "idle"
  /\ client' = Reconnected
  /\ UNCHANGED <<network_ready, handler, password,
                 flagVars, lockVars, cfgVars, supVars>>

-----------------------------------------------------------------------------
(* The rest of the firmware and the cloud, as this module sees them. *)

\* Provisioning, a remote configuration or a factory reset replaced settings.
Configure ==
  /\ config' \in Settings
  /\ UNCHANGED <<refresh_ready, recovery_ready,
                 netVars, flagVars, lockVars, supVars, libVars>>

\* maintenance_task refreshes on its own schedule; the attempt is stamped
\* whether or not the cloud answers.
MaintenanceAttempt(answer) ==
  /\ config.refresh_token /\ refresh_ready
  /\ refresh_ready' = FALSE
  /\ config' = answer
  /\ UNCHANGED <<recovery_ready, netVars, flagVars, lockVars, supVars, libVars>>

MaintenanceRefresh ==
  MaintenanceAttempt([config EXCEPT !.access_token = "accepted"])
MaintenanceRefreshFails == MaintenanceAttempt(config)

\* The broker stops accepting every token issued so far.
TokenExpires ==
  LET aged(t) == IF t = "accepted" THEN "expired" ELSE t
  IN /\ config' = [config EXCEPT !.access_token = aged(@)]
     /\ cfg' = [cfg EXCEPT !.access_token = aged(@)]
     /\ password' = [c \in Clients |-> aged(password[c])]
     /\ UNCHANGED <<refresh_ready, recovery_ready, pc, held, failures,
                    client, handler, netVars, flagVars, lockVars>>

RefreshCooldownElapses ==
  /\ ~refresh_ready /\ refresh_ready' = TRUE
  /\ UNCHANGED <<config, recovery_ready,
                 netVars, flagVars, lockVars, supVars, libVars>>

RecoveryCooldownElapses ==
  /\ ~recovery_ready /\ recovery_ready' = TRUE
  /\ UNCHANGED <<config, refresh_ready,
                 netVars, flagVars, lockVars, supVars, libVars>>

-----------------------------------------------------------------------------
ClientTask(c) ==
  \/ ClientConnects(c) \/ ClientAborts(c) \/ ClientRetries(c) \/ ClientReceives(c)

EventHandler(c) ==
  OnConnected(c) \/ OnIdentity(c) \/ OnDisconnected(c) \/ OnData(c)

Supervisor ==
  \/ Begin \/ DetachClient \/ StopAndDestroy \/ NothingToStop
  \/ CreateFails \/ (\E c \in Clients : CreateClient(c))
  \/ StartClient \/ WindowEnds \/ CountFailure
  \/ RefreshSucceeds \/ RefreshFails \/ Escalate \/ HardFlags \/ HardStart

QueueTask == QueuePops \/ QueueLocks \/ QueuePublishes

WifiEvents == StaDisconnected \/ StaGotIp \/ RequestReconnect

Environment ==
  \/ Configure \/ MaintenanceRefresh \/ MaintenanceRefreshFails
  \/ TokenExpires
  \/ RefreshCooldownElapses \/ RecoveryCooldownElapses

Next ==
  \/ \E c \in Clients : ClientTask(c) \/ EventHandler(c)
  \/ Supervisor \/ QueueTask \/ WifiEvents \/ Environment

Spec == Init /\ [][Next]_vars

-----------------------------------------------------------------------------
(* Safety *)

Live(c) == client[c] # "none"

\* At most one esp-mqtt client exists at a time: the supervisor never builds a
\* session beside an old one, whichever of its two teardown paths ran before.
SingleSession ==
  \A c, d \in Clients : Live(c) /\ Live(d) => c = d

\* The handle that other tasks read under mqtt_client_mutex is never that of a
\* destroyed client, although the destruction happens outside the mutex, and it
\* is not cleared under a publish that already looked at it.
HandleLive ==
  /\ mqtt_client # NoClient => Live(mqtt_client)
  /\ queue_pc = "publish" => mqtt_client # NoClient

\* No event handler is left running for a client that has been destroyed.
NoCallbackAfterDestroy ==
  \A c \in Clients : ~Live(c) => Idle(c)

\* While the supervisor is at rest, the online flag is backed by a client that
\* can still clear it; otherwise lines 287-290 would put it to sleep for good.
\* Holds only if creating a client cannot fail.
OnlineNeedsClient ==
  mqtt_connected /\ pc \in {"check", "window"} => mqtt_client # NoClient

\* The inductive invariant behind these: a client belongs to the shared handle
\* or to the supervisor's local, and pc says to which.
Owned == \A c \in Clients : Live(c) => c \in {mqtt_client, held}

Handover ==
  /\ held # NoClient => Live(held) /\ pc \in {"stop", "hardStop", "start"}
  /\ pc = "start" => held = mqtt_client
  /\ pc \in {"stop", "create", "hardStop", "hardFlags", "hardStart"}
       => mqtt_client = NoClient

MutexHeld == client_mutex = "queue" <=> queue_pc = "publish"

SessionInv ==
  TypeOK /\ Owned /\ Handover /\ MutexHeld /\ HandleLive /\ NoCallbackAfterDestroy

\* And behind OnlineNeedsClient: the only steps that leave a stale flag without
\* a client are those of a teardown that goes on to clear or replace it.
OnlineInv ==
  mqtt_connected /\ mqtt_client = NoClient
    => pc \in {"stop", "create", "hardStop", "hardFlags"}

-----------------------------------------------------------------------------
(* Fairness: every task is scheduled; a mutex or API lock that is free again  *)
(* and again is obtained (FreeRTOS wakes waiters by priority, and the client  *)
(* task polls its socket without the lock); a client attempt ends; the broker *)
(* and the refresh endpoint answer in time again and again while they accept. *)

Fairness ==
  /\ WF_vars(Supervisor) /\ SF_vars(DetachClient) /\ SF_vars(StopAndDestroy)
  /\ WF_vars(QueueTask) /\ SF_vars(QueueLocks) /\ SF_vars(QueuePublishes)
  /\ WF_vars(~network_ready /\ StaGotIp) /\ SF_vars(RequestReconnect)
  /\ WF_vars(RefreshCooldownElapses) /\ SF_vars(RefreshSucceeds \/ MaintenanceRefresh)
  /\ SF_vars(\E c \in Clients : CreateClient(c))
  /\ SF_vars(\E c \in Clients : ClientConnects(c))
  /\ WF_vars(\E c \in Clients : EventHandler(c))
  /\ WF_vars(\E c \in Clients :
                ClientRetries(c) \/ (client[c] = "connecting" /\ ClientAborts(c)))

FairSpec == Spec /\ Fairness

\* No task waits forever on the client mutex or the API lock: a stop, a publish
\* and the reconnect request of the Wi-Fi handler all return, although publish
\* holds the mutex while it waits for the client task.
NobodyWaitsForever ==
  /\ (pc \in {"detach", "stop", "hardDetach", "hardStop"}) ~> (pc \in {"create", "hardFlags"})
  /\ (queue_pc = "publish") ~> (queue_pc = "poll")
  /\ (wifi_pc = "got_ip") ~> (wifi_pc = "idle")

\* A stale online flag does not last: it is cleared, or the client it is taken
\* for does connect.  Holds only if creating a client cannot fail.
OnlineFlagSettles ==
  mqtt_connected ~> (~mqtt_connected \/ \E c \in Clients : client[c] = "connected")

Loss == StaDisconnected \/ TokenExpires \/ Configure
Recoverable ==
  /\ config.access_token # "none" /\ config.mqtt_url
  /\ config.access_token = "accepted" \/ config.refresh_token

\* Recovery: once Wi-Fi and token losses stop, a provisioned device is online
\* again and again, through token refreshes and hard recoveries of its own.
Recovers ==
  <>[][~Loss]_vars => ([]<>mqtt_connected \/ []<>~Recoverable)

-----------------------------------------------------------------------------
(* What the documentation says and the code does not do. *)

\* "Reconnect supervisor keeps rebuilding the client": a provisioned device on
\* the network is never left without a client for good.  A client creation
\* that fails while the online flag is stale puts the supervisor to sleep.
KeepsRebuilding ==
  []<>(mqtt_client # NoClient \/ ~network_ready \/ ~Recoverable)

\* publish_device_identity "sends the post-connect identity envelope": every
\* session announces the device.  A client that the supervisor destroys gets no
\* DISCONNECTED event, so the next session finds the flag of the last one set.
IdentityAnnounced ==
  [][\A c \in Clients : handler[c] = "identity" /\ handler'[c] = "idle"
       => ~g_device_info_sent]_vars
=============================================================================
