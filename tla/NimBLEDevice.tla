---------------------------- MODULE NimBLEDevice ----------------------------
(***************************************************************************)
(* The BLE stack as the application switches it on and off                 *)
(* (NimBLEDevice.cpp): init waits for the host to be in sync, deinit ends  *)
(* the host and deletes the server and the advertising object, or keeps    *)
(* them; the host resets by itself.  Of the objects only what they believe *)
(* of the host is kept: that it has the attributes (m_gattsStarted of the  *)
(* server) and the data (m_advDataSet of the advertising object).          *)
(*                                                                         *)
(* The host and the controller (external) forget everything when they are  *)
(* reset or ended.  The application makes one call at a time.              *)
(***************************************************************************)
EXTENDS Naturals, Sequences, FiniteSets, SequencesExt

CONSTANTS Addresses,     \* peers on white lists
          KeepsObjects   \* deinit(false) is called as well as deinit(true)

ASSUME KeepsObjectsAssumption == KeepsObjects \in BOOLEAN

VARIABLES
  controller,        \* "off", "inited" (by an init that failed then), "on"
  initializing,      \* init waits for the host
  m_initialized, m_synced,
  m_pServer,         \* "none", "created", "started" (m_gattsStarted)
  m_bleAdvertising,  \* "none", "created", "set" (m_advDataSet)
  m_forever,         \* its m_duration is 0
  host_gatt, host_adv_data, host_advertising,   \* the host's attributes, data, advertising
  m_whiteList, host_whiteList

flags == <<controller, initializing, m_initialized, m_synced>>
owned == <<m_pServer, m_bleAdvertising, m_forever>>
on_air == <<host_gatt, host_adv_data, host_advertising>>
lists == <<m_whiteList, host_whiteList>>
device == <<flags, owned, on_air, lists>>

DeviceStart ==
  /\ controller = "off" /\ initializing = FALSE /\ m_initialized = FALSE /\ m_synced = FALSE
  /\ m_pServer = "none" /\ m_bleAdvertising = "none" /\ m_forever = FALSE
  /\ host_gatt = FALSE /\ host_adv_data = FALSE /\ host_advertising = FALSE
  /\ m_whiteList = <<>> /\ host_whiteList = {}

AppFree == ~initializing

-----------------------------------------------------------------------------
(* init and deinit *)

\* NVS, or a controller that cannot be enabled, after which it cannot be inited again.
InitFails ==
  /\ AppFree /\ ~m_initialized
  /\ \/ controller = "off" /\ controller' \in {"off", "inited"}
     \/ controller = "inited" /\ UNCHANGED controller
  /\ UNCHANGED <<initializing, m_initialized, m_synced, owned, on_air, lists>>

\* The host's task runs; a device that is initialized only waits.
InitBegins ==
  /\ AppFree
  /\ \/ m_initialized /\ UNCHANGED controller
     \/ controller = "off" /\ controller' = "on"
  /\ initializing' = TRUE
  /\ UNCHANGED <<m_initialized, m_synced, owned, on_air, lists>>

InitEnds ==
  /\ initializing /\ m_synced
  /\ initializing' = FALSE /\ m_initialized' = TRUE
  /\ UNCHANGED <<controller, m_synced, owned, on_air, lists>>

Forgotten == host_gatt' = FALSE /\ host_adv_data' = FALSE /\ host_advertising' = FALSE
             /\ host_whiteList' = {}

\* The host may refuse to stop, but the objects are deleted all the same.
deinit(clearAll) ==
  /\ AppFree
  /\ \/ /\ m_initialized /\ controller' = "off"
        /\ m_initialized' = FALSE /\ m_synced' = FALSE /\ Forgotten
     \/ ~clearAll /\ UNCHANGED <<controller, m_initialized, m_synced, on_air, host_whiteList>>
     \/ ~m_initialized /\ UNCHANGED <<controller, m_initialized, m_synced, on_air, host_whiteList>>
  /\ IF clearAll
       THEN m_pServer' = "none" /\ m_bleAdvertising' = "none" /\ m_forever' = FALSE
       ELSE UNCHANGED owned
  /\ UNCHANGED <<initializing, m_whiteList>>

-----------------------------------------------------------------------------
(* Server and advertising, in what they believe of the host *)

createServer ==
  /\ AppFree /\ m_initialized /\ m_pServer = "none"
  /\ m_pServer' = "created" /\ host_gatt' = FALSE      \* ble_gatts_reset
  /\ UNCHANGED <<flags, m_bleAdvertising, m_forever, host_adv_data, host_advertising, lists>>

getAdvertising ==
  /\ AppFree /\ m_initialized /\ m_bleAdvertising = "none"
  /\ m_bleAdvertising' = "created"
  /\ UNCHANGED <<flags, m_pServer, m_forever, on_air, lists>>

\* NimBLEServer::start and the data, unless they are believed to be with the host.
Advertises ==
  /\ m_pServer' = IF m_pServer = "created" THEN "started" ELSE m_pServer
  /\ host_gatt' = (host_gatt \/ m_pServer = "created")
  /\ m_bleAdvertising' = "set"
  /\ host_adv_data' = (host_adv_data \/ m_bleAdvertising = "created")
  /\ host_advertising' = TRUE

startDeviceAdvertising(forever) ==
  /\ AppFree /\ m_synced /\ m_bleAdvertising # "none" /\ ~host_advertising
  /\ Advertises /\ m_forever' = forever
  /\ UNCHANGED <<flags, lists>>

stopAdvertising ==
  /\ AppFree /\ host_advertising /\ host_advertising' = FALSE
  /\ UNCHANGED <<flags, owned, host_gatt, host_adv_data, lists>>

-----------------------------------------------------------------------------
(* The host *)

\* Mutant: a host that comes back is not told of by the advertising object.
onSyncAlone ==
  /\ controller = "on" /\ ~m_synced /\ m_synced' = TRUE
  /\ UNCHANGED <<controller, initializing, m_initialized, owned, on_air, lists>>

\* In sync with an address; the objects are told unless init is still waiting.  (The
\* attributes survive the reset of a host that runs on.)
onSync ==
  /\ controller = "on" /\ ~m_synced /\ m_synced' = TRUE
  /\ IF m_initialized /\ m_bleAdvertising # "none"
       THEN IF m_forever
              THEN /\ m_bleAdvertising' = "set" /\ host_adv_data' = TRUE
                   /\ host_advertising' = TRUE
                   /\ m_pServer' = IF m_pServer = "created" THEN "started" ELSE m_pServer
                   /\ host_gatt' = (host_gatt \/ m_pServer = "created")
              ELSE m_bleAdvertising' = "created" /\ UNCHANGED <<m_pServer, on_air>>
       ELSE UNCHANGED <<m_pServer, m_bleAdvertising, on_air>>
  /\ UNCHANGED <<controller, initializing, m_initialized, m_forever, lists>>

onReset ==
  /\ m_synced /\ m_synced' = FALSE
  /\ host_adv_data' = FALSE /\ host_advertising' = FALSE /\ host_whiteList' = {}
  /\ UNCHANGED <<controller, initializing, m_initialized, owned, host_gatt, m_whiteList>>

-----------------------------------------------------------------------------
(* White list *)

onWhiteList(a) == a \in ToSet(m_whiteList)

\* ble_gap_wl_set; it fails while a procedure uses the list, or without the host.
Sets(list) == m_synced /\ host_whiteList' = ToSet(list)

whiteListAdd(a) ==
  /\ AppFree /\ ~onWhiteList(a)
  /\ LET list == Append(m_whiteList, a)
     IN \/ Sets(list) /\ m_whiteList' = list
        \/ UNCHANGED lists
  /\ UNCHANGED <<flags, owned, on_air>>

whiteListRemove(a) ==
  /\ AppFree
  /\ \E place \in DOMAIN m_whiteList :
       LET list == RemoveAt(m_whiteList, place)
       IN /\ m_whiteList[place] = a
          /\ \/ Sets(list) /\ m_whiteList' = list
             \/ m_whiteList' = Append(list, a) /\ UNCHANGED host_whiteList
  /\ UNCHANGED <<flags, owned, on_air>>

DeviceSteps ==
  \/ InitFails \/ InitBegins \/ InitEnds
  \/ \E c \in BOOLEAN : (c \/ KeepsObjects) /\ deinit(c)
  \/ createServer \/ getAdvertising \/ stopAdvertising
  \/ \E f \in BOOLEAN : startDeviceAdvertising(f)
  \/ onSync \/ onReset
  \/ \E a \in Addresses : whiteListAdd(a) \/ whiteListRemove(a)

DeviceSpecification == DeviceStart /\ [][DeviceSteps]_device

-----------------------------------------------------------------------------
(* Properties *)

\* Whatever resets, restarts of the stack and failed calls came between: what the host is
\* made to advertise is the advertising object's data, with the attributes of the server
\* behind it; and it accepts nobody whom the application has taken off the white list.
\* (NimBLEDevice.cpp says of deinit that without clearAll "the objects will remain and can
\* be used again after re-initializing the stack": with KeepsObjects the first part fails.)
ObjectsUsable ==
  /\ host_advertising => host_adv_data /\ (m_pServer = "started" => host_gatt)
  /\ host_whiteList \subseteq ToSet(m_whiteList)
=============================================================================
