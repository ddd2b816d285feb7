---------------------------- MODULE NimBLEServer ----------------------------
(***************************************************************************)
(* The GATT server of esp-nimble-cpp (NimBLEServer.cpp, NimBLEService.cpp, *)
(* NimBLECharacteristic.cpp): the services and characteristics the         *)
(* application owns, the definitions it has handed to the host, the table  *)
(* the host serves, and the peers.  A change after the server started      *)
(* takes effect when the last peer leaves: resetGATT registers everything  *)
(* again, and the next start of advertising starts the server anew.        *)
(*                                                                         *)
(* The host's ble_gatts calls are external.  Assumed of the application:   *)
(* it starts every service before it advertises, changes a service it has  *)
(* already handed over only while the server is started (a later change    *)
(* would be lost, as serviceChanged does nothing then), and leaves a       *)
(* service at least one characteristic.                                    *)
(***************************************************************************)
EXTENDS Naturals, FiniteSets

CONSTANTS Services,
          Characteristics,        \* <<service, number>> of each
          Peers, MaxConnections, NoPeer,
          NotServed,              \* the entry of a service that is not registered
          m_advertiseOnDisconnect

Of(s) == {c \in Characteristics : c[1] = s}
NoServices == [s \in Services |-> NotServed]

VARIABLES
  service,           \* "none", "kept", or removed: "hidden", "delete"; "freed"
  characteristic,    \* the same of each characteristic
  readded,           \* characteristics that were hidden and are kept again
  m_gattsStarted, m_svcChanged,
  defs,              \* registered for the next ble_gatts_start
  table,             \* what the host serves since the last one
  visible,           \* ble_gatts_svc_set_visibility
  m_connectedPeers,  \* the slots of the server object
  connections,       \* the host's connections
  server_advertising,
  restart            \* the disconnect handler is about to advertise again

objects == <<service, characteristic, readded>>
progress == <<m_gattsStarted, m_svcChanged>>
gatt == <<defs, table, visible>>
links == <<m_connectedPeers, connections, server_advertising, restart>>
server == <<objects, progress, gatt, links>>

Kept(s) == {c \in Of(s) : characteristic[c] = "kept"}

ServerInit ==
  /\ service = [s \in Services |-> "none"]
  /\ characteristic = [c \in Characteristics |-> "none"]
  /\ readded = {}
  /\ m_gattsStarted = FALSE /\ m_svcChanged = FALSE
  /\ defs = NoServices /\ table = NoServices /\ visible = [s \in Services |-> TRUE]
  /\ m_connectedPeers = [i \in 1 .. MaxConnections |-> NoPeer]
  /\ connections = {} /\ server_advertising = FALSE /\ restart = FALSE

serviceChanged == m_svcChanged' = (m_svcChanged \/ m_gattsStarted)

-----------------------------------------------------------------------------
(* The application's changes *)

createService(s) ==
  /\ service[s] = "none"
  /\ service' = [service EXCEPT ![s] = "kept"]
  /\ serviceChanged
  /\ UNCHANGED <<characteristic, readded, m_gattsStarted, gatt, links>>

Changeable(s) ==
  service[s] \in {"kept", "hidden"} /\ (m_gattsStarted \/ defs[s] = NotServed)

createCharacteristic(c) ==
  /\ Changeable(c[1]) /\ characteristic[c] = "none"
  /\ characteristic' = [characteristic EXCEPT ![c] = "kept"]
  /\ serviceChanged
  /\ UNCHANGED <<service, readded, m_gattsStarted, gatt, links>>

\* A second removal with deleteChr frees the object at once; the first only marks it.
removeCharacteristic(c, deleteChr) ==
  /\ Changeable(c[1])
  /\ \/ /\ characteristic[c] = "kept" /\ Kept(c[1]) # {c}
        /\ characteristic' =
             [characteristic EXCEPT ![c] = IF deleteChr THEN "delete" ELSE "hidden"]
        /\ serviceChanged
     \/ /\ characteristic[c] \in {"hidden", "delete"} /\ deleteChr
        /\ characteristic' = [characteristic EXCEPT ![c] = "freed"]
        /\ UNCHANGED m_svcChanged
  /\ readded' = readded \ {c}
  /\ UNCHANGED <<service, m_gattsStarted, gatt, links>>

\* A characteristic that was removed is still in m_vChars, so the call returns before
\* serviceChanged: it stays out of a table that was built without it.
addCharacteristic(c) ==
  /\ Changeable(c[1]) /\ characteristic[c] \in {"hidden", "delete"}
  /\ characteristic' = [characteristic EXCEPT ![c] = "kept"]
  /\ readded' = readded \cup {c}
  /\ UNCHANGED <<service, progress, gatt, links>>

\* Mutant: peers may still find a service until the table is built anew.
removeVisibly(s, deleteSvc) ==
  \/ /\ service[s] = "kept" /\ table[s] # NotServed
     /\ service' = [service EXCEPT ![s] = IF deleteSvc THEN "delete" ELSE "hidden"]
     /\ serviceChanged
     /\ UNCHANGED <<characteristic, readded, m_gattsStarted, gatt, links>>
  \/ /\ service[s] \in {"hidden", "delete"} /\ deleteSvc
     /\ service' = [service EXCEPT ![s] = "freed"]
     /\ UNCHANGED <<characteristic, readded, progress, gatt, links>>

\* Only a service the host knows can be hidden; otherwise the call changes nothing.  A
\* removed one can be freed by a second call.
removeService(s, deleteSvc) ==
  \/ /\ service[s] = "kept" /\ table[s] # NotServed
     /\ visible' = [visible EXCEPT ![s] = FALSE]
     /\ service' = [service EXCEPT ![s] = IF deleteSvc THEN "delete" ELSE "hidden"]
     /\ serviceChanged
     /\ UNCHANGED <<characteristic, readded, m_gattsStarted, defs, table, links>>
  \/ /\ service[s] \in {"hidden", "delete"} /\ deleteSvc
     /\ service' = [service EXCEPT ![s] = "freed"]
     /\ UNCHANGED <<characteristic, readded, progress, gatt, links>>

addService(s) ==
  /\ service[s] \in {"hidden", "delete"}
  /\ service' = [service EXCEPT ![s] = "kept"]
  /\ serviceChanged
  /\ UNCHANGED <<characteristic, readded, m_gattsStarted, gatt, links>>

\* NimBLEService::start of a service that is not registered; the host takes none while
\* it advertises or has a connection.
startService(s) ==
  /\ service[s] = "kept" /\ Kept(s) # {} /\ defs[s] = NotServed
  /\ ~m_gattsStarted /\ ~server_advertising /\ connections = {}
  /\ defs' = [defs EXCEPT ![s] = Kept(s)]
  /\ readded' = readded \ Of(s)
  /\ UNCHANGED <<service, characteristic, progress, table, visible, links>>

-----------------------------------------------------------------------------
(* Starting, and starting anew *)

\* NimBLEServer::start.  When the host refuses, advertising goes on without it.
startServer ==
  \/ ~m_gattsStarted /\ table' = defs /\ m_gattsStarted' = TRUE /\ m_svcChanged' = FALSE
     /\ visible' = [s \in Services |-> TRUE]
  \/ UNCHANGED <<progress, table, visible>>

AllHandedOver == \A s \in Services : service[s] = "kept" => defs[s] # NotServed \/ m_gattsStarted

\* NimBLEAdvertising::start, called by the application or at the end of a disconnect.
startAdvertising ==
  /\ ~server_advertising /\ AllHandedOver
  /\ Cardinality(connections) < MaxConnections
  /\ startServer
  /\ server_advertising' = TRUE /\ restart' = FALSE
  /\ UNCHANGED <<objects, defs, m_connectedPeers, connections>>

\* Removed services go, the others are built and registered again.
resetGATT ==
  /\ server_advertising' = FALSE
  /\ service' = [s \in Services |-> IF service[s] = "delete" THEN "freed" ELSE service[s]]
  /\ defs' = [s \in Services |->
       IF service[s] = "kept" /\ Kept(s) # {} THEN Kept(s) ELSE NotServed]
  /\ readded' = {c \in readded : service[c[1]] # "kept"}
  /\ table' = NoServices /\ visible' = [s \in Services |-> TRUE]
  /\ m_gattsStarted' = FALSE
  /\ UNCHANGED <<characteristic, m_svcChanged>>

-----------------------------------------------------------------------------
(* Gap events *)

FreeSlots == {i \in 1 .. MaxConnections : m_connectedPeers[i] = NoPeer}

Connects(p) ==
  /\ server_advertising /\ p \notin connections
  /\ connections' = connections \cup {p}
  /\ server_advertising' = FALSE
  /\ \E i \in FreeSlots :
       /\ \A j \in FreeSlots : i <= j
       /\ m_connectedPeers' = [m_connectedPeers EXCEPT ![i] = p]
  /\ UNCHANGED <<objects, progress, gatt, restart>>

\* A connection attempt that failed ends the advertising, which starts again.
ConnectionFails ==
  /\ server_advertising /\ UNCHANGED server

Without(p) == [i \in 1 .. MaxConnections |->
                 IF m_connectedPeers[i] = p THEN NoPeer ELSE m_connectedPeers[i]]

getConnectedCount(slots) == Cardinality({i \in 1 .. MaxConnections : slots[i] # NoPeer})

\* The table is built anew when the last peer has left a changed server.
Disconnects(p) ==
  /\ p \in connections
  /\ connections' = connections \ {p}
  /\ m_connectedPeers' = Without(p)
  /\ restart' = m_advertiseOnDisconnect
  /\ IF m_svcChanged /\ getConnectedCount(Without(p)) = 0
       THEN resetGATT
       ELSE UNCHANGED <<objects, progress, gatt, server_advertising>>

ServerNext ==
  \/ \E s \in Services : createService(s) \/ addService(s) \/ startService(s)
  \/ \E s \in Services, d \in BOOLEAN : removeService(s, d)
  \/ \E c \in Characteristics : createCharacteristic(c) \/ addCharacteristic(c)
  \/ \E c \in Characteristics, d \in BOOLEAN : removeCharacteristic(c, d)
  \/ startAdvertising \/ ConnectionFails
  \/ \E p \in Peers : Connects(p) \/ Disconnects(p)

ServerSpec == ServerInit /\ [][ServerNext]_server

-----------------------------------------------------------------------------
(* Properties *)

Served ==
  \A s \in Services :
    /\ table[s] # NotServed => service[s] = "kept" /\ table[s] \subseteq Kept(s)
    /\ service[s] = "kept" => table[s] # NotServed /\ Kept(s) \ readded \subseteq table[s]

\* A started server without an announced change serves exactly what the application
\* keeps, whatever was added, hidden, deleted and added again while peers came and
\* went (characteristics that were added again excepted: addCharacteristic); and no peer
\* ever finds a service whose object was freed, although removing one frees it while
\* connections hold on to the table.
ServedIsKept ==
  /\ m_gattsStarted /\ ~m_svcChanged => Served
  /\ \A s \in Services :
       table[s] # NotServed /\ visible[s] => service[s] \notin {"none", "freed"}
=============================================================================
