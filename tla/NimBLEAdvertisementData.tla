---------------------- MODULE NimBLEAdvertisementData ----------------------
(***************************************************************************)
(* The legacy advertising payload of esp-nimble-cpp                        *)
(* (NimBLEAdvertisementData.cpp), at most BLE_HS_ADV_MAX_SZ bytes of       *)
(* fields.  listed is what the application asked for: how often it listed  *)
(* each service and did not remove it.  It lists a UUID in fields of the   *)
(* UUID's own size.                                                        *)
(***************************************************************************)
EXTENDS NimBLEAdvFields, FiniteSets

CONSTANTS BLE_HS_ADV_MAX_SZ,
          Uuids,              \* UUIDs as sequences of 2, 4 or 16 bytes
          Texts,              \* names and data, not empty
          SparesLaterFields   \* a UUID is removed only where a list has it or ends the payload

\* Up to 255 bytes no length byte wraps; a header fits.
ASSUME LegacySizeAssumption == BLE_HS_ADV_MAX_SZ \in 3 .. 255

ASSUME LegacyBytesAssumption ==
  /\ \A u \in Uuids : u \in Seq(Octet) /\ Len(u) \in {2, 4, 16}
  /\ \A t \in Texts : t \in Seq(Octet)

BLE_HS_ADV_MAX_FIELD_SZ == BLE_HS_ADV_MAX_SZ - 2

VARIABLES m_payload, listed

advertisement == <<m_payload, listed>>

AdvertisementInit == m_payload = <<>> /\ listed = [u \in Uuids |-> 0]

-----------------------------------------------------------------------------
(* Fields that are appended, also when there is one of their type *)

addData(data) == m_payload' = WithData(m_payload, BLE_HS_ADV_MAX_SZ, data)
removeData(type) == m_payload' = WithoutField(m_payload, type)

setAppearance(appearance) ==
  m_payload' = WithAppearance(m_payload, BLE_HS_ADV_MAX_SZ, appearance)

\* Without flags in the payload, none is added too.
setFlags(flag) ==
  LET loc == getDataLocation(m_payload, FLAGS)
  IN  CASE loc = 0 -> addData(Field(FLAGS, <<flag + BREDR_UNSUP>>))
        [] loc # 0 /\ flag # 0 -> m_payload' = [m_payload EXCEPT ![loc + 2] = flag + BREDR_UNSUP]
        [] OTHER -> removeData(FLAGS)

addTxPower(power) == addData(Field(TX_PWR_LVL, <<power>>))

setPreferredParams(minInterval, maxInterval) ==
  m_payload' = WithPreferredParams(m_payload, BLE_HS_ADV_MAX_SZ, minInterval, maxInterval)

Bounded(type, value) ==
  IF Len(value) > BLE_HS_ADV_MAX_FIELD_SZ THEN UNCHANGED m_payload ELSE addData(Field(type, value))

setManufacturerData(data) == Bounded(MFG_DATA, data)

setURI(uri) == Bounded(URI, uri)

\* A name that is too long is cut and no longer complete.
setName(name, isComplete) ==
  IF Len(name) > BLE_HS_ADV_MAX_FIELD_SZ
    THEN addData(Field(INCOMP_NAME, SubSeq(name, 1, BLE_HS_ADV_MAX_FIELD_SZ)))
    ELSE addData(Field(IF isComplete THEN COMP_NAME ELSE INCOMP_NAME, name))

\* Without data the first field of the type goes, whichever service it is of.
setServiceData(uuid, data) ==
  CASE 2 + Len(uuid) + Len(data) > BLE_HS_ADV_MAX_SZ -> UNCHANGED m_payload
    [] data = <<>> -> removeData(SVC_DATA(Len(uuid)))
    [] OTHER -> addData(Field(SVC_DATA(Len(uuid)), uuid \o data))

-----------------------------------------------------------------------------
(* Lists of services *)

Listed(uuids) == listed' = [u \in Uuids |->
  listed[u] + Cardinality({i \in DOMAIN uuids : uuids[i] = u})]

addServiceUUID(uuid) ==
  IF Fits(m_payload, BLE_HS_ADV_MAX_SZ, RoomForUuid(m_payload, uuid))
    THEN Listed(<<uuid>>) /\ m_payload' = WithUuid(m_payload, uuid)
    ELSE UNCHANGED advertisement

removeServiceUUID(uuid) ==
  LET loc == getDataLocation(m_payload, COMP_UUIDS(Len(uuid)))
      mine == {i \in Matches(m_payload, loc, uuid) : i <= loc + m_payload[loc]}
  IN  IF loc = 0
        THEN UNCHANGED <<m_payload, listed>>
        ELSE /\ SparesLaterFields => mine # {} \/ Matches(m_payload, loc, uuid) = {}
             /\ m_payload' = Removed(m_payload, loc, uuid)
             /\ listed' = [listed EXCEPT ![uuid] = IF mine = {} THEN @ ELSE @ - 1]

\* The loop passes over the UUIDs of another size.
OfSize(uuids, bytes) ==
  LET from[i \in 1 .. Len(uuids) + 1] ==
        IF i > Len(uuids) THEN <<>>
        ELSE (IF Len(uuids[i]) = bytes THEN <<uuids[i]>> ELSE <<>>) \o from[i + 1]
  IN  from[1]

\* The UUIDs of one size, as many as fit into a payload; then the list is partial.
setServices(complete, bytes, uuids) ==
  LET valid == OfSize(uuids, bytes)
      room == (BLE_HS_ADV_MAX_SZ - 3) \div bytes
      taken == IF Len(valid) > room THEN SubSeq(valid, 1, room) ELSE valid
      type == IF complete /\ taken = valid THEN COMP_UUIDS(bytes) ELSE INCOMP_UUIDS(bytes)
  IN  /\ addData(Field(type, SideBySide(taken, bytes)))
      /\ IF Fits(m_payload, BLE_HS_ADV_MAX_SZ, 2 + bytes * Len(taken)) THEN Listed(taken) ELSE UNCHANGED listed

clearData == m_payload' = <<>> /\ listed' = [u \in Uuids |-> 0]

-----------------------------------------------------------------------------

AdvertisementNext ==
  \/ /\ UNCHANGED listed
     /\ \/ \E t \in Texts : \/ setManufacturerData(t) \/ setURI(t)
                            \/ \E c \in BOOLEAN : setName(t, c)
        \/ \E f \in {0, 2} : setFlags(f)
        \/ \E a \in {<<0, 0>>, <<1, 0>>} : setAppearance(a)
        \/ addTxPower(9)
        \/ \E v \in {0, 256} : setPreferredParams(v, 6)
        \/ \E u \in Uuids, t \in Texts \cup {<<>>} : setServiceData(u, t)
  \/ \E u \in Uuids : addServiceUUID(u) \/ removeServiceUUID(u)
  \/ \E c \in BOOLEAN, u \in Uuids : setServices(c, Len(u), <<u>>)
  \/ \E c \in BOOLEAN, u \in Uuids, v \in Uuids : setServices(c, Len(u), <<u, v>>)
  \/ clearData

AdvertisementSpec == AdvertisementInit /\ [][AdvertisementNext]_advertisement

-----------------------------------------------------------------------------
(* Properties *)

\* Whatever is added, changed and removed, the payload fits the controller and is a
\* sequence of whole fields.
WholeFields == Len(m_payload) <= BLE_HS_ADV_MAX_SZ /\ WholeFieldsIn(m_payload)
=============================================================================
