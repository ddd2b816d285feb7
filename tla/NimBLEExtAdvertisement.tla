----------------------- MODULE NimBLEExtAdvertisement -----------------------
(***************************************************************************)
(* The payload of an extended advertisement (the class of that name in     *)
(* NimBLEExtAdvertising.cpp), byte by byte like the legacy one: fields of  *)
(* a length byte, a type and a value.  Where the code repeats the legacy   *)
(* code with its own limit, the definition is that of NimBLEAdvFields.     *)
(*                                                                         *)
(* The file is compiled with CONFIG_BT_NIMBLE_EXT_ADV only, which this     *)
(* firmware's sdkconfig leaves off.                                        *)
(***************************************************************************)
EXTENDS NimBLEAdvFields

CONSTANTS CONFIG_BT_NIMBLE_MAX_EXT_ADV_DATA_LEN,
          ExtUuids,        \* UUIDs as sequences of 2, 4 or 16 bytes
          ExtTexts,        \* names and data
          FitsFirst        \* the application asks for a header and a value only if both fit

\* Up to 255 bytes no length byte wraps.
ASSUME ExtDataAssumption == CONFIG_BT_NIMBLE_MAX_EXT_ADV_DATA_LEN \in 1 .. 255

ASSUME ExtBytesAssumption ==
  /\ \A u \in ExtUuids : u \in Seq(Octet) /\ Len(u) \in {2, 4, 16}
  /\ \A t \in ExtTexts : t \in Seq(Octet)

VARIABLES ext_payload,
          legacy_pdu, include_tx_power   \* of m_params

ext_advertisement == <<ext_payload, legacy_pdu, include_tx_power>>

ExtMax == CONFIG_BT_NIMBLE_MAX_EXT_ADV_DATA_LEN

ExtAdvertisementInit == ext_payload = <<>> /\ legacy_pdu = FALSE /\ include_tx_power = FALSE

-----------------------------------------------------------------------------
(* Operations the two payloads share *)

setExtAppearance(appearance) ==
  ext_payload' = WithAppearance(ext_payload, ExtMax, appearance)

setExtPreferredParams(minInterval, maxInterval) ==
  ext_payload' = WithPreferredParams(ext_payload, ExtMax, minInterval, maxInterval)

addExtServiceUUID(uuid) ==
  ext_payload' = IF Fits(ext_payload, ExtMax, RoomForUuid(ext_payload, uuid))
                   THEN WithUuid(ext_payload, uuid) ELSE ext_payload

\* Looked for beyond the list's end too; only calls that find it inside are made.
removeExtServiceUUID(uuid) ==
  LET loc == getDataLocation(ext_payload, COMP_UUIDS(Len(uuid)))
  IN  IF loc = 0 THEN UNCHANGED ext_payload
      ELSE /\ \A i \in Matches(ext_payload, loc, uuid) : i <= loc + ext_payload[loc]
           /\ ext_payload' = Removed(ext_payload, loc, uuid)

-----------------------------------------------------------------------------
(* Operations of its own *)

\* The header and the value are added one by one.  Without room for the header the last
\* two bytes of the payload go; without room for the value the header stays.
AddsHeaderAndValue(type, value) ==
  /\ FitsFirst => Fits(ext_payload, ExtMax, 2 + Len(value))
  /\ ext_payload' =
       CASE ~Fits(ext_payload, ExtMax, 2) -> SubSeq(ext_payload, 1, Len(ext_payload) - 2)
         [] Fits(ext_payload, ExtMax, 2) /\ ~Fits(ext_payload, ExtMax, 2 + Len(value)) ->
              ext_payload \o <<Len(value) + 1, type>>
         [] OTHER -> ext_payload \o Field(type, value)

setExtManufacturerData(data) == AddsHeaderAndValue(MFG_DATA, data)

setExtURI(uri) == AddsHeaderAndValue(URI, uri)

setExtName(name, isComplete) ==
  AddsHeaderAndValue(IF isComplete THEN COMP_NAME ELSE INCOMP_NAME, name)

\* Flags are appended, also when there are some.
setExtFlags(flag) ==
  IF flag = 0 THEN ext_payload' = WithoutField(ext_payload, FLAGS)
              ELSE ext_payload' = WithData(ext_payload, ExtMax, Field(FLAGS, <<flag + BREDR_UNSUP>>))

\* Mutant: what was added of the list goes when the rest does not fit, but not its header.
RollsBackUuids(complete, bytes, uuids) ==
  LET type == IF complete THEN COMP_UUIDS(bytes) ELSE INCOMP_UUIDS(bytes)
      header == <<bytes * Len(uuids) + 1, type>>
  IN  ext_payload' = CASE ~Fits(ext_payload, ExtMax, 2) -> ext_payload
                       [] Fits(ext_payload, ExtMax, 2) /\ ~Fits(ext_payload, ExtMax, 2 + bytes * Len(uuids)) ->
                            ext_payload \o header
                       [] OTHER -> ext_payload \o header \o SideBySide(uuids, bytes)

\* UUIDs of one size: a header for all of them, then one by one, and back again when one
\* does not fit.
setExtServices(complete, bytes, uuids) ==
  LET type == IF complete THEN COMP_UUIDS(bytes) ELSE INCOMP_UUIDS(bytes)
      header == <<bytes * Len(uuids) + 1, type>>
  IN  ext_payload' = IF Fits(ext_payload, ExtMax, 2 + bytes * Len(uuids))
                       THEN ext_payload \o header \o SideBySide(uuids, bytes)
                       ELSE ext_payload

\* The room is looked for before anything is done, a removal included.
setExtServiceData(uuid, data) ==
  CASE ~Fits(ext_payload, ExtMax, 2 + Len(uuid) + Len(data)) -> UNCHANGED ext_payload
    [] Fits(ext_payload, ExtMax, 2 + Len(uuid)) /\ data = <<>> ->
         ext_payload' = WithoutField(ext_payload, SVC_DATA(Len(uuid)))
    [] OTHER -> ext_payload' = WithData(ext_payload, ExtMax, Field(SVC_DATA(Len(uuid)), uuid \o data))

\* A field only in a legacy advertisement; else the controller adds it.
addExtTxPower(power) ==
  /\ include_tx_power' = ~legacy_pdu
  /\ IF legacy_pdu THEN ext_payload' = WithData(ext_payload, ExtMax, Field(TX_PWR_LVL, <<power>>))
                   ELSE UNCHANGED ext_payload
  /\ UNCHANGED legacy_pdu

\* Fields the application built itself.
setExtData(data) ==
  ext_payload' = IF Len(data) <= ExtMax THEN data ELSE ext_payload

clearExtData == ext_payload' = <<>>

setLegacyAdvertising(enable) ==
  legacy_pdu' = enable /\ UNCHANGED <<ext_payload, include_tx_power>>

ExtAdvertisementNext ==
  \/ /\ UNCHANGED <<legacy_pdu, include_tx_power>>
     /\ \/ \E t \in ExtTexts : \/ setExtManufacturerData(t) \/ setExtURI(t)
                               \/ \E c \in BOOLEAN : setExtName(t, c)
                               \/ setExtData(Field(MFG_DATA, t))
        \/ \E f \in {0, 2} : setExtFlags(f)
        \/ \E a \in {<<0, 0>>, <<1, 0>>} : setExtAppearance(a)
        \/ setExtPreferredParams(0, 6)
        \/ \E u \in ExtUuids, t \in ExtTexts \cup {<<>>} : setExtServiceData(u, t)
        \/ \E u \in ExtUuids : addExtServiceUUID(u) \/ removeExtServiceUUID(u)
        \/ \E c \in BOOLEAN, u \in ExtUuids : setExtServices(c, Len(u), <<u, u>>)
        \/ clearExtData
  \/ addExtTxPower(9)
  \/ \E e \in BOOLEAN : setLegacyAdvertising(e)

ExtAdvertisementSpec == ExtAdvertisementInit /\ [][ExtAdvertisementNext]_ext_advertisement

-----------------------------------------------------------------------------
(* Properties *)

\* The payload of an application that adds headers and values only where both fit is always
\* a sequence of whole fields within the limit: what the code itself checks or takes back
\* (lists of services, service data, single fields) leaves nothing of a failed call.
ExtWholeFields == Len(ext_payload) <= ExtMax /\ WholeFieldsIn(ext_payload)
=============================================================================
