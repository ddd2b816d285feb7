--------------------------- MODULE NimBLEHIDDevice ---------------------------
(***************************************************************************)
(* The HID device of NimBLEHIDDevice.cpp: characteristics that are made    *)
(* when they are first asked for.  A report is found again by the value of *)
(* its report reference descriptor, an identifier and a type, among the    *)
(* characteristics of one UUID; everything else by its UUID.  The HID      *)
(* service's vector also takes what an application adds to it.             *)
(*                                                                         *)
(* Assumed: one task asks, what an application adds has another UUID, and  *)
(* a peer leaves the references of output and feature reports alone,       *)
(* though they are made writable.                                          *)
(***************************************************************************)
EXTENDS Naturals, Sequences, FiniteSets

CONSTANTS ReportIds,       \* report identifiers
          MaxAdded,        \* bound: characteristics the application adds
          MaxHidChars      \* bound: characteristics of the HID service

ReportTypes == {"input", "output", "feature"}
Reports == ReportIds \X ReportTypes
BootUuids == {"bootInput", "bootOutput"}
Boots == {<<uuid>> : uuid \in BootUuids}
Wanted == Reports \cup Boots \cup {<<"manufacturer">>}

NoReference == <<>>
Characteristic(uuid, reference) == [uuid |-> uuid, reference |-> reference]

VARIABLES
  hid_chars,       \* m_hidSvc's characteristics
  info_chars,      \* m_deviceInfoSvc's characteristics
  m_manufacturerChr, \* its place in info_chars, 0 for nullptr
  given            \* what was last returned for each thing asked for, 0 for nothing

hid == <<hid_chars, info_chars, m_manufacturerChr, given>>

\* The constructor makes the mandatory characteristics.
HidInit ==
  /\ hid_chars = << Characteristic("hidInfo", NoReference), Characteristic("reportMap", NoReference),
                    Characteristic("hidControl", NoReference),
                    Characteristic("protocolMode", NoReference) >>
  /\ info_chars = << Characteristic("pnp", NoReference) >>
  /\ m_manufacturerChr = 0
  /\ given = [w \in Wanted |-> 0]

\* getCharacteristic(uuid, idx): the idx-th of this UUID, from 0; 0 for nullptr.
PlacesOf(uuid) == {i \in DOMAIN hid_chars : hid_chars[i].uuid = uuid}
Before(i, places) == Cardinality({j \in places : j < i})
getCharacteristic(uuid, idx) ==
  IF \E i \in PlacesOf(uuid) : Before(i, PlacesOf(uuid)) = idx
    THEN CHOOSE i \in PlacesOf(uuid) : Before(i, PlacesOf(uuid)) = idx
    ELSE 0

\* Of the places that count the one with the lowest index, which the loop over idx meets
\* first; 0 for nullptr.
Foremost(places) == IF places = {} THEN 0 ELSE CHOOSE i \in places : Before(i, places) = 0

\* Mutant: the first characteristic with the identifier, whatever its type.
LocatesById(reportId, reportType) ==
  Foremost({i \in PlacesOf("report") : hid_chars[i].reference[1] = reportId})

locateReportCharacteristicByIdAndType(reportId, reportType) ==
  Foremost({i \in PlacesOf("report") : hid_chars[i].reference = <<reportId, reportType>>})

\* Finds, or makes and appends to the vector.
FindsOrMakes(wanted, found, made) ==
  /\ found # 0 \/ Len(hid_chars) < MaxHidChars
  /\ hid_chars' = IF found = 0 THEN Append(hid_chars, made) ELSE hid_chars
  /\ given' = [given EXCEPT ![wanted] = IF found = 0 THEN Len(hid_chars') ELSE found]
  /\ UNCHANGED <<info_chars, m_manufacturerChr>>

Report(id, type) ==
  FindsOrMakes(<<id, type>>, locateReportCharacteristicByIdAndType(id, type),
          Characteristic("report", <<id, type>>))

getInputReport(id) == Report(id, "input")
getOutputReport(id) == Report(id, "output")
getFeatureReport(id) == Report(id, "feature")

Boot(uuid) == FindsOrMakes(<<uuid>>, getCharacteristic(uuid, 0), Characteristic(uuid, NoReference))
getBootInput == Boot("bootInput")
getBootOutput == Boot("bootOutput")

\* setManufacturer: optional, made once and then remembered.
setManufacturer ==
  /\ info_chars' = IF m_manufacturerChr = 0
                   THEN Append(info_chars, Characteristic("manufacturer", NoReference))
                   ELSE info_chars
  /\ m_manufacturerChr' = IF m_manufacturerChr = 0 THEN Len(info_chars') ELSE m_manufacturerChr
  /\ given' = [given EXCEPT ![<<"manufacturer">>] = m_manufacturerChr']
  /\ UNCHANGED hid_chars

\* The application adds to the services by getHidService and getDeviceInfoService.
Added(chars) == Cardinality({i \in DOMAIN chars : chars[i].uuid = "other"})
AppAdds ==
  /\ Added(hid_chars) + Added(info_chars) < MaxAdded
  /\ \/ /\ hid_chars' = Append(hid_chars, Characteristic("other", NoReference))
        /\ UNCHANGED info_chars
     \/ /\ info_chars' = Append(info_chars, Characteristic("other", NoReference))
        /\ UNCHANGED hid_chars
  /\ UNCHANGED <<m_manufacturerChr, given>>

HidNext ==
  \/ \E id \in ReportIds : getInputReport(id) \/ getOutputReport(id) \/ getFeatureReport(id)
  \/ getBootInput \/ getBootOutput \/ setManufacturer \/ AppAdds

HidSpec == HidInit /\ [][HidNext]_hid

-----------------------------------------------------------------------------
\* Whoever asks again gets the same characteristic, and two reports, of one
\* identifier or of one type, never share one (locateReportCharacteristicByIdAndType
\* and the get functions that make what it does not find).
OneCharacteristicEach ==
  [][/\ \A w \in Wanted : given[w] # 0 => given'[w] = given[w]
     /\ \A w, v \in Reports \cup Boots : w # v /\ given'[w] # 0 => given'[w] # given'[v]]_hid
=============================================================================
