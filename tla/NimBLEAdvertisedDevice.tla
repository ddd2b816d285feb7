----------------------- MODULE NimBLEAdvertisedDevice -----------------------
(***************************************************************************)
(* How a scanner reads a payload (NimBLEAdvertisedDevice.cpp), composed    *)
(* with the code that builds one: what the application put into the        *)
(* advertisement is what a scanning application is told.                   *)
(*                                                                         *)
(* UUIDs are compared by their bytes; indices are below 256.               *)
(***************************************************************************)
EXTENDS NimBLEAdvertisementData, SequencesExt

Nothing == <<>>      \* an empty string or UUID

-----------------------------------------------------------------------------
(* findAdvField *)

\* There is a field at the position, and more of it than its length and type.
IsField(p, i) == Len(p) - i >= 2 /\ p[i] <= Len(p) - i

IsList(type) == type \in 2 .. 7
Width(type) == CASE type \in {2, 3} -> 2 [] type \in {4, 5} -> 4 [] type \in {6, 7} -> 16

\* A complete name is looked for in fields of an incomplete one too.
IsOf(p, i, type) == p[i + 1] = type \/ (type = COMP_NAME /\ p[i + 1] = INCOMP_NAME)

\* A list counts as many as its length, with the type byte in it, has room for.
Entries(p, i, type) == IF IsList(type) THEN p[i] \div Width(type) ELSE 1

\* Mutant: the first name that is found ends the search, complete or not.
FirstNameSeen(found, p, i, type) == found

\* An incomplete name is remembered, and the search for the complete one goes on.
NameSeen(found, p, i, type) ==
  IF type = COMP_NAME /\ p[i + 1] = INCOMP_NAME
    THEN [found EXCEPT !.loc = i, !.index = @ + 1] ELSE found

\* The loop's variables; it is broken off at the field that holds the entry of the index.
Scan == [data : Nat \ {0}, count : Nat, index : Nat, loc : Nat, ended : BOOLEAN]

Read(p, type, data_loc, found) ==
  LET i == found.data
      seen == NameSeen(found, p, i, type)
      count == seen.count + Entries(p, i, type)
      passed == [found EXCEPT !.data = i + p[i] + 1]
  IN  IF ~IsOf(p, i, type) THEN passed
      ELSE IF data_loc /\ count > seen.index
             THEN [seen EXCEPT !.count = count, !.loc = i, !.ended = TRUE]
             ELSE [seen EXCEPT !.count = count, !.data = passed.data]

findAdvField(p, type, index, data_loc) ==
  LET walk[found \in Scan] ==
        IF found.ended \/ ~IsField(p, found.data) THEN found ELSE walk[Read(p, type, data_loc, found)]
  IN  walk[[data |-> 1, count |-> 0, index |-> index, loc |-> 0, ended |-> FALSE]]

Count(p, type) == findAdvField(p, type, 0, FALSE).count
haveType(p, type) == Count(p, type) > 0

-----------------------------------------------------------------------------
(* What the scanning application asks for *)

Bytes(p, first, count) == SubSeq(p, first, first + count - 1)

getPayloadByType(p, type, index) ==
  LET found == findAdvField(p, type, index, TRUE)
  IN  IF found.count > 0 /\ found.loc # 0 /\ p[found.loc] > 1
        THEN Bytes(p, found.loc + 2, p[found.loc] - 1) ELSE Nothing

getName(p) == getPayloadByType(p, COMP_NAME, 0)

\* The index goes through the types, one after the other.
findServiceData(p, index) ==
  LET in16 == findAdvField(p, 22, index, TRUE)
      in32 == findAdvField(p, 32, index - in16.count, TRUE)
      in128 == findAdvField(p, 33, index - in16.count - in32.count, TRUE)
  IN  IF in16.count > index THEN [bytes |-> 2, loc |-> in16.loc]
      ELSE IF in16.count + in32.count > index THEN [bytes |-> 4, loc |-> in32.loc]
      ELSE IF in16.count + in32.count + in128.count > index THEN [bytes |-> 16, loc |-> in128.loc]
      ELSE [bytes |-> 0, loc |-> 0]

getServiceDataCount(p) == Count(p, 22) + Count(p, 32) + Count(p, 33)

\* Of the first entry with this UUID.
getServiceData(p, uuid) ==
  LET At(n) == findServiceData(p, n)
      Is(n) == At(n).bytes = Len(uuid) /\ Bytes(p, At(n).loc + 2, Len(uuid)) = uuid
      mine == {n \in 0 .. getServiceDataCount(p) - 1 : Is(n)}
  IN  IF mine = {} THEN Nothing
      ELSE LET d == At(CHOOSE n \in mine : \A m \in mine : n <= m)
           IN  Bytes(p, d.loc + 2 + d.bytes, p[d.loc] - d.bytes - 1)

getServiceUUIDCount(p) == Count(p, 2) + Count(p, 3) + Count(p, 4) + Count(p, 5) + Count(p, 6) + Count(p, 7)

\* The list type that has an entry for the index, and the index among its entries.
findServiceList(p, index) ==
  LET search[at \in [type : 2 .. 8, index : Nat]] ==
        IF at.type = 8 \/ findAdvField(p, at.type, at.index, TRUE).count > at.index
          THEN at
          ELSE search[[type |-> at.type + 1,
                       index |-> at.index - findAdvField(p, at.type, at.index, TRUE).count]]
  IN  search[[type |-> 2, index |-> index]]

\* The index is brought from all fields of the type to the field that was found, though
\* only if that field is too short for it.
getServiceUUID(p, index) ==
  LET at == findServiceList(p, index)
      found == findAdvField(p, at.type, at.index, TRUE)
      width == Width(at.type)
      length == p[found.loc]
      nth == IF length < (at.index + 1) * width
               THEN at.index + 1 - (found.count - length \div width) ELSE at.index + 1
  IN  IF at.type # 8 /\ length > width * nth
        THEN Bytes(p, found.loc + 2 + width * (nth - 1), width) ELSE Nothing

isAdvertisingService(p, uuid) ==
  \E n \in 0 .. getServiceUUIDCount(p) - 1 : getServiceUUID(p, n) = uuid

-----------------------------------------------------------------------------
(* Properties *)

\* The positions of a payload's fields, as far as they are whole.
FieldsOf(p) ==
  LET walk[at \in [data : Nat \ {0}, fields : SUBSET Nat]] ==
        IF ~IsField(p, at.data) THEN at.fields
        ELSE walk[[data |-> at.data + p[at.data] + 1, fields |-> at.fields \cup {at.data}]]
  IN  walk[[data |-> 1, fields |-> {}]]

OfType(p, type) == {i \in FieldsOf(p) : p[i + 1] = type}
Values(type) == {Bytes(m_payload, i + 2, m_payload[i] - 1) : i \in OfType(m_payload, type)}
DataOf(u) == {SubSeq(v, Len(u) + 1, Len(v)) : v \in {w \in Values(SVC_DATA(Len(u))) : IsPrefix(u, w)}}
Once(type) == Cardinality(OfType(m_payload, type)) <= 1

AnyOf(set) == IF set = {} THEN {Nothing} ELSE set

\* NimBLEAdvertisedDevice.cpp says that, of a UUID list in several fields, "we need to adjust
\* the index to account for the uuids of the previous fields"; then every listed service
\* would be found.  It is not, where a list type occurs twice.
EveryServiceFound == \A u \in Uuids : isAdvertisingService(m_payload, u) <=> listed[u] > 0

\* Whatever is added, changed and removed, the payload is a sequence of whole fields that
\* fits the controller, and a scanner finds in it what was put there: every service where no
\* list type occurs twice, a complete name if there is one, and the data of a service and
\* of no other, whatever other fields stand before or after them.
ScannedAsBuilt ==
  /\ WholeFields
  /\ (\A type \in 2 .. 7 : Once(type)) => EveryServiceFound
  /\ getName(m_payload) \in
       AnyOf(IF Values(COMP_NAME) # {} THEN Values(COMP_NAME) ELSE Values(INCOMP_NAME))
  /\ \A u \in Uuids : getServiceData(m_payload, u) \in AnyOf(DataOf(u))
=============================================================================
