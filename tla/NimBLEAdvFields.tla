--------------------------- MODULE NimBLEAdvFields ---------------------------
(***************************************************************************)
(* A payload that is advertised, byte by byte because the code computes    *)
(* with positions: fields of a length byte, a type and a value, one after  *)
(* the other.  The legacy and the extended class repeat each other's code  *)
(* with a limit of their own; what they share is here, as functions of the *)
(* payload p and the limit max.                                            *)
(***************************************************************************)
EXTENDS Integers, Sequences

Octet == 0 .. 255

FLAGS == 1
INCOMP_UUIDS(bytes) == CASE bytes = 2 -> 2 [] bytes = 4 -> 4 [] bytes = 16 -> 6
COMP_UUIDS(bytes) == INCOMP_UUIDS(bytes) + 1
INCOMP_NAME == 8
COMP_NAME == 9
TX_PWR_LVL == 10
SLAVE_ITVL_RANGE == 18
SVC_DATA(bytes) == CASE bytes = 2 -> 22 [] bytes = 4 -> 32 [] bytes = 16 -> 33
APPEARANCE == 25
URI == 36
MFG_DATA == 255

-----------------------------------------------------------------------------
(* Fields *)

Field(type, value) == <<Len(value) + 1, type>> \o value

Fits(p, max, length) == Len(p) + length <= max

WithData(p, max, data) == IF Fits(p, max, Len(data)) THEN p \o data ELSE p

\* The first field of a type, walking from field to field; 0 if there is none.
getDataLocation(p, type) ==
  LET at[i \in Nat \ {0}] == IF i > Len(p) THEN 0
                             ELSE IF p[i + 1] = type THEN i ELSE at[i + p[i] + 1]
  IN  at[1]

WithoutBytes(p, first, count) == SubSeq(p, 1, first - 1) \o SubSeq(p, first + count, Len(p))

WithoutField(p, type) ==
  LET loc == getDataLocation(p, type)
  IN  IF loc = 0 THEN p ELSE WithoutBytes(p, loc, p[loc] + 1)

WithAppearance(p, max, appearance) ==
  IF appearance = <<0, 0>> THEN WithoutField(p, APPEARANCE)
                           ELSE WithData(p, max, Field(APPEARANCE, appearance))

BREDR_UNSUP == 4      \* set in every value of flags, which are even here

\* Both limits are brought into 0x6 .. 0xC80, and the greater one is not below the other.
WithPreferredParams(p, max, minInterval, maxInterval) ==
  LET Limited(v) == IF v < 6 THEN 6 ELSE IF v > 3200 THEN 3200 ELSE v
      least == Limited(minInterval)
      most == IF Limited(maxInterval) < least THEN least ELSE Limited(maxInterval)
  IN  WithData(p, max, Field(SLAVE_ITVL_RANGE,
                             <<least % 256, least \div 256, most % 256, most \div 256>>))

-----------------------------------------------------------------------------
(* Lists of services *)

\* The UUIDs, all of one size, one after the other.
SideBySide(uuids, bytes) ==
  [i \in 1 .. bytes * Len(uuids) |-> uuids[((i - 1) \div bytes) + 1][((i - 1) % bytes) + 1]]

\* Into the complete list of the UUID's size, which is made if there is none.
RoomForUuid(p, uuid) ==
  Len(uuid) + IF getDataLocation(p, COMP_UUIDS(Len(uuid))) = 0 THEN 2 ELSE 0

WithUuid(p, uuid) ==
  LET loc == getDataLocation(p, COMP_UUIDS(Len(uuid)))
      end == loc + p[loc]
  IN  IF loc = 0 THEN p \o Field(COMP_UUIDS(Len(uuid)), uuid)
      ELSE [SubSeq(p, 1, end) EXCEPT ![loc] = @ + Len(uuid)] \o uuid \o SubSeq(p, end + 1, Len(p))

\* Every bytes-th position from the list on, to the end of the whole payload.  (The last
\* comparison may read past that end; it is taken to find nothing there.)
Matches(p, loc, uuid) ==
  {i \in loc + 2 .. Len(p) - Len(uuid) + 1 :
     (i - loc - 2) % Len(uuid) = 0 /\ SubSeq(p, i, i + Len(uuid) - 1) = uuid}

\* The last one takes the field with it.
Removed(p, loc, uuid) ==
  IF Matches(p, loc, uuid) = {} THEN p
  ELSE LET first == CHOOSE i \in Matches(p, loc, uuid) : \A j \in Matches(p, loc, uuid) : i <= j
       IN  IF p[loc] - Len(uuid) = 1
             THEN WithoutBytes(p, loc, p[loc] + 1)
             ELSE WithoutBytes([p EXCEPT ![loc] = @ - Len(uuid)], first, Len(uuid))

-----------------------------------------------------------------------------

\* From each field to the next, and at last to the end.
WholeFieldsIn(p) ==
  LET whole[i \in Nat \ {0}] == IF i < Len(p) /\ p[i] > 0 THEN whole[i + p[i] + 1]
                                ELSE i = Len(p) + 1
  IN  whole[1]
=============================================================================
