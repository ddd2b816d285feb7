------------------------------ MODULE NimBLEUUID ------------------------------
(***************************************************************************)
(* UUIDs of esp-nimble-cpp (NimBLEUUID.cpp): 16, 32 or 128 bits, the       *)
(* conversions between the forms of one UUID, and the comparison all       *)
(* look-ups of services and characteristics use.  Bytes are kept in the    *)
(* order of the memory, the least significant first; ble_base_uuid is the  *)
(* part of the base UUID below the four bytes that a short one fills.      *)
(***************************************************************************)
EXTENDS Naturals, Sequences, SequencesExt

CONSTANTS ble_base_uuid, Others,   \* other UUIDs' lower bytes, as many
          Words,                   \* values of two bytes
          LongStayLong             \* to16 is asked only of UUIDs that 16 bits can hold

Byte == 0 .. 255
OfBytes(n) == {s \in Seq(Byte) : Len(s) = n}

ASSUME UuidAssumption ==
  /\ ble_base_uuid \in Seq(Byte) /\ Others \cup Words \subseteq Seq(Byte)
  /\ \A w \in Words : Len(w) = 2
  /\ \A b \in Others : Len(b) = Len(ble_base_uuid)

VARIABLES uuid, means              \* an object, and the 128 bits it was made for

uuid_object == <<uuid, means>>

InvalidUuid == [bits |-> 0, bytes |-> <<>>]
FourBytes == {v \o w : v, w \in Words}
AllBytes == {b \o s : b \in Others \cup {ble_base_uuid}, s \in FourBytes}

Short16 == [bits : {16}, bytes : Words]
Short32 == [bits : {32}, bytes : FourBytes]
Long == [bits : {128}, bytes : AllBytes]

AllUuids == Short16 \cup Short32 \cup Long

Zeroes(n) == [i \in 1 .. n |-> 0]

\* The four bytes over the base, of a short one.
Filled(bytes) == bytes \o Zeroes(4 - Len(bytes))

Lower(u) == SubSeq(u.bytes, 1, Len(ble_base_uuid))
Upper(u) == SubSeq(u.bytes, Len(ble_base_uuid) + 1, Len(u.bytes))

-----------------------------------------------------------------------------
(* Conversions *)

to128(u) ==
  IF u.bits = 128 THEN u ELSE [bits |-> 128, bytes |-> ble_base_uuid \o Filled(u.bytes)]

\* Mutant: a 128 bit UUID of any base.
to16OfAny(u) ==
  IF u.bits = 128 THEN [bits |-> 16, bytes |-> SubSeq(Upper(u), 1, 2)] ELSE u

\* The upper two bytes are dropped, whatever they are.
to16(u) ==
  IF u.bits = 128 /\ Lower(u) = ble_base_uuid
    THEN [bits |-> 16, bytes |-> SubSeq(Upper(u), 1, 2)] ELSE u

reverseByteOrder(u) == [u EXCEPT !.bytes = Reverse(@)]

\* Characters: 4 or 8 digits, or 36 with the hyphens, which are read only without "0x".
fromString(u, prefixed) ==
  IF u.bits = 128 /\ prefixed THEN InvalidUuid ELSE u

\* operator==: a short one is laid over the base to compare it with 128 bits; one of 16
\* and one of 32 are never equal.
Equal(u, v) ==
  CASE u.bits = 0 \/ v.bits = 0 -> FALSE
    [] u.bits = v.bits -> u.bytes = v.bytes
    [] u.bits # v.bits /\ u.bits = 128 -> u.bytes = ble_base_uuid \o Filled(v.bytes)
    [] u.bits # v.bits /\ v.bits = 128 -> v.bytes = ble_base_uuid \o Filled(u.bytes)
    [] OTHER -> FALSE

-----------------------------------------------------------------------------

UuidInit ==
  \E u \in AllUuids, prefixed \in BOOLEAN :
    /\ uuid = fromString(u, prefixed) /\ uuid # InvalidUuid
    /\ means = to128(u).bytes

Widens == uuid' = to128(uuid) /\ UNCHANGED means

Narrows ==
  /\ LongStayLong /\ uuid.bits = 128 /\ Lower(uuid) = ble_base_uuid =>
       SubSeq(Upper(uuid), 3, 4) = Zeroes(2)
  /\ uuid' = to16(uuid) /\ UNCHANGED means

\* Another UUID from here on.
Reverses ==
  /\ uuid' = reverseByteOrder(uuid) /\ uuid' \in AllUuids
  /\ means' = to128(uuid').bytes

UuidNext == Widens \/ Narrows \/ Reverses

UuidSpec == UuidInit /\ [][UuidNext]_uuid_object

-----------------------------------------------------------------------------
(* Properties *)

\* However often a UUID has been widened, narrowed and turned round, it stands for the same
\* 128 bits, and compares equal to exactly the UUIDs that stand for them, in whichever form
\* the peer or the application gives them; but not a 16 bit to a 32 bit one.
SameUuid ==
  /\ to128(uuid).bytes = means
  /\ \A v \in AllUuids :
       {uuid.bits, v.bits} # {16, 32} => (Equal(uuid, v) <=> to128(v).bytes = means)
=============================================================================
