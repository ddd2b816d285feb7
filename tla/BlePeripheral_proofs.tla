------------------------- MODULE BlePeripheral_proofs -------------------------
(***************************************************************************)
(* Proofs about what the device offers a peer: the answers of CoreBle, and *)
(* the parts of esp-nimble-cpp in which the application's calls meet the   *)
(* host's events: UUIDs and values of characteristics, the GATT server,    *)
(* the HID device, legacy and extended advertising; for every depth of     *)
(* queue and for every set of reports, services, characteristics,          *)
(* instances and UUIDs.                                                    *)
(***************************************************************************)
EXTENDS CoreBle, NimBLEUUID, NimBLEAttValue, NimBLEServer, NimBLEHIDDevice,
        NimBLEAdvertising, NimBLEExtAdvertising,
        FiniteSetTheorems, SequenceTheorems, WellFoundedInduction, TLAPS

-----------------------------------------------------------------------------
(* CoreBle *)

\* Payloads are numbered as the phone writes them.  What the phone has received is no later
\* than the value of the characteristic, that no later than the command under way, that
\* earlier than what is queued, and that earlier than what is being written.
Commands ==
  [step : {"none", "receive", "handle", "wait", "answer", "append", "notify", "restart"},
   n : Nat, kind : Kinds, waited : Nat]
BleTyped ==
  /\ {written, last_sent, tx_value, rx_task.n, on_write.n} \subseteq Nat
  /\ rx_queue \in Seq(Nat)
  /\ on_write \in [step : {"idle", "create", "send"}, n : Nat]
  /\ rx_task \in Commands
Earlier(n) ==
  /\ n <= written /\ (on_write.step # "idle" => n < on_write.n)
  /\ \A i \in 1 .. Len(rx_queue) : n < rx_queue[i]
InOrder ==
  /\ Earlier(last_sent) /\ Earlier(tx_value) /\ Earlier(rx_task.n)
  /\ tx_value # Empty => last_sent <= tx_value
  /\ rx_task.step \notin {"none", "receive"} => last_sent <= rx_task.n /\ tx_value <= rx_task.n
QueueInOrder ==
  /\ \A i, j \in 1 .. Len(rx_queue) : i < j => rx_queue[i] < rx_queue[j]
  /\ \A i \in 1 .. Len(rx_queue) : rx_queue[i] <= written
  /\ on_write.step # "idle" =>
       on_write.n = written /\ \A i \in 1 .. Len(rx_queue) : rx_queue[i] < on_write.n
BleInv == BleTyped /\ InOrder /\ QueueInOrder

LEMMA BleInvStarts == BleInit => BleInv
  BY DEF BleInit, BleInv, BleTyped, InOrder, QueueInOrder, Earlier, NoWrite, NoCommand, Empty,
         Kinds, Commands

LEMMA BleInvKept == BleInv /\ [BleNext]_ble => BleInv'
<1> SUFFICES ASSUME BleInv, [BleNext]_ble PROVE BleInv'
  OBVIOUS
<1> USE DEF BleInv, BleTyped, InOrder, QueueInOrder, Earlier, NoWrite, NoCommand, Empty, boot, tx,
            phone, Kinds, Commands
<1>1. CASE InitChecks
  BY <1>1 DEF InitChecks
<1>2. CASE InitCreates
  BY <1>2 DEF InitCreates, CreatesQueue
<1>3. CASE InitStartsTask
  BY <1>3 DEF InitStartsTask
<1>4. CASE PhoneConnects \/ PhoneDisconnects
  BY <1>4 DEF PhoneConnects, PhoneDisconnects
<1>5. CASE PhoneWrites
  BY <1>5 DEF PhoneWrites, HostFree
<1>6. CASE WriteCreates
  BY <1>6 DEF WriteCreates, CreatesQueue
<1>7. CASE WriteSends
  <2>1. /\ on_write.step = "send" /\ on_write' = [step |-> "idle", n |-> 0]
        /\ UNCHANGED <<written, last_sent, tx_value, rx_task>>
    BY <1>7 DEF WriteSends
  <2>2. CASE UNCHANGED rx_queue
    BY <2>1, <2>2
  <2>3. CASE rx_queue' = Append(rx_queue, on_write.n)
    <3>1. /\ rx_queue' \in Seq(Nat) /\ Len(rx_queue') = Len(rx_queue) + 1
          /\ Len(rx_queue) \in Nat /\ rx_queue'[Len(rx_queue) + 1] = on_write.n
          /\ \A i \in 1 .. Len(rx_queue) : rx_queue'[i] = rx_queue[i]
      BY <2>3
    <3>2. \A i \in 1 .. Len(rx_queue') :
            i \in 1 .. Len(rx_queue) \/ i = Len(rx_queue) + 1
      BY <3>1
    <3>3. BleTyped'
      BY <2>1, <3>1
    <3>4. InOrder'
      BY <2>1, <3>1, <3>2
    <3>5. ASSUME NEW i \in 1 .. Len(rx_queue'), NEW j \in 1 .. Len(rx_queue'), i < j
          PROVE  rx_queue'[i] < rx_queue'[j]
      <4>1. i \in 1 .. Len(rx_queue)
        BY <3>1, <3>5
      <4> QED  BY <2>1, <3>1, <3>2, <4>1, <3>5
    <3>6. ASSUME NEW i \in 1 .. Len(rx_queue') PROVE rx_queue'[i] <= written'
      <4>1. written' = written /\ on_write.n = written /\ written \in Nat
        BY <2>1
      <4>2. CASE i = Len(rx_queue) + 1
        BY <3>1, <4>1, <4>2
      <4>3. CASE i \in 1 .. Len(rx_queue)
        BY <3>1, <4>1, <4>3
      <4> QED  BY <3>2, <4>2, <4>3
    <3>7. QueueInOrder'
      BY <2>1, <3>5, <3>6
    <3> QED  BY <3>3, <3>4, <3>7
  <2> QED  BY <1>7, <2>2, <2>3 DEF WriteSends, Queued
<1>8. CASE HostSends
  <2>1. /\ last_sent' = (IF tx_value = 0 THEN last_sent ELSE tx_value)
        /\ UNCHANGED <<rx_queue, on_write, rx_task, tx_value, written>>
    BY <1>8 DEF HostSends
  <2> HIDE DEF Commands
  <2> QED  BY <2>1
<1>9. CASE ble_rx_task
  BY <1>9 DEF ble_rx_task, At, Elsewhere
<1>10. CASE handle_json_payload
  BY <1>10 DEF handle_json_payload, At, Goes, Elsewhere
<1>11. CASE Waits
  <2>1. /\ rx_task.step = "wait" /\ rx_task'.step \in {"wait", "answer"} /\ rx_task'.n = rx_task.n
        /\ rx_task' \in Commands
    <3>1. rx_task.step = "wait"
      BY <1>11 DEF Waits, At
    <3>2. CASE rx_task' = [rx_task EXCEPT !.step = "answer"]
      BY <3>1, <3>2
    <3>3. CASE rx_task' = [rx_task EXCEPT !.waited = @ + 1]
      <4>1. rx_task.waited + 1 \in Nat
        OBVIOUS
      <4>2. [rx_task EXCEPT !.waited = rx_task.waited + 1] \in Commands
        BY <4>1
      <4>3. /\ [rx_task EXCEPT !.waited = rx_task.waited + 1].step = rx_task.step
            /\ [rx_task EXCEPT !.waited = rx_task.waited + 1].n = rx_task.n
        OBVIOUS
      <4> QED  BY <3>1, <3>3, <4>2, <4>3
    <3>4. CASE rx_task' = [rx_task EXCEPT !.step = "answer", !.kind = "plain"]
      BY <3>1, <3>4
    <3> QED  BY <1>11, <3>2, <3>3, <3>4 DEF Waits, Goes
  <2>2. UNCHANGED <<rx_queue, tx_value, on_write, written, last_sent>>
    BY <1>11 DEF Waits, Elsewhere
  <2> HIDE DEF Commands
  <2> QED  BY <2>1, <2>2
<1>12. CASE AnswerEmpties
  <2>1. /\ rx_task.step = "answer" /\ rx_task'.step = "append" /\ rx_task'.n = rx_task.n
        /\ rx_task' \in Commands
    BY <1>12 DEF AnswerEmpties, At, Goes
  <2>2. UNCHANGED <<rx_queue, on_write, written, last_sent>> /\ tx_value' = 0
    BY <1>12 DEF AnswerEmpties, Elsewhere
  <2>3. Earlier(0)
    OBVIOUS
  <2> HIDE DEF Commands
  <2> QED  BY <2>1, <2>2, <2>3
<1>13. CASE AnswerAppends
  <2>1. /\ rx_task.step = "append" /\ rx_task'.step = "notify" /\ rx_task'.n = rx_task.n
        /\ rx_task' \in Commands
    BY <1>13 DEF AnswerAppends, At, Goes
  <2>2. UNCHANGED <<rx_queue, on_write, written, last_sent>> /\ tx_value' \in {rx_task.n, 0}
    BY <1>13 DEF AnswerAppends, Elsewhere
  <2>3. Earlier(0)
    OBVIOUS
  <2> HIDE DEF Commands
  <2> QED  BY <2>1, <2>2, <2>3
<1>14. CASE AnswerNotifies
  BY <1>14 DEF AnswerNotifies, At, Goes, Elsewhere
<1>15. CASE BleRestarts
  BY <1>15 DEF BleRestarts, Booting
<1>16. CASE UNCHANGED ble
  BY <1>16 DEF ble
<1> QED
  BY <1>1, <1>2, <1>3, <1>4, <1>5, <1>6, <1>7, <1>8, <1>9, <1>10, <1>11, <1>12, <1>13, <1>14,
     <1>15, <1>16 DEF BleNext, Handles

\* The safety half of AnswersForward, for every number of payloads and restarts: a
\* notification carries no answer earlier than the last one.
THEOREM AnswersGoForward == BleSpec => (Answered => AnswersForward)
<1>1. BleInv /\ [BleNext]_ble =>
        [last_sent' # last_sent => last_sent' > last_sent /\ last_sent' <= written]_ble
  <2> SUFFICES ASSUME BleInv, BleNext, last_sent' # last_sent
               PROVE  last_sent' > last_sent /\ last_sent' <= written
    BY DEF ble, tx, phone, boot
  <2>1. CASE HostSends
    BY <2>1 DEF HostSends, BleInv, BleTyped, InOrder, Earlier, Empty
  <2>2. CASE ~HostSends
    BY <2>2 DEF BleNext, InitChecks, InitCreates, InitStartsTask, PhoneConnects, PhoneDisconnects,
       PhoneWrites, WriteCreates, WriteSends, ble_rx_task, Handles, handle_json_payload, Waits,
       AnswerEmpties, AnswerAppends, AnswerNotifies, BleRestarts, Elsewhere
  <2> QED  BY <2>1, <2>2
<1> QED  BY <1>1, BleInvStarts, BleInvKept, PTL DEF BleSpec, AnswersForward

-----------------------------------------------------------------------------
(* NimBLEUUID *)

Below == Len(ble_base_uuid)
Wellformed(u) ==
  \/ u.bits = 16 /\ u.bytes \in OfBytes(2)
  \/ u.bits = 32 /\ u.bytes \in OfBytes(4)
  \/ u.bits = 128 /\ u.bytes \in OfBytes(Below + 4)
IsUuid(u) == u = [bits |-> u.bits, bytes |-> u.bytes] /\ Wellformed(u)

UuidInv == IsUuid(uuid) /\ means = to128(uuid).bytes

LEMMA BaseFacts ==
  Below \in Nat /\ ble_base_uuid \in OfBytes(Below)
  BY UuidAssumption, LenProperties DEF Below, OfBytes

\* One after the other, byte by byte.
LEMMA Joined ==
  ASSUME NEW m \in Nat, NEW n \in Nat, NEW s \in OfBytes(m), NEW t \in OfBytes(n)
  PROVE  /\ s \o t \in OfBytes(m + n)
         /\ \A i \in 1 .. (m + n) : (s \o t)[i] = IF i <= m THEN s[i] ELSE t[i - m]
<1>1. s \in Seq(Byte) /\ t \in Seq(Byte) /\ Len(s) = m /\ Len(t) = n
  BY DEF OfBytes
<1>2. /\ s \o t \in Seq(Byte) /\ Len(s \o t) = Len(s) + Len(t)
      /\ \A i \in 1 .. Len(s) + Len(t) : (s \o t)[i] = IF i <= Len(s) THEN s[i] ELSE t[i - Len(s)]
  BY <1>1, ConcatProperties
<1> QED  BY <1>1, <1>2 DEF OfBytes

LEMMA FilledBytes ==
  ASSUME NEW k \in {2, 4}, NEW s \in OfBytes(k)
  PROVE  /\ Filled(s) \in OfBytes(4)
         /\ \A i \in 1 .. 4 : Filled(s)[i] = IF i <= k THEN s[i] ELSE 0
<1>1. s \in Seq(Byte) /\ Len(s) = k
  BY DEF OfBytes
<1>2. Zeroes(4 - k) \in OfBytes(4 - k) /\ \A i \in 1 .. (4 - k) : Zeroes(4 - k)[i] = 0
  BY DEF Zeroes, Byte, OfBytes
<1>3. Filled(s) = s \o Zeroes(4 - k)
  BY <1>1 DEF Filled
<1>4. /\ k + (4 - k) = 4 /\ k \in Nat /\ 4 - k \in Nat
      /\ \A i \in 1 .. 4 : i <= k \/ i - k \in 1 .. (4 - k)
  OBVIOUS
<1>5. /\ s \o Zeroes(4 - k) \in OfBytes(k + (4 - k))
      /\ \A i \in 1 .. (k + (4 - k)) : (s \o Zeroes(4 - k))[i] = IF i <= k THEN s[i] ELSE Zeroes(4 - k)[i - k]
  BY <1>2, <1>4, Joined
<1>6. \A i \in 1 .. 4 : Filled(s)[i] = IF i <= k THEN s[i] ELSE Zeroes(4 - k)[i - k]
  BY <1>3, <1>4, <1>5
<1> QED  BY <1>2, <1>3, <1>4, <1>5, <1>6

\* The 128 bits of a short one.
LEMMA Laid ==
  ASSUME NEW k \in {2, 4}, NEW s \in OfBytes(k)
  PROVE  /\ ble_base_uuid \o Filled(s) \in OfBytes(Below + 4)
         /\ \A i \in 1 .. Below : (ble_base_uuid \o Filled(s))[i] = ble_base_uuid[i]
         /\ \A i \in 1 .. 4 : (ble_base_uuid \o Filled(s))[Below + i] = IF i <= k THEN s[i] ELSE 0
<1>1. /\ Filled(s) \in OfBytes(4)
      /\ \A i \in 1 .. 4 : Filled(s)[i] = IF i <= k THEN s[i] ELSE 0
  BY FilledBytes
<1>2. /\ ble_base_uuid \o Filled(s) \in OfBytes(Below + 4)
      /\ \A i \in 1 .. (Below + 4) : (ble_base_uuid \o Filled(s))[i]
            = IF i <= Below THEN ble_base_uuid[i] ELSE Filled(s)[i - Below]
  <2>1. 4 \in Nat /\ Below \in Nat /\ ble_base_uuid \in OfBytes(Below)
    BY BaseFacts
  <2> QED  BY <1>1, <2>1, Joined, Zenon
<1>3. \A i \in 1 .. 4 : Below + i \in 1 .. (Below + 4) /\ ~(Below + i <= Below) /\ (Below + i) - Below = i
  BY BaseFacts
<1>4. \A i \in 1 .. Below : i \in 1 .. (Below + 4) /\ i <= Below
  BY BaseFacts
<1> QED  BY <1>1, <1>2, <1>3, <1>4

LEMMA LaidApart ==
  ASSUME NEW k \in {2, 4}, NEW s \in OfBytes(k), NEW t \in OfBytes(k),
         ble_base_uuid \o Filled(s) = ble_base_uuid \o Filled(t)
  PROVE  s = t
<1>1. \A i \in 1 .. k : i \in 1 .. 4 /\ i <= k
  OBVIOUS
<1>2. \A i \in 1 .. k : (ble_base_uuid \o Filled(s))[Below + i] = s[i]
  BY <1>1, Laid
<1>3. \A i \in 1 .. k : (ble_base_uuid \o Filled(t))[Below + i] = t[i]
  BY <1>1, Laid
<1> QED  BY <1>2, <1>3, SeqEqual DEF OfBytes

LEMMA AllAreUuids == \A u \in AllUuids : IsUuid(u)
<1>1. Words \subseteq OfBytes(2) /\ {2, 4, Below} \subseteq Nat
  BY BaseFacts, UuidAssumption DEF OfBytes
<1>2. FourBytes \subseteq OfBytes(4)
  <2> SUFFICES ASSUME NEW s \in FourBytes PROVE s \in OfBytes(4)
    OBVIOUS
  <2>1. PICK v \in Words, w \in Words : s = v \o w
    BY DEF FourBytes
  <2>2. v \o w \in OfBytes(2 + 2)
    BY <1>1, Joined, Zenon
  <2> QED  BY <2>1, <2>2
<1>3. AllBytes \subseteq OfBytes(Below + 4)
  <2> SUFFICES ASSUME NEW s \in AllBytes PROVE s \in OfBytes(Below + 4)
    OBVIOUS
  <2>1. PICK b \in Others \cup {ble_base_uuid}, r \in FourBytes : s = b \o r
    BY DEF AllBytes
  <2>2. b \in OfBytes(Below)
    BY UuidAssumption DEF Below, OfBytes
  <2> QED  BY <1>1, <1>2, <2>1, <2>2, Joined, Zenon
<1> QED  BY <1>1, <1>2, <1>3 DEF AllUuids, Short16, Short32, Long, IsUuid, Wellformed

LEMMA Widened == ASSUME NEW u, IsUuid(u) PROVE IsUuid(to128(u)) /\ to128(to128(u)) = to128(u)
  BY Laid DEF IsUuid, Wellformed, to128

\* What to16 drops, where it is asked for, is two bytes of zero.
LEMMA Narrowed ==
  ASSUME NEW u, IsUuid(u), u.bits = 128, Lower(u) = ble_base_uuid,
         SubSeq(Upper(u), 3, 4) = Zeroes(2)
  PROVE  IsUuid(to16(u)) /\ to128(to16(u)) = u
<1>1. u = [bits |-> 128, bytes |-> u.bytes] /\ u.bytes \in OfBytes(Below + 4)
  BY DEF IsUuid, Wellformed
<1>2. u.bytes \in Seq(Byte) /\ Len(u.bytes) = Below + 4 /\ Below \in Nat
  BY <1>1, BaseFacts DEF OfBytes
<1>3. Upper(u) \in OfBytes(4) /\ \A i \in 1 .. 4 : Upper(u)[i] = u.bytes[Below + i]
  <2>1. Below + 1 \in Int /\ Below + 4 \in Int /\ (Below + 4) - (Below + 1) + 1 = 4
        /\ Below + 1 <= Below + 4
        /\ \A i \in (Below + 1) .. (Below + 4) : i \in 1 .. Len(u.bytes)
    BY <1>2
  <2>2. \A i \in (Below + 1) .. (Below + 4) : u.bytes[i] \in Byte
    BY <1>2, <2>1, ElementOfSeq
  <2>3. Upper(u) = SubSeq(u.bytes, Below + 1, Below + 4)
    BY <1>2 DEF Upper, Below
  <2>4. /\ Upper(u) \in Seq(Byte) /\ Len(Upper(u)) = (Below + 4) - (Below + 1) + 1
        /\ \A i \in 1 .. (Below + 4) - (Below + 1) + 1 : Upper(u)[i] = u.bytes[Below + 1 + i - 1]
    BY <2>1, <2>2, <2>3, SubSeqProperties
  <2>5. \A i \in 1 .. 4 : Below + 1 + i - 1 = Below + i
    BY <1>2
  <2>6. \A i \in 1 .. 4 : Upper(u)[i] = u.bytes[Below + 1 + i - 1]
    BY <2>1, <2>4
  <2>7. Upper(u) \in OfBytes(4)
    BY <2>1, <2>4 DEF OfBytes
  <2> QED  BY <2>5, <2>6, <2>7
<1>4. \A i \in 1 .. Below : ble_base_uuid[i] = u.bytes[i]
  <2>1. ble_base_uuid = SubSeq(u.bytes, 1, Below)
    BY DEF Lower, Below
  <2>2. \A i \in 1 .. Below : i \in 1 .. Len(u.bytes)
    BY <1>2
  <2>3. \A i \in 1 .. Below : u.bytes[i] \in Byte
    BY <1>2, <2>2, ElementOfSeq
  <2>4. \A i \in 1 .. Below - 1 + 1 : SubSeq(u.bytes, 1, Below)[i] = u.bytes[1 + i - 1]
    BY <1>2, <2>3, SubSeqProperties
  <2>5. \A i \in 1 .. Below : i \in 1 .. Below - 1 + 1 /\ 1 + i - 1 = i
    BY <1>2
  <2>6. ASSUME NEW i \in 1 .. Below PROVE SubSeq(u.bytes, 1, Below)[i] = u.bytes[i]
    <3>1. SubSeq(u.bytes, 1, Below)[i] = u.bytes[1 + i - 1] /\ 1 + i - 1 = i
      BY <2>4, <2>5
    <3> QED  BY <3>1
  <2> QED  BY <2>1, <2>6
<1> DEFINE s == SubSeq(Upper(u), 1, 2)
<1>5. s \in OfBytes(2) /\ s[1] = Upper(u)[1] /\ s[2] = Upper(u)[2]
  BY <1>3, ElementOfSeq, SubSeqProperties DEF OfBytes
<1>6. Upper(u)[3] = 0 /\ Upper(u)[4] = 0
  <2>1. SubSeq(Upper(u), 3, 4) = [i \in 1 .. 2 |-> Upper(u)[i + 2]]
    BY <1>3
  <2>2. Zeroes(2)[1] = 0 /\ Zeroes(2)[2] = 0
    BY DEF Zeroes
  <2> QED  BY <2>1, <2>2
<1>7. to16(u) = [bits |-> 16, bytes |-> s]
  BY DEF to16
<1> HIDE DEF s
<1>8. IsUuid(to16(u)) /\ to128(to16(u)) = [bits |-> 128, bytes |-> ble_base_uuid \o Filled(s)]
  BY <1>5, <1>7 DEF IsUuid, Wellformed, to128
<1>9. ble_base_uuid \o Filled(s) = u.bytes
  <2>1. /\ ble_base_uuid \o Filled(s) \in OfBytes(Below + 4)
        /\ \A i \in 1 .. Below : (ble_base_uuid \o Filled(s))[i] = ble_base_uuid[i]
        /\ \A i \in 1 .. 4 : (ble_base_uuid \o Filled(s))[Below + i] = IF i <= 2 THEN s[i] ELSE 0
    BY <1>5, Laid
  <2>2. \A i \in 1 .. 4 : (IF i <= 2 THEN s[i] ELSE 0) = u.bytes[Below + i]
    BY <1>3, <1>5, <1>6
  <2>3. \A i \in 1 .. (Below + 4) : i \in 1 .. Below \/ (i - Below \in 1 .. 4 /\ i = Below + (i - Below))
    BY <1>2
  <2>4. ASSUME NEW i \in 1 .. (Below + 4)
        PROVE  (ble_base_uuid \o Filled(s))[i] = u.bytes[i]
    <3>1. CASE i \in 1 .. Below
      BY <1>4, <2>1, <3>1
    <3>2. CASE i - Below \in 1 .. 4 /\ i = Below + (i - Below)
      <4>1. PICK j \in 1 .. 4 : i = Below + j
        BY <3>2
      <4> QED  BY <2>1, <2>2, <4>1
    <3> QED  BY <2>3, <3>1, <3>2
  <2>5. ble_base_uuid \o Filled(s) \in Seq(Byte) /\ Len(ble_base_uuid \o Filled(s)) = Below + 4
    BY <2>1 DEF OfBytes
  <2>6. u.bytes \in Seq(Byte) /\ Len(ble_base_uuid \o Filled(s)) = Len(u.bytes)
    BY <1>2, <2>5
  <2>7. \A i \in 1 .. Len(ble_base_uuid \o Filled(s)) : (ble_base_uuid \o Filled(s))[i] = u.bytes[i]
    BY <2>4, <2>5
  <2>8. ble_base_uuid \o Filled(s) \in Seq(Byte)
    BY <2>5
  <2> QED  BY <2>6, <2>7, <2>8, SeqEqual, Zenon
<1> QED  BY <1>1, <1>8, <1>9

LEMMA UuidKept == LongStayLong /\ UuidSpec => []UuidInv
<1> SUFFICES ASSUME LongStayLong PROVE UuidSpec => []UuidInv
  OBVIOUS
<1>1. UuidInit => UuidInv
  <2> SUFFICES ASSUME UuidInit PROVE UuidInv
    OBVIOUS
  <2>1. PICK u \in AllUuids, prefixed \in BOOLEAN :
          uuid = fromString(u, prefixed) /\ uuid # InvalidUuid /\ means = to128(u).bytes
    BY DEF UuidInit
  <2>2. uuid = u
    BY <2>1 DEF fromString
  <2> QED  BY <2>1, <2>2, AllAreUuids DEF UuidInv
<1>2. UuidInv /\ [UuidNext]_uuid_object => UuidInv'
  <2> SUFFICES ASSUME UuidInv, [UuidNext]_uuid_object PROVE UuidInv'
    OBVIOUS
  <2>1. CASE Widens
    BY <2>1, Widened DEF Widens, UuidInv
  <2>2. CASE Narrows
    <3>1. CASE uuid.bits = 128 /\ Lower(uuid) = ble_base_uuid
      <4>1. SubSeq(Upper(uuid), 3, 4) = Zeroes(2)
        BY <2>2, <3>1 DEF Narrows
      <4>2. IsUuid(to16(uuid)) /\ to128(to16(uuid)) = uuid
        BY <3>1, <4>1, Narrowed DEF UuidInv
      <4>3. to128(uuid) = uuid
        BY <3>1 DEF to128
      <4> QED  BY <2>2, <4>2, <4>3 DEF Narrows, UuidInv
    <3>2. CASE ~(uuid.bits = 128 /\ Lower(uuid) = ble_base_uuid)
      BY <2>2, <3>2 DEF Narrows, to16, UuidInv
    <3> QED  BY <3>1, <3>2
  <2>3. CASE Reverses
    BY <2>3, AllAreUuids DEF Reverses, UuidInv
  <2>4. CASE UNCHANGED uuid_object
    BY <2>4 DEF uuid_object, UuidInv
  <2> QED  BY <2>1, <2>2, <2>3, <2>4 DEF UuidNext
<1> QED  BY <1>1, <1>2, PTL DEF UuidSpec

THEOREM SameUuidProved == LongStayLong /\ UuidSpec => []SameUuid
<1>1. UuidInv => SameUuid
  <2> SUFFICES ASSUME UuidInv, NEW v \in AllUuids, {uuid.bits, v.bits} # {16, 32}
               PROVE  Equal(uuid, v) <=> to128(v).bytes = means
    BY DEF UuidInv, SameUuid
  <2>1. IsUuid(uuid) /\ IsUuid(v) /\ means = to128(uuid).bytes
    BY AllAreUuids DEF UuidInv
  <2>2. CASE uuid.bits # v.bits
    <3>1. uuid.bits \in {16, 32, 128} /\ v.bits \in {16, 32, 128}
      BY <2>1 DEF IsUuid, Wellformed
    <3>2. CASE uuid.bits = 128
      <4>1. v.bits \in {16, 32} /\ uuid.bits # 0 /\ v.bits # 0
        BY <2>2, <3>1, <3>2
      <4>2. Equal(uuid, v) <=> uuid.bytes = ble_base_uuid \o Filled(v.bytes)
        BY <2>2, <3>2, <4>1 DEF Equal
      <4>3. to128(v).bytes = ble_base_uuid \o Filled(v.bytes) /\ means = uuid.bytes
        BY <2>1, <3>2, <4>1 DEF to128
      <4> QED  BY <4>2, <4>3
    <3>3. CASE v.bits = 128
      BY <2>1, <2>2, <3>1, <3>3 DEF Equal, to128
    <3> QED  BY <2>2, <3>1, <3>2, <3>3
  <2>3. CASE uuid.bits = 128 /\ v.bits = 128
    BY <2>1, <2>3 DEF Equal, to128
  <2>4. ASSUME NEW k \in {2, 4}, uuid.bits \in {16, 32}, v.bits = uuid.bits, k = IF v.bits = 16 THEN 2 ELSE 4
        PROVE  Equal(uuid, v) <=> to128(v).bytes = means
    <3>1. uuid.bytes \in OfBytes(k) /\ v.bytes \in OfBytes(k)
      BY <2>1, <2>4 DEF IsUuid, Wellformed
    <3>2. /\ to128(v).bytes = ble_base_uuid \o Filled(v.bytes)
          /\ means = ble_base_uuid \o Filled(uuid.bytes)
      BY <2>1, <2>4 DEF to128
    <3>3. Equal(uuid, v) <=> uuid.bytes = v.bytes
      BY <2>4 DEF Equal
    <3> QED  BY <3>1, <3>2, <3>3, LaidApart
  <2>5. uuid.bits \in {16, 32, 128} /\ (IF v.bits = 16 THEN 2 ELSE 4) \in {2, 4}
    BY <2>1 DEF IsUuid, Wellformed
  <2> QED  BY <2>2, <2>3, <2>4, <2>5
<1> QED  BY <1>1, UuidKept, PTL

-----------------------------------------------------------------------------
(* NimBLEAttValue *)

\* While a value is set the length is zero, so that nobody looks into the block; the block
\* is as large as m_capacity says, unless a realloc has failed.
Blocks == [size : Nat, bytes : Seq(Nat)]
ValueTyped ==
  /\ m_attr_value \in Blocks /\ res \in Blocks
  /\ {m_attr_len, m_capacity, new_len} \subseteq Nat /\ copy \in Nat \X Nat
  /\ setting \in {"idle", "append", "commit"} /\ value \in Seq(Nat)
  /\ taken \in Written \cup {<< >>}
LengthOK ==
  /\ setting # "idle" => m_attr_len = 0 /\ value \in Written
  /\ m_attr_len # 0 => m_attr_value.bytes \in Written /\ m_attr_len <= m_capacity
  /\ setting = "commit" => new_len <= m_capacity /\ new_len = Len(value)
RoomOK ==
  ~failed =>
    /\ setting # "commit" =>
         m_attr_value.size = m_capacity /\ Len(m_attr_value.bytes) <= m_attr_value.size
    /\ setting = "commit" =>
         /\ res.size = m_capacity
         /\ m_attr_value = Freed \/ Len(m_attr_value.bytes) <= m_attr_value.size
CopyOK ==
  /\ copy[2] <= copy[1]
  /\ copying = "got" => setting = "idle" /\ copy[1] = m_capacity
ValueInv == ValueTyped /\ LengthOK /\ RoomOK /\ CopyOK

LEMMA ValueInvStarts == AttValueInit => ValueInv
  BY AttValueAssumption
     DEF AttValueInit, ValueInv, ValueTyped, LengthOK, RoomOK, CopyOK, Freed,
         Blocks

LEMMA ValueInvKept == ValueInv /\ [AttValueNext]_att_value => ValueInv'
<1> SUFFICES ASSUME ValueInv, [AttValueNext]_att_value PROVE ValueInv'
  OBVIOUS
<1> USE AttValueAssumption DEF ValueInv, ValueTyped, LengthOK, RoomOK, CopyOK, stored, setter,
        Blocks
<1>1. ASSUME NEW v \in Written, setValueBegins(v) PROVE ValueInv'
  <2>1. /\ setting = "idle" /\ copying = "idle" /\ value' = v /\ m_attr_len' = 0
        /\ setting' \in {"idle", "append"}
        /\ m_attr_value' = [m_attr_value EXCEPT !.bytes = << >>]
        /\ UNCHANGED <<m_capacity, res, new_len, failed, copying, copy, taken>>
    BY <1>1 DEF setValueBegins, TaskFree
  <2>2. /\ m_attr_value' = [size |-> m_attr_value.size, bytes |-> << >>]
        /\ << >> \in Seq(Nat) /\ m_attr_value.size \in Nat /\ v \in Seq(Nat)
    BY <2>1
  <2>3. ValueTyped'
    <3>1. m_attr_value' \in Blocks
      BY <2>2
    <3> HIDE DEF Blocks
    <3> QED  BY <2>1, <2>2, <3>1
  <2>4. LengthOK' /\ CopyOK'
    BY <2>1
  <2>5. RoomOK'
    <3>1. Len(m_attr_value'.bytes) = 0 /\ m_attr_value'.size = m_attr_value.size
      BY <2>2
    <3> QED  BY <2>1, <2>2, <3>1
  <2> QED  BY <2>3, <2>4, <2>5
<1>2. CASE TooLong
  BY <1>2 DEF TooLong
<1>3. CASE NoNeedToGrow
  BY <1>3 DEF NoNeedToGrow, Room
<1>4. CASE Grows
  <2>1. /\ setting = "append" /\ setting' = "commit" /\ new_len' = m_attr_len + Len(value)
        /\ m_capacity' = m_attr_len + Len(value) /\ m_attr_value' = Freed
        /\ res' = [m_attr_value EXCEPT !.size = m_attr_len + Len(value)]
        /\ UNCHANGED <<m_attr_len, value, failed, copying, copy, taken>>
    BY <1>4 DEF Grows, Room
  <2>2. /\ m_attr_len = 0 /\ Len(value) \in Nat /\ copying # "got"
        /\ new_len' = Len(value) /\ m_capacity' = Len(value)
    BY <2>1
  <2>3. res' = [size |-> Len(value), bytes |-> m_attr_value.bytes]
    BY <2>1, <2>2
  <2>4. ValueTyped'
    <3>1. m_attr_value' \in Blocks
      BY <2>1 DEF Freed
    <3>2. res' \in Blocks
      BY <2>2, <2>3
    <3> HIDE DEF Blocks
    <3> QED  BY <2>1, <2>2, <3>1, <3>2
  <2>5. LengthOK' /\ CopyOK'
    BY <2>1, <2>2
  <2>6. RoomOK'
    BY <2>1, <2>2, <2>3
  <2> QED  BY <2>4, <2>5, <2>6
<1>5. CASE GrowFails
  BY <1>5 DEF GrowFails, Room
<1>6. CASE Commits
  <2>1. /\ setting = "commit" /\ setting' = "idle" /\ m_attr_len = 0 /\ m_attr_len' = new_len
        /\ UNCHANGED <<m_capacity, value, res, new_len, failed, copying, copy, taken>>
    BY <1>6 DEF Commits
  <2>2. SubSeq(res.bytes, 1, 0) \o value = value
    OBVIOUS
  <2>3. m_attr_value' = [res EXCEPT !.bytes = value]
    BY <1>6, <2>1, <2>2 DEF Commits
  <2> QED  BY <2>1, <2>3
<1>7. CASE ReadByPeer
  BY <1>7 DEF ReadByPeer, ValueBytes
<1>8. CASE CopyBegins
  BY <1>8 DEF CopyBegins, TaskFree
<1>9. CASE CopyEnds
  BY <1>9 DEF CopyEnds
<1>10. CASE UNCHANGED att_value
  BY <1>10 DEF att_value
<1> QED
  BY <1>1, <1>2, <1>3, <1>4, <1>5, <1>6, <1>7, <1>8, <1>9, <1>10
     DEF AttValueNext, SetByApp, WriteByPeer

\* For values and capacities of every length: nobody reads a part of a value or a block
\* that realloc has freed, and until memory runs out no copy outgrows its block.
THEOREM ValueAlwaysWhole == AttValueSpec => []ValueIsWhole
<1>1. ValueInv => ValueIsWhole
  BY DEF ValueInv, ValueTyped, RoomOK, CopyOK, ValueIsWhole
<1> QED  BY <1>1, ValueInvStarts, ValueInvKept, PTL DEF AttValueSpec

-----------------------------------------------------------------------------
(* NimBLEServer *)

\* Before the start nothing is served, and what was handed over is what the application
\* keeps: only a service that is not handed over yet may change.
HandedOver ==
  ~m_gattsStarted =>
    \A s \in Services :
      table[s] = NotServed /\ (defs[s] # NotServed => service[s] = "kept" /\ defs[s] = Kept(s))
Hidden == \A s \in Services : table[s] # NotServed /\ visible[s] => service[s] = "kept"
Marks == {"none", "kept", "hidden", "delete", "freed"}
Entries == {NotServed} \cup SUBSET Characteristics
ObjectsTyped ==
  /\ service \in [Services -> Marks] /\ characteristic \in [Characteristics -> Marks]
  /\ defs \in [Services -> Entries] /\ visible \in [Services -> BOOLEAN]
ServerInv ==
  ObjectsTyped /\ HandedOver /\ Hidden /\ (m_gattsStarted /\ ~m_svcChanged => Served)

LEMMA ServerInvStarts == ServerInit => ServerInv
  BY DEF ServerInit, ServerInv, ObjectsTyped, HandedOver, Hidden, NoServices, Marks, Entries

LEMMA ServerInvKept == ServerInv /\ [ServerNext]_server => ServerInv'
<1> SUFFICES ASSUME ServerInv, [ServerNext]_server PROVE ServerInv'
  OBVIOUS
<1> USE DEF ServerInv, ObjectsTyped, HandedOver, Hidden, Served, Kept, Of, serviceChanged,
            Changeable, objects, progress, gatt, links, Marks
<1>0. \A s \in Services : Kept(s) \in Entries
  BY DEF Entries
<1>1. ASSUME NEW s \in Services, createService(s) PROVE ServerInv'
  <2>1. /\ service[s] = "none" /\ service' \in [Services -> Marks] /\ service'[s] = "kept"
        /\ \A t \in Services \ {s} : service'[t] = service[t]
        /\ UNCHANGED <<characteristic, readded, m_gattsStarted, defs, table, visible>>
        /\ m_svcChanged' = (m_svcChanged \/ m_gattsStarted)
    BY <1>1 DEF createService
  <2> QED  BY <2>1
<1>2. ASSUME NEW s \in Services, addService(s) PROVE ServerInv'
  <2>1. /\ service[s] \in {"hidden", "delete"} /\ service' \in [Services -> Marks]
        /\ service'[s] = "kept"
        /\ \A t \in Services \ {s} : service'[t] = service[t]
        /\ UNCHANGED <<characteristic, readded, m_gattsStarted, defs, table, visible>>
        /\ m_svcChanged' = (m_svcChanged \/ m_gattsStarted)
    BY <1>2 DEF addService
  <2> QED  BY <2>1
<1>3. ASSUME NEW s \in Services, startService(s) PROVE ServerInv'
  <2>1. /\ service[s] = "kept" /\ ~m_gattsStarted
        /\ UNCHANGED <<service, characteristic, m_gattsStarted, m_svcChanged, table, visible>>
        /\ defs' = [defs EXCEPT ![s] = Kept(s)]
    BY <1>3 DEF startService
  <2>2. /\ defs' \in [Services -> Entries] /\ defs'[s] = Kept(s)
        /\ \A t \in Services \ {s} : defs'[t] = defs[t]
    BY <1>0, <2>1
  <2> QED  BY <2>1, <2>2
<1>4. ASSUME NEW s \in Services, NEW d \in BOOLEAN, removeService(s, d) PROVE ServerInv'
  <2>1. /\ service' \in [Services -> Marks]
        /\ service'[s] \in {"hidden", "delete", "freed"}
        /\ \A t \in Services \ {s} : service'[t] = service[t]
        /\ UNCHANGED <<characteristic, readded, m_gattsStarted, defs, table>>
    BY <1>4 DEF removeService
  <2>2. CASE /\ service[s] = "kept" /\ table[s] # NotServed
             /\ visible' = [visible EXCEPT ![s] = FALSE]
             /\ m_svcChanged' = (m_svcChanged \/ m_gattsStarted)
    <3>1. m_gattsStarted
      BY <2>2
    <3>2. /\ visible' \in [Services -> BOOLEAN] /\ ~visible'[s]
          /\ \A t \in Services \ {s} : visible'[t] = visible[t]
      BY <2>2
    <3> QED  BY <2>1, <2>2, <3>1, <3>2
  <2>3. CASE /\ service[s] \in {"hidden", "delete"} /\ UNCHANGED <<m_svcChanged, visible>>
    BY <2>1, <2>3
  <2> QED  BY <1>4, <2>2, <2>3 DEF removeService
<1>5. ASSUME NEW c \in Characteristics, createCharacteristic(c) PROVE ServerInv'
  <2>1. /\ characteristic' \in [Characteristics -> Marks]
        /\ \A e \in Characteristics \ {c} : characteristic'[e] = characteristic[e]
        /\ UNCHANGED <<service, readded, m_gattsStarted, defs, table, visible>>
        /\ m_svcChanged' = (m_svcChanged \/ m_gattsStarted)
        /\ m_gattsStarted \/ defs[c[1]] = NotServed
    BY <1>5 DEF createCharacteristic
  <2>2. \A t \in Services : t # c[1] => Kept(t)' = Kept(t)
    BY <2>1
  <2> QED  BY <2>1, <2>2
<1>6. ASSUME NEW c \in Characteristics, addCharacteristic(c) PROVE ServerInv'
  <2>1. /\ characteristic' \in [Characteristics -> Marks] /\ characteristic'[c] = "kept"
        /\ \A e \in Characteristics \ {c} : characteristic'[e] = characteristic[e]
        /\ UNCHANGED <<service, m_gattsStarted, m_svcChanged, defs, table, visible>>
        /\ m_gattsStarted \/ defs[c[1]] = NotServed
        /\ readded' = readded \cup {c}
    BY <1>6 DEF addCharacteristic
  <2>2. \A t \in Services : t # c[1] => Kept(t)' = Kept(t)
    BY <2>1
  <2>3. \A t \in Services : Kept(t) \subseteq Kept(t)' /\ Kept(t)' \subseteq Kept(t) \cup {c}
    BY <2>1
  <2>4. Served => Served'
    BY <2>1, <2>3
  <2> QED  BY <2>1, <2>2, <2>4
<1>7. ASSUME NEW c \in Characteristics, NEW d \in BOOLEAN, removeCharacteristic(c, d)
      PROVE  ServerInv'
  <2>1. /\ characteristic' \in [Characteristics -> Marks] /\ characteristic'[c] # "kept"
        /\ \A e \in Characteristics \ {c} : characteristic'[e] = characteristic[e]
        /\ UNCHANGED <<service, m_gattsStarted, defs, table, visible>>
        /\ m_gattsStarted \/ defs[c[1]] = NotServed
        /\ readded' = readded \ {c}
    BY <1>7 DEF removeCharacteristic
  <2>2. \A t \in Services : t # c[1] => Kept(t)' = Kept(t)
    BY <2>1
  <2>3. CASE characteristic[c] = "kept" /\ m_svcChanged' = (m_svcChanged \/ m_gattsStarted)
    BY <2>1, <2>2, <2>3
  <2>4. CASE characteristic[c] # "kept" /\ UNCHANGED m_svcChanged
    <3>1. \A t \in Services : Kept(t)' = Kept(t) /\ Kept(t) \ readded' = Kept(t) \ readded
      BY <2>1, <2>4
    <3> QED  BY <2>1, <2>4, <3>1
  <2> QED  BY <1>7, <2>3, <2>4 DEF removeCharacteristic
<1>8. CASE startAdvertising
  <2>1. /\ UNCHANGED <<service, characteristic, readded, defs>> /\ startServer
        /\ \A s \in Services : service[s] = "kept" => defs[s] # NotServed \/ m_gattsStarted
    BY <1>8 DEF startAdvertising, AllHandedOver
  <2>2. CASE UNCHANGED <<progress, table, visible>>
    BY <2>1, <2>2
  <2>3. CASE /\ ~m_gattsStarted /\ table' = defs /\ m_gattsStarted' = TRUE
             /\ m_svcChanged' = FALSE /\ visible' = [s \in Services |-> TRUE]
    <3>1. visible' \in [Services -> BOOLEAN]
      BY <2>3
    <3>2. Served'
      BY <2>1, <2>3
    <3>3. Hidden' /\ HandedOver'
      BY <2>1, <2>3
    <3> QED  BY <2>1, <3>1, <3>2, <3>3
  <2> QED  BY <2>1, <2>2, <2>3 DEF startServer
<1>9. CASE ConnectionFails \/ UNCHANGED server
  BY <1>9 DEF ConnectionFails, server
<1>10. ASSUME NEW p \in Peers, Connects(p) PROVE ServerInv'
  BY <1>10 DEF Connects
<1>11. ASSUME NEW p \in Peers, Disconnects(p) PROVE ServerInv'
  <2>1. CASE UNCHANGED <<objects, progress, gatt>>
    BY <2>1
  <2>2. CASE resetGATT
    <3>1. /\ service' \in [Services -> Marks] /\ characteristic' = characteristic
          /\ \A s \in Services : service'[s] = "kept" <=> service[s] = "kept"
      BY <2>2 DEF resetGATT
    <3>2. /\ defs' \in [Services -> Entries]
          /\ \A s \in Services : defs'[s] = IF service[s] = "kept" /\ Kept(s) # {} THEN Kept(s)
                                            ELSE NotServed
      BY <1>0, <2>2 DEF resetGATT, Entries
    <3>3. /\ m_gattsStarted' = FALSE /\ \A s \in Services : table'[s] = NotServed
          /\ visible' \in [Services -> BOOLEAN]
      BY <2>2 DEF resetGATT, NoServices
    <3> QED  BY <3>1, <3>2, <3>3
  <2> QED  BY <1>11, <2>1, <2>2 DEF Disconnects
<1> QED
  BY <1>1, <1>2, <1>3, <1>4, <1>5, <1>6, <1>7, <1>8, <1>9, <1>10, <1>11 DEF ServerNext

\* For any services, characteristics and peers: a started server without an announced
\* change serves what the application keeps, and no peer finds a freed service.
THEOREM ServedAlwaysKept == ServerSpec => []ServedIsKept
<1>1. ServerInv => ServedIsKept
  BY DEF ServerInv, Hidden, ServedIsKept
<1> QED  BY <1>1, ServerInvStarts, ServerInvKept, PTL DEF ServerSpec

-----------------------------------------------------------------------------
(* NimBLEHIDDevice *)

\* What a characteristic that was given out for w looks like, and who else does.
IsFor(c, w) == IF w \in Reports THEN c.uuid = "report" /\ c.reference = w
                                  ELSE c.uuid = w[1]
\* No two characteristics match one thing, and what was given matches.
NoTwins ==
  \A w \in Reports \cup Boots : \A i, j \in DOMAIN hid_chars :
    IsFor(hid_chars[i], w) /\ IsFor(hid_chars[j], w) => i = j
GivenMatch ==
  \A w \in Reports \cup Boots :
    given[w] # 0 => given[w] \in DOMAIN hid_chars /\ IsFor(hid_chars[given[w]], w)
HidUuids == {"hidInfo", "reportMap", "hidControl", "protocolMode", "pnp", "manufacturer", "report",
             "bootInput", "bootOutput", "other"}
HidCharacteristics == [uuid : HidUuids, reference : Reports \cup {NoReference}]
HidTyped ==
  /\ hid_chars \in Seq(HidCharacteristics)
  /\ info_chars \in Seq(HidCharacteristics)
  /\ m_manufacturerChr \in Nat
  /\ given \in [Wanted -> Nat]
HidInv ==
  /\ HidTyped /\ NoTwins /\ GivenMatch
  /\ given[<<"manufacturer">>] = m_manufacturerChr

LEMMA WantedApart ==
  /\ \A w \in Boots : w \notin Reports /\ w[1] \in BootUuids /\ w = <<w[1]>>
  /\ <<"manufacturer">> \notin Reports \cup Boots
  /\ Wanted = Reports \cup Boots \cup {<<"manufacturer">>}
<1>1. \A w \in Boots : \E u \in BootUuids : w = <<u>>
  BY DEF Boots
<1>2. \A w \in Reports : \E a, b : w = <<a, b>>
  BY DEF Reports
<1>3. \A a, b, c : <<a, b>> # <<c>>
  OBVIOUS
<1>4. "manufacturer" \notin BootUuids
  BY DEF BootUuids
<1> QED  BY <1>1, <1>2, <1>3, <1>4 DEF Wanted

LEMMA IsForOne ==
  ASSUME NEW w \in Reports \cup Boots, NEW v \in Reports \cup Boots, NEW c,
         IsFor(c, w), IsFor(c, v)
  PROVE  w = v
<1>1. "report" \notin BootUuids
  BY DEF BootUuids
<1> QED  BY <1>1, WantedApart DEF IsFor

\* Where at most one place counts, that place is found.
LEMMA FoundAlone ==
  ASSUME NEW places \in SUBSET Nat, \A i, j \in places : i = j
  PROVE  /\ \A i \in places : Before(i, places) = 0
         /\ places = {} => Foremost(places) = 0
         /\ \A i \in places : Foremost(places) = i
<1>1. ASSUME NEW i \in places PROVE Before(i, places) = 0
  <2>1. i \in Nat /\ \A j \in places : j = i
    OBVIOUS
  <2>2. ~(i < i)
    BY <2>1
  <2>3. {j \in places : j < i} = {}
    BY <2>1, <2>2
  <2> QED  BY <2>3, FS_EmptySet DEF Before
<1> QED  BY <1>1 DEF Foremost

LEMMA Located ==
  ASSUME HidTyped, NoTwins, NEW w \in Reports \cup Boots, NEW found,
         found = IF w \in Reports THEN locateReportCharacteristicByIdAndType(w[1], w[2])
                                  ELSE getCharacteristic(w[1], 0)
  PROVE  /\ found = 0 => \A i \in DOMAIN hid_chars : ~IsFor(hid_chars[i], w)
         /\ found # 0 => found \in DOMAIN hid_chars /\ IsFor(hid_chars[found], w)
<1> DEFINE places == {i \in DOMAIN hid_chars : IsFor(hid_chars[i], w)}
<1>1. DOMAIN hid_chars \subseteq Nat \ {0}
  BY DEF HidTyped
<1>2. places \in SUBSET Nat /\ 0 \notin places /\ \A i, j \in places : i = j
  BY <1>1 DEF NoTwins
<1>3. CASE w \in Reports
  <2>1. w = <<w[1], w[2]>>
    BY <1>3 DEF Reports
  <2>2. {i \in PlacesOf("report") : hid_chars[i].reference = <<w[1], w[2]>>} = places
    BY <1>3, <2>1 DEF PlacesOf, IsFor
  <2>3. found = Foremost(places)
    BY <1>3, <2>2 DEF locateReportCharacteristicByIdAndType
  <2> HIDE DEF places
  <2>4. found = 0 => places = {}
    <3> SUFFICES ASSUME NEW i \in places PROVE found # 0
      OBVIOUS
    <3>1. found = i
      BY <1>2, <2>3, FoundAlone
    <3> QED  BY <1>2, <3>1
  <2>5. found # 0 => found \in places
    BY <1>2, <2>3, FoundAlone
  <2> QED  BY <2>4, <2>5 DEF places
<1>4. CASE w \in Boots
  <2>1. PlacesOf(w[1]) = places
    BY <1>4, WantedApart DEF PlacesOf, IsFor
  <2>2. found = getCharacteristic(w[1], 0)
    BY <1>4, WantedApart
  <2> HIDE DEF places
  <2>3. \A i \in places : Before(i, places) = 0
    BY <1>2, FoundAlone
  <2>4. found = 0 => places = {}
    BY <1>2, <2>1, <2>2, <2>3 DEF getCharacteristic
  <2>5. found # 0 => found \in places
    BY <2>1, <2>2, <2>3 DEF getCharacteristic
  <2> QED  BY <2>4, <2>5 DEF places
<1> QED  BY <1>3, <1>4

\* What every step keeps and OneCharacteristicEach asks of it.
SameGiven == \A w \in Wanted : given[w] # 0 => given'[w] = given[w]

LEMMA CharacteristicAdded ==
  ASSUME HidTyped, NEW c \in HidCharacteristics,
         hid_chars' = Append(hid_chars, c)
  PROVE  /\ hid_chars' \in Seq(HidCharacteristics)
         /\ Len(hid_chars) \in Nat /\ Len(hid_chars') = Len(hid_chars) + 1
         /\ DOMAIN hid_chars' = DOMAIN hid_chars \cup {Len(hid_chars')}
         /\ Len(hid_chars') \notin DOMAIN hid_chars
         /\ hid_chars'[Len(hid_chars')] = c
         /\ \A i \in DOMAIN hid_chars : hid_chars'[i] = hid_chars[i]
  BY DEF HidTyped

LEMMA FoundOrMade ==
  ASSUME HidInv, NEW w \in Reports \cup Boots, NEW found,
         found = IF w \in Reports THEN locateReportCharacteristicByIdAndType(w[1], w[2])
                                  ELSE getCharacteristic(w[1], 0),
         NEW c \in HidCharacteristics, IsFor(c, w),
         FindsOrMakes(w, found, c)
  PROVE  HidInv' /\ SameGiven
<1>1. /\ found = 0 => \A i \in DOMAIN hid_chars : ~IsFor(hid_chars[i], w)
      /\ found # 0 => found \in DOMAIN hid_chars /\ IsFor(hid_chars[found], w)
  BY Located DEF HidInv
<1>2. /\ w \in Wanted /\ w # <<"manufacturer">>
      /\ UNCHANGED <<info_chars, m_manufacturerChr>>
  BY WantedApart DEF FindsOrMakes
<1>3. CASE found # 0
  <2>1. hid_chars' = hid_chars /\ given' = [given EXCEPT ![w] = found] /\ found \in Nat
    BY <1>1, <1>3 DEF FindsOrMakes, HidInv, HidTyped
  <2>2. given[w] # 0 => given[w] = found
    BY <1>1, <1>3 DEF HidInv, GivenMatch, NoTwins
  <2>3. HidTyped' /\ NoTwins'
    BY <1>2, <2>1 DEF HidInv, HidTyped, NoTwins
  <2>4. GivenMatch'
    BY <1>1, <1>2, <1>3, <2>1 DEF HidInv, HidTyped, GivenMatch
  <2>5. given'[<<"manufacturer">>] = m_manufacturerChr'
    BY <1>2, <2>1 DEF HidInv, HidTyped
  <2>6. SameGiven
    BY <1>2, <2>1, <2>2 DEF SameGiven, HidInv, HidTyped
  <2> QED  BY <2>3, <2>4, <2>5, <2>6 DEF HidInv
<1>4. CASE found = 0
  <2>1. hid_chars' = Append(hid_chars, c) /\ given' = [given EXCEPT ![w] = Len(hid_chars')]
    BY <1>4 DEF FindsOrMakes
  <2>2. /\ hid_chars' \in Seq(HidCharacteristics)
        /\ Len(hid_chars) \in Nat /\ Len(hid_chars') = Len(hid_chars) + 1
        /\ DOMAIN hid_chars' = DOMAIN hid_chars \cup {Len(hid_chars')}
        /\ Len(hid_chars') \notin DOMAIN hid_chars
        /\ hid_chars'[Len(hid_chars')] = c
        /\ \A i \in DOMAIN hid_chars : hid_chars'[i] = hid_chars[i]
    BY <2>1, CharacteristicAdded DEF HidInv
  <2>3. given[w] = 0
    BY <1>1, <1>4 DEF HidInv, GivenMatch
  <2>4. HidTyped'
    BY <1>2, <2>1, <2>2 DEF HidInv, HidTyped
  <2>5. NoTwins'
    <3> SUFFICES ASSUME NEW v \in Reports \cup Boots, NEW i \in DOMAIN hid_chars',
                        NEW j \in DOMAIN hid_chars',
                        IsFor(hid_chars'[i], v), IsFor(hid_chars'[j], v)
                 PROVE  i = j
      BY DEF NoTwins
    <3>1. CASE v = w
      BY <1>1, <1>4, <2>2, <3>1
    <3>2. CASE v # w
      BY <2>2, <3>2, IsForOne DEF HidInv, NoTwins
    <3> QED  BY <3>1, <3>2
  <2>6. GivenMatch'
    BY <1>2, <2>1, <2>2 DEF HidInv, HidTyped, GivenMatch
  <2>7. given'[<<"manufacturer">>] = m_manufacturerChr'
    BY <1>2, <2>1 DEF HidInv, HidTyped
  <2>8. SameGiven
    BY <1>2, <2>1, <2>3 DEF SameGiven, HidInv, HidTyped
  <2> QED  BY <2>4, <2>5, <2>6, <2>7, <2>8 DEF HidInv
<1> QED  BY <1>3, <1>4

LEMMA HidStep == HidInv /\ [HidNext]_hid => HidInv' /\ SameGiven
<1> SUFFICES ASSUME HidInv, [HidNext]_hid PROVE HidInv' /\ SameGiven
  OBVIOUS
<1>1. ASSUME NEW id \in ReportIds, NEW type \in ReportTypes, Report(id, type)
      PROVE  HidInv' /\ SameGiven
  <2> DEFINE w == <<id, type>>
  <2>1. w \in Reports /\ w[1] = id /\ w[2] = type
    BY DEF Reports
  <2>2. /\ Characteristic("report", w) \in HidCharacteristics
        /\ IsFor(Characteristic("report", w), w)
    BY <2>1 DEF Characteristic, IsFor, HidCharacteristics, HidUuids
  <2>3. FindsOrMakes(w, locateReportCharacteristicByIdAndType(w[1], w[2]), Characteristic("report", w))
    BY <1>1, <2>1 DEF Report
  <2> HIDE DEF w
  <2> QED  BY <2>1, <2>2, <2>3, FoundOrMade
<1>2. ASSUME NEW u \in BootUuids, Boot(u) PROVE HidInv' /\ SameGiven
  <2> DEFINE w == <<u>>
  <2>1. w \in Boots /\ w[1] = u /\ w \notin Reports
    BY WantedApart DEF Boots
  <2>2. /\ Characteristic(u, NoReference) \in HidCharacteristics
        /\ IsFor(Characteristic(u, NoReference), w)
    BY <2>1 DEF Characteristic, IsFor, BootUuids, HidCharacteristics, HidUuids
  <2>3. FindsOrMakes(w, getCharacteristic(w[1], 0), Characteristic(u, NoReference))
    BY <1>2, <2>1 DEF Boot
  <2> HIDE DEF w
  <2> QED  BY <2>1, <2>2, <2>3, FoundOrMade
<1>3. CASE setManufacturer
  <2> DEFINE man == Characteristic("manufacturer", NoReference)
  <2>1. man \in HidCharacteristics
    BY DEF Characteristic, HidCharacteristics, HidUuids
  <2>2. /\ info_chars' = IF m_manufacturerChr = 0 THEN Append(info_chars, man) ELSE info_chars
        /\ m_manufacturerChr' = IF m_manufacturerChr = 0 THEN Len(info_chars') ELSE m_manufacturerChr
        /\ given' = [given EXCEPT ![<<"manufacturer">>] = m_manufacturerChr']
        /\ hid_chars' = hid_chars
    BY <1>3 DEF setManufacturer
  <2> HIDE DEF man
  <2>3. /\ info_chars' \in Seq(HidCharacteristics)
        /\ m_manufacturerChr' \in Nat
    <3>1. /\ Append(info_chars, man) \in Seq(HidCharacteristics)
          /\ Len(Append(info_chars, man)) \in Nat
      BY <2>1 DEF HidInv, HidTyped
    <3> QED  BY <2>2, <3>1 DEF HidInv, HidTyped
  <2>4. <<"manufacturer">> \in Wanted /\ <<"manufacturer">> \notin Reports \cup Boots
    BY WantedApart
  <2>5. given' \in [Wanted -> Nat] /\ given'[<<"manufacturer">>] = m_manufacturerChr'
    BY <2>2, <2>3, <2>4 DEF HidInv, HidTyped
  <2>6. \A w \in Wanted : w # <<"manufacturer">> => given'[w] = given[w]
    BY <2>2 DEF HidInv, HidTyped
  <2>7. SameGiven
    BY <2>2, <2>5, <2>6 DEF SameGiven, HidInv
  <2>8. NoTwins' /\ GivenMatch'
    BY <2>2, <2>4, <2>6, WantedApart DEF HidInv, NoTwins, GivenMatch
  <2> QED  BY <2>2, <2>3, <2>5, <2>7, <2>8 DEF HidInv, HidTyped
<1>4. CASE AppAdds
  <2> DEFINE other == Characteristic("other", NoReference)
  <2>1. other \in HidCharacteristics
    BY DEF Characteristic, HidCharacteristics, HidUuids
  <2>2. \A w \in Reports \cup Boots : ~IsFor(other, w)
    BY WantedApart DEF Characteristic, IsFor, BootUuids
  <2>3. UNCHANGED <<m_manufacturerChr, given>>
    BY <1>4 DEF AppAdds
  <2>4. CASE hid_chars' = Append(hid_chars, other) /\ UNCHANGED info_chars
    <3> HIDE DEF other
    <3>1. /\ hid_chars' \in Seq(HidCharacteristics)
          /\ DOMAIN hid_chars' = DOMAIN hid_chars \cup {Len(hid_chars')}
          /\ hid_chars'[Len(hid_chars')] = other
          /\ \A i \in DOMAIN hid_chars : hid_chars'[i] = hid_chars[i]
      BY <2>1, <2>4, CharacteristicAdded DEF HidInv
    <3>2. HidTyped' /\ GivenMatch'
      BY <2>3, <2>4, <3>1 DEF HidInv, HidTyped, GivenMatch
    <3>3. NoTwins'
      BY <2>2, <3>1 DEF HidInv, NoTwins
    <3> QED  BY <2>3, <3>2, <3>3 DEF HidInv, SameGiven
  <2>5. CASE info_chars' = Append(info_chars, other) /\ UNCHANGED hid_chars
    <3> HIDE DEF other
    <3>1. info_chars' \in Seq(HidCharacteristics)
      BY <2>1, <2>5 DEF HidInv, HidTyped
    <3> QED  BY <2>3, <2>5, <3>1 DEF HidInv, HidTyped, NoTwins, GivenMatch, SameGiven
  <2> QED  BY <1>4, <2>4, <2>5 DEF AppAdds
<1>5. CASE UNCHANGED hid
  BY <1>5 DEF hid, HidInv, HidTyped, NoTwins, GivenMatch, SameGiven
<1> QED
  BY <1>1, <1>2, <1>3, <1>4, <1>5
  DEF HidNext, getInputReport, getOutputReport, getFeatureReport, getBootInput, getBootOutput,
      ReportTypes, BootUuids

LEMMA HidStarts == HidInit => HidInv
<1> SUFFICES ASSUME HidInit PROVE HidInv
  OBVIOUS
<1>1. /\ hid_chars \in Seq(HidCharacteristics)
      /\ info_chars \in Seq(HidCharacteristics)
  BY DEF HidInit, Characteristic, HidCharacteristics, HidUuids
<1>2. HidTyped
  BY <1>1 DEF HidInit, HidTyped
<1>3. \A i \in DOMAIN hid_chars :
        hid_chars[i].uuid \notin BootUuids /\ hid_chars[i].uuid # "report"
  BY DEF HidInit, Characteristic, BootUuids
<1>4. NoTwins
  BY <1>3, WantedApart DEF NoTwins, IsFor
<1>5. given[<<"manufacturer">>] = 0 /\ \A w \in Reports \cup Boots : given[w] = 0
  BY WantedApart DEF HidInit
<1> QED  BY <1>2, <1>4, <1>5 DEF HidInit, HidInv, GivenMatch

\* For every set of identifiers and every number of characteristics: asking again gives
\* the same one, and no two reports share one (locateReportCharacteristicByIdAndType).
THEOREM OneCharacteristicEachProved == HidSpec => OneCharacteristicEach
<1>1. HidInv' => \A w, v \in Reports \cup Boots : w # v /\ given'[w] # 0 => given'[w] # given'[v]
  <2> SUFFICES ASSUME HidInv', NEW w \in Reports \cup Boots, NEW v \in Reports \cup Boots,
                      w # v, given'[w] # 0, given'[w] = given'[v]
               PROVE  FALSE
    OBVIOUS
  <2>1. IsFor(hid_chars'[given'[w]], w) /\ IsFor(hid_chars'[given'[w]], v)
    BY DEF HidInv, GivenMatch
  <2> QED  BY <2>1, IsForOne
<1>2. HidInv /\ [HidNext]_hid =>
        [/\ \A w \in Wanted : given[w] # 0 => given'[w] = given[w]
         /\ \A w, v \in Reports \cup Boots : w # v /\ given'[w] # 0 => given'[w] # given'[v]]_hid
  BY <1>1, HidStep DEF SameGiven
<1> QED  BY <1>2, HidStarts, HidStep, PTL DEF HidSpec, OneCharacteristicEach

-----------------------------------------------------------------------------
(* NimBLEAdvertising *)

\* OnAirIsCurrent speaks of a device that advertises; between two advertisings the flag has
\* to be right whenever the host is in sync, which a reset and its sync restore together.
AdvertisingTyped ==
  /\ adv_active \in BOOLEAN /\ host_synced \in BOOLEAN /\ m_advDataSet \in BOOLEAN
  /\ stage \in [StartTasks -> {"idle", "check", "data", "scan", "go"}]
FlagIsTrue ==
  m_advDataSet /\ host_synced =>
    /\ host_data = m_advData
    /\ NeedsScan /\ (\A t \in StartTasks : stage[t] # "scan") => host_scan = m_scanData
OnAirInv == AdvertisingTyped /\ (adv_active => host_synced) /\ FlagIsTrue

LEMMA OnAirKept == OnAirInv /\ [AdvertisingNext]_advertising => OnAirInv'
<1> SUFFICES ASSUME OnAirInv, [AdvertisingNext]_advertising PROVE OnAirInv'
  OBVIOUS
<1> USE DEF OnAirInv, AdvertisingTyped, FlagIsTrue, NeedsScan, StartTasks, payloads, host, calls,
            counts
<1>1. ASSUME NEW t \in StartTasks, AdvertisingStart(t) PROVE OnAirInv'
  <2>1. CASE StartChecks(t)
    BY <2>1 DEF StartChecks, Enter
  <2>2. CASE StartSetsData(t)
    BY <2>2 DEF StartSetsData, Enter
  <2>3. CASE StartSetsScan(t)
    BY <2>3 DEF StartSetsScan, Enter
  <2>4. CASE StartGoes(t)
    BY <2>4 DEF StartGoes, Enter
  <2> QED  BY <1>1, <2>1, <2>2, <2>3, <2>4 DEF AdvertisingStart
<1>2. ASSUME NEW d \in {"forever", "timed"}, AppStarts(d) PROVE OnAirInv'
  BY <1>2 DEF AppStarts, AppIdle
<1>3. CASE AppStops
  BY <1>3 DEF AppStops
<1>4. CASE clearAdvertisingData
  BY <1>4 DEF clearAdvertisingData, CountsChange
<1>5. CASE refreshAdvertisingData
  BY <1>5 DEF refreshAdvertisingData
<1>6. ASSUME NEW d \in AdvData, ChangesData(d) PROVE OnAirInv'
  BY <1>6 DEF ChangesData, CountsChange
<1>7. ASSUME NEW enable \in BOOLEAN, enableScanResponse(enable) PROVE OnAirInv'
  BY <1>7 DEF enableScanResponse, CountsChange
<1>8. CASE HostResets
  BY <1>8 DEF HostResets
<1>9. CASE onHostSync
  BY <1>9 DEF onHostSync, HostStarts
<1>10. CASE Connected \/ Disconnected \/ ConnectFailed \/ AdvComplete
  <2>1. CASE Connected
    BY <2>1 DEF Connected
  <2>2. CASE AdvComplete
    BY <2>2 DEF AdvComplete
  <2>3. CASE Disconnected
    BY <2>3 DEF Disconnected, HostStarts, HostIdle
  <2>4. CASE ConnectFailed
    BY <2>4 DEF ConnectFailed, HostStarts, HostIdle
  <2> QED  BY <1>10, <2>1, <2>2, <2>3, <2>4
<1>11. CASE UNCHANGED advertising
  BY <1>11 DEF advertising
<1> QED
  BY <1>1, <1>2, <1>3, <1>4, <1>5, <1>6, <1>7, <1>8, <1>9, <1>10, <1>11 DEF AdvertisingNext

\* What the check of Discoverable adds to this is only that it is found again: neither a
\* reset nor a change of data between two calls of start leaves old data on air.
THEOREM DiscoverableIfFoundAgain ==
  AdvertisingSpec /\ (<>[](host_synced /\ asked) => []<>(adv_active \/ linked > 0)) => Discoverable
<1>1. AdvertisingInit => OnAirInv
  BY DEF AdvertisingInit, OnAirInv, AdvertisingTyped, FlagIsTrue, StartTasks
<1>2. OnAirInv => OnAirIsCurrent
  BY DEF OnAirInv, AdvertisingTyped, FlagIsTrue, StartTasks, OnAirIsCurrent
<1> QED  BY <1>1, <1>2, OnAirKept, PTL DEF AdvertisingSpec, Discoverable

-----------------------------------------------------------------------------
(* NimBLEExtAdvertising *)

\* The flag of the instance that a start or an end is under way for may be behind; what
\* the pending step writes is right unless the two met.
StatusTold ==
  /\ starting # NoInstance /\ starting \notin crossed => starting \in advertises /\ starting # ending
  /\ ending \notin crossed => ending \notin advertises
  /\ ext_synced =>
       \A i \in Instances \ (crossed \cup {starting, ending}) : i \in m_advStatus <=> i \in advertises
  /\ ~ext_synced => advertises = {} /\ ending = NoInstance
StatusInv == advertises \subseteq Instances /\ StatusTold

LEMMA StatusInvStarts == ExtAdvertisingInit => StatusInv
  BY DEF ExtAdvertisingInit, StatusInv, StatusTold

LEMMA StatusInvKept ==
  StatusInv /\ [ExtAdvertisingNext]_ext_advertising => StatusInv'
<1> SUFFICES ASSUME StatusInv, [ExtAdvertisingNext]_ext_advertising PROVE StatusInv'
  OBVIOUS
<1> USE ExtAdvertisingAssumption DEF StatusInv, StatusTold, NotStarting
<1>1. ASSUME NEW i \in Instances, NEW p \in Params, setInstanceData(i, p) PROVE StatusInv'
  BY <1>1 DEF setInstanceData
<1>2. ASSUME NEW i \in Instances, setExtScanResponseData(i) PROVE StatusInv'
  BY <1>2 DEF setExtScanResponseData
<1>3. ASSUME NEW i \in Instances, StartAsks(i) PROVE StatusInv'
  BY <1>3 DEF StartAsks
<1>4. ASSUME NEW i \in Instances, NEW removes \in BOOLEAN, stopInstance(i, removes)
      PROVE  StatusInv'
  BY <1>4 DEF stopInstance
<1>5. ASSUME NEW i \in Instances, SetEnds(i) PROVE StatusInv'
  BY <1>5 DEF SetEnds
<1>6. CASE StartMarks
  BY <1>6 DEF StartMarks
<1>7. CASE stopAll
  BY <1>7 DEF stopAll
<1>8. CASE EndTold
  BY <1>8 DEF EndTold
<1>9. CASE ExtHostResets
  BY <1>9 DEF ExtHostResets
<1>10. CASE onExtHostSync
  BY <1>10 DEF onExtHostSync
<1>11. CASE UNCHANGED ext_advertising
  BY <1>11 DEF ext_advertising
<1> QED
  BY <1>1, <1>2, <1>3, <1>4, <1>5, <1>6, <1>7, <1>8, <1>9, <1>10, <1>11 DEF ExtAdvertisingNext

\* Whatever starts, ends, stops and resets interleave, for any number of instances: the
\* only flags that are wrong are those of instances whose start met their own end.
THEOREM StatusAlwaysTrue == ExtAdvertisingSpec => []StatusIsTrue
<1>1. StatusInv => StatusIsTrue
  BY ExtAdvertisingAssumption DEF StatusInv, StatusTold, StatusIsTrue, NotStarting
<1> QED  BY <1>1, StatusInvStarts, StatusInvKept, PTL DEF ExtAdvertisingSpec
=============================================================================
