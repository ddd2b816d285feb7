---------------------------- MODULE NimBLEAttValue ----------------------------
(***************************************************************************)
(* The value of a characteristic (NimBLEAttValue.cpp) between the task     *)
(* that sets it, the host's task, which takes it for a peer                *)
(* (NimBLEServer::handleGattEvent), and a task that copies it.  Setting is *)
(* not one step: the length is cleared, memory is got if the value has     *)
(* grown, and only the last part is a critical section.                    *)
(*                                                                         *)
(* A value is a sequence; memory is a block of a size with the bytes       *)
(* written last, or freed.  core_ble.cpp sets TX from its own task and     *)
(* copies RX in the host's task, which is the one that sets it: nobody     *)
(* copies a value that another task sets.  Nothing in the repository       *)
(* appends to a value that others read.                                    *)
(***************************************************************************)
EXTENDS Naturals, Sequences

CONSTANTS Written,          \* values that are set
          m_attr_max_len,
          InitLength        \* CONFIG_NIMBLE_CPP_ATT_VALUE_INIT_LENGTH

ASSUME AttValueAssumption == Written \subseteq Seq(Nat) /\ {m_attr_max_len, InitLength} \subseteq Nat

VARIABLES
  owner,                 \* the task that sets and copies the value: "app", "host"
  m_attr_value,          \* what it points to: [size, bytes], or Freed
  m_attr_len, m_capacity,
  setting, value,        \* the setter: "idle", "append", "commit"; its argument
  res, new_len,          \* locals of append
  copying, copy,         \* the copier: "idle", "got"; its block
  failed,                \* memory was refused once
  taken                  \* what the host took last

Freed == [size |-> 0, bytes |-> <<0>>]

stored == <<m_attr_value, m_attr_len, m_capacity>>
setter == <<setting, value, res, new_len, failed>>
att_value == <<owner, stored, setter, copying, copy, taken>>

AttValueInit ==
  /\ owner \in {"app", "host"}
  /\ m_attr_value = [size |-> InitLength, bytes |-> <<>>]
  /\ m_attr_len = 0 /\ m_capacity = InitLength
  /\ setting = "idle" /\ value = <<>> /\ res = Freed /\ new_len = 0
  /\ copying = "idle" /\ copy = <<0, 0>> /\ failed = FALSE /\ taken = <<>>

\* A task does one thing at a time; the host's task is the one that takes values.
TaskFree(t) == t = owner => setting = "idle" /\ copying = "idle"

-----------------------------------------------------------------------------
(* setValue and append *)

\* Mutant: the length is left for append to replace.
SetsBegins(v) ==
  /\ TaskFree(owner)
  /\ value' = v /\ setting' = IF v = <<>> THEN "idle" ELSE "append"
  /\ UNCHANGED <<owner, stored, res, new_len, failed, copying, copy, taken>>

\* Whatever the value was, it is empty now.
setValueBegins(v) ==
  /\ TaskFree(owner)
  /\ value' = v /\ setting' = IF v = <<>> THEN "idle" ELSE "append"
  /\ m_attr_len' = 0 /\ m_attr_value' = [m_attr_value EXCEPT !.bytes = <<>>]
  /\ UNCHANGED <<owner, m_capacity, res, new_len, failed, copying, copy, taken>>

\* A peer's write that is too long is refused before.
WriteByPeer(v) == owner = "host" /\ Len(v) <= m_attr_max_len /\ setValueBegins(v)

SetByApp(v) == owner = "app" /\ setValueBegins(v)

TooLong ==
  /\ setting = "append" /\ m_attr_len + Len(value) > m_attr_max_len
  /\ setting' = "idle" /\ UNCHANGED <<owner, stored, value, res, new_len, failed, copying, copy, taken>>

Room == setting = "append" /\ m_attr_len + Len(value) <= m_attr_max_len

NoNeedToGrow ==
  /\ Room /\ m_attr_len + Len(value) <= m_capacity
  /\ setting' = "commit" /\ res' = m_attr_value /\ new_len' = m_attr_len + Len(value)
  /\ UNCHANGED <<owner, stored, value, failed, copying, copy, taken>>

\* realloc moves the bytes and frees the block that m_attr_value still points to.
Grows ==
  /\ Room /\ m_attr_len + Len(value) > m_capacity
  /\ new_len' = m_attr_len + Len(value) /\ m_capacity' = new_len'
  /\ res' = [m_attr_value EXCEPT !.size = new_len'] /\ m_attr_value' = Freed
  /\ setting' = "commit"
  /\ UNCHANGED <<owner, m_attr_len, value, failed, copying, copy, taken>>

\* The capacity is what it was to become.
GrowFails ==
  /\ Room /\ m_attr_len + Len(value) > m_capacity
  /\ m_capacity' = m_attr_len + Len(value) /\ setting' = "idle" /\ failed' = TRUE
  /\ UNCHANGED <<owner, m_attr_value, m_attr_len, value, res, new_len, copying, copy, taken>>

\* The critical section.
Commits ==
  /\ setting = "commit" /\ setting' = "idle"
  /\ m_attr_value' = [res EXCEPT !.bytes = SubSeq(@, 1, m_attr_len) \o value]
  /\ m_attr_len' = new_len
  /\ UNCHANGED <<owner, m_capacity, value, res, new_len, failed, copying, copy, taken>>

-----------------------------------------------------------------------------
(* The other tasks *)

ValueBytes == IF m_attr_len = 0 THEN <<>> ELSE m_attr_value.bytes

\* A peer's read or a notification, in a critical section of the host's task.
ReadByPeer ==
  /\ TaskFree("host") /\ taken' = ValueBytes
  /\ UNCHANGED <<owner, stored, setter, copying, copy>>

\* The copy gets memory for the capacity before the critical section, in which it copies
\* the length.
CopyBegins ==
  /\ TaskFree(owner)
  /\ copying' = "got" /\ copy' = <<m_capacity, 0>>
  /\ UNCHANGED <<owner, stored, setter, taken>>

CopyEnds ==
  /\ copying = "got"
  /\ copying' = "idle" /\ copy' = [copy EXCEPT ![2] = m_attr_len]
  /\ UNCHANGED <<owner, stored, setter, taken>>

AttValueNext ==
  \/ \E v \in Written : SetByApp(v) \/ WriteByPeer(v)
  \/ TooLong \/ NoNeedToGrow \/ Grows \/ GrowFails \/ Commits
  \/ ReadByPeer \/ CopyBegins \/ CopyEnds

AttValueSpec == AttValueInit /\ [][AttValueNext]_att_value

-----------------------------------------------------------------------------
(* Properties *)

\* Whenever the host takes the value, it takes nothing or one that was set, as a whole:
\* never a part, a mix of two or bytes of a block that realloc has freed.  A copy has room
\* for what it copies, and so has the value's block, until memory has run out once: from
\* then on m_capacity may be more than the block is.
ValueIsWhole ==
  /\ taken \in Written \cup {<<>>}
  /\ copy[2] <= copy[1]
  /\ failed \/ m_attr_value = Freed \/ Len(m_attr_value.bytes) <= m_attr_value.size
=============================================================================
