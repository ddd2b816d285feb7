----------------------------- MODULE CoreStorage -----------------------------
(***************************************************************************)
(* RuntimeConfig in RAM and in NVS (core_storage.cpp): tasks change it     *)
(* under config_mutex, release the mutex, and call save_runtime_config,    *)
(* which takes it again and writes every field of two NVS namespaces.  The *)
(* device may restart between any two steps; NVS may fail.                 *)
(***************************************************************************)


CONSTANTS
  Tasks,          \* the tasks that change and save the configuration
  NoTask,
  WifiFields,     \* the fields of namespace "wifi"
  CoreFields,     \* the fields of namespace "corecfg"
  Values, Empty,  \* what a field may hold; the empty string
  Unset,          \* no value is waiting for nvs_commit
  NvsMayFail      \* may opening, setting, committing or reading NVS fail?

Fields == WifiFields \cup CoreFields
Configs == [Fields -> Values]
Blank == [f \in Fields |-> Empty]

ASSUME StorageAssumption ==
  /\ NoTask \notin Tasks
  /\ Empty \in Values /\ Unset \notin Values
  /\ WifiFields \cap CoreFields = {}
  /\ NvsMayFail \in BOOLEAN

VARIABLES
  config,         \* s.config
  config_mutex,   \* the task inside save_runtime_config; shorter sections are one step
  flash,          \* what NVS holds for certain
  pending,        \* nvs_set done and not committed: a reboot may find it or not
  step,           \* of each task: nothing to save, changed, or committing a namespace
  sound,          \* history: nothing has failed in the save that is going on
  clean           \* history: nothing failed since the last full save, or load

storage == <<config, config_mutex, flash, pending, step, sound, clean>>

NothingPending == [f \in Fields |-> Unset]
Pending == {f \in Fields : pending[f] # Unset}

\* The fields of which an NVS operation may fail.
MayFail(fields) == IF NvsMayFail THEN fields ELSE {}

StorageTypeOK ==
  /\ config \in Configs /\ flash \in Configs
  /\ pending \in [Fields -> Values \cup {Unset}]
  /\ config_mutex \in Tasks \cup {NoTask}
  /\ step \in [Tasks -> {"idle", "changed", "wifi", "corecfg"}]
  /\ sound \in BOOLEAN /\ clean \in BOOLEAN

\* A device that was never provisioned.
StorageInit ==
  /\ config = Blank /\ flash = Blank /\ pending = NothingPending
  /\ config_mutex = NoTask /\ step = [t \in Tasks |-> "idle"]
  /\ sound = TRUE /\ clean = TRUE

-----------------------------------------------------------------------------
(* A task changes the configuration under the mutex and goes on to save it. *)

Change(t) ==
  /\ config_mutex = NoTask /\ step[t] = "idle"
  /\ step' = [step EXCEPT ![t] = "changed"]
  /\ config' \in Configs
  /\ UNCHANGED <<config_mutex, flash, pending, sound, clean>>

-----------------------------------------------------------------------------
(* save_runtime_config, one step per namespace; every early return unlocks. *)

\* Any part of what was set may be in the flash before it is committed.
Landed(fields) ==
  [f \in Fields |-> IF f \in fields \cap Pending THEN pending[f] ELSE flash[f]]

\* nvs_write_string for each field of a namespace; its errors are ignored.
SetAll(fields, failed) ==
  pending' = [f \in Fields |-> IF f \in fields \ failed THEN config[f] ELSE Unset]

SaveReturns(t) ==
  /\ config_mutex' = NoTask
  /\ step' = [step EXCEPT ![t] = "idle"]
  /\ pending' = NothingPending
  /\ sound' = TRUE

OpenFails(t) ==
  /\ NvsMayFail /\ clean' = FALSE
  /\ SaveReturns(t)

SaveWifi(t) ==
  /\ config_mutex = NoTask /\ step[t] = "changed"
  /\ \/ \E failed \in SUBSET MayFail(WifiFields) :
          /\ SetAll(WifiFields, failed)
          /\ sound' = (failed = {}) /\ clean' = (clean /\ failed = {})
          /\ config_mutex' = t
          /\ step' = [step EXCEPT ![t] = "wifi"]
     \/ OpenFails(t)
  /\ UNCHANGED <<config, flash>>

SaveCore(t) ==
  /\ step[t] = "wifi"
  /\ flash' = Landed(WifiFields)
  /\ \/ \E failed \in SUBSET MayFail(CoreFields) :
          /\ SetAll(CoreFields, failed)
          /\ sound' = (sound /\ failed = {}) /\ clean' = (clean /\ failed = {})
          /\ step' = [step EXCEPT ![t] = "corecfg"]
          /\ UNCHANGED config_mutex
     \/ OpenFails(t)
  /\ UNCHANGED config

CommitCore(t) ==
  /\ step[t] = "corecfg"
  /\ flash' = Landed(CoreFields)
  /\ SaveReturns(t)
  /\ clean' = sound
  /\ UNCHANGED config

\* nvs_commit reports an error: the save returns false at that point.
CommitFails(t) ==
  /\ NvsMayFail /\ step[t] \in {"wifi", "corecfg"}
  /\ \E fields \in SUBSET Pending : flash' = Landed(fields)
  /\ SaveReturns(t)
  /\ clean' = FALSE
  /\ UNCHANGED config

save_runtime_config(t) == SaveWifi(t) \/ SaveCore(t) \/ CommitCore(t) \/ CommitFails(t)

-----------------------------------------------------------------------------
(* Power loss, a panic or safe_restart, then core::init: no task keeps a     *)
(* place in its code, and a field that cannot be read is empty.              *)

Loaded(unread) == [f \in Fields |-> IF f \in unread THEN Empty ELSE flash'[f]]

Restart ==
  /\ config_mutex' = NoTask
  /\ step' = [t \in Tasks |-> "idle"]
  /\ pending' = NothingPending /\ sound' = TRUE
  /\ \/ \E fields \in SUBSET Pending : flash' = Landed(fields)
     \/ NvsMayFail /\ flash' = Blank               \* nvs_flash_erase
  /\ \E unread \in SUBSET MayFail(Fields) :
       /\ config' = Loaded(unread)
       /\ clean' = (unread = {})

StorageNext == (\E t \in Tasks : Change(t) \/ save_runtime_config(t)) \/ Restart

StorageSpec == StorageInit /\ [][StorageNext]_storage

-----------------------------------------------------------------------------
(* Properties *)

\* Once every task has saved what it changed and no operation failed since, a
\* reboot finds exactly the configuration in RAM, whichever tasks interleaved
\* and whatever earlier saves failed: any clean save repairs them all.
Kept ==
  (clean /\ config_mutex = NoTask /\ \A t \in Tasks : step[t] # "changed")
    => flash = config

\* A save never brings back a value that RAM has already replaced, even when
\* several tasks save at once and a restart cuts one short: what changes in NVS
\* is what RAM holds at that moment, or all of it is erased.
NothingStaleStored ==
  [][\A f \in Fields : flash'[f] # flash[f] => flash'[f] = config[f] \/ flash' = Blank]_storage

-----------------------------------------------------------------------------
(* The inductive invariant behind Kept and NothingStaleStored: the mutex names *)
(* the one task inside a save, whose pending values are those of RAM.          *)

MutexNamesSaver ==
  \A t \in Tasks : step[t] \in {"wifi", "corecfg"} <=> config_mutex = t

PendingIsCurrent ==
  \A f \in Fields : pending[f] # Unset => config_mutex # NoTask /\ pending[f] = config[f]

SaveProgress ==
  sound =>
    \A t \in Tasks :
      /\ step[t] = "wifi" => \A f \in WifiFields : pending[f] = config[f]
      /\ step[t] = "corecfg" => /\ \A f \in WifiFields : flash[f] = config[f]
                                /\ \A f \in CoreFields : pending[f] = config[f]

StorageInv ==
  StorageTypeOK /\ MutexNamesSaver /\ PendingIsCurrent /\ SaveProgress /\ Kept
=============================================================================
