-------------------------- MODULE CoreStorage_proofs --------------------------
(***************************************************************************)
(* What a reboot finds, for every set of tasks and fields and whether or   *)
(* not NVS may fail.  StorageInv is inductive: the mutex names the one     *)
(* task inside a save, and what that task has set is what RAM holds.       *)
(***************************************************************************)
EXTENDS CoreStorage, TLAPS

\* What reaches the flash is of the type of a configuration.
LEMMA LandedType ==
  ASSUME StorageTypeOK, NEW fields
  PROVE  Landed(fields) \in Configs
BY DEF Landed, Pending, StorageTypeOK, Configs

LEMMA BlankType == Blank \in Configs
BY StorageAssumption DEF Blank, Configs

LEMMA NothingPendingType == NothingPending \in [Fields -> Values \cup {Unset}]
BY DEF NothingPending

\* What is waiting for a commit is RAM's, for the fields that could be set.
LEMMA SetAllType ==
  ASSUME StorageTypeOK, NEW fields, NEW failed, SetAll(fields, failed)
  PROVE  pending' \in [Fields -> Values \cup {Unset}]
BY DEF SetAll, StorageTypeOK, Configs

LEMMA StorageTypeInit == StorageInit => StorageTypeOK
BY BlankType, NothingPendingType, StorageAssumption DEF StorageInit, StorageTypeOK

\* A save that returns leaves no mutex and nothing pending behind.
LEMMA SaveReturnsType ==
  ASSUME StorageTypeOK, NEW t \in Tasks, SaveReturns(t)
  PROVE  /\ pending' \in [Fields -> Values \cup {Unset}]
         /\ config_mutex' \in Tasks \cup {NoTask}
         /\ step' \in [Tasks -> {"idle", "changed", "wifi", "corecfg"}]
         /\ sound' \in BOOLEAN
BY NothingPendingType DEF SaveReturns, StorageTypeOK

\* Every step of the storage keeps the types.
LEMMA StorageTypeStep ==
  ASSUME StorageTypeOK, [StorageNext]_storage
  PROVE  StorageTypeOK'
<1>1. ASSUME NEW t \in Tasks, Change(t) PROVE StorageTypeOK'
  BY <1>1 DEF Change, StorageTypeOK
<1>2. ASSUME NEW t \in Tasks, SaveWifi(t) PROVE StorageTypeOK'
  <2>1. CASE OpenFails(t)
    BY <1>2, <2>1, SaveReturnsType DEF SaveWifi, OpenFails, StorageTypeOK
  <2>2. CASE ~OpenFails(t)
    <3>1. PICK failed \in SUBSET MayFail(WifiFields) :
            /\ SetAll(WifiFields, failed)
            /\ sound' = (failed = {}) /\ clean' = (clean /\ failed = {})
            /\ config_mutex' = t
            /\ step' = [step EXCEPT ![t] = "wifi"]
      BY <1>2, <2>2 DEF SaveWifi
    <3>2. pending' \in [Fields -> Values \cup {Unset}]  BY <3>1, SetAllType
    <3>3. clean' \in BOOLEAN /\ sound' \in BOOLEAN  BY <3>1
    <3> QED  BY <1>2, <3>1, <3>2, <3>3 DEF SaveWifi, StorageTypeOK
  <2> QED  BY <2>1, <2>2
<1>3. ASSUME NEW t \in Tasks, SaveCore(t) PROVE StorageTypeOK'
  <2>0. flash' \in Configs  BY <1>3, LandedType DEF SaveCore
  <2>1. CASE OpenFails(t)
    BY <1>3, <2>0, <2>1, SaveReturnsType DEF SaveCore, OpenFails, StorageTypeOK
  <2>2. CASE ~OpenFails(t)
    <3>1. PICK failed \in SUBSET MayFail(CoreFields) :
            /\ SetAll(CoreFields, failed)
            /\ sound' = (sound /\ failed = {}) /\ clean' = (clean /\ failed = {})
            /\ step' = [step EXCEPT ![t] = "corecfg"]
            /\ UNCHANGED config_mutex
      BY <1>3, <2>2 DEF SaveCore
    <3>2. pending' \in [Fields -> Values \cup {Unset}]  BY <3>1, SetAllType
    <3>3. clean' \in BOOLEAN /\ sound' \in BOOLEAN  BY <3>1
    <3> QED  BY <1>3, <2>0, <3>1, <3>2, <3>3 DEF SaveCore, StorageTypeOK
  <2> QED  BY <2>1, <2>2
<1>4. ASSUME NEW t \in Tasks, CommitCore(t) PROVE StorageTypeOK'
  BY <1>4, LandedType, SaveReturnsType DEF CommitCore, StorageTypeOK
<1>5. ASSUME NEW t \in Tasks, CommitFails(t) PROVE StorageTypeOK'
  BY <1>5, LandedType, SaveReturnsType DEF CommitFails, StorageTypeOK
<1>6. CASE Restart
  <2>1. flash' \in Configs  BY <1>6, LandedType, BlankType DEF Restart
  <2>2. PICK unread \in SUBSET MayFail(Fields) :
          config' = Loaded(unread) /\ clean' = (unread = {})
    BY <1>6 DEF Restart
  <2>3. config' \in Configs  BY <2>1, <2>2, StorageAssumption DEF Loaded, Configs
  <2>4. clean' \in BOOLEAN /\ sound' \in BOOLEAN  BY <1>6, <2>2 DEF Restart
  <2> QED  BY <1>6, <2>1, <2>3, <2>4, NothingPendingType DEF Restart, StorageTypeOK
<1>7. CASE UNCHANGED storage
  BY <1>7 DEF storage, StorageTypeOK
<1> QED
  BY <1>1, <1>2, <1>3, <1>4, <1>5, <1>6, <1>7 DEF StorageNext, save_runtime_config

-----------------------------------------------------------------------------
LEMMA StorageInvInit == StorageInit => StorageInv
<1> SUFFICES ASSUME StorageInit PROVE StorageInv
  OBVIOUS
<1>1. StorageTypeOK  BY StorageTypeInit
<1>2. MutexNamesSaver  BY StorageAssumption DEF StorageInit, MutexNamesSaver
<1>3. PendingIsCurrent  BY DEF StorageInit, PendingIsCurrent, NothingPending
<1>4. SaveProgress  BY DEF StorageInit, SaveProgress
<1>5. Kept  BY DEF StorageInit, Kept
<1> QED  BY <1>1, <1>2, <1>3, <1>4, <1>5 DEF StorageInv

\* A save that gives up leaves no claim: clean is false.
LEMMA GivesUp ==
  ASSUME StorageInv, NEW t \in Tasks, SaveReturns(t), UNCHANGED config,
         config_mutex \in {t, NoTask}, clean' = FALSE
  PROVE  MutexNamesSaver' /\ PendingIsCurrent' /\ SaveProgress' /\ Kept'
<1>1. MutexNamesSaver'
  BY StorageAssumption DEF StorageInv, StorageTypeOK, MutexNamesSaver, SaveReturns
<1>2. PendingIsCurrent'  BY DEF PendingIsCurrent, SaveReturns, NothingPending
<1>3. SaveProgress'
  BY <1>1, StorageAssumption DEF SaveProgress, MutexNamesSaver, SaveReturns
<1>4. Kept'  BY DEF Kept
<1> QED  BY <1>1, <1>2, <1>3, <1>4

\* Every step of the storage keeps the inductive invariant.
LEMMA StorageInvStep ==
  ASSUME StorageInv, [StorageNext]_storage
  PROVE  StorageInv'
<1> USE DEF StorageInv
<1>0. StorageTypeOK'  BY StorageTypeStep
<1>1. ASSUME NEW t \in Tasks, Change(t) PROVE StorageInv'
  <2>1. MutexNamesSaver'
    BY <1>1, StorageAssumption DEF Change, StorageTypeOK, MutexNamesSaver
  <2>2. PendingIsCurrent'  BY <1>1 DEF Change, PendingIsCurrent
  <2>3. \A u \in Tasks : step'[u] \notin {"wifi", "corecfg"}
    BY <1>1, StorageAssumption DEF Change, StorageTypeOK, MutexNamesSaver
  <2>4. SaveProgress'  BY <2>3 DEF SaveProgress
  <2>5. Kept'  BY <1>1 DEF Change, StorageTypeOK, Kept
  <2> QED  BY <1>0, <2>1, <2>2, <2>4, <2>5
<1>2. ASSUME NEW t \in Tasks, SaveWifi(t) PROVE StorageInv'
  <2>1. CASE OpenFails(t)
    BY <1>0, <1>2, <2>1, GivesUp DEF SaveWifi, OpenFails
  <2>2. CASE ~OpenFails(t)
    <3>1. PICK failed \in SUBSET MayFail(WifiFields) :
            /\ SetAll(WifiFields, failed)
            /\ sound' = (failed = {}) /\ clean' = (clean /\ failed = {})
            /\ config_mutex' = t
            /\ step' = [step EXCEPT ![t] = "wifi"]
      BY <1>2, <2>2 DEF SaveWifi
    <3>2. UNCHANGED <<config, flash>>  BY <1>2 DEF SaveWifi
    <3>3. MutexNamesSaver'
      BY <1>2, <3>1, StorageAssumption DEF SaveWifi, StorageTypeOK, MutexNamesSaver
    <3>4. PendingIsCurrent'
      BY <3>1, <3>2, StorageAssumption DEF PendingIsCurrent, SetAll
    <3>5. sound' => \A f \in WifiFields : pending'[f] = config'[f]
      BY <3>1, <3>2 DEF SetAll, Fields
    <3>6. \A u \in Tasks : step'[u] # "corecfg"
      BY <1>2, <3>1, StorageAssumption DEF SaveWifi, StorageTypeOK, MutexNamesSaver
    <3>7. SaveProgress'  BY <3>5, <3>6 DEF SaveProgress
    <3>8. Kept'  BY <3>1, StorageAssumption DEF Kept
    <3> QED  BY <1>0, <3>3, <3>4, <3>7, <3>8
  <2> QED  BY <2>1, <2>2
<1>3. ASSUME NEW t \in Tasks, SaveCore(t) PROVE StorageInv'
  <2>1. config_mutex = t  BY <1>3 DEF SaveCore, MutexNamesSaver
  <2>2. UNCHANGED config  BY <1>3 DEF SaveCore
  <2>3. CASE OpenFails(t)
    BY <1>0, <2>1, <2>2, <2>3, GivesUp DEF OpenFails
  <2>4. CASE ~OpenFails(t)
    <3>1. PICK failed \in SUBSET MayFail(CoreFields) :
            /\ SetAll(CoreFields, failed)
            /\ sound' = (sound /\ failed = {}) /\ clean' = (clean /\ failed = {})
            /\ step' = [step EXCEPT ![t] = "corecfg"]
            /\ UNCHANGED config_mutex
      BY <1>3, <2>4 DEF SaveCore
    <3>2. MutexNamesSaver'
      BY <1>3, <2>1, <3>1 DEF SaveCore, StorageTypeOK, MutexNamesSaver
    <3>3. PendingIsCurrent'
      BY <2>1, <2>2, <3>1, StorageAssumption DEF PendingIsCurrent, SetAll
    <3>4. sound' => /\ \A f \in CoreFields : pending'[f] = config'[f]
                    /\ \A f \in WifiFields : flash'[f] = config'[f]
      <4> SUFFICES ASSUME sound' PROVE /\ \A f \in CoreFields : pending'[f] = config'[f]
                                       /\ \A f \in WifiFields : flash'[f] = config'[f]
        OBVIOUS
      <4>1. sound /\ failed = {}  BY <3>1
      <4>2. \A f \in WifiFields : pending[f] = config[f]
        BY <1>3, <4>1 DEF SaveCore, SaveProgress
      <4>3. \A f \in WifiFields : f \in Pending /\ f \in Fields
        BY <4>2, StorageAssumption DEF Pending, Fields, StorageTypeOK, Configs
      <4>4. \A f \in WifiFields : flash'[f] = config'[f]
        BY <1>3, <2>2, <4>2, <4>3 DEF SaveCore, Landed
      <4>5. \A f \in CoreFields : pending'[f] = config'[f]
        BY <2>2, <3>1, <4>1 DEF SetAll, Fields
      <4> QED  BY <4>4, <4>5
    <3>5. \A u \in Tasks : u # t => step'[u] \notin {"wifi", "corecfg"}
      BY <2>1, <3>1 DEF StorageTypeOK, MutexNamesSaver
    <3>6. step'[t] = "corecfg"  BY <3>1 DEF StorageTypeOK
    <3>7. SaveProgress'  BY <3>4, <3>5, <3>6 DEF SaveProgress
    <3>8. Kept'  BY <2>1, <3>1, StorageAssumption DEF Kept
    <3> QED  BY <1>0, <3>2, <3>3, <3>7, <3>8
  <2> QED  BY <2>3, <2>4
<1>4. ASSUME NEW t \in Tasks, CommitCore(t) PROVE StorageInv'
  <2>1. config_mutex = t  BY <1>4 DEF CommitCore, MutexNamesSaver
  <2>2. UNCHANGED config /\ clean' = sound /\ SaveReturns(t)  BY <1>4 DEF CommitCore
  <2>3. MutexNamesSaver'
    BY <2>1, <2>2, StorageAssumption DEF StorageTypeOK, MutexNamesSaver, SaveReturns
  <2>4. PendingIsCurrent'  BY <2>2 DEF PendingIsCurrent, SaveReturns, NothingPending
  <2>5. \A u \in Tasks : step'[u] \notin {"wifi", "corecfg"}
    BY <2>2, <2>3, StorageAssumption DEF MutexNamesSaver, SaveReturns
  <2>6. SaveProgress'  BY <2>5 DEF SaveProgress
  <2>7. sound => flash' = config
    <3> SUFFICES ASSUME sound PROVE flash' = config
      OBVIOUS
    <3>1. /\ \A f \in WifiFields : flash[f] = config[f]
          /\ \A f \in CoreFields : pending[f] = config[f]
      BY <1>4 DEF CommitCore, SaveProgress
    <3>2. \A f \in CoreFields : f \in Pending
      BY <3>1, StorageAssumption DEF Pending, Fields, StorageTypeOK, Configs
    <3>3. \A f \in Fields : Landed(CoreFields)[f] = config[f]
      BY <3>1, <3>2 DEF Landed, Fields, PendingIsCurrent, Pending
    <3>4. flash' = Landed(CoreFields)  BY <1>4 DEF CommitCore
    <3> QED  BY <3>3, <3>4, LandedType DEF StorageTypeOK, Configs
  <2>8. Kept'  BY <2>2, <2>7 DEF Kept
  <2> QED  BY <1>0, <2>3, <2>4, <2>6, <2>8
<1>5. ASSUME NEW t \in Tasks, CommitFails(t) PROVE StorageInv'
  <2>1. config_mutex = t  BY <1>5 DEF CommitFails, MutexNamesSaver
  <2> QED  BY <1>0, <1>5, <2>1, GivesUp DEF CommitFails
<1>6. CASE Restart
  <2>1. MutexNamesSaver'  BY <1>6, StorageAssumption DEF Restart, MutexNamesSaver
  <2>2. PendingIsCurrent'  BY <1>6 DEF Restart, PendingIsCurrent, NothingPending
  <2>3. SaveProgress'  BY <1>6 DEF Restart, SaveProgress
  <2>4. PICK unread \in SUBSET MayFail(Fields) :
          config' = Loaded(unread) /\ clean' = (unread = {})
    BY <1>6 DEF Restart
  <2>5. clean' => flash' = config'
    BY <1>0, <2>4 DEF Loaded, StorageTypeOK, Configs
  <2>6. Kept'  BY <2>5 DEF Kept
  <2> QED  BY <1>0, <2>1, <2>2, <2>3, <2>6
<1>7. CASE UNCHANGED storage
  BY <1>0, <1>7 DEF storage, MutexNamesSaver, PendingIsCurrent, SaveProgress, Kept
<1> QED
  BY <1>1, <1>2, <1>3, <1>4, <1>5, <1>6, <1>7 DEF StorageNext, save_runtime_config

-----------------------------------------------------------------------------
\* The storage never leaves its types, whatever fails.
THEOREM StorageTypeCorrect == StorageSpec => []StorageTypeOK
BY StorageTypeInit, StorageTypeStep, PTL DEF StorageSpec

THEOREM StorageCorrect == StorageSpec => []StorageInv
BY StorageInvInit, StorageInvStep, PTL DEF StorageSpec

\* A reboot after clean saves finds the configuration in RAM.
THEOREM KeptAlways == StorageSpec => []Kept
<1>1. StorageInv => Kept  BY DEF StorageInv
<1> QED  BY <1>1, StorageCorrect, PTL

\* What the flash takes up in a step is what RAM holds in it, or all is erased.
LEMMA StaleStep ==
  ASSUME StorageInv, [StorageNext]_storage,
         NEW f \in Fields, flash'[f] # flash[f]
  PROVE  flash'[f] = config[f] \/ flash' = Blank
<1>1. ASSUME NEW fields, flash' = Landed(fields) PROVE flash'[f] = config[f]
  BY <1>1 DEF Landed, Pending, StorageInv, PendingIsCurrent
<1>2. ASSUME NEW t \in Tasks, Change(t) \/ save_runtime_config(t)
      PROVE  flash'[f] = config[f]
  BY <1>1, <1>2 DEF Change, save_runtime_config, SaveWifi, SaveCore, CommitCore, CommitFails
<1>3. CASE Restart
  BY <1>1, <1>3 DEF Restart
<1>4. CASE UNCHANGED storage
  BY <1>4 DEF storage
<1> QED  BY <1>2, <1>3, <1>4 DEF StorageNext

\* No save ever stores a value that RAM has already replaced.
THEOREM NothingStaleAlways == StorageSpec => NothingStaleStored
<1>1. StorageInv /\ [StorageNext]_storage
        => [\A f \in Fields : flash'[f] # flash[f]
              => flash'[f] = config[f] \/ flash' = Blank]_storage
  BY StaleStep
<1> QED  BY <1>1, StorageCorrect, PTL DEF StorageSpec, NothingStaleStored
=============================================================================
