--------------------------- MODULE BleLinks_proofs ----------------------------
(***************************************************************************)
(* Proofs about the links of esp-nimble-cpp to its peers: the objects and  *)
(* addresses of the device, the client, the search for remote attributes,  *)
(* notifications and L2CAP channels; for every set of peers and addresses, *)
(* every database of attributes and every number of fragments.             *)
(***************************************************************************)
EXTENDS NimBLEDevice, NimBLEClient, NimBLERemote, NimBLENotify, NimBLEL2CAPChannel,
        FiniteSetTheorems, FunctionTheorems, SequenceTheorems, WellFoundedInduction, TLAPS


-----------------------------------------------------------------------------
(* Queues *)

LEMMA SetAppended ==
  ASSUME NEW S, NEW q \in Seq(S), NEW e \in S
  PROVE  Append(q, e) \in Seq(S) /\ ToSet(Append(q, e)) = ToSet(q) \cup {e}
<1> DEFINE longer == Append(q, e)
<1>1. /\ longer \in Seq(S) /\ Len(q) \in Nat /\ Len(longer) = Len(q) + 1
      /\ \A i \in 1 .. Len(q) : longer[i] = q[i]
      /\ longer[Len(q) + 1] = e
  BY AppendProperties
<1>2. DOMAIN longer = 1 .. (Len(q) + 1) /\ DOMAIN q = 1 .. Len(q)
  BY <1>1
<1> HIDE DEF longer
<1>3. 1 .. (Len(q) + 1) = 1 .. Len(q) \cup {Len(q) + 1}
  BY <1>1
<1>4. ToSet(longer) = ToSet(q) \cup {e}
  BY <1>1, <1>2, <1>3 DEF ToSet
<1> QED  BY <1>1, <1>4 DEF longer

\* What a queue's elements become when one is appended or taken off its head.
LEMMA LongerQueue ==
  ASSUME NEW S, NEW q \in Seq(S), NEW e \in S, NEW longer, longer = Append(q, e)
  PROVE  /\ longer \in Seq(S) /\ longer # << >>
         /\ DOMAIN longer = DOMAIN q \cup {Len(q) + 1} /\ Len(q) + 1 \notin DOMAIN q
         /\ Len(q) \in Nat /\ DOMAIN q = 1 .. Len(q)
         /\ longer[Len(q) + 1] = e
         /\ \A i \in DOMAIN q : longer[i] = q[i] /\ i < Len(q) + 1
<1>1. /\ longer \in Seq(S) /\ longer # << >> /\ Len(q) \in Nat /\ Len(longer) = Len(q) + 1
      /\ \A i \in 1 .. Len(q) : longer[i] = q[i]
      /\ longer[Len(q) + 1] = e
  BY AppendProperties
<1>2. DOMAIN longer = 1 .. (Len(q) + 1) /\ DOMAIN q = 1 .. Len(q)
  BY <1>1
<1> QED  BY <1>1, <1>2

LEMMA ShorterQueue ==
  ASSUME NEW S, NEW q \in Seq(S), q # << >>, NEW shorter, shorter = Tail(q)
  PROVE  /\ shorter \in Seq(S) /\ Len(q) \in Nat \ {0} /\ DOMAIN q = 1 .. Len(q)
         /\ DOMAIN shorter = 1 .. (Len(q) - 1)
         /\ Head(q) = q[1] /\ q[1] \in S /\ 1 \in DOMAIN q
         /\ \A i \in DOMAIN shorter : i + 1 \in DOMAIN q /\ shorter[i] = q[i + 1]
<1>1. /\ shorter \in Seq(S) /\ Len(shorter) = Len(q) - 1
      /\ \A i \in 1 .. Len(shorter) : shorter[i] = q[i + 1]
  BY HeadTailProperties
<1>2. Len(q) \in Nat \ {0} /\ DOMAIN q = 1 .. Len(q)
  BY EmptySeq, LenProperties
<1>3. DOMAIN shorter = 1 .. (Len(q) - 1)
  BY <1>1, <1>2, LenProperties
<1>4. Head(q) = q[1] /\ 1 \in DOMAIN q /\ q[1] \in S
  BY <1>2, ElementOfSeq
<1> QED  BY <1>1, <1>2, <1>3, <1>4

\* A queue that holds nothing twice: its head and the others.
LEMMA HeadApart ==
  ASSUME NEW S, NEW q \in Seq(S), q # << >>, IsInjective(q)
  PROVE  /\ Tail(q) \in Seq(S) /\ IsInjective(Tail(q)) /\ Head(q) \in S
         /\ ToSet(q) = {Head(q)} \cup ToSet(Tail(q)) /\ Head(q) \notin ToSet(Tail(q))
<1> DEFINE shorter == Tail(q)
<1>1. /\ shorter \in Seq(S) /\ Len(q) \in Nat \ {0} /\ DOMAIN q = 1 .. Len(q)
      /\ DOMAIN shorter = 1 .. (Len(q) - 1)
      /\ Head(q) = q[1] /\ q[1] \in S /\ 1 \in DOMAIN q
      /\ \A i \in DOMAIN shorter : i + 1 \in DOMAIN q /\ shorter[i] = q[i + 1]
  BY ShorterQueue
<1> HIDE DEF shorter
<1>2. IsInjective(shorter)
  <2>1. SUFFICES ASSUME NEW i \in DOMAIN shorter, NEW j \in DOMAIN shorter, shorter[i] = shorter[j]
                 PROVE  i = j
    BY DEF IsInjective
  <2>2. i + 1 \in DOMAIN q /\ j + 1 \in DOMAIN q /\ q[i + 1] = q[j + 1] /\ i \in Nat /\ j \in Nat
    BY <1>1, <2>1
  <2>3. i + 1 = j + 1
    BY <2>2 DEF IsInjective
  <2> QED  BY <2>2, <2>3
<1>3. Head(q) \notin ToSet(shorter)
  <2>1. SUFFICES ASSUME NEW i \in DOMAIN shorter, shorter[i] = Head(q) PROVE FALSE
    BY DEF ToSet
  <2>2. i + 1 \in DOMAIN q /\ q[i + 1] = q[1] /\ i \in Nat \ {0}
    BY <1>1, <2>1
  <2>3. i + 1 = 1
    BY <1>1, <2>2 DEF IsInjective
  <2> QED  BY <2>2, <2>3
<1>4. ToSet(q) = {Head(q)} \cup ToSet(shorter)
  <2>1. ToSet(shorter) \subseteq ToSet(q) /\ Head(q) \in ToSet(q)
    BY <1>1 DEF ToSet
  <2>2. ASSUME NEW i \in DOMAIN q, i # 1 PROVE q[i] \in ToSet(shorter)
    <3>1. i - 1 \in DOMAIN shorter /\ (i - 1) + 1 = i
      BY <1>1, <2>2
    <3> QED  BY <1>1, <3>1 DEF ToSet
  <2>3. ASSUME NEW t \in ToSet(q) PROVE t \in {Head(q)} \cup ToSet(shorter)
    <3>1. PICK i \in DOMAIN q : q[i] = t
      BY <2>3 DEF ToSet
    <3> QED  BY <1>1, <2>2, <3>1
  <2> QED  BY <2>1, <2>3
<1> QED  BY <1>1, <1>2, <1>3, <1>4 DEF shorter

\* One queue after another, with nothing in both.
LEMMA QueuesJoined ==
  ASSUME NEW S, NEW s \in Seq(S), NEW t \in Seq(S)
  PROVE  /\ s \o t \in Seq(S) /\ ToSet(s \o t) = ToSet(s) \cup ToSet(t)
         /\ IsInjective(s) /\ IsInjective(t) /\ ToSet(s) \cap ToSet(t) = {} => IsInjective(s \o t)
<1> DEFINE both == s \o t
<1>1. /\ both \in Seq(S) /\ Len(both) = Len(s) + Len(t) /\ Len(s) \in Nat /\ Len(t) \in Nat
      /\ \A i \in 1 .. Len(s) + Len(t) : both[i] = IF i <= Len(s) THEN s[i] ELSE t[i - Len(s)]
  BY ConcatProperties, LenProperties
<1>2. /\ DOMAIN both = 1 .. (Len(s) + Len(t)) /\ DOMAIN s = 1 .. Len(s) /\ DOMAIN t = 1 .. Len(t)
  BY <1>1, LenProperties
<1> HIDE DEF both
<1>3. \A i \in DOMAIN s : i \in DOMAIN both /\ both[i] = s[i]
  BY <1>1, <1>2
<1>4. \A i \in DOMAIN t : i + Len(s) \in DOMAIN both /\ both[i + Len(s)] = t[i]
  <2> TAKE i \in DOMAIN t
  <2>1. i + Len(s) \in 1 .. Len(s) + Len(t) /\ ~(i + Len(s) <= Len(s)) /\ (i + Len(s)) - Len(s) = i
    BY <1>1, <1>2
  <2> QED  BY <1>1, <1>2, <2>1
<1>5. \A i \in DOMAIN both : \/ i \in DOMAIN s /\ both[i] = s[i]
                             \/ i - Len(s) \in DOMAIN t /\ both[i] = t[i - Len(s)] /\ i > Len(s)
  BY <1>1, <1>2
<1>6. ToSet(both) = ToSet(s) \cup ToSet(t)
  BY <1>3, <1>4, <1>5 DEF ToSet
<1>7. ASSUME IsInjective(s), IsInjective(t), ToSet(s) \cap ToSet(t) = {} PROVE IsInjective(both)
  <2>1. SUFFICES ASSUME NEW i \in DOMAIN both, NEW j \in DOMAIN both, both[i] = both[j] PROVE i = j
    BY DEF IsInjective
  <2>2. i \in Nat /\ j \in Nat
    BY <1>1, <1>2
  <2>3. \A k \in DOMAIN s, l \in DOMAIN t : s[k] # t[l]
    BY <1>7 DEF ToSet
  <2>4. CASE i \in DOMAIN s /\ both[i] = s[i]
    BY <1>5, <1>7, <2>1, <2>3, <2>4 DEF IsInjective
  <2>5. CASE i - Len(s) \in DOMAIN t /\ both[i] = t[i - Len(s)] /\ i > Len(s)
    <3>1. j - Len(s) \in DOMAIN t /\ both[j] = t[j - Len(s)]
      BY <1>5, <2>1, <2>3, <2>5
    <3>2. i - Len(s) = j - Len(s)
      BY <1>7, <2>1, <2>5, <3>1 DEF IsInjective
    <3> QED  BY <1>1, <2>2, <3>2
  <2> QED  BY <1>5, <2>4, <2>5
<1> QED  BY <1>1, <1>6, <1>7 DEF both

-----------------------------------------------------------------------------
(* NimBLEDevice *)

\* An object exists only on an initialized device, and what it believes of the host is true
\* whenever the host is in sync; onSync has to see to that.
BelievesRight ==
  /\ m_pServer # "none" \/ m_bleAdvertising # "none" => m_initialized
  /\ m_pServer = "started" => host_gatt
  /\ m_bleAdvertising = "set" /\ m_synced => host_adv_data
  /\ host_advertising => m_synced /\ m_bleAdvertising = "set"
Believed ==
  m_pServer \in {"none", "created", "started"} /\ m_bleAdvertising \in {"none", "created", "set"}
Listed == m_whiteList \in Seq(Addresses) /\ host_whiteList \subseteq ToSet(m_whiteList)
DeviceObjectsInv == Believed /\ BelievesRight /\ Listed

LEMMA AddressRemoved ==
  ASSUME NEW list \in Seq(Addresses), NEW place \in DOMAIN list
  PROVE  /\ RemoveAt(list, place) \in Seq(Addresses)
         /\ ToSet(list) \subseteq ToSet(RemoveAt(list, place)) \cup {list[place]}
<1> DEFINE n == Len(list)
           first == SubSeq(list, 1, place - 1)
           rest == SubSeq(list, place + 1, n)
<1>1. n \in Nat /\ place \in 1 .. n /\ \A i \in 1 .. n : list[i] \in Addresses
  BY ElementOfSeq
<1>2. /\ first \in Seq(Addresses) /\ Len(first) = place - 1
      /\ \A i \in 1 .. (place - 1) : first[i] = list[i]
  BY <1>1, SubSeqProperties
<1>3. /\ rest \in Seq(Addresses) /\ Len(rest) = n - place
      /\ \A i \in 1 .. (n - place) : rest[i] = list[place + i]
  <2>1. \A i \in (place + 1) .. n : list[i] \in Addresses
    BY <1>1
  <2>2. /\ rest \in Seq(Addresses)
        /\ Len(rest) = IF place + 1 <= n THEN n - (place + 1) + 1 ELSE 0
        /\ \A i \in 1 .. n - (place + 1) + 1 : rest[i] = list[(place + 1) + i - 1]
    BY <1>1, <2>1, SubSeqProperties
  <2>3. \A i \in 1 .. (n - place) : i \in 1 .. n - (place + 1) + 1 /\ (place + 1) + i - 1 = place + i
    BY <1>1
  <2> QED  BY <1>1, <2>2, <2>3
<1> HIDE DEF first, rest
<1>4. RemoveAt(list, place) = first \o rest
  BY DEF RemoveAt, first, rest
<1>5. /\ first \o rest \in Seq(Addresses) /\ Len(first \o rest) = Len(first) + Len(rest)
      /\ \A i \in 1 .. Len(first) + Len(rest) :
           (first \o rest)[i] = IF i <= Len(first) THEN first[i] ELSE rest[i - Len(first)]
  BY <1>2, <1>3, ConcatProperties
<1>6. DOMAIN (first \o rest) = 1 .. (n - 1)
  BY <1>1, <1>2, <1>3, <1>5
<1>7. ASSUME NEW i \in 1 .. n, i # place PROVE list[i] \in ToSet(first \o rest)
  <2>1. CASE i < place
    <3>1. i \in 1 .. (n - 1) /\ (first \o rest)[i] = list[i]
      BY <1>1, <1>2, <1>3, <1>5, <2>1
    <3> QED  BY <1>6, <3>1 DEF ToSet
  <2>2. CASE i > place
    <3>1. i - 1 \in 1 .. (n - 1) /\ i - place \in 1 .. (n - place) /\ place + (i - place) = i
      BY <1>1, <2>2
    <3>2. (first \o rest)[i - 1] = rest[i - place]
      <4>1. (i - 1) - Len(first) = i - place /\ ~(i - 1 <= Len(first))
        BY <1>1, <1>2, <2>2
      <4>2. i - 1 \in 1 .. Len(first) + Len(rest)
        BY <1>1, <1>2, <1>3, <3>1
      <4> QED  BY <1>5, <4>1, <4>2
    <3>3. (first \o rest)[i - 1] = list[i]
      BY <1>3, <3>1, <3>2
    <3> QED  BY <1>6, <3>1, <3>3 DEF ToSet
  <2> QED  BY <1>1, <1>7, <2>1, <2>2
<1>8. DOMAIN list = 1 .. n
  OBVIOUS
<1> QED  BY <1>4, <1>5, <1>7, <1>8 DEF ToSet

LEMMA DeviceObjectsKept ==
  ASSUME ~KeepsObjects, DeviceObjectsInv, [DeviceSteps]_device
  PROVE  DeviceObjectsInv'
<1> USE DEF DeviceObjectsInv, Believed, BelievesRight, Listed, flags, owned, on_air, lists, AppFree
<1>1. CASE InitFails \/ InitBegins \/ InitEnds
  BY <1>1 DEF InitFails, InitBegins, InitEnds
<1>2. CASE deinit(TRUE)
  BY <1>2 DEF deinit, Forgotten
<1>3. CASE createServer
  BY <1>3 DEF createServer
<1>4. CASE getAdvertising
  BY <1>4 DEF getAdvertising
<1>5. CASE stopAdvertising
  BY <1>5 DEF stopAdvertising
<1>6. ASSUME NEW f \in BOOLEAN, startDeviceAdvertising(f) PROVE DeviceObjectsInv'
  BY <1>6 DEF startDeviceAdvertising, Advertises
<1>7. CASE onSync
  BY <1>7 DEF onSync
<1>8. CASE onReset
  BY <1>8 DEF onReset
<1>9. ASSUME NEW a \in Addresses, whiteListAdd(a) PROVE DeviceObjectsInv'
  <2>1. /\ Append(m_whiteList, a) \in Seq(Addresses)
        /\ ToSet(Append(m_whiteList, a)) = ToSet(m_whiteList) \cup {a}
    BY SetAppended
  <2> QED  BY <1>9, <2>1 DEF whiteListAdd, Sets
<1>10. ASSUME NEW a \in Addresses, whiteListRemove(a) PROVE DeviceObjectsInv'
  <2>1. PICK place \in DOMAIN m_whiteList :
          /\ m_whiteList[place] = a
          /\ \/ /\ Sets(RemoveAt(m_whiteList, place))
                /\ m_whiteList' = RemoveAt(m_whiteList, place)
             \/ /\ m_whiteList' = Append(RemoveAt(m_whiteList, place), a)
                /\ UNCHANGED host_whiteList
    BY <1>10 DEF whiteListRemove
  <2>2. /\ RemoveAt(m_whiteList, place) \in Seq(Addresses)
        /\ ToSet(m_whiteList) \subseteq ToSet(RemoveAt(m_whiteList, place)) \cup {a}
    BY <2>1, AddressRemoved
  <2> DEFINE others == RemoveAt(m_whiteList, place)
  <2>3. /\ Append(others, a) \in Seq(Addresses)
        /\ ToSet(Append(others, a)) = ToSet(others) \cup {a}
    BY <2>2, SetAppended
  <2>4. Listed'
    BY <2>1, <2>2, <2>3 DEF Sets
  <2>5. UNCHANGED <<flags, owned, on_air>>
    BY <1>10 DEF whiteListRemove
  <2> QED  BY <2>4, <2>5
<1>11. CASE UNCHANGED device
  BY <1>11 DEF device
<1> QED
  BY <1>1, <1>2, <1>3, <1>4, <1>5, <1>6, <1>7, <1>8, <1>9, <1>10, <1>11 DEF DeviceSteps

\* Unless deinit(false) keeps objects of a stack that is gone: after any resets, restarts of
\* the stack and failed calls, what is advertised is the application's data with the server
\* behind it, and the host's white list has nobody the application took off (onSync, deinit).
THEOREM ObjectsAlwaysUsable == ~KeepsObjects /\ DeviceSpecification => []ObjectsUsable
<1> SUFFICES ASSUME ~KeepsObjects PROVE DeviceSpecification => []ObjectsUsable
  OBVIOUS
<1>1. DeviceStart => DeviceObjectsInv
  <2>1. << >> \in Seq(Addresses)
    OBVIOUS
  <2> QED  BY <2>1 DEF DeviceStart, DeviceObjectsInv, Believed, BelievesRight, Listed
<1>2. DeviceObjectsInv /\ [DeviceSteps]_device => DeviceObjectsInv'
  BY DeviceObjectsKept
<1>3. DeviceObjectsInv => ObjectsUsable
  BY DEF DeviceObjectsInv, BelievesRight, Listed, ObjectsUsable
<1> QED  BY <1>1, <1>2, <1>3, PTL DEF DeviceSpecification

-----------------------------------------------------------------------------
(* NimBLEClient *)

\* What keeps the client alive for those who refer to it: a call that waits has said so in
\* m_pTaskData, which puts off every deletion; an attempt to connect that nobody waits for
\* is not deleted under; and the flags that make a call delete the client come with the end
\* of the attempt.
Referred ==
  /\ call.step \in {"called", "waiting", "woken", "tail", "securing"} => own_client = "live"
  /\ link = "connecting" => own_client = "live"
  /\ m_connHandle => own_client = "live"
Waits ==
  /\ call.step \in {"waiting", "woken", "securing"} => m_pTaskData
  /\ m_pTaskData => call.step \in {"waiting", "woken", "securing"}
  /\ call.step = "called" => ~m_connHandle /\ ~m_config.asyncConnect
Answered ==
  /\ release # NoRelease => call.step \in {"waiting", "securing"} /\ ~notified
  /\ notified => call.step \in {"waiting", "securing"}
  /\ release # NoRelease => link # "connecting"
  /\ call.step \in {"waiting", "woken", "tail"} /\ call.flags # "ok" => link # "connecting"
  /\ call.step = "securing" => link # "connecting"
Configs == [asyncConnect : BOOLEAN, exchangeMTU : BOOLEAN,
            deleteOnDisconnect : BOOLEAN, deleteOnConnectFail : BOOLEAN]
CallTyped ==
  /\ call \in [step : {"idle", "called", "waiting", "woken", "tail", "securing"},
               flags : {"ok", "timeout", "error", "missing", "notconn"}, retries : Int]
  /\ release \in {NoRelease, "ok", "error", "missing"}
  /\ m_config \in Configs
ClientInv == CallTyped /\ Referred /\ Waits /\ Answered /\ ~used_freed

LEMMA ClientInvStarts == ClientInit => ClientInv
  BY DEF ClientInit, ClientInv, CallTyped, Referred, Waits, Answered, Idle, NoRelease, NewConfig,
         Configs

LEMMA ClientInvKept == ~LateEvents /\ ClientInv /\ [ClientNext]_central => ClientInv'
<1> SUFFICES ASSUME ~LateEvents, ClientInv, [ClientNext]_central PROVE ClientInv'
  OBVIOUS
<1> USE DEF ClientInv, CallTyped, Referred, Waits, Answered, Idle, NoRelease, CallAt, Touches,
            Free, Ends, deleteClient, attributes, counters, task, gap, Event, HostTaskFree,
            Settled, Releases, Unexpected, Configs
<1>1. CASE createClient
  BY <1>1 DEF createClient, NewConfig
<1>2. CASE AppDeletes
  BY <1>2 DEF AppDeletes
<1>3. CASE disconnect
  BY <1>3 DEF disconnect
<1>4. CASE ConnectTimesOut
  BY <1>4 DEF ConnectTimesOut
<1>5. CASE ConnectWaits
  BY <1>5 DEF ConnectWaits
<1>6. CASE ConnectWakes
  BY <1>6 DEF ConnectWakes, Woken
<1>7. CASE ConnectForgetsWait
  BY <1>7 DEF ConnectForgetsWait
<1>8. CASE ConnectReturns
  <2>1. /\ call.step = "tail" /\ call' = [step |-> "idle", flags |-> "ok", retries |-> 0]
        /\ own_client = "live" /\ ~m_pTaskData /\ ~notified /\ release = NoRelease
        /\ UNCHANGED <<m_connHandle, m_pTaskData, notified, release>> /\ ~used_freed'
    BY <1>8 DEF ConnectReturns
  <2>2. CASE UNCHANGED <<own_client, m_config, link>>
    BY <2>1, <2>2
  <2>3. CASE call.flags # "ok" /\ deleteClient
    <3>1. link # "connecting"
      BY <2>1, <2>3
    <3>2. CASE /\ m_connHandle /\ m_config' = [m_config EXCEPT !.deleteOnDisconnect = TRUE]
               /\ link' = "closing" /\ UNCHANGED own_client
      <4>1. m_config' \in Configs /\ m_config'.asyncConnect = m_config.asyncConnect
        BY <3>2
      <4> HIDE DEF Configs
      <4> QED  BY <2>1, <3>2, <4>1
    <3>3. CASE ~m_connHandle /\ own_client' = "freed" /\ m_config' = m_config /\ UNCHANGED link
      BY <2>1, <3>1, <3>3
    <3> QED  BY <2>1, <2>3, <3>2, <3>3
  <2> QED  BY <1>8, <2>2, <2>3 DEF ConnectReturns
<1>9. CASE SecureRetries
  BY <1>9 DEF SecureRetries, Woken, startSecurity
<1>10. CASE SecureReturns
  <2>1. /\ call.step = "securing" /\ notified /\ notified' = FALSE
        /\ call' = [step |-> "idle", flags |-> "ok", retries |-> 0] /\ m_pTaskData' = FALSE
        /\ UNCHANGED <<own_client, m_connHandle, m_config, release, link>>
    BY <1>10 DEF SecureReturns
  <2>2. own_client = "live" /\ release = NoRelease /\ ~used_freed'
    BY <1>10, <2>1 DEF SecureReturns
  <2> QED  BY <2>1, <2>2
<1>11. ASSUME NEW d \in BOOLEAN, NEW f \in BOOLEAN, setSelfDelete(d, f) PROVE ClientInv'
  BY <1>11 DEF setSelfDelete
<1>12. ASSUME NEW a \in BOOLEAN, NEW m \in BOOLEAN, connect(a, m) PROVE ClientInv'
  <2>1. /\ call.step = "idle" /\ own_client = "live" /\ ~m_connHandle /\ link' = "connecting"
        /\ m_config' = [m_config EXCEPT !.asyncConnect = a, !.exchangeMTU = m]
        /\ UNCHANGED <<own_client, m_connHandle, m_pTaskData, notified, release, used_freed>>
    BY <1>12 DEF connect
  <2>2. /\ ~m_pTaskData /\ ~notified /\ release = NoRelease
        /\ m_config'.asyncConnect = a /\ CallTyped'
    <3>1. m_config' \in Configs /\ m_config'.asyncConnect = a
      BY <2>1
    <3>2. \/ call' = [step |-> "idle", flags |-> "ok", retries |-> 0]
          \/ call' = [step |-> "called", flags |-> "ok", retries |-> 0]
      BY <1>12 DEF connect
    <3> HIDE DEF Configs
    <3> QED  BY <2>1, <3>1, <3>2
  <2>3. CASE a /\ call' = [step |-> "idle", flags |-> "ok", retries |-> 0]
    BY <2>1, <2>2, <2>3
  <2>4. CASE ~a /\ call' = [step |-> "called", flags |-> "ok", retries |-> 0]
    BY <2>1, <2>2, <2>4
  <2> QED  BY <1>12, <2>3, <2>4 DEF connect
<1>13. ASSUME NEW a \in BOOLEAN, secureConnection(a) PROVE ClientInv'
  BY <1>13 DEF secureConnection, startSecurity
<1>14. CASE taskRelease
  BY <1>14 DEF taskRelease
<1>15. CASE ConnectUnexpected
  BY <1>15 DEF ConnectUnexpected
<1>16. CASE ConnectSucceeds
  BY <1>16 DEF ConnectSucceeds
<1>17. CASE ConnectFails
  BY <1>17 DEF ConnectFails
<1>18. CASE MtuEvent
  BY <1>18 DEF MtuEvent
<1>19. CASE MtuUnanswered
  BY <1>19 DEF MtuUnanswered
<1>20. CASE TerminationFails
  BY <1>20 DEF TerminationFails
<1>21. ASSUME NEW status \in {"ok", "missing", "error"}, EncChange(status) PROVE ClientInv'
  BY <1>21 DEF EncChange
<1>22. CASE ClientDisconnects
  BY <1>22 DEF ClientDisconnects
<1>23. CASE UNCHANGED central
  BY <1>23 DEF central
<1> QED
  BY <1>1, <1>2, <1>3, <1>4, <1>5, <1>6, <1>7, <1>8, <1>9, <1>10, <1>11, <1>12, <1>13, <1>14,
     <1>15, <1>16, <1>17, <1>18, <1>19, <1>20, <1>21, <1>22, <1>23 DEF ClientNext, Calls

\* Without the events that the code takes no precaution against, for any number of
\* attempts and settings: no call and no event uses a client that deleted itself.
THEOREM NeverUsedFreed == ~LateEvents => (ClientSpec => []NotUsedFreed)
<1> SUFFICES ASSUME ~LateEvents PROVE ClientSpec => []NotUsedFreed
  OBVIOUS
<1>1. ClientInv => NotUsedFreed
  BY DEF ClientInv, NotUsedFreed
<1>2. ClientInv /\ [ClientNext]_central => ClientInv'
  BY ClientInvKept
<1> QED  BY <1>1, <1>2, ClientInvStarts, PTL DEF ClientSpec

-----------------------------------------------------------------------------
(* NimBLERemote *)

\* The places the host reports, in the order of the peer's attributes.
LEMMA Least ==
  ASSUME NEW S, S \subseteq Nat, S # {}
  PROVE  \E x \in S : \A y \in S : x <= y
<1> DEFINE R == {p \in Nat \X Nat : p[1] < p[2]}
<1>1. R = OpToRel(<, Nat)
  BY DEF OpToRel
<1>2. IsWellFoundedOn(R, Nat)
  BY <1>1, NatLessThanWellFounded
<1>3. \E x \in S : \A y \in S : ~(<<y, x>> \in R)
  <2> HIDE DEF R
  <2> QED  BY <1>2, WFMin
<1>4. \A x, y \in Nat : ~(<<y, x>> \in R) => x <= y
  BY SMT
<1> HIDE DEF R
<1> QED  BY <1>3, <1>4

LEMMA PlacesAreNumbers == DOMAIN Database \subseteq Nat /\ \A i \in DOMAIN Database : Database[i] \in Attributes
<1>1. DOMAIN Database = 1 .. Len(Database) /\ Len(Database) \in Nat
  BY DatabaseAssumption, LenProperties
<1> QED  BY <1>1 DEF Attributes

LEMMA AnswersOf ==
  ASSUME NEW p, NEW uuid
  PROVE  /\ Answers(p, uuid) \subseteq DOMAIN Database
         /\ \A i \in Answers(p, uuid) :
              Database[i].parent = p /\ (uuid = AnyUuid \/ Database[i].uuid = uuid)
         /\ \A i \in DOMAIN Database :
              Database[i].parent = p /\ Database[i].uuid = uuid => Answers(p, uuid) # {}
<1> DEFINE all == {i \in DOMAIN Database : Database[i].parent = p /\ uuid \in {AnyUuid, Database[i].uuid}}
<1>1. Answers(p, uuid) = all \/ Answers(p, uuid) = FirstOf(all)
  BY Zenon DEF Answers
<1>2. FirstOf(all) \subseteq all
  BY DEF FirstOf
<1>3. all # {} => FirstOf(all) # {}
  <2>1. all \subseteq Nat
    BY PlacesAreNumbers
  <2> HIDE DEF all
  <2> QED  BY <2>1, Least DEF FirstOf
<1>4. \A i \in DOMAIN Database : Database[i].parent = p /\ Database[i].uuid = uuid => i \in all
  OBVIOUS
<1>5. /\ all \subseteq DOMAIN Database
      /\ \A i \in all : Database[i].parent = p /\ (uuid = AnyUuid \/ Database[i].uuid = uuid)
  OBVIOUS
<1> HIDE DEF all
<1> QED  BY <1>1, <1>2, <1>3, <1>4, <1>5

LEMMA HandlesDiffer == \A a, b \in Attributes : a.id = b.id => a = b
BY DatabaseAssumption DEF Attributes

\* Attributes of a parent, each once; what is still to be reported is not among them.
TreeSound ==
  /\ vectors \in [Parents -> Seq(Attributes)]
  /\ \A p \in Parents :
       IsInjective(vectors[p]) /\ \A i \in DOMAIN vectors[p] : vectors[p][i].parent = p
LookupTyped ==
  /\ peer_up \in BOOLEAN /\ seen_up \in BOOLEAN
  /\ lookup.step \in {"idle", "first", "second", "all", "walk"}
  /\ lookup.parent \in Parents
  /\ lookup = [step |-> lookup.step, parent |-> lookup.parent, uuid |-> lookup.uuid,
               before |-> lookup.before, todo |-> lookup.todo]
  /\ discovery = [of |-> discovery.of, left |-> discovery.left, result |-> discovery.result]
  /\ discovery.result \in {"none", "done", "error"}
  /\ lookup.step = "idle" => discovery = NoDiscovery
StillReported ==
  /\ discovery.left \subseteq DOMAIN Database
  /\ discovery.of \in {Absent, lookup.parent}
  /\ discovery.left # {} => discovery.of = lookup.parent /\ discovery.result = "none"
  /\ \A i \in discovery.left :
       Database[i].parent = lookup.parent /\ Database[i] \notin ToSet(vectors[lookup.parent])

\* A lookup of one UUID: the vector grows by attributes that have it, and at its end
\* every size of it was asked for.
Single == lookup.step \in {"first", "second"}
RealUuid(uuid) ==
  /\ uuid = [value |-> uuid.value, size |-> uuid.size]
  /\ uuid.size \in {16, 128} /\ (uuid.value = "own" => uuid.size = 128)
AskedExactly == \E a \in Attributes : a.parent = lookup.parent /\ a.uuid = lookup.uuid
AskedAnySize == \E a \in Attributes : a.parent = lookup.parent /\ a.uuid.value = lookup.uuid.value
OneSearched ==
  Single =>
    /\ RealUuid(lookup.uuid)
    /\ \A i \in discovery.left : Database[i].uuid.value = lookup.uuid.value
    /\ lookup.step = "first" => /\ lookup.before \in Nat /\ lookup.before <= Len(vectors[lookup.parent])
                                /\ Grown <=> Known(lookup.parent, lookup.uuid)
    /\ seen_up => /\ discovery.of = lookup.parent /\ discovery.result # "error"
                  /\ AskedExactly => Known(lookup.parent, lookup.uuid) \/ discovery.left # {}
                  /\ lookup.step = "second" /\ AskedAnySize
                       => Known(lookup.parent, lookup.uuid) \/ discovery.left # {}

\* The walk through the tree: what lies below the parents still to visit is not known
\* yet, and is not among them.
Visits == {lookup.parent} \cup ToSet(lookup.todo)
Untouched(x) ==
  \A a \in Attributes : a.parent = x =>
    /\ a.id \notin Visits /\ vectors[a.id] = << >>
    /\ \A b \in Attributes : b.parent = a.id => b.id \notin Visits /\ vectors[b.id] = << >>
WalkSound ==
  lookup.step = "walk" =>
    /\ lookup.todo \in Seq(Parents) /\ IsInjective(lookup.todo)
    /\ lookup.parent \notin ToSet(lookup.todo)
    /\ \A x \in ToSet(lookup.todo) : vectors[x] = << >>
    /\ \A x \in Visits : \A a \in Attributes : a.id = x => a.kind # "descriptor"
    /\ \A x \in Visits : Untouched(x)
RemoteInv == TreeSound /\ LookupTyped /\ StillReported /\ OneSearched /\ WalkSound

LEMMA RemoteStarts == RemoteInit => RemoteInv
<1> SUFFICES ASSUME RemoteInit PROVE RemoteInv
  OBVIOUS
<1>1. TreeSound
  BY DEF RemoteInit, TreeSound, IsInjective
<1>2. LookupTyped /\ StillReported
  BY DEF RemoteInit, LookupTyped, StillReported, NoLookup, NoDiscovery, Parents
<1>3. OneSearched /\ WalkSound
  BY DEF RemoteInit, OneSearched, WalkSound, NoLookup, Single
<1> QED  BY <1>1, <1>2, <1>3 DEF RemoteInv

\* A vector with an attribute more.
LEMMA AttributeAdded ==
  ASSUME NEW v \in Seq(Attributes), NEW a \in Attributes, a \notin ToSet(v), IsInjective(v),
         \A i \in DOMAIN v : v[i].parent = a.parent,
         NEW longer, longer = Append(v, a)
  PROVE  /\ longer \in Seq(Attributes) /\ IsInjective(longer) /\ ToSet(longer) = ToSet(v) \cup {a}
         /\ \A i \in DOMAIN longer : longer[i].parent = a.parent
         /\ Len(longer) = Len(v) + 1 /\ Len(v) \in Nat
<1>1. /\ longer \in Seq(Attributes)
      /\ DOMAIN longer = DOMAIN v \cup {Len(v) + 1} /\ Len(v) + 1 \notin DOMAIN v
      /\ Len(v) \in Nat
      /\ longer[Len(v) + 1] = a
      /\ \A i \in DOMAIN v : longer[i] = v[i]
  BY LongerQueue
<1>2. ToSet(longer) = ToSet(v) \cup {a}
  BY SetAppended
<1>3. \A i \in DOMAIN v : longer[i] # a
  BY <1>1 DEF ToSet
<1>4. IsInjective(longer)
  BY <1>1, <1>3 DEF IsInjective
<1>5. \A i \in DOMAIN longer : longer[i].parent = a.parent
  BY <1>1
<1>6. Len(longer) = Len(v) + 1
  BY AppendProperties
<1> QED  BY <1>1, <1>2, <1>4, <1>5, <1>6

LEMMA KnownIsInSet ==
  ASSUME NEW p, NEW uuid
  PROVE  Known(p, uuid) <=> \E a \in ToSet(vectors[p]) : a.uuid.value = uuid.value
BY DEF Known, ToSet

LEMMA ShortAndLong ==
  ASSUME NEW u, RealUuid(u)
  PROVE  /\ \A v \in Other(u) : RealUuid(v) /\ v.value = u.value /\ v.size # u.size
         /\ \A v : RealUuid(v) /\ v.value = u.value => v = u \/ v \in Other(u)
         /\ u # AnyUuid
<1>1. CASE u.size = 16
  <2>1. Other(u) = {[u EXCEPT !.size = 128]}
    BY <1>1 DEF Other
  <2>2. [u EXCEPT !.size = 128] = [value |-> u.value, size |-> 128]
    BY DEF RealUuid
  <2> QED  BY <1>1, <2>1, <2>2 DEF RealUuid, AnyUuid
<1>2. CASE u.size = 128 /\ u.value # "own"
  <2>1. Other(u) = {[u EXCEPT !.size = 16]}
    BY <1>2 DEF Other
  <2>2. [u EXCEPT !.size = 16] = [value |-> u.value, size |-> 16]
    BY DEF RealUuid
  <2> QED  BY <1>2, <2>1, <2>2 DEF RealUuid, AnyUuid
<1>3. CASE u.size = 128 /\ u.value = "own"
  <2>1. Other(u) = {}
    BY <1>3 DEF Other
  <2> QED  BY <1>3, <2>1 DEF RealUuid, AnyUuid
<1> QED  BY <1>1, <1>2, <1>3 DEF RealUuid

LEMMA AttributesReal ==
  ASSUME NEW a \in Attributes
  PROVE  RealUuid(a.uuid) /\ a.parent \in Parents /\ a.id \in Parents /\ a.id # Root
BY DatabaseAssumption DEF RealUuid, Parents

\* What discovery the host takes.
LEMMA HostTakes ==
  ASSUME NEW p \in Parents, NEW uuid, Discovers(p, uuid), peer_up \in BOOLEAN
  PROVE  /\ discovery' = [of |-> discovery'.of, left |-> discovery'.left, result |-> discovery'.result]
         /\ discovery'.left \subseteq Answers(p, uuid)
         /\ peer_up => /\ discovery'.of = p /\ discovery'.result = "none"
                       /\ discovery'.left = Answers(p, uuid)
         /\ ~peer_up => /\ discovery'.of = Absent /\ discovery'.result = "error"
                        /\ discovery'.left = {}
<1>1. CASE peer_up
  BY <1>1 DEF Discovers
<1>2. CASE ~peer_up
  BY <1>2 DEF Discovers, NoDiscovery
<1> QED  BY <1>1, <1>2

LEMMA getKeeps ==
  ASSUME RemoteInv, NEW p \in Parents, NEW uuid, RealUuid(uuid), get(p, uuid)
  PROVE  RemoteInv'
<1>0. TreeSound /\ LookupTyped
  BY DEF RemoteInv
<1>1. /\ lookup.step = "idle" /\ ~Known(p, uuid)
      /\ lookup' = [step |-> "first", parent |-> p, uuid |-> uuid,
                    before |-> Len(vectors[p]), todo |-> << >>]
      /\ UNCHANGED <<vectors, peer_up, value_call>> /\ Discovers(p, uuid)
  BY DEF get, CallIdle
<1>2. seen_up' = peer_up
  BY Zenon DEF get
<1>3. vectors[p] \in Seq(Attributes) /\ Len(vectors[p]) \in Nat
  BY <1>0, LenProperties DEF TreeSound
<1>4. peer_up \in BOOLEAN
  BY <1>0, Zenon DEF LookupTyped
<1>5. /\ discovery' = [of |-> discovery'.of, left |-> discovery'.left, result |-> discovery'.result]
      /\ discovery'.left \subseteq Answers(p, uuid)
      /\ peer_up => /\ discovery'.of = p /\ discovery'.result = "none"
                    /\ discovery'.left = Answers(p, uuid)
      /\ ~peer_up => /\ discovery'.of = Absent /\ discovery'.result = "error"
                     /\ discovery'.left = {}
  BY <1>1, <1>4, HostTakes
<1>6. uuid # AnyUuid
  BY ShortAndLong
<1>7. /\ Answers(p, uuid) \subseteq DOMAIN Database
      /\ \A i \in Answers(p, uuid) : Database[i].parent = p /\ Database[i].uuid = uuid
      /\ \A i \in DOMAIN Database : Database[i].parent = p /\ Database[i].uuid = uuid => Answers(p, uuid) # {}
  BY <1>6, AnswersOf
<1>8. \A i \in Answers(p, uuid) : Database[i] \notin ToSet(vectors[p])
  BY <1>1, <1>7, KnownIsInSet
<1>9. TreeSound'
  BY <1>0, <1>1 DEF TreeSound
<1>10. LookupTyped'
  <2>1. peer_up' \in BOOLEAN /\ seen_up' \in BOOLEAN
    BY <1>1, <1>2, <1>4, Zenon
  <2>2. discovery'.result \in {"none", "done", "error"}
    BY <1>4, <1>5
  <2> QED  BY <1>1, <1>5, <2>1, <2>2 DEF LookupTyped
<1>11. StillReported'
  <2>1. CASE peer_up
    BY <1>1, <1>5, <1>7, <1>8, <2>1 DEF StillReported
  <2>2. CASE ~peer_up
    BY <1>1, <1>5, <2>2 DEF StillReported
  <2> QED  BY <2>1, <2>2
<1>12. OneSearched'
  <2>1. ~Grown' /\ ~Known(p, uuid)'
    BY <1>1, <1>3 DEF Grown, Known
  <2>2. \A i \in discovery'.left : Database[i].uuid.value = uuid.value
    BY <1>5, <1>7
  <2>3. ASSUME seen_up' PROVE /\ discovery'.of = p /\ discovery'.result # "error"
                              /\ AskedExactly' => discovery'.left # {}
    <3>1. peer_up
      BY <1>2, <2>3
    <3>2. AskedExactly' => Answers(p, uuid) # {}
      BY <1>1, <1>7 DEF AskedExactly, Attributes
    <3> QED  BY <1>5, <3>1, <3>2
  <2>4. /\ lookup'.step = "first" /\ lookup'.parent = p /\ lookup'.uuid = uuid
        /\ lookup'.before = Len(vectors'[p]) /\ Len(vectors'[p]) \in Nat
    BY <1>1, <1>3
  <2>5. Len(vectors'[p]) <= Len(vectors'[p])
    BY <2>4
  <2> QED  BY <2>1, <2>2, <2>3, <2>4, <2>5 DEF OneSearched
<1>13. WalkSound'
  BY <1>1 DEF WalkSound
<1> QED  BY <1>9, <1>10, <1>11, <1>12, <1>13 DEF RemoteInv

\* The call returns: nothing is left of the lookup.
LEMMA ReturnsKeep ==
  ASSUME RemoteInv, lookup' = NoLookup, discovery' = NoDiscovery, UNCHANGED <<vectors, peer_up, seen_up>>
  PROVE  RemoteInv'
<1>1. TreeSound'
  BY DEF RemoteInv, TreeSound
<1>2. LookupTyped'
  <2>1. peer_up' \in BOOLEAN /\ seen_up' \in BOOLEAN
    BY Zenon DEF RemoteInv, LookupTyped
  <2> QED  BY <2>1 DEF LookupTyped, NoLookup, NoDiscovery, Parents
<1>3. StillReported' /\ OneSearched' /\ WalkSound'
  BY DEF StillReported, OneSearched, WalkSound, NoLookup, NoDiscovery, Single
<1> QED  BY <1>1, <1>2, <1>3 DEF RemoteInv

LEMMA TriesOtherKeeps == RemoteInv /\ TriesOther => RemoteInv'
<1> SUFFICES ASSUME RemoteInv, TriesOther PROVE RemoteInv'
  OBVIOUS
<1>0. TreeSound /\ LookupTyped /\ StillReported /\ OneSearched
  BY DEF RemoteInv
<1>1. /\ lookup.step = "first" /\ discovery.result = "done" /\ ~Grown
      /\ UNCHANGED <<vectors, peer_up, value_call>>
  BY DEF TriesOther, Ended
<1>2. seen_up' = (seen_up /\ peer_up)
  BY Zenon DEF TriesOther
<1>3. peer_up \in BOOLEAN /\ seen_up \in BOOLEAN
  BY <1>0, Zenon DEF LookupTyped
<1>4. seen_up' \in BOOLEAN /\ peer_up' \in BOOLEAN
  BY <1>1, <1>2, <1>3, Zenon
<1>5. CASE Other(lookup.uuid) = {}
  <2>1. lookup' = NoLookup /\ discovery' = NoDiscovery
    BY <1>5 DEF TriesOther
  <2>2. TreeSound'
    BY <1>0, <1>1 DEF TreeSound
  <2>3. LookupTyped'
    BY <1>4, <2>1 DEF LookupTyped, NoLookup, NoDiscovery, Parents
  <2>4. StillReported' /\ OneSearched' /\ WalkSound'
    BY <2>1 DEF StillReported, OneSearched, WalkSound, NoLookup, NoDiscovery, Single
  <2> QED  BY <2>2, <2>3, <2>4 DEF RemoteInv
<1>6. CASE Other(lookup.uuid) # {}
  <2> DEFINE p == lookup.parent
  <2>1. lookup' = [lookup EXCEPT !.step = "second"]
    BY <1>6 DEF TriesOther
  <2>2. PICK uuid \in Other(lookup.uuid) : Discovers(p, uuid)
    BY <1>6 DEF TriesOther
  <2>3. /\ lookup'.step = "second" /\ lookup'.parent = p /\ lookup'.uuid = lookup.uuid
        /\ lookup' = [step |-> lookup'.step, parent |-> lookup'.parent, uuid |-> lookup'.uuid,
                      before |-> lookup'.before, todo |-> lookup'.todo]
    BY <1>0, <2>1 DEF LookupTyped
  <2>4. p \in Parents /\ RealUuid(lookup.uuid) /\ ~Known(p, lookup.uuid) /\ discovery.left = {}
    BY <1>0, <1>1 DEF LookupTyped, OneSearched, Single, StillReported
  <2> HIDE DEF p
  <2>5. /\ uuid.value = lookup.uuid.value /\ uuid # AnyUuid
        /\ \A v : RealUuid(v) /\ v.value = lookup.uuid.value => v = lookup.uuid \/ v = uuid
    <3>1. \A v, w \in Other(lookup.uuid) : v = w
      BY <2>4 DEF Other, RealUuid
    <3>2. /\ \A v \in Other(lookup.uuid) : RealUuid(v) /\ v.value = lookup.uuid.value
          /\ \A v : RealUuid(v) /\ v.value = lookup.uuid.value => v = lookup.uuid \/ v \in Other(lookup.uuid)
      BY <2>4, ShortAndLong
    <3>3. uuid # AnyUuid
      BY <3>2, ShortAndLong
    <3> QED  BY <3>1, <3>2, <3>3
  <2>6. /\ discovery' = [of |-> discovery'.of, left |-> discovery'.left, result |-> discovery'.result]
        /\ discovery'.left \subseteq Answers(p, uuid)
        /\ peer_up => /\ discovery'.of = p /\ discovery'.result = "none"
                      /\ discovery'.left = Answers(p, uuid)
        /\ ~peer_up => /\ discovery'.of = Absent /\ discovery'.result = "error"
                       /\ discovery'.left = {}
    BY <1>3, <2>2, <2>4, HostTakes
  <2>7. /\ Answers(p, uuid) \subseteq DOMAIN Database
        /\ \A i \in Answers(p, uuid) : Database[i].parent = p /\ Database[i].uuid = uuid
        /\ \A i \in DOMAIN Database : Database[i].parent = p /\ Database[i].uuid = uuid => Answers(p, uuid) # {}
    BY <2>5, AnswersOf
  <2>8. \A i \in Answers(p, uuid) : Database[i] \notin ToSet(vectors[p])
    BY <2>4, <2>5, <2>7, KnownIsInSet
  <2>9. TreeSound'
    BY <1>0, <1>1 DEF TreeSound
  <2>10. LookupTyped'
    <3>1. discovery'.result \in {"none", "done", "error"}
      BY <1>3, <2>6
    <3> QED  BY <1>4, <2>3, <2>4, <2>6, <3>1 DEF LookupTyped
  <2>11. StillReported'
    <3>1. CASE peer_up
      BY <1>1, <2>3, <2>6, <2>7, <2>8, <3>1 DEF StillReported
    <3>2. CASE ~peer_up
      BY <1>1, <2>3, <2>6, <3>2 DEF StillReported
    <3> QED  BY <3>1, <3>2
  <2>12. OneSearched'
    <3>1. \A i \in discovery'.left : Database[i].uuid.value = lookup.uuid.value
      BY <2>5, <2>6, <2>7
    <3>2. ASSUME seen_up' PROVE /\ discovery'.of = p /\ discovery'.result # "error"
                                /\ AskedAnySize' => discovery'.left # {}
      <4>1. peer_up /\ seen_up
        BY <1>2, <3>2
      <4>2. ~AskedExactly
        BY <1>0, <1>1, <2>4, <4>1 DEF OneSearched, Single, p
      <4>3. ASSUME AskedAnySize' PROVE Answers(p, uuid) # {}
        <5>1. PICK a \in Attributes : a.parent = p /\ a.uuid.value = lookup.uuid.value
          BY <2>3, <4>3 DEF AskedAnySize
        <5>2. a.uuid = lookup.uuid \/ a.uuid = uuid
          BY <2>5, <5>1, AttributesReal
        <5>3. a.uuid # lookup.uuid
          BY <4>2, <5>1 DEF AskedExactly, p
        <5> QED  BY <2>7, <5>1, <5>2, <5>3 DEF Attributes
      <4> QED  BY <2>6, <4>1, <4>3
    <3>3. AskedExactly' => AskedAnySize'
      BY DEF AskedExactly, AskedAnySize
    <3> QED  BY <2>3, <2>4, <3>1, <3>2, <3>3 DEF OneSearched
  <2>13. WalkSound'
    BY <2>3 DEF WalkSound
  <2> QED  BY <2>9, <2>10, <2>11, <2>12, <2>13 DEF RemoteInv
<1> QED  BY <1>5, <1>6

LEMMA DeletedIsSound ==
  ASSUME TreeSound, NEW p \in Parents
  PROVE  /\ Deleted(p) \in [Parents -> Seq(Attributes)] /\ Deleted(p)[p] = << >>
         /\ \A q \in Parents :
              IsInjective(Deleted(p)[q]) /\ \A i \in DOMAIN Deleted(p)[q] : Deleted(p)[q][i].parent = q
         /\ \A a \in Attributes : a.parent = p =>
              /\ Deleted(p)[a.id] = << >>
              /\ \A b \in Attributes : b.parent = a.id => Deleted(p)[b.id] = << >>
<1>1. Deleted(p) = [q \in Parents |-> IF q \in Below(p) THEN << >> ELSE vectors[q]]
  BY DEF Deleted
<1>2. p \in Below(p)
  BY DEF Below
<1>3. ASSUME NEW a \in Attributes, a.parent = p
      PROVE  /\ a.id \in Below(p) /\ a.id \in Parents
             /\ \A b \in Attributes : b.parent = a.id => b.id \in Below(p) /\ b.id \in Parents
  <2>1. a.id \in Children({p})
    BY <1>3 DEF Children
  <2>2. \A b \in Attributes : b.parent = a.id => b.id \in Children(Children({p}))
    BY <2>1 DEF Children
  <2> QED  BY <1>3, <2>1, <2>2, AttributesReal DEF Below
<1> HIDE DEF Deleted
<1>4. Deleted(p) \in [Parents -> Seq(Attributes)]
  BY <1>1 DEF TreeSound
<1>5. \A q \in Parents :
        IsInjective(Deleted(p)[q]) /\ \A i \in DOMAIN Deleted(p)[q] : Deleted(p)[q][i].parent = q
  BY <1>1 DEF TreeSound, IsInjective
<1> QED  BY <1>1, <1>2, <1>3, <1>4, <1>5

LEMMA getAllKeeps ==
  ASSUME RemoteInv, NEW p \in Parents, NEW everything \in BOOLEAN, getAll(p, everything)
  PROVE  RemoteInv'
<1>0. TreeSound /\ LookupTyped
  BY DEF RemoteInv
<1>1. /\ vectors' = Deleted(p) /\ UNCHANGED peer_up /\ Discovers(p, AnyUuid)
      /\ lookup' = [NoLookup EXCEPT !.step = IF everything THEN "walk" ELSE "all", !.parent = p]
  BY DEF getAll
<1>2. seen_up' = peer_up /\ (everything => p = Root)
  BY Zenon DEF getAll
<1>3. peer_up \in BOOLEAN
  BY <1>0, Zenon DEF LookupTyped
<1>4. /\ discovery' = [of |-> discovery'.of, left |-> discovery'.left, result |-> discovery'.result]
      /\ discovery'.left \subseteq Answers(p, AnyUuid)
      /\ peer_up => /\ discovery'.of = p /\ discovery'.result = "none"
                    /\ discovery'.left = Answers(p, AnyUuid)
      /\ ~peer_up => /\ discovery'.of = Absent /\ discovery'.result = "error"
                     /\ discovery'.left = {}
  BY <1>1, <1>3, HostTakes
<1>5. /\ vectors' \in [Parents -> Seq(Attributes)] /\ vectors'[p] = << >>
      /\ \A q \in Parents : IsInjective(vectors'[q]) /\ \A i \in DOMAIN vectors'[q] : vectors'[q][i].parent = q
      /\ \A a \in Attributes : a.parent = p =>
           /\ vectors'[a.id] = << >>
           /\ \A b \in Attributes : b.parent = a.id => vectors'[b.id] = << >>
  BY <1>0, <1>1, DeletedIsSound
<1>6. /\ lookup'.step \in {"all", "walk"} /\ lookup'.parent = p /\ lookup'.todo = << >>
      /\ lookup'.step = "walk" => everything
      /\ lookup' = [step |-> lookup'.step, parent |-> lookup'.parent, uuid |-> lookup'.uuid,
                    before |-> lookup'.before, todo |-> lookup'.todo]
  BY <1>1 DEF NoLookup
<1>7. TreeSound'
  BY <1>5 DEF TreeSound
<1>8. LookupTyped'
  <2>1. peer_up' \in BOOLEAN /\ seen_up' \in BOOLEAN
    BY <1>1, <1>2, <1>3, Zenon
  <2>2. discovery'.result \in {"none", "done", "error"}
    BY <1>3, <1>4
  <2>3. lookup'.step \in {"idle", "first", "second", "all", "walk"} /\ lookup'.step # "idle"
    BY <1>6
  <2> QED  BY <1>4, <1>6, <2>1, <2>2, <2>3 DEF LookupTyped
<1>9. StillReported'
  <2>1. /\ Answers(p, AnyUuid) \subseteq DOMAIN Database
        /\ \A i \in Answers(p, AnyUuid) : Database[i].parent = p
    BY AnswersOf
  <2>2. ToSet(vectors'[p]) = {}
    BY <1>5 DEF ToSet
  <2>3. CASE peer_up
    BY <1>4, <1>6, <2>1, <2>2, <2>3 DEF StillReported
  <2>4. CASE ~peer_up
    BY <1>4, <1>6, <2>4 DEF StillReported
  <2> QED  BY <2>3, <2>4
<1>10. OneSearched'
  BY <1>6 DEF OneSearched, Single
<1>11. WalkSound'
  <2>1. SUFFICES ASSUME lookup'.step = "walk" PROVE WalkSound'
    BY DEF WalkSound
  <2>2. p = Root
    BY <1>2, <1>6, <2>1
  <2>3. ToSet(lookup'.todo) = {} /\ Visits' = {Root}
    BY <1>6, <2>2 DEF ToSet, Visits
  <2>4. \A a \in Attributes : a.id # Root
    BY AttributesReal
  <2>5. \A x \in Visits' : Untouched(x)'
    BY <1>5, <2>2, <2>3, <2>4 DEF Untouched
  <2>6. lookup'.todo \in Seq(Parents) /\ IsInjective(lookup'.todo)
    BY <1>6 DEF IsInjective
  <2> QED  BY <2>3, <2>4, <2>5, <2>6 DEF WalkSound
<1> QED  BY <1>7, <1>8, <1>9, <1>10, <1>11 DEF RemoteInv

LEMMA connectsKeeps ==
  ASSUME RemoteInv, NEW deleteAttributes \in BOOLEAN, connects(deleteAttributes)
  PROVE  RemoteInv'
<1>0. TreeSound /\ LookupTyped
  BY DEF RemoteInv
<1>1. /\ lookup.step = "idle" /\ peer_up' = TRUE /\ UNCHANGED <<lookup, discovery>>
      /\ vectors' = vectors \/ vectors' = Deleted(Root)
  BY DEF connects, CallIdle
<1>2. seen_up' = seen_up
  BY Zenon DEF connects
<1>3. TreeSound'
  <2>1. CASE vectors' = vectors
    BY <1>0, <2>1 DEF TreeSound
  <2>2. CASE vectors' = Deleted(Root)
    <3>1. Root \in Parents
      BY DEF Parents
    <3> QED  BY <1>0, <2>2, <3>1, DeletedIsSound DEF TreeSound
  <2> QED  BY <1>1, <2>1, <2>2
<1>4. LookupTyped'
  <2>1. peer_up' \in BOOLEAN /\ seen_up' \in BOOLEAN
    BY <1>0, <1>1, <1>2, Zenon DEF LookupTyped
  <2> QED  BY <1>0, <1>1, <2>1 DEF LookupTyped
<1>5. discovery' = NoDiscovery
  BY <1>0, <1>1 DEF LookupTyped
<1>6. StillReported' /\ OneSearched' /\ WalkSound'
  BY <1>1, <1>5 DEF StillReported, OneSearched, WalkSound, NoDiscovery, Single
<1> QED  BY <1>3, <1>4, <1>6 DEF RemoteInv

\* An attribute is reported: its parent's vector grows by one that was not in it.
LEMMA ReportsFoundKeeps == RemoteInv /\ ReportsFound => RemoteInv'
<1> SUFFICES ASSUME RemoteInv, ReportsFound PROVE RemoteInv'
  OBVIOUS
<1> DEFINE p == lookup.parent
<1>0. TreeSound /\ LookupTyped /\ StillReported /\ OneSearched /\ WalkSound
  BY DEF RemoteInv
<1>1. PICK i \in FirstOf(discovery.left) :
        /\ vectors' = [vectors EXCEPT ![discovery.of] = Append(@, Database[i])]
        /\ discovery' = [discovery EXCEPT !.left = @ \ {i}]
  BY DEF ReportsFound
<1>2. UNCHANGED <<peer_up, lookup, seen_up>>
  BY Zenon DEF ReportsFound
<1>3. i \in discovery.left
  BY DEF FirstOf
<1>4. /\ discovery.of = p /\ discovery.result = "none" /\ i \in DOMAIN Database
      /\ Database[i].parent = p /\ Database[i] \notin ToSet(vectors[p]) /\ p \in Parents
  BY <1>0, <1>3 DEF StillReported, LookupTyped
<1>5. Database[i] \in Attributes
  BY <1>4, PlacesAreNumbers
<1>6. /\ discovery'.of = discovery.of /\ discovery'.left = discovery.left \ {i}
      /\ discovery'.result = discovery.result
      /\ discovery' = [of |-> discovery'.of, left |-> discovery'.left, result |-> discovery'.result]
  BY <1>0, <1>1 DEF LookupTyped
<1>7. /\ vectors'[p] = Append(vectors[p], Database[i])
      /\ \A q \in Parents : q # p => vectors'[q] = vectors[q]
      /\ vectors' = [vectors EXCEPT ![p] = Append(vectors[p], Database[i])]
  BY <1>0, <1>1, <1>4 DEF TreeSound
<1>8. /\ vectors'[p] \in Seq(Attributes) /\ IsInjective(vectors'[p])
      /\ ToSet(vectors'[p]) = ToSet(vectors[p]) \cup {Database[i]}
      /\ \A j \in DOMAIN vectors'[p] : vectors'[p][j].parent = p
      /\ Len(vectors'[p]) = Len(vectors[p]) + 1 /\ Len(vectors[p]) \in Nat
  <2>1. /\ vectors[p] \in Seq(Attributes) /\ IsInjective(vectors[p])
        /\ \A j \in DOMAIN vectors[p] : vectors[p][j].parent = p
    BY <1>0, <1>4 DEF TreeSound
  <2> DEFINE v == vectors[p]
             longer == vectors'[p]
             a == Database[i]
  <2>2. /\ v \in Seq(Attributes) /\ IsInjective(v) /\ \A j \in DOMAIN v : v[j].parent = p
        /\ a \in Attributes /\ a \notin ToSet(v) /\ a.parent = p /\ longer = Append(v, a)
    BY <1>4, <1>5, <1>7, <2>1
  <2> HIDE DEF p, v, longer, a
  <2>3. /\ longer \in Seq(Attributes) /\ IsInjective(longer) /\ ToSet(longer) = ToSet(v) \cup {a}
        /\ \A j \in DOMAIN longer : longer[j].parent = p
        /\ Len(longer) = Len(v) + 1 /\ Len(v) \in Nat
    <3>1. longer \in Seq(Attributes)
      BY <2>2, AttributeAdded
    <3>2. IsInjective(longer)
      BY <2>2, AttributeAdded
    <3>3. ToSet(longer) = ToSet(v) \cup {a}
      BY <2>2, AttributeAdded
    <3>4. \A j \in DOMAIN longer : longer[j].parent = p
      BY <2>2, AttributeAdded
    <3>5. Len(longer) = Len(v) + 1 /\ Len(v) \in Nat
      BY <2>2, AttributeAdded
    <3> QED  BY <3>1, <3>2, <3>3, <3>4, <3>5
  <2> QED  BY <2>3 DEF v, longer, a
<1>9. TreeSound'
  <2>1. \A q \in Parents : /\ vectors'[q] \in Seq(Attributes) /\ IsInjective(vectors'[q])
                           /\ \A j \in DOMAIN vectors'[q] : vectors'[q][j].parent = q
    BY <1>0, <1>7, <1>8 DEF TreeSound
  <2>2. vectors' \in [Parents -> Seq(Attributes)]
    <3>1. Append(vectors[p], Database[i]) \in Seq(Attributes)
      BY <1>7, <1>8
    <3> QED  BY <1>0, <1>7, <3>1 DEF TreeSound
  <2> QED  BY <2>1, <2>2 DEF TreeSound
<1>10. LookupTyped'
  <2>1. peer_up' \in BOOLEAN /\ seen_up' \in BOOLEAN
    BY <1>0, <1>2, Zenon DEF LookupTyped
  <2>2. lookup.step # "idle"
    BY <1>0, <1>3 DEF LookupTyped, NoDiscovery
  <2> QED  BY <1>0, <1>2, <1>6, <2>1, <2>2 DEF LookupTyped
<1>11. StillReported'
  <2>1. ASSUME NEW j \in discovery'.left
        PROVE  Database[j].parent = p /\ Database[j] \notin ToSet(vectors'[p])
    <3>1. j \in discovery.left /\ j # i /\ j \in DOMAIN Database
      BY <1>0, <1>6, <2>1 DEF StillReported
    <3>2. Database[j] # Database[i]
      BY <1>4, <3>1, DatabaseAssumption
    <3> QED  BY <1>0, <1>8, <3>1, <3>2 DEF StillReported
  <2> QED  BY <1>0, <1>2, <1>4, <1>6, <2>1 DEF StillReported
<1>12. OneSearched'
  <2>1. SUFFICES ASSUME Single PROVE OneSearched'
    BY <1>2 DEF OneSearched, Single
  <2>2. Known(p, lookup.uuid)'
    <3>1. Database[i].uuid.value = lookup.uuid.value
      BY <1>0, <1>3, <2>1 DEF OneSearched
    <3>2. Database[i] \in ToSet(vectors'[p])
      BY <1>8
    <3>3. PICK j \in DOMAIN vectors'[p] : vectors'[p][j] = Database[i]
      BY <3>2 DEF ToSet
    <3> QED  BY <1>2, <3>1, <3>3 DEF Known
  <2>3. lookup.step = "first" => /\ lookup.before \in Nat /\ lookup.before <= Len(vectors'[p])
                                 /\ Grown'
    BY <1>0, <1>2, <1>8, <2>1 DEF OneSearched, Grown
  <2> QED  BY <1>0, <1>2, <1>4, <1>6, <2>1, <2>2, <2>3 DEF OneSearched
<1>13. WalkSound'
  <2>1. SUFFICES ASSUME lookup.step = "walk" PROVE WalkSound'
    BY <1>2 DEF WalkSound
  <2>2. Visits' = Visits
    BY <1>2 DEF Visits
  <2>3. p \in Visits /\ \A x \in ToSet(lookup.todo) : x # p
    BY <1>0, <2>1 DEF WalkSound, Visits
  <2>4. ASSUME NEW x \in Visits PROVE Untouched(x)'
    <3>1. Untouched(x)
      BY <1>0, <2>1, <2>4 DEF WalkSound
    <3>2. ASSUME NEW a \in Attributes, a.parent = x
          PROVE  a.id \notin Visits /\ vectors'[a.id] = << >>
      BY <1>7, <2>3, <3>1, <3>2, AttributesReal DEF Untouched
    <3>3. ASSUME NEW a \in Attributes, a.parent = x, NEW b \in Attributes, b.parent = a.id
          PROVE  b.id \notin Visits /\ vectors'[b.id] = << >>
      BY <1>7, <2>3, <3>1, <3>3, AttributesReal DEF Untouched
    <3> QED  BY <2>2, <3>2, <3>3 DEF Untouched
  <2>5. \A x \in ToSet(lookup.todo) : vectors'[x] = << >>
    <3>1. \A x \in ToSet(lookup.todo) : x \in Parents
      BY <1>0, <2>1, LenProperties, ElementOfSeq DEF WalkSound, ToSet
    <3> QED  BY <1>0, <1>7, <2>1, <2>3, <3>1 DEF WalkSound
  <2> QED  BY <1>0, <1>2, <2>1, <2>2, <2>4, <2>5 DEF WalkSound
<1> QED  BY <1>9, <1>10, <1>11, <1>12, <1>13 DEF RemoteInv

\* The walk goes on: below what it will visit nothing is known, and nothing is visited twice.
LEMMA WalksKeep == RemoteInv /\ Walks => RemoteInv'
<1> SUFFICES ASSUME RemoteInv, Walks PROVE RemoteInv'
  OBVIOUS
<1> DEFINE p == lookup.parent
           known == vectors[p]
           ids == [i \in DOMAIN known |-> known[i].id]
           next == IF \E i \in DOMAIN known : known[i].kind = "descriptor" THEN lookup.todo
                   ELSE ids \o lookup.todo
<1>0. TreeSound /\ LookupTyped /\ StillReported /\ WalkSound
  BY DEF RemoteInv
<1>1. /\ lookup.step = "walk" /\ UNCHANGED <<vectors, peer_up>>
      /\ next = << >> => lookup' = NoLookup /\ discovery' = NoDiscovery
      /\ next # << >> => /\ lookup' = [lookup EXCEPT !.parent = Head(next), !.todo = Tail(next)]
                         /\ Discovers(Head(next), AnyUuid)
  BY DEF Walks
<1>2. seen_up' = seen_up
  BY Zenon DEF Walks
<1>3. peer_up \in BOOLEAN /\ seen_up \in BOOLEAN
  BY <1>0, Zenon DEF LookupTyped
<1>4. p \in Parents /\ lookup.todo \in Seq(Parents)
  BY <1>0, <1>1 DEF LookupTyped, WalkSound
<1>5. /\ known \in Seq(Attributes) /\ IsInjective(known)
      /\ \A i \in DOMAIN known : known[i] \in Attributes /\ known[i].parent = p
  <2>1. /\ known \in Seq(Attributes) /\ IsInjective(known)
        /\ \A i \in DOMAIN known : known[i].parent = p
    BY <1>0, <1>4 DEF TreeSound
  <2> QED  BY <2>1, LenProperties, ElementOfSeq
<1>6. /\ ids \in Seq(Parents) /\ IsInjective(ids) /\ ToSet(ids) \cap ToSet(lookup.todo) = {}
      /\ \A x \in ToSet(ids) : \E i \in DOMAIN known : known[i].id = x
  <2>1. DOMAIN known = 1 .. Len(known) /\ Len(known) \in Nat
    BY <1>5, LenProperties
  <2>2. DOMAIN ids = DOMAIN known /\ \A i \in DOMAIN known : ids[i] = known[i].id /\ ids[i] \in Parents
    BY <1>5, AttributesReal
  <2>3. ids \in Seq(Parents)
    <3>1. ids \in [1 .. Len(known) -> Parents]
      BY <2>1, <2>2
    <3> QED  BY <2>1, <3>1
  <2>4. IsInjective(ids)
    BY <1>5, <2>2, HandlesDiffer DEF IsInjective
  <2>5. \A x \in ToSet(ids) : \E i \in DOMAIN known : known[i].id = x
    BY <2>2 DEF ToSet
  <2>6. \A i \in DOMAIN known : known[i].id \notin ToSet(lookup.todo)
    BY <1>0, <1>1, <1>5 DEF WalkSound, Untouched, Visits
  <2> QED  BY <2>3, <2>4, <2>5, <2>6
<1> HIDE DEF ids
<1>7. /\ next \in Seq(Parents) /\ IsInjective(next)
      /\ \A x \in ToSet(next) :
           \/ x \in ToSet(lookup.todo)
           \/ /\ \E i \in DOMAIN known : known[i].id = x
              /\ \A i \in DOMAIN known : known[i].kind # "descriptor"
  <2>1. CASE \E i \in DOMAIN known : known[i].kind = "descriptor"
    BY <1>0, <1>1, <2>1 DEF WalkSound
  <2>2. CASE ~(\E i \in DOMAIN known : known[i].kind = "descriptor")
    <3>1. next = ids \o lookup.todo
      BY <2>2
    <3>2. /\ ids \o lookup.todo \in Seq(Parents) /\ IsInjective(ids \o lookup.todo)
          /\ ToSet(ids \o lookup.todo) = ToSet(ids) \cup ToSet(lookup.todo)
      BY <1>0, <1>1, <1>4, <1>6, QueuesJoined DEF WalkSound
    <3> QED  BY <1>6, <2>2, <3>1, <3>2
  <2> QED  BY <2>1, <2>2
<1> HIDE DEF next, known
<1>8. \A i \in DOMAIN known : known[i] \in Attributes /\ known[i].parent = p
  BY <1>5
<1>9. ASSUME NEW x \in ToSet(next), NEW a \in Attributes
      PROVE  /\ a.id = x => a.kind # "descriptor"
             /\ a.parent = x => /\ a.id \notin ToSet(next) /\ vectors[a.id] = << >>
                                /\ \A b \in Attributes : b.parent = a.id =>
                                     b.id \notin ToSet(next) /\ vectors[b.id] = << >>
  <2>1. /\ \A y \in Visits : Untouched(y)
        /\ p \notin ToSet(lookup.todo) /\ Visits = {p} \cup ToSet(lookup.todo)
        /\ \A y \in ToSet(lookup.todo) : vectors[y] = << >>
        /\ \A y \in Visits : \A c \in Attributes : c.id = y => c.kind # "descriptor"
    BY <1>0, <1>1 DEF WalkSound, Visits
  <2>2. \A c \in Attributes : c.id \in ToSet(next) /\ c.id \notin ToSet(lookup.todo) =>
          c.parent = p /\ c.kind # "descriptor"
    BY <1>7, <1>8, HandlesDiffer
  <2>3. CASE x \in ToSet(lookup.todo)
    <3>1. a.id = x => a.kind # "descriptor"
      BY <2>1, <2>3
    <3>2. ASSUME a.parent = x PROVE /\ a.id \notin ToSet(next) /\ vectors[a.id] = << >>
      BY <2>1, <2>2, <2>3, <3>2 DEF Untouched
    <3>3. ASSUME a.parent = x, NEW b \in Attributes, b.parent = a.id
          PROVE  b.id \notin ToSet(next) /\ vectors[b.id] = << >>
      <4>1. /\ b.id \notin Visits /\ vectors[b.id] = << >> /\ a.id \notin Visits
        BY <2>1, <2>3, <3>3 DEF Untouched
      <4> QED  BY <2>1, <2>2, <3>3, <4>1
    <3> QED  BY <3>1, <3>2, <3>3
  <2>4. CASE x \notin ToSet(lookup.todo)
    <3>1. PICK c \in Attributes : c.id = x /\ c.parent = p /\ c.kind # "descriptor"
      <4>1. PICK i \in DOMAIN known : known[i].id = x
        BY <1>7, <2>4
      <4> QED  BY <1>7, <1>8, <2>4, <4>1
    <3>2. /\ c.id \notin Visits /\ vectors[c.id] = << >>
          /\ \A b \in Attributes : b.parent = c.id => b.id \notin Visits /\ vectors[b.id] = << >>
      BY <2>1, <3>1 DEF Untouched
    <3>3. a.id = x => a.kind # "descriptor"
      BY <3>1, HandlesDiffer
    <3>4. ASSUME a.parent = x
          PROVE  a.id \notin ToSet(next) /\ vectors[a.id] = << >>
      BY <2>1, <2>2, <3>1, <3>2, <3>4
    <3>5. ASSUME a.parent = x, NEW b \in Attributes, b.parent = a.id
          PROVE  b.id \notin ToSet(next) /\ vectors[b.id] = << >>
      <4>1. a.kind # "service" /\ b.kind # "service"
        <5>1. \A d \in Attributes : d.parent # Root => d.kind # "service"
          BY DatabaseAssumption
        <5>2. a.parent # Root /\ b.parent # Root
          BY <3>1, <3>5, AttributesReal
        <5> QED  BY <5>1, <5>2
      <4>2. \A d \in Attributes : d.id = a.id => d = a
        BY HandlesDiffer
      <4>3. b.kind = "descriptor"
        <5>1. b.kind = "characteristic" => \E d \in Attributes : d.id = b.parent /\ d.kind = "service"
          BY DatabaseAssumption
        <5>2. b.kind \in {"service", "characteristic", "descriptor"}
          BY DatabaseAssumption
        <5> QED  BY <3>5, <4>1, <4>2, <5>1, <5>2
      <4>4. b.id \notin ToSet(next)
        BY <2>1, <2>2, <4>3
      <4>5. vectors[b.id] = << >>
        <5>1. b.id \in Parents /\ vectors[b.id] \in Seq(Attributes)
          BY <1>0, AttributesReal DEF TreeSound
        <5>2. \A d \in Attributes : d.parent # b.id
          <6>1. ASSUME NEW d \in Attributes, d.parent = b.id
                PROVE  \E e \in Attributes : e.id = b.id /\ e.kind # "descriptor"
            <7>1. d.parent # Root
              BY <6>1, AttributesReal
            <7>2. \/ \E e \in Attributes : e.id = d.parent /\ e.kind = "service"
                  \/ \E e \in Attributes : e.id = d.parent /\ e.kind = "characteristic"
              BY <7>1, DatabaseAssumption
            <7> QED  BY <6>1, <7>2
          <6> QED  BY <4>3, <6>1, HandlesDiffer
        <5>3. \A i \in DOMAIN vectors[b.id] :
                vectors[b.id][i].parent = b.id /\ vectors[b.id][i] \in Attributes
          BY <1>0, <5>1, LenProperties, ElementOfSeq DEF TreeSound
        <5> QED  BY <5>1, <5>2, <5>3, EmptySeq, LenProperties
      <4> QED  BY <4>4, <4>5
    <3> QED  BY <3>1, <3>2, <3>3, <3>4, <3>5
  <2> QED  BY <2>3, <2>4
<1>10. ASSUME NEW x \in ToSet(next) PROVE vectors[x] = << >>
  <2>1. CASE x \in ToSet(lookup.todo)
    BY <1>0, <1>1, <2>1 DEF WalkSound
  <2>2. CASE x \notin ToSet(lookup.todo)
    <3>1. PICK i \in DOMAIN known : known[i].id = x
      BY <1>7, <2>2
    <3> QED  BY <1>0, <1>1, <1>8, <3>1 DEF WalkSound, Untouched, Visits
  <2> QED  BY <2>1, <2>2
<1>11. CASE next = << >>
  BY <1>1, <1>2, <1>11, ReturnsKeep
<1>12. CASE next # << >>
  <2> DEFINE first == Head(next)
  <2>1. /\ Tail(next) \in Seq(Parents) /\ IsInjective(Tail(next)) /\ first \in Parents
        /\ ToSet(next) = {first} \cup ToSet(Tail(next)) /\ first \notin ToSet(Tail(next))
    BY <1>7, <1>12, HeadApart
  <2>2. /\ lookup'.step = "walk" /\ lookup'.parent = first /\ lookup'.todo = Tail(next)
        /\ lookup' = [step |-> lookup'.step, parent |-> lookup'.parent, uuid |-> lookup'.uuid,
                      before |-> lookup'.before, todo |-> lookup'.todo]
    BY <1>0, <1>1, <1>12 DEF LookupTyped
  <2>3. Discovers(first, AnyUuid)
    BY <1>1, <1>12
  <2> HIDE DEF first
  <2>4. /\ discovery' = [of |-> discovery'.of, left |-> discovery'.left, result |-> discovery'.result]
        /\ discovery'.left \subseteq Answers(first, AnyUuid)
        /\ peer_up => /\ discovery'.of = first /\ discovery'.result = "none"
                      /\ discovery'.left = Answers(first, AnyUuid)
        /\ ~peer_up => /\ discovery'.of = Absent /\ discovery'.result = "error"
                       /\ discovery'.left = {}
    BY <1>3, <2>1, <2>3, HostTakes
  <2>5. TreeSound'
    BY <1>0, <1>1 DEF TreeSound
  <2>6. LookupTyped'
    <3>1. peer_up' \in BOOLEAN /\ seen_up' \in BOOLEAN
      BY <1>1, <1>2, <1>3, Zenon
    <3>2. discovery'.result \in {"none", "done", "error"}
      BY <1>3, <2>4
    <3> QED  BY <2>1, <2>2, <2>4, <3>1, <3>2 DEF LookupTyped
  <2>7. StillReported'
    <3>1. /\ Answers(first, AnyUuid) \subseteq DOMAIN Database
          /\ \A i \in Answers(first, AnyUuid) : Database[i].parent = first
      BY AnswersOf
    <3>2. ToSet(vectors'[first]) = {}
      <4>1. vectors[first] = << >>
        BY <1>10, <2>1
      <4> QED  BY <1>1, <4>1 DEF ToSet
    <3>3. CASE peer_up
      BY <2>2, <2>4, <3>1, <3>2, <3>3 DEF StillReported
    <3>4. CASE ~peer_up
      BY <2>2, <2>4, <3>4 DEF StillReported
    <3> QED  BY <3>3, <3>4
  <2>8. OneSearched'
    BY <2>2 DEF OneSearched, Single
  <2>9. WalkSound'
    <3>1. Visits' = ToSet(next)
      BY <2>1, <2>2 DEF Visits
    <3>2. \A x \in Visits' : Untouched(x)'
      BY <1>1, <1>9, <3>1 DEF Untouched
    <3>3. \A x \in ToSet(lookup'.todo) : x \in ToSet(next)
      BY <2>1, <2>2
    <3>4. \A x \in ToSet(lookup'.todo) : vectors'[x] = << >>
      BY <1>1, <1>10, <3>3
    <3>5. \A x \in Visits' : \A a \in Attributes : a.id = x => a.kind # "descriptor"
      BY <1>9, <3>1
    <3> QED  BY <2>1, <2>2, <3>2, <3>4, <3>5 DEF WalkSound
  <2> QED  BY <2>5, <2>6, <2>7, <2>8, <2>9 DEF RemoteInv
<1> QED  BY <1>11, <1>12

\* The host's procedure ends, or an error or the end of the connection ends it.
LEMMA DiscoveryEnds ==
  ASSUME RemoteInv, UNCHANGED <<vectors, lookup>>, peer_up' \in BOOLEAN, seen_up' \in BOOLEAN,
         discovery.of # Absent,
         \/ /\ discovery' = [discovery EXCEPT !.result = "done"] /\ discovery.left = {}
            /\ seen_up' = seen_up
         \/ /\ discovery' = [discovery EXCEPT !.left = {}, !.result = "error"]
            /\ seen_up' = FALSE
  PROVE  RemoteInv'
<1>0. TreeSound /\ LookupTyped /\ StillReported /\ OneSearched /\ WalkSound
  BY DEF RemoteInv
<1>1. lookup.step # "idle"
  BY <1>0 DEF LookupTyped, NoDiscovery
<1>2. /\ discovery' = [of |-> discovery'.of, left |-> discovery'.left, result |-> discovery'.result]
      /\ discovery'.of = discovery.of /\ discovery'.left = {} /\ discovery'.result \in {"done", "error"}
      /\ discovery'.result = "done" => discovery.left = {} /\ seen_up' = seen_up
      /\ discovery'.result = "error" => ~seen_up'
  BY <1>0 DEF LookupTyped
<1>3. TreeSound'
  BY <1>0 DEF TreeSound
<1>4. LookupTyped'
  <2>1. discovery'.result \in {"none", "done", "error"}
    BY <1>2
  <2> QED  BY <1>0, <1>1, <1>2, <2>1 DEF LookupTyped
<1>5. StillReported'
  BY <1>0, <1>2 DEF StillReported
<1>6. OneSearched'
  BY <1>0, <1>2 DEF OneSearched, Single, Grown, Known, AskedExactly, AskedAnySize
<1>7. WalkSound'
  BY <1>0 DEF WalkSound, Visits, Untouched
<1> QED  BY <1>3, <1>4, <1>5, <1>6, <1>7 DEF RemoteInv

LEMMA ValuesAside ==
  ASSUME RemoteInv, UNCHANGED <<vectors, lookup, discovery>>, peer_up' \in BOOLEAN,
         seen_up' = seen_up \/ seen_up' = FALSE
  PROVE  RemoteInv'
<1>0. TreeSound /\ LookupTyped /\ StillReported /\ OneSearched /\ WalkSound
  BY DEF RemoteInv
<1>1. TreeSound' /\ StillReported' /\ WalkSound'
  BY <1>0 DEF TreeSound, StillReported, WalkSound, Visits, Untouched
<1>2. LookupTyped'
  <2>1. seen_up' \in BOOLEAN
    BY <1>0, Zenon DEF LookupTyped
  <2> QED  BY <1>0, <2>1 DEF LookupTyped
<1>3. OneSearched'
  BY <1>0 DEF OneSearched, Single, Grown, Known, AskedExactly, AskedAnySize
<1> QED  BY <1>1, <1>2, <1>3 DEF RemoteInv

LEMMA RemoteKept == RemoteInv /\ [RemoteNext]_remote => RemoteInv'
<1> SUFFICES ASSUME RemoteInv, [RemoteNext]_remote PROVE RemoteInv'
  OBVIOUS
<1>0. peer_up \in BOOLEAN /\ seen_up \in BOOLEAN
  BY Zenon DEF RemoteInv, LookupTyped
<1>1. ASSUME NEW a \in Attributes, NEW uuid \in {a.uuid} \cup Other(a.uuid), get(a.parent, uuid)
      PROVE  RemoteInv'
  <2>1. RealUuid(uuid) /\ a.parent \in Parents
    BY AttributesReal, ShortAndLong
  <2> QED  BY <1>1, <2>1, getKeeps
<1>2. CASE TriesOther
  BY <1>2, TriesOtherKeeps
<1>3. CASE getReturns
  BY <1>3, ReturnsKeep DEF getReturns
<1>4. ASSUME NEW p \in {Root} \cup {a.id : a \in {b \in Attributes : b.kind # "descriptor"}},
             NEW e \in BOOLEAN, getAll(p, e)
      PROVE  RemoteInv'
  <2>1. p \in Parents
    BY DEF Parents
  <2> QED  BY <1>4, <2>1, getAllKeeps
<1>5. CASE Walks
  BY <1>5, WalksKeep
<1>6. CASE AllReturn
  BY <1>6, ReturnsKeep DEF AllReturn
<1>7. ASSUME NEW d \in BOOLEAN, connects(d) PROVE RemoteInv'
  BY <1>7, connectsKeeps
<1>8. ASSUME \/ \E l \in {"short", "long"} : writeValue(l)
             \/ readValue \/ WriteTruncated \/ ValueUnauthorized \/ ValueAnswered
      PROVE  RemoteInv'
  <2>1. UNCHANGED <<vectors, peer_up, lookup, discovery, seen_up>>
    BY <1>8, Zenon DEF writeValue, readValue, WriteTruncated, ValueUnauthorized, ValueAnswered
  <2> QED  BY <1>0, <2>1, ValuesAside
<1>9. CASE ReportsFound
  BY <1>9, ReportsFoundKeeps
<1>10. CASE Completes
  <2>1. /\ UNCHANGED <<vectors, lookup>> /\ discovery.of # Absent /\ discovery.left = {}
        /\ discovery' = [discovery EXCEPT !.result = "done"]
    BY <1>10 DEF Completes, Going
  <2>2. peer_up' = peer_up /\ seen_up' = seen_up
    BY <1>10, Zenon DEF Completes
  <2> QED  BY <1>0, <2>1, <2>2, DiscoveryEnds
<1>11. CASE Fails
  <2>1. /\ UNCHANGED <<vectors, lookup>> /\ discovery.of # Absent
        /\ discovery' = [discovery EXCEPT !.left = {}, !.result = "error"]
    BY <1>11 DEF Fails, Going
  <2>2. peer_up' = peer_up /\ seen_up' = FALSE
    BY <1>11, Zenon DEF Fails
  <2> QED  BY <1>0, <2>1, <2>2, DiscoveryEnds
<1>12. CASE Breaks
  <2>1. /\ UNCHANGED <<vectors, lookup>>
        /\ Going => discovery' = [discovery EXCEPT !.left = {}, !.result = "error"]
        /\ ~Going => discovery' = discovery
    BY <1>12 DEF Breaks
  <2>2. peer_up' = FALSE /\ seen_up' = FALSE
    BY <1>12, Zenon DEF Breaks
  <2>3. CASE Going
    BY <1>0, <2>1, <2>2, <2>3, DiscoveryEnds DEF Going
  <2>4. CASE ~Going
    BY <2>1, <2>2, <2>4, ValuesAside
  <2> QED  BY <2>3, <2>4
<1>13. CASE UNCHANGED remote
  BY <1>0, <1>13, ValuesAside DEF remote
<1> QED
  BY <1>1, <1>2, <1>3, <1>4, <1>5, <1>6, <1>7, <1>8, <1>9, <1>10, <1>11, <1>12, <1>13 DEF RemoteNext

\* A lookup that returns after its answers knows an attribute of the UUID if there is one.
LookupFound ==
  lookup.step \in {"first", "second"} /\ lookup'.step = "idle" /\ seen_up =>
    \A a \in Attributes :
      a.parent = lookup.parent /\ a.uuid.value = lookup.uuid.value
        => Known(lookup.parent, lookup.uuid)

LEMMA LookupEnds == RemoteInv /\ [RemoteNext]_remote => LookupFound
<1> SUFFICES ASSUME RemoteInv, [RemoteNext]_remote,
                    Single, lookup'.step = "idle", seen_up,
                    NEW a \in Attributes, a.parent = lookup.parent, a.uuid.value = lookup.uuid.value
             PROVE  Known(lookup.parent, lookup.uuid)
  BY DEF LookupFound, Single
<1>0. /\ LookupTyped /\ StillReported
      /\ RealUuid(lookup.uuid) /\ AskedAnySize
      /\ lookup.step = "first" => (Grown <=> Known(lookup.parent, lookup.uuid))
      /\ discovery.result # "error"
      /\ AskedExactly => Known(lookup.parent, lookup.uuid) \/ discovery.left # {}
      /\ lookup.step = "second" => Known(lookup.parent, lookup.uuid) \/ discovery.left # {}
  BY DEF RemoteInv, OneSearched, AskedAnySize
<1>1. CASE TriesOther
  <2>1. Other(lookup.uuid) = {} /\ discovery.left = {}
    <3>1. CASE Other(lookup.uuid) # {}
      <4>1. lookup' = [lookup EXCEPT !.step = "second"]
        BY <1>1, <3>1 DEF TriesOther
      <4>2. lookup'.step = "second"
        BY <1>0, <4>1 DEF LookupTyped
      <4> QED  BY <4>2
    <3>2. discovery.left = {}
      BY <1>0, <1>1 DEF TriesOther, Ended, StillReported
    <3> QED  BY <3>1, <3>2
  <2>2. a.uuid = lookup.uuid
    BY <1>0, <2>1, AttributesReal, ShortAndLong
  <2> QED  BY <1>0, <2>1, <2>2 DEF AskedExactly
<1>2. CASE getReturns
  <2>1. discovery.result # "none" /\ (lookup.step = "first" => Grown)
    BY <1>0, <1>2 DEF getReturns, Ended
  <2>2. discovery.left = {}
    BY <1>0, <2>1 DEF StillReported
  <2> QED  BY <1>0, <2>1, <2>2 DEF Single
<1>3. TriesOther \/ getReturns
  <2>1. lookup' # lookup
    BY DEF Single
  <2>2. \A b \in Attributes : \A uuid \in {b.uuid} \cup Other(b.uuid) : ~get(b.parent, uuid)
    BY DEF get, CallIdle, Single
  <2>3. \A p \in Parents, e \in BOOLEAN : ~getAll(p, e)
    BY DEF getAll, CallIdle, Single
  <2>4. ~Walks /\ ~AllReturn
    BY DEF Walks, AllReturn, Single
  <2>5. /\ \A d \in BOOLEAN : ~connects(d)
        /\ \A l \in {"short", "long"} : ~writeValue(l)
        /\ ~readValue /\ ~WriteTruncated /\ ~ValueUnauthorized /\ ~ValueAnswered
        /\ ~ReportsFound /\ ~Completes /\ ~Fails /\ ~Breaks
    BY <2>1
    DEF connects, writeValue, readValue, WriteTruncated, ValueUnauthorized, ValueAnswered,
        ReportsFound, Completes, Fails, Breaks
  <2>6. {Root} \cup {b.id : b \in {c \in Attributes : c.kind # "descriptor"}} \subseteq Parents
    BY DEF Parents
  <2> QED  BY <2>1, <2>2, <2>3, <2>4, <2>5, <2>6, Zenon DEF RemoteNext, remote
<1> QED  BY <1>1, <1>2, <1>3

\* For every peer and every order of lookups, discoveries and disconnects: no attribute
\* is in its vector twice, and a lookup the peer answered to its end knows what the peer
\* has (getService, getCharacteristic, getDescriptor, discoverAttributes).
THEOREM FoundIfThereProved == RemoteSpec => FoundIfThere
<1>1. RemoteInv => KnownOnce
  BY DEF RemoteInv, TreeSound, KnownOnce
<1>2. RemoteInv /\ [RemoteNext]_remote =>
        [lookup.step \in {"first", "second"} /\ lookup'.step = "idle" /\ seen_up =>
           \A a \in Attributes :
             a.parent = lookup.parent /\ a.uuid.value = lookup.uuid.value
               => Known(lookup.parent, lookup.uuid)]_remote
  BY LookupEnds DEF LookupFound
<1> QED  BY <1>1, <1>2, RemoteStarts, RemoteKept, PTL DEF RemoteSpec, FoundIfThere

-----------------------------------------------------------------------------
(* NimBLENotify *)

ServerSends == [kind : SendKinds \cup {"answer"}, value : Nat]
ClientSends == [kind : {"write", "confirm"}, value : {"none"} \cup SendKinds, response : BOOLEAN]

LEMMA CountIsNatural ==
  ASSUME NEW S, NEW q \in Seq(S), NEW k
  PROVE  /\ HowMany(q, k) \in Nat /\ HowMany(<< >>, k) = 0
         /\ IsFiniteSet({i \in DOMAIN q : q[i].kind = k})
<1>1. DOMAIN q = 1 .. Len(q) /\ Len(q) \in Nat
  BY LenProperties
<1>2. IsFiniteSet(DOMAIN q)
  BY <1>1, FS_Interval
<1>3. IsFiniteSet({i \in DOMAIN q : q[i].kind = k})
  <2>1. {i \in DOMAIN q : q[i].kind = k} \in SUBSET DOMAIN q
    OBVIOUS
  <2> QED  BY <1>2, <2>1, FS_Subset
<1>4. {i \in DOMAIN << >> : << >>[i].kind = k} = {}
  OBVIOUS
<1> QED  BY <1>3, <1>4, FS_CardinalityType, FS_EmptySet DEF HowMany

LEMMA CountAppended ==
  ASSUME NEW S, NEW q \in Seq(S), NEW e \in S, NEW k
  PROVE  HowMany(Append(q, e), k) = HowMany(q, k) + (IF e.kind = k THEN 1 ELSE 0)
<1> DEFINE longer == Append(q, e)
           old == {i \in DOMAIN q : q[i].kind = k}
           now == {i \in DOMAIN longer : longer[i].kind = k}
<1>1. /\ DOMAIN longer = DOMAIN q \cup {Len(q) + 1} /\ Len(q) + 1 \notin DOMAIN q
      /\ longer[Len(q) + 1] = e
      /\ \A i \in DOMAIN q : longer[i] = q[i]
  BY LongerQueue
<1>2. IsFiniteSet(old) /\ HowMany(q, k) \in Nat /\ HowMany(q, k) = Cardinality(old)
  BY CountIsNatural DEF HowMany
<1>3. HowMany(longer, k) = Cardinality(now)
  BY DEF HowMany
<1> HIDE DEF longer
<1>4. CASE e.kind = k
  <2>1. now = old \cup {Len(q) + 1} /\ Len(q) + 1 \notin old
    BY <1>1, <1>4
  <2> QED  BY <1>2, <1>3, <1>4, <2>1, FS_AddElement DEF longer
<1>5. CASE e.kind # k
  <2>1. now = old
    BY <1>1, <1>5
  <2> HIDE DEF now, old
  <2>2. HowMany(longer, k) = HowMany(q, k) + 0
    BY <1>2, <1>3, <2>1
  <2>3. (IF e.kind = k THEN 1 ELSE 0) = 0
    BY <1>5
  <2> QED  BY <2>2, <2>3 DEF longer
<1> QED  BY <1>4, <1>5

LEMMA CountTaken ==
  ASSUME NEW S, NEW q \in Seq(S), q # << >>, NEW k
  PROVE  HowMany(q, k) = HowMany(Tail(q), k) + (IF Head(q).kind = k THEN 1 ELSE 0)
<1> DEFINE shorter == Tail(q)
           new == {i \in DOMAIN shorter : shorter[i].kind = k}
           old == {i \in DOMAIN q : q[i].kind = k}
           moved == {i \in DOMAIN q : i # 1 /\ q[i].kind = k}
<1>1. /\ shorter \in Seq(S) /\ Len(q) \in Nat \ {0} /\ DOMAIN q = 1 .. Len(q)
      /\ DOMAIN shorter = 1 .. (Len(q) - 1)
      /\ Head(q) = q[1] /\ 1 \in DOMAIN q
      /\ \A i \in DOMAIN shorter : i + 1 \in DOMAIN q /\ shorter[i] = q[i + 1]
  BY ShorterQueue
<1> HIDE DEF shorter
<1>2. IsFiniteSet(new) /\ HowMany(shorter, k) \in Nat /\ HowMany(shorter, k) = Cardinality(new)
  BY <1>1, CountIsNatural DEF HowMany
<1>3. Cardinality(moved) = Cardinality(new) /\ IsFiniteSet(moved)
  <2> DEFINE f == [i \in new |-> i + 1]
  <2>1. f \in [new -> moved]
    BY <1>1
  <2>2. \A i, j \in new : f[i] = f[j] => i = j
    BY <1>1
  <2>3. \A j \in moved : \E i \in new : f[i] = j
    <3> SUFFICES ASSUME NEW j \in moved PROVE j - 1 \in new /\ f[j - 1] = j
      BY Zenon
    <3>1. j - 1 \in DOMAIN shorter /\ (j - 1) + 1 = j
      BY <1>1
    <3> QED  BY <1>1, <3>1
  <2> HIDE DEF f
  <2>4. f \in Bijection(new, moved)
    BY <2>1, <2>2, <2>3, Fun_IsBij
  <2> QED  BY <1>2, <2>4, FS_Bijection DEF ExistsBijection
<1>4. HowMany(q, k) = Cardinality(old)
  BY DEF HowMany
<1>5. CASE Head(q).kind = k
  <2>1. old = moved \cup {1} /\ 1 \notin moved
    BY <1>1, <1>5
  <2> HIDE DEF new, old, moved
  <2>2. HowMany(q, k) = HowMany(shorter, k) + 1
    BY <1>2, <1>3, <1>4, <2>1, FS_AddElement
  <2>3. (IF Head(q).kind = k THEN 1 ELSE 0) = 1
    BY <1>5
  <2> QED  BY <2>2, <2>3 DEF shorter
<1>6. CASE Head(q).kind # k
  <2>1. old = moved
    BY <1>1, <1>6
  <2> HIDE DEF new, old, moved
  <2>2. HowMany(q, k) = HowMany(shorter, k) + 0
    BY <1>2, <1>3, <1>4, <2>1
  <2>3. (IF Head(q).kind = k THEN 1 ELSE 0) = 0
    BY <1>6
  <2> QED  BY <2>2, <2>3 DEF shorter
<1> QED  BY <1>5, <1>6

\* A queue with a value more, or one less.
LEMMA SentAppended ==
  ASSUME NEW S, NEW q \in Seq(S), NEW e \in S
  PROVE  /\ SentIn(q) \subseteq SentIn(Append(q, e))
         /\ e.kind \in SendKinds => e.value \in SentIn(Append(q, e))
<1> DEFINE longer == Append(q, e)
<1>1. /\ DOMAIN longer = DOMAIN q \cup {Len(q) + 1} /\ longer[Len(q) + 1] = e
      /\ \A i \in DOMAIN q : longer[i] = q[i]
  BY LongerQueue
<1> HIDE DEF longer
<1>2. SentIn(q) \subseteq SentIn(longer)
  BY <1>1 DEF SentIn
<1>3. ASSUME e.kind \in SendKinds PROVE e.value \in SentIn(longer)
  BY <1>1, <1>3 DEF SentIn
<1> QED  BY <1>2, <1>3 DEF longer

LEMMA SentTaken ==
  ASSUME NEW S, NEW q \in Seq(S), q # << >>
  PROVE  SentIn(q) \subseteq SentIn(Tail(q)) \cup
           (IF Head(q).kind \in SendKinds THEN {Head(q).value} ELSE {})
<1> DEFINE shorter == Tail(q)
<1>1. /\ Len(q) \in Nat \ {0} /\ DOMAIN q = 1 .. Len(q)
      /\ DOMAIN shorter = 1 .. (Len(q) - 1)
      /\ Head(q) = q[1]
      /\ \A i \in DOMAIN shorter : i + 1 \in DOMAIN q /\ shorter[i] = q[i + 1]
  BY ShorterQueue
<1> HIDE DEF shorter
<1>2. SUFFICES ASSUME NEW i \in DOMAIN q, q[i].kind \in SendKinds
               PROVE  q[i].value \in SentIn(shorter) \cup
                        (IF Head(q).kind \in SendKinds THEN {Head(q).value} ELSE {})
  BY DEF SentIn, shorter
<1>3. CASE i = 1
  BY <1>1, <1>2, <1>3
<1>4. CASE i # 1
  <2>1. i - 1 \in DOMAIN shorter /\ (i - 1) + 1 = i
    BY <1>1, <1>4
  <2>2. shorter[i - 1] = q[i]
    BY <1>1, <2>1
  <2>3. q[i].value \in SentIn(shorter)
    BY <1>2, <2>1, <2>2 DEF SentIn
  <2> QED  BY <2>3
<1> QED  BY <1>3, <1>4

\* What was heard and what is on its way to the same peer stand in the order of
\* sending, and nothing later than the value given is among it.
Ordered(h, o, latest) ==
  /\ \A i, j \in DOMAIN h : i < j => h[i] < h[j]
  /\ \A i, j \in DOMAIN o :
       i < j /\ o[i].kind \in SendKinds /\ o[j].kind \in SendKinds => o[i].value < o[j].value
  /\ \A i \in DOMAIN h, j \in DOMAIN o : o[j].kind \in SendKinds => h[i] < o[j].value
  /\ \A i \in DOMAIN h : h[i] <= latest
  /\ \A j \in DOMAIN o : o[j].kind \in SendKinds => o[j].value <= latest

LEMMA ValuesAreNumbers ==
  ASSUME NEW h \in Seq(Nat), NEW o \in Seq(ServerSends)
  PROVE  /\ \A i \in DOMAIN h : h[i] \in Nat
         /\ \A j \in DOMAIN o : o[j].value \in Nat
<1>1. /\ \A i \in DOMAIN h : h[i] \in Nat
      /\ \A j \in DOMAIN o : o[j] \in ServerSends
  BY ElementOfSeq, LenProperties
<1>2. \A e \in ServerSends : e.value \in Nat
  BY DEF ServerSends
<1> QED  BY <1>1, <1>2

LEMMA OrderedLater ==
  ASSUME NEW h \in Seq(Nat), NEW o \in Seq(ServerSends), NEW a \in Nat, NEW b \in Nat,
         Ordered(h, o, a), a <= b
  PROVE  Ordered(h, o, b)
<1>1. /\ \A i \in DOMAIN h : h[i] \in Nat
      /\ \A j \in DOMAIN o : o[j].value \in Nat
  BY ValuesAreNumbers
<1>2. \A i \in DOMAIN h : h[i] <= b
  BY <1>1 DEF Ordered
<1>3. \A j \in DOMAIN o : o[j].kind \in SendKinds => o[j].value <= b
  BY <1>1 DEF Ordered
<1> QED  BY <1>2, <1>3 DEF Ordered

LEMMA OrderedForgotten ==
  ASSUME NEW h, NEW o, NEW a, Ordered(h, o, a)
  PROVE  Ordered(<< >>, o, a) /\ Ordered(<< >>, << >>, a)
BY DEF Ordered

LEMMA OrderedAnswered ==
  ASSUME NEW h \in Seq(Nat), NEW o \in Seq(ServerSends), NEW a \in Nat, Ordered(h, o, a),
         NEW e \in ServerSends, e.kind \notin SendKinds
  PROVE  Ordered(h, Append(o, e), a)
<1> DEFINE longer == Append(o, e)
<1>1. /\ DOMAIN longer = DOMAIN o \cup {Len(o) + 1} /\ longer[Len(o) + 1] = e
      /\ \A i \in DOMAIN o : longer[i] = o[i]
  BY LongerQueue
<1> HIDE DEF longer
<1>2. \A j \in DOMAIN longer : longer[j].kind \in SendKinds => j \in DOMAIN o /\ longer[j] = o[j]
  BY <1>1
<1>3. Ordered(h, longer, a)
  BY <1>2 DEF Ordered
<1> QED  BY <1>3 DEF longer

LEMMA OrderedSent ==
  ASSUME NEW h \in Seq(Nat), NEW o \in Seq(ServerSends), NEW a \in Nat, Ordered(h, o, a),
         NEW e \in ServerSends, e.value = a + 1
  PROVE  Ordered(h, Append(o, e), a + 1)
<1> DEFINE longer == Append(o, e)
<1>1. /\ DOMAIN longer = DOMAIN o \cup {Len(o) + 1} /\ longer[Len(o) + 1] = e
      /\ \A i \in DOMAIN o : longer[i] = o[i] /\ i < Len(o) + 1
      /\ DOMAIN o = 1 .. Len(o) /\ Len(o) \in Nat
  BY LongerQueue
<1>2. /\ \A i \in DOMAIN h : h[i] \in Nat
      /\ \A j \in DOMAIN o : o[j].value \in Nat
  BY ValuesAreNumbers
<1> HIDE DEF longer
<1>3. ASSUME NEW i \in DOMAIN longer, NEW j \in DOMAIN longer, i < j,
             longer[i].kind \in SendKinds, longer[j].kind \in SendKinds
      PROVE  longer[i].value < longer[j].value
  <2>1. i \in DOMAIN o
    BY <1>1, <1>3
  <2>2. CASE j \in DOMAIN o
    BY <1>1, <1>3, <2>1, <2>2 DEF Ordered
  <2>3. CASE j = Len(o) + 1
    <3>1. o[i].value <= a
      BY <1>1, <1>3, <2>1 DEF Ordered
    <3> QED  BY <1>1, <1>2, <2>1, <2>3, <3>1
  <2> QED  BY <1>1, <2>2, <2>3
<1>4. ASSUME NEW i \in DOMAIN h, NEW j \in DOMAIN longer, longer[j].kind \in SendKinds
      PROVE  h[i] < longer[j].value
  <2>1. CASE j \in DOMAIN o
    BY <1>1, <1>4, <2>1 DEF Ordered
  <2>2. CASE j = Len(o) + 1
    <3>1. h[i] <= a
      BY DEF Ordered
    <3> QED  BY <1>1, <1>2, <2>2, <3>1
  <2> QED  BY <1>1, <2>1, <2>2
<1>5. \A i \in DOMAIN h : h[i] <= a + 1
  BY <1>2 DEF Ordered
<1>6. ASSUME NEW j \in DOMAIN longer, longer[j].kind \in SendKinds
      PROVE  longer[j].value <= a + 1
  <2>1. CASE j \in DOMAIN o
    BY <1>1, <1>2, <1>6, <2>1 DEF Ordered
  <2>2. CASE j = Len(o) + 1
    BY <1>1, <2>2
  <2> QED  BY <1>1, <2>1, <2>2
<1>7. \A i, j \in DOMAIN h : i < j => h[i] < h[j]
  BY DEF Ordered
<1>8. Ordered(h, longer, a + 1)
  BY <1>3, <1>4, <1>5, <1>6, <1>7, Zenon DEF Ordered
<1> QED  BY <1>8 DEF longer

LEMMA OrderedDropped ==
  ASSUME NEW h \in Seq(Nat), NEW o \in Seq(ServerSends), NEW a \in Nat, Ordered(h, o, a),
         o # << >>
  PROVE  Ordered(h, Tail(o), a)
<1> DEFINE shorter == Tail(o)
<1>1. /\ Len(o) \in Nat \ {0}
      /\ DOMAIN shorter = 1 .. (Len(o) - 1)
      /\ \A i \in DOMAIN shorter : i + 1 \in DOMAIN o /\ shorter[i] = o[i + 1]
  BY ShorterQueue
<1> HIDE DEF shorter
<1>2. ASSUME NEW i \in DOMAIN shorter, NEW j \in DOMAIN shorter, i < j,
             shorter[i].kind \in SendKinds, shorter[j].kind \in SendKinds
      PROVE  shorter[i].value < shorter[j].value
  <2>1. i + 1 \in DOMAIN o /\ j + 1 \in DOMAIN o /\ i + 1 < j + 1
        /\ shorter[i] = o[i + 1] /\ shorter[j] = o[j + 1]
    BY <1>1, <1>2
  <2> QED  BY <1>2, <2>1 DEF Ordered
<1>3. /\ \A i \in DOMAIN h, j \in DOMAIN shorter : shorter[j].kind \in SendKinds => h[i] < shorter[j].value
      /\ \A j \in DOMAIN shorter : shorter[j].kind \in SendKinds => shorter[j].value <= a
  BY <1>1 DEF Ordered
<1>4. /\ \A i, j \in DOMAIN h : i < j => h[i] < h[j]
      /\ \A i \in DOMAIN h : h[i] <= a
  BY DEF Ordered
<1>5. Ordered(h, shorter, a)
  BY <1>2, <1>3, <1>4, Zenon DEF Ordered
<1> QED  BY <1>5 DEF shorter

LEMMA OrderedHeard ==
  ASSUME NEW h \in Seq(Nat), NEW o \in Seq(ServerSends), NEW a \in Nat, Ordered(h, o, a),
         o # << >>, Head(o).kind \in SendKinds
  PROVE  Ordered(Append(h, Head(o).value), Tail(o), a)
<1> DEFINE shorter == Tail(o)
           more == Append(h, Head(o).value)
<1>1. /\ Len(o) \in Nat \ {0} /\ DOMAIN o = 1 .. Len(o)
      /\ DOMAIN shorter = 1 .. (Len(o) - 1) /\ Head(o) = o[1] /\ o[1] \in ServerSends
      /\ 1 \in DOMAIN o
      /\ \A i \in DOMAIN shorter : i + 1 \in DOMAIN o /\ shorter[i] = o[i + 1]
  BY ShorterQueue
<1>2. o[1].value \in Nat
  BY <1>1 DEF ServerSends
<1>3. /\ DOMAIN more = DOMAIN h \cup {Len(h) + 1} /\ more[Len(h) + 1] = o[1].value
      /\ \A i \in DOMAIN h : more[i] = h[i] /\ i < Len(h) + 1
      /\ DOMAIN h = 1 .. Len(h) /\ Len(h) \in Nat
  BY <1>1, <1>2, LongerQueue
<1>4. Ordered(h, shorter, a)
  BY OrderedDropped
<1> HIDE DEF shorter, more
<1>5. ASSUME NEW i \in DOMAIN more, NEW j \in DOMAIN more, i < j
      PROVE  more[i] < more[j]
  <2>1. i \in DOMAIN h
    BY <1>3, <1>5
  <2>2. CASE j \in DOMAIN h
    BY <1>3, <1>5, <2>1, <2>2 DEF Ordered
  <2>3. CASE j = Len(h) + 1
    BY <1>1, <1>3, <2>1, <2>3 DEF Ordered
  <2> QED  BY <1>3, <2>2, <2>3
<1>6. ASSUME NEW i \in DOMAIN more, NEW j \in DOMAIN shorter, shorter[j].kind \in SendKinds
      PROVE  more[i] < shorter[j].value
  <2>1. CASE i \in DOMAIN h
    BY <1>3, <1>4, <1>6, <2>1 DEF Ordered
  <2>2. CASE i = Len(h) + 1
    <3>1. j + 1 \in DOMAIN o /\ 1 < j + 1 /\ shorter[j] = o[j + 1]
      BY <1>1
    <3>2. o[1].value < o[j + 1].value
      BY <1>1, <1>6, <3>1 DEF Ordered
    <3> QED  BY <1>3, <2>2, <3>1, <3>2
  <2> QED  BY <1>3, <2>1, <2>2
<1>7. ASSUME NEW i \in DOMAIN more PROVE more[i] <= a
  <2>1. CASE i \in DOMAIN h
    BY <1>3, <2>1 DEF Ordered
  <2>2. CASE i = Len(h) + 1
    BY <1>1, <1>3, <2>2 DEF Ordered
  <2> QED  BY <1>3, <2>1, <2>2
<1>8. /\ \A i, j \in DOMAIN shorter :
           i < j /\ shorter[i].kind \in SendKinds /\ shorter[j].kind \in SendKinds
             => shorter[i].value < shorter[j].value
      /\ \A j \in DOMAIN shorter : shorter[j].kind \in SendKinds => shorter[j].value <= a
  BY <1>4 DEF Ordered
<1>9. Ordered(more, shorter, a)
  BY <1>5, <1>6, <1>7, <1>8, Zenon DEF Ordered
<1> QED  BY <1>9 DEF shorter, more

\* Some order of a finite set holds each of its members once.
LEMMA OrdersOf ==
  ASSUME NEW S, IsFiniteSet(S), NEW order \in SetToSeqs(S)
  PROVE  /\ order \in Seq(S) /\ ToSet(order) = S
         /\ \A i, j \in DOMAIN order : order[i] = order[j] => i = j
<1> DEFINE n == Cardinality(S)
<1>1. n \in Nat
  BY FS_CardinalityType
<1>2. /\ order \in [1 .. n -> S]
      /\ \A i, j \in 1 .. n : i # j => order[i] # order[j]
  BY DEF SetToSeqs
<1> HIDE DEF n
<1>3. /\ DOMAIN order = 1 .. n /\ order \in Seq(S)
      /\ \A i, j \in DOMAIN order : order[i] = order[j] => i = j
  BY <1>1, <1>2
<1>4. IsFiniteSet(1 .. n) /\ Cardinality(1 .. n) = n
  BY <1>1, FS_Interval
<1>5. ToSet(order) \in SUBSET S
  BY <1>2, <1>3 DEF ToSet
<1>6. order \in Bijection(1 .. n, ToSet(order))
  <2>1. order \in [1 .. n -> ToSet(order)]
    BY <1>2, <1>3 DEF ToSet
  <2>2. \A t \in ToSet(order) : \E i \in 1 .. n : order[i] = t
    BY <1>3 DEF ToSet
  <2> QED  BY <1>3, <2>1, <2>2, Fun_IsBij
<1>7. Cardinality(ToSet(order)) = n
  BY <1>4, <1>6, FS_Bijection DEF ExistsBijection
<1>8. ToSet(order) = S
  BY <1>5, <1>7, FS_Subset DEF n
<1> QED  BY <1>3, <1>8

\* Up to which value the peer may have been served, and what holds of each peer.
Latest(p) == IF p \in ToSet(sending.todo) THEN sending.value - 1 ELSE sends
PeerServed(p) ==
  /\ Ordered(heard[p], out[p], Latest(p))
  /\ due[p] \subseteq ToSet(heard[p]) \cup SentIn(out[p]) \cup StillToSend(p)
  /\ unreported[p] = Indications(p)
  /\ p \notin connected_peers \/ m_notifyCallback[p] = "none" => due[p] = {}
NotifyTyped ==
  /\ connected_peers \subseteq Subscribers
  /\ cccd \in [Subscribers -> {"none"} \cup SendKinds]
  /\ m_notifyCallback \in [Subscribers -> {"none"} \cup SendKinds]
  /\ out \in [Subscribers -> Seq(ServerSends)] /\ back \in [Subscribers -> Seq(ClientSends)]
  /\ heard \in [Subscribers -> Seq(Nat)] /\ due \in [Subscribers -> SUBSET Nat]
  /\ unreported \in [Subscribers -> Int]
LoopSound ==
  /\ sends \in Nat /\ sending.kind \in SendKinds /\ sending.todo \in Seq(Subscribers)
  /\ sending = [value |-> sending.value, kind |-> sending.kind, todo |-> sending.todo]
  /\ \A i, j \in DOMAIN sending.todo : sending.todo[i] = sending.todo[j] => i = j
  /\ sending.todo # << >> => sends # 0 /\ sending.value = sends
NotifyInv == NotifyTyped /\ LoopSound /\ \A p \in Subscribers : PeerServed(p)

LEMMA NotifyStarts == NotifyInit => NotifyInv
<1> SUFFICES ASSUME NotifyInit PROVE NotifyInv
  OBVIOUS
<1>1. NotifyTyped
  BY DEF NotifyTyped, NotifyInit, SendKinds
<1>2. LoopSound
  BY DEF LoopSound, NotifyInit, NotSending, SendKinds
<1>3. ASSUME NEW p \in Subscribers PROVE PeerServed(p)
  <2>1. heard[p] = << >> /\ out[p] = << >> /\ back[p] = << >> /\ due[p] = {} /\ unreported[p] = 0
    BY DEF NotifyInit
  <2>2. Ordered(<< >>, << >>, Latest(p))
    BY DEF Ordered
  <2>3. Indications(p) = 0
    <3>1. << >> \in Seq(Nat)
      OBVIOUS
    <3>2. HowMany(<< >>, "indicate") = 0 /\ HowMany(<< >>, "confirm") = 0
      BY <3>1, CountIsNatural
    <3> QED  BY <2>1, <3>2 DEF Indications
  <2> QED  BY <2>1, <2>2, <2>3 DEF PeerServed
<1> QED  BY <1>1, <1>2, <1>3 DEF NotifyInv

\* A peer whose queues stay as they are is served as before, when its due values are.
LEMMA StaysServed ==
  ASSUME NotifyTyped, LoopSound, LoopSound', NEW p \in Subscribers, PeerServed(p),
         heard'[p] = heard[p], out'[p] = out[p], back'[p] = back[p],
         unreported'[p] = unreported[p],
         Latest(p) <= Latest(p)',
         due'[p] \subseteq ToSet(heard[p]) \cup SentIn(out[p]) \cup StillToSend(p)',
         p \notin connected_peers' \/ m_notifyCallback'[p] = "none" => due'[p] = {}
  PROVE  PeerServed(p)'
<1>1. Latest(p) \in Nat /\ Latest(p)' \in Nat
  <2>1. ASSUME p \in ToSet(sending.todo) PROVE sending.todo # << >>
    BY <2>1 DEF ToSet
  <2>2. Latest(p) \in Nat
    BY <2>1 DEF LoopSound, Latest
  <2>3. ASSUME p \in ToSet(sending'.todo) PROVE sending'.todo # << >>
    BY <2>3 DEF ToSet
  <2>4. Latest(p)' \in Nat
    BY <2>3 DEF LoopSound, Latest
  <2> QED  BY <2>2, <2>4
<1>2. heard[p] \in Seq(Nat) /\ out[p] \in Seq(ServerSends)
  BY DEF NotifyTyped
<1>3. Ordered(heard[p], out[p], Latest(p)')
  BY <1>1, <1>2, OrderedLater DEF PeerServed
<1>4. Indications(p)' = Indications(p)
  BY DEF Indications
<1> QED  BY <1>3, <1>4 DEF PeerServed

\* While no loop of sendValue runs, every peer may have been served up to the last value.
LEMMA NoLoop ==
  ASSUME sending = NotSending
  PROVE  \A p \in Subscribers : Latest(p) = sends /\ StillToSend(p) = {}
<1>1. ToSet(sending.todo) = {}
  BY DEF NotSending, ToSet
<1> QED  BY <1>1 DEF Latest, StillToSend

\* sendValue to one peer or to those subscribed: the host is given the value at once.
LEMMA SentAtOnce ==
  ASSUME NotifyInv, NEW peers \in SUBSET Subscribers, NEW kinds,
         \A p \in peers : kinds[p] \in SendKinds,
         CallsSend, Transmit(peers, sends + 1, kinds), Due(peers), UNCHANGED sending
  PROVE  NotifyInv'
<1>0. NotifyTyped /\ LoopSound /\ \A p \in Subscribers : PeerServed(p)
  BY DEF NotifyInv
<1>1. sending = NotSending /\ sends \in Nat /\ sends' = sends + 1 /\ sending' = NotSending
  BY <1>0 DEF CallsSend, LoopSound
<1>2. UNCHANGED <<connected_peers, cccd, back, heard, m_notifyCallback>>
  BY DEF CallsSend, client_state
<1> DEFINE sent(p) == [kind |-> kinds[p], value |-> sends + 1]
<1>3. ASSUME NEW p \in peers PROVE sent(p) \in ServerSends
  BY <1>1 DEF ServerSends
<1>4. NotifyTyped'
  <2>1. ASSUME NEW p \in Subscribers PROVE out'[p] \in Seq(ServerSends) /\ unreported'[p] \in Int /\ due'[p] \in SUBSET Nat
    <3>1. out[p] \in Seq(ServerSends) /\ unreported[p] \in Int /\ due[p] \in SUBSET Nat
      BY <1>0 DEF NotifyTyped
    <3>2. out'[p] \in Seq(ServerSends)
      <4>1. p \in peers => Append(out[p], sent(p)) \in Seq(ServerSends)
        BY <1>3, <3>1, AppendProperties
      <4> QED  BY <3>1, <4>1 DEF Transmit
    <3>3. unreported'[p] \in Int
      BY <3>1 DEF Transmit
    <3>4. due'[p] \in SUBSET Nat
      BY <1>1, <3>1 DEF Due
    <3> QED  BY <3>2, <3>3, <3>4
  <2>2. /\ out' = [p \in Subscribers |-> out'[p]] /\ due' = [p \in Subscribers |-> due'[p]]
        /\ unreported' = [p \in Subscribers |-> unreported'[p]]
    BY DEF Transmit, Due
  <2>3. /\ out' \in [Subscribers -> Seq(ServerSends)] /\ due' \in [Subscribers -> SUBSET Nat]
        /\ unreported' \in [Subscribers -> Int]
    BY <2>1, <2>2, Zenon
  <2> QED  BY <1>0, <1>2, <2>3 DEF NotifyTyped
<1>5. LoopSound'
  BY <1>0, <1>1 DEF LoopSound, NotSending
<1>6. ASSUME NEW p \in Subscribers PROVE PeerServed(p)'
  <2>1. Latest(p) = sends /\ StillToSend(p) = {}
    BY <1>1, NoLoop
  <2>2. Latest(p)' = sends + 1 /\ StillToSend(p)' = {}
    <3>1. ToSet(sending'.todo) = {}
      BY <1>1 DEF NotSending, ToSet
    <3> QED  BY <1>1, <3>1 DEF Latest, StillToSend
  <2>3. heard[p] \in Seq(Nat) /\ out[p] \in Seq(ServerSends) /\ back[p] \in Seq(ClientSends)
        /\ unreported[p] \in Int
    BY <1>0 DEF NotifyTyped
  <2>4. PeerServed(p)
    BY <1>0
  <2>5. CASE p \in peers \cap connected_peers
    <3>1. sent(p) \in ServerSends /\ kinds[p] \in SendKinds
      BY <1>3, <2>5
    <3>2. out'[p] = Append(out[p], sent(p))
      BY <2>5 DEF Transmit
    <3>3. Ordered(heard[p], out'[p], sends + 1)
      BY <1>1, <2>1, <2>3, <2>4, <3>1, <3>2, OrderedSent DEF PeerServed
    <3>4. SentIn(out[p]) \subseteq SentIn(out'[p]) /\ sends + 1 \in SentIn(out'[p])
      BY <2>3, <3>1, <3>2, SentAppended
    <3>5. due'[p] \subseteq due[p] \cup {sends + 1}
      BY DEF Due
    <3>6. due'[p] \subseteq ToSet(heard[p]) \cup SentIn(out'[p])
      BY <2>1, <2>4, <3>4, <3>5 DEF PeerServed
    <3>7. unreported'[p] = Indications(p)'
      <4>1. Indications(p)' = HowMany(out'[p], "indicate") + HowMany(back[p], "confirm")
        BY <1>2 DEF Indications
      <4>2. HowMany(out'[p], "indicate") = HowMany(out[p], "indicate") + (IF kinds[p] = "indicate" THEN 1 ELSE 0)
        BY <2>3, <3>1, <3>2, CountAppended
      <4>3. HowMany(out[p], "indicate") \in Nat /\ HowMany(back[p], "confirm") \in Nat
        BY <2>3, CountIsNatural
      <4>4. unreported[p] = HowMany(out[p], "indicate") + HowMany(back[p], "confirm")
        BY <2>4 DEF PeerServed, Indications
      <4>5. unreported'[p] = unreported[p] + (IF kinds[p] = "indicate" THEN 1 ELSE 0)
        BY <2>3, <2>5 DEF Transmit, Unconfirmed
      <4> QED  BY <4>1, <4>2, <4>3, <4>4, <4>5
    <3>8. m_notifyCallback'[p] = "none" => due'[p] = {}
      BY <1>0, <1>2, <2>4, <2>5 DEF Due, InEffect, PeerServed
    <3>9. Ordered(heard'[p], out'[p], Latest(p)')
      BY <1>2, <2>2, <3>3
    <3> QED  BY <1>2, <2>2, <2>5, <3>6, <3>7, <3>8, <3>9 DEF PeerServed
  <2>6. CASE p \notin peers \cap connected_peers
    <3>1. out'[p] = out[p] /\ unreported'[p] = unreported[p] /\ due'[p] = due[p]
      BY <2>6 DEF Transmit, Unconfirmed, Due, InEffect
    <3> QED  BY <1>0, <1>1, <1>2, <1>5, <2>1, <2>2, <2>4, <3>1, StaysServed DEF PeerServed
  <2> QED  BY <2>5, <2>6
<1> QED  BY <1>4, <1>5, <1>6 DEF NotifyInv

LEMMA LoopStarted == NotifyInv /\ SendToAll => NotifyInv'
<1> SUFFICES ASSUME NotifyInv, NEW kind \in SendKinds, NEW order \in SetToSeqs(connected_peers),
                    CallsSend, Due(connected_peers), UNCHANGED <<out, unreported>>,
                    sending' = [value |-> sends + 1, kind |-> kind, todo |-> order]
             PROVE  NotifyInv'
  BY DEF SendToAll
<1>0. NotifyTyped /\ LoopSound /\ \A p \in Subscribers : PeerServed(p)
  BY DEF NotifyInv
<1>1. sending = NotSending /\ sends \in Nat /\ sends' = sends + 1
  BY <1>0 DEF CallsSend, LoopSound
<1>2. UNCHANGED <<connected_peers, cccd, back, heard, m_notifyCallback>>
  BY DEF CallsSend, client_state
<1>3. /\ order \in Seq(connected_peers) /\ ToSet(order) = connected_peers
      /\ \A i, j \in DOMAIN order : order[i] = order[j] => i = j
  <2>1. IsFiniteSet(connected_peers)
    BY <1>0, SubscribersAssumption, FS_Subset DEF NotifyTyped
  <2> QED  BY <2>1, OrdersOf
<1>4. order \in Seq(Subscribers)
  BY <1>0, <1>3 DEF NotifyTyped
<1>5. NotifyTyped'
  <2>1. due' \in [Subscribers -> SUBSET Nat]
    BY <1>0, <1>1 DEF NotifyTyped, Due
  <2> QED  BY <1>0, <1>2, <2>1 DEF NotifyTyped
<1>6. LoopSound'
  <2>1. /\ sending'.value = sends + 1 /\ sending'.kind = kind /\ sending'.todo = order
        /\ sending' = [value |-> sending'.value, kind |-> sending'.kind, todo |-> sending'.todo]
    OBVIOUS
  <2> QED  BY <1>1, <1>3, <1>4, <2>1 DEF LoopSound
<1>7. ASSUME NEW p \in Subscribers PROVE PeerServed(p)'
  <2>1. Latest(p) = sends /\ StillToSend(p) = {}
    BY <1>1, NoLoop
  <2>2. IF p \in connected_peers THEN Latest(p)' = sends /\ StillToSend(p)' = {sends + 1}
        ELSE Latest(p)' = sends + 1
    BY <1>1, <1>3 DEF Latest, StillToSend
  <2>3. Latest(p) <= Latest(p)'
    BY <1>1, <2>1, <2>2
  <2>4. PeerServed(p)
    BY <1>0
  <2>5. /\ due'[p] \subseteq ToSet(heard[p]) \cup SentIn(out[p]) \cup StillToSend(p)'
        /\ p \notin connected_peers \/ m_notifyCallback[p] = "none" => due'[p] = {}
    <3>1. CASE p \in connected_peers
      BY <1>0, <2>1, <2>2, <2>4, <3>1 DEF Due, InEffect, PeerServed
    <3>2. CASE p \notin connected_peers
      BY <2>4, <3>2 DEF Due, PeerServed
    <3> QED  BY <3>1, <3>2
  <2> QED  BY <1>0, <1>2, <1>6, <2>3, <2>4, <2>5, StaysServed
<1> QED  BY <1>5, <1>6, <1>7 DEF NotifyInv

\* sendValue goes on, or gives up: the peers still to serve are fewer.
LEMMA LoopGoesOn == NotifyInv /\ SendNext => NotifyInv'
<1> SUFFICES ASSUME NotifyInv, SendNext PROVE NotifyInv'
  OBVIOUS
<1> DEFINE todo == sending.todo
           first == Head(todo)
           value == sending.value
           sent == [kind |-> sending.kind, value |-> value]
<1>0. NotifyTyped /\ LoopSound /\ \A p \in Subscribers : PeerServed(p)
  BY DEF NotifyInv
<1>1. /\ todo # << >> /\ sends \in Nat /\ value = sends /\ sends # 0 /\ todo \in Seq(Subscribers)
      /\ UNCHANGED <<connected_peers, cccd, back, sends, heard, m_notifyCallback, due>>
  BY <1>0 DEF SendNext, InLoop, LoopSound, client_state
<1>2. /\ Tail(todo) \in Seq(Subscribers) /\ Len(todo) \in Nat \ {0} /\ DOMAIN todo = 1 .. Len(todo)
      /\ DOMAIN Tail(todo) = 1 .. (Len(todo) - 1)
      /\ first = todo[1] /\ first \in Subscribers /\ 1 \in DOMAIN todo
      /\ \A i \in DOMAIN Tail(todo) : i + 1 \in DOMAIN todo /\ Tail(todo)[i] = todo[i + 1]
  BY <1>1, ShorterQueue
<1>3. Transmit({first}, value, [q \in Subscribers |-> sending.kind])
  BY DEF SendNext
<1>4. sent \in ServerSends /\ sending.kind \in SendKinds
  BY <1>0, <1>1 DEF LoopSound, ServerSends
<1>5. /\ sending'.todo = IF Len(todo) = 1 THEN << >> ELSE Tail(todo)
      /\ sending'.todo # << >> => sending'.value = sends
      /\ sending'.kind \in SendKinds
      /\ sending' = [value |-> sending'.value, kind |-> sending'.kind, todo |-> sending'.todo]
  <2>1. CASE Len(todo) = 1
    BY <2>1 DEF SendNext, NotSending, SendKinds
  <2>2. CASE Len(todo) # 1
    <3>1. sending' = [value |-> value, kind |-> sending.kind, todo |-> Tail(todo)]
      <4>1. sending = [value |-> sending.value, kind |-> sending.kind, todo |-> sending.todo]
        BY <1>0 DEF LoopSound
      <4>2. sending' = [sending EXCEPT !.todo = Tail(@)]
        BY <2>2 DEF SendNext
      <4> QED  BY <4>1, <4>2
    <3> QED  BY <1>1, <1>4, <2>2, <3>1
  <2> QED  BY <2>1, <2>2
<1>6. LoopSound'
  <2>1. sending'.todo \in Seq(Subscribers)
    BY <1>2, <1>5
  <2>2. ASSUME NEW i \in DOMAIN sending'.todo, NEW j \in DOMAIN sending'.todo,
               sending'.todo[i] = sending'.todo[j]
        PROVE  i = j
    <3>1. CASE Len(todo) = 1
      BY <1>5, <2>2, <3>1
    <3>2. CASE Len(todo) # 1
      <4>1. /\ i + 1 \in DOMAIN todo /\ j + 1 \in DOMAIN todo /\ todo[i + 1] = todo[j + 1]
            /\ i \in Nat /\ j \in Nat
        BY <1>2, <1>5, <2>2, <3>2
      <4>2. i + 1 = j + 1
        BY <1>0, <4>1 DEF LoopSound
      <4> QED  BY <4>1, <4>2
    <3> QED  BY <3>1, <3>2
  <2> QED  BY <1>1, <1>5, <2>1, <2>2 DEF LoopSound
<1>7. /\ first \notin ToSet(sending'.todo)
      /\ \A p \in Subscribers : p # first => (p \in ToSet(todo) <=> p \in ToSet(sending'.todo))
      /\ first \in ToSet(todo)
  <2>1. first \in ToSet(todo)
    BY <1>2 DEF ToSet
  <2>2. CASE Len(todo) = 1
    <3>1. ToSet(sending'.todo) = {} /\ ToSet(todo) = {first}
      BY <1>2, <1>5, <2>2 DEF ToSet
    <3> QED  BY <2>1, <3>1
  <2>3. CASE Len(todo) # 1
    <3>1. ToSet(todo) = ToSet(Tail(todo)) \cup {first}
      <4>1. ASSUME NEW i \in DOMAIN todo, i # 1 PROVE todo[i] \in ToSet(Tail(todo))
        <5>1. i - 1 \in DOMAIN Tail(todo) /\ (i - 1) + 1 = i
          BY <1>2, <4>1
        <5> QED  BY <1>2, <5>1 DEF ToSet
      <4>2. ToSet(Tail(todo)) \subseteq ToSet(todo)
        BY <1>2 DEF ToSet
      <4>3. ASSUME NEW t \in ToSet(todo) PROVE t \in ToSet(Tail(todo)) \cup {first}
        <5>1. PICK i \in DOMAIN todo : todo[i] = t
          BY <4>3 DEF ToSet
        <5> QED  BY <1>2, <4>1, <5>1
      <4> QED  BY <2>1, <4>2, <4>3
    <3>2. first \notin ToSet(Tail(todo))
      <4>1. SUFFICES ASSUME NEW i \in DOMAIN Tail(todo), Tail(todo)[i] = first PROVE FALSE
        BY DEF ToSet
      <4>2. i + 1 \in DOMAIN todo /\ todo[i + 1] = todo[1] /\ i \in Nat \ {0}
        BY <1>2, <4>1
      <4>3. i + 1 = 1
        BY <1>0, <1>2, <4>2 DEF LoopSound
      <4> QED  BY <4>2, <4>3
    <3> QED  BY <1>5, <2>1, <2>3, <3>1, <3>2
  <2> QED  BY <2>2, <2>3
<1> HIDE DEF todo, first, value
<1>8. NotifyTyped'
  <2>1. ASSUME NEW p \in Subscribers PROVE out'[p] \in Seq(ServerSends) /\ unreported'[p] \in Int
    <3>1. out[p] \in Seq(ServerSends) /\ unreported[p] \in Int
      BY <1>0 DEF NotifyTyped
    <3>2. out'[p] \in Seq(ServerSends)
      <4>1. Append(out[p], sent) \in Seq(ServerSends)
        BY <1>4, <3>1, AppendProperties
      <4> QED  BY <1>3, <3>1, <4>1 DEF Transmit
    <3>3. unreported'[p] \in Int
      BY <1>3, <3>1 DEF Transmit
    <3> QED  BY <3>2, <3>3
  <2>2. /\ out' = [p \in Subscribers |-> out'[p]]
        /\ unreported' = [p \in Subscribers |-> unreported'[p]]
    BY <1>3 DEF Transmit
  <2>3. out' \in [Subscribers -> Seq(ServerSends)] /\ unreported' \in [Subscribers -> Int]
    BY <2>1, <2>2, Zenon
  <2> QED  BY <1>0, <1>1, <2>3 DEF NotifyTyped
<1>9. ASSUME NEW p \in Subscribers PROVE PeerServed(p)'
  <2>1. PeerServed(p)
    BY <1>0
  <2>2. CASE p = first /\ p \in connected_peers
    <3>1. heard[p] \in Seq(Nat) /\ out[p] \in Seq(ServerSends) /\ back[p] \in Seq(ClientSends)
          /\ unreported[p] \in Int
      BY <1>0 DEF NotifyTyped
    <3>2. Latest(p) = sends - 1 /\ StillToSend(p) = {value} /\ Latest(p)' = sends /\ StillToSend(p)' = {}
      BY <1>1, <1>7, <2>2 DEF Latest, StillToSend, todo, value
    <3>3. out'[p] = Append(out[p], sent)
      BY <1>3, <2>2 DEF Transmit
    <3>4. Ordered(heard[p], out'[p], sends)
      <4>1. sends - 1 \in Nat /\ sent.value = (sends - 1) + 1 /\ (sends - 1) + 1 = sends
        BY <1>1
      <4>2. Ordered(heard[p], out[p], sends - 1)
        BY <2>1, <3>2 DEF PeerServed
      <4>3. Ordered(heard[p], Append(out[p], sent), (sends - 1) + 1)
        BY <1>4, <3>1, <4>1, <4>2, OrderedSent
      <4> QED  BY <3>3, <4>1, <4>3
    <3>5. SentIn(out[p]) \subseteq SentIn(out'[p]) /\ value \in SentIn(out'[p])
      BY <1>4, <3>1, <3>3, SentAppended
    <3>6. due'[p] \subseteq ToSet(heard[p]) \cup SentIn(out'[p])
      BY <1>1, <2>1, <3>2, <3>5 DEF PeerServed
    <3>7. unreported'[p] = Indications(p)'
      <4>1. Indications(p)' = HowMany(out'[p], "indicate") + HowMany(back[p], "confirm")
        BY <1>1 DEF Indications
      <4>2. HowMany(out'[p], "indicate") = HowMany(out[p], "indicate") + (IF sending.kind = "indicate" THEN 1 ELSE 0)
        BY <1>4, <3>1, <3>3, CountAppended
      <4>3. HowMany(out[p], "indicate") \in Nat /\ HowMany(back[p], "confirm") \in Nat
        BY <3>1, CountIsNatural
      <4>4. unreported[p] = HowMany(out[p], "indicate") + HowMany(back[p], "confirm")
        BY <2>1 DEF PeerServed, Indications
      <4>5. unreported'[p] = unreported[p] + (IF sending.kind = "indicate" THEN 1 ELSE 0)
        BY <1>3, <2>2, <3>1 DEF Transmit, Unconfirmed
      <4> QED  BY <4>1, <4>2, <4>3, <4>4, <4>5
    <3> QED  BY <1>1, <2>1, <3>2, <3>4, <3>6, <3>7 DEF PeerServed
  <2>3. CASE p # first \/ p \notin connected_peers
    <3>1. out'[p] = out[p] /\ unreported'[p] = unreported[p]
      BY <1>3, <2>3 DEF Transmit, Unconfirmed
    <3>2. Latest(p) <= Latest(p)'
      BY <1>1, <1>5, <1>7 DEF Latest, todo, value, ToSet
    <3>3. due[p] \subseteq ToSet(heard[p]) \cup SentIn(out[p]) \cup StillToSend(p)'
      <4>1. CASE p \notin connected_peers
        BY <2>1, <4>1 DEF PeerServed
      <4>2. CASE p # first
        <5>1. StillToSend(p)' = StillToSend(p)
          <6>1. ASSUME p \in ToSet(sending'.todo) PROVE sending'.value = sending.value
            <7>1. sending'.todo # << >>
              BY <6>1 DEF ToSet
            <7> QED  BY <1>1, <1>5, <7>1 DEF value
          <6>2. p \in ToSet(sending.todo) <=> p \in ToSet(sending'.todo)
            BY <1>7, <4>2 DEF todo
          <6> QED  BY <6>1, <6>2 DEF StillToSend
        <5> QED  BY <2>1, <5>1 DEF PeerServed
      <4> QED  BY <2>3, <4>1, <4>2
    <3> QED  BY <1>0, <1>1, <1>6, <2>1, <3>1, <3>2, <3>3, StaysServed DEF PeerServed
  <2> QED  BY <2>2, <2>3
<1> QED  BY <1>6, <1>8, <1>9 DEF NotifyInv

LEMMA LoopGivenUp == NotifyInv /\ SendGivesUp => NotifyInv'
<1> SUFFICES ASSUME NotifyInv, SendGivesUp PROVE NotifyInv'
  OBVIOUS
<1>0. NotifyTyped /\ LoopSound /\ \A p \in Subscribers : PeerServed(p)
  BY DEF NotifyInv
<1>1. /\ sends \in Nat /\ sends # 0 /\ sending.value = sends /\ sending' = NotSending
      /\ UNCHANGED <<connected_peers, cccd, back, sends, heard, m_notifyCallback, out, unreported>>
  BY <1>0 DEF SendGivesUp, InLoop, LoopSound, client_state
<1>2. LoopSound'
  BY <1>0, <1>1 DEF LoopSound, NotSending, SendKinds
<1>3. NotifyTyped'
  <2>1. due' \in [Subscribers -> SUBSET Nat]
    BY <1>0 DEF NotifyTyped, SendGivesUp
  <2> QED  BY <1>0, <1>1, <2>1 DEF NotifyTyped
<1>4. ASSUME NEW p \in Subscribers PROVE PeerServed(p)'
  <2>1. Latest(p)' = sends
    <3>1. ToSet(sending'.todo) = {}
      BY <1>1 DEF NotSending, ToSet
    <3> QED  BY <1>1, <3>1 DEF Latest
  <2>2. Latest(p) <= Latest(p)'
    BY <1>1, <2>1 DEF Latest
  <2>3. PeerServed(p)
    BY <1>0
  <2>4. due'[p] \subseteq due[p] \ StillToSend(p)
    BY DEF SendGivesUp, StillToSend
  <2>5. due'[p] \subseteq ToSet(heard[p]) \cup SentIn(out[p])
    BY <2>3, <2>4 DEF PeerServed
  <2> QED  BY <1>0, <1>1, <1>2, <2>2, <2>3, <2>4, <2>5, StaysServed DEF PeerServed
<1> QED  BY <1>2, <1>3, <1>4 DEF NotifyInv

\* What a step does about one peer leaves the others as they are.
LEMMA OthersServed ==
  ASSUME NotifyInv, NEW p \in Subscribers, NotifyTyped', PeerServed(p)', UNCHANGED <<sending, sends>>,
         \A q \in Subscribers \ {p} :
           /\ heard'[q] = heard[q] /\ out'[q] = out[q] /\ back'[q] = back[q]
           /\ unreported'[q] = unreported[q] /\ due'[q] = due[q]
           /\ m_notifyCallback'[q] = m_notifyCallback[q]
           /\ q \in connected_peers' <=> q \in connected_peers
  PROVE  NotifyInv'
<1>0. NotifyTyped /\ LoopSound /\ \A q \in Subscribers : PeerServed(q)
  BY DEF NotifyInv
<1>1. LoopSound'
  BY <1>0 DEF LoopSound
<1>2. ASSUME NEW q \in Subscribers, q # p PROVE PeerServed(q)'
  <2>1. Indications(q)' = Indications(q) /\ Latest(q)' = Latest(q) /\ StillToSend(q)' = StillToSend(q)
    BY <1>2 DEF Indications, Latest, StillToSend
  <2>2. PeerServed(q)
    BY <1>0
  <2> QED  BY <1>2, <2>1, <2>2 DEF PeerServed
<1> QED  BY <1>0, <1>1, <1>2 DEF NotifyInv

\* One peer's part of the invariant, taken apart.
LEMMA PeerTypes ==
  ASSUME NotifyInv, NEW p \in Subscribers
  PROVE  /\ heard[p] \in Seq(Nat) /\ out[p] \in Seq(ServerSends) /\ back[p] \in Seq(ClientSends)
         /\ unreported[p] \in Int /\ due[p] \in SUBSET Nat
         /\ HowMany(out[p], "indicate") \in Nat /\ HowMany(back[p], "confirm") \in Nat
         /\ unreported[p] = HowMany(out[p], "indicate") + HowMany(back[p], "confirm")
         /\ Latest(p) \in Nat
<1>1. /\ heard[p] \in Seq(Nat) /\ out[p] \in Seq(ServerSends) /\ back[p] \in Seq(ClientSends)
      /\ unreported[p] \in Int /\ due[p] \in SUBSET Nat
  BY DEF NotifyInv, NotifyTyped
<1>2. HowMany(out[p], "indicate") \in Nat /\ HowMany(back[p], "confirm") \in Nat
  BY <1>1, CountIsNatural
<1>3. unreported[p] = HowMany(out[p], "indicate") + HowMany(back[p], "confirm")
  BY DEF NotifyInv, PeerServed, Indications
<1>4. Latest(p) \in Nat
  <2>1. ASSUME p \in ToSet(sending.todo) PROVE sending.todo # << >>
    BY <2>1 DEF ToSet
  <2> QED  BY <2>1 DEF NotifyInv, LoopSound, Latest
<1> QED  BY <1>1, <1>2, <1>3, <1>4

LEMMA FunctionUpdated ==
  ASSUME NEW S, NEW T, NEW f \in [S -> T], NEW x \in S, NEW y \in T
  PROVE  [f EXCEPT ![x] = y] \in [S -> T]
OBVIOUS

LEMMA SubscribedKeeps == ASSUME NEW p \in Subscribers PROVE NotifyInv /\ Subscribed(p) => NotifyInv'
<1> SUFFICES ASSUME NotifyInv, Subscribed(p) PROVE NotifyInv'
  OBVIOUS
<1> DEFINE answer == [kind |-> "answer", value |-> 0]
           write == Head(back[p])
<1>0. NotifyTyped /\ PeerServed(p)
  BY DEF NotifyInv
<1>1. /\ UNCHANGED <<connected_peers, heard, due, m_notifyCallback, sending, sends, unreported>>
      /\ back[p] # << >> /\ write.kind = "write"
      /\ back' = [back EXCEPT ![p] = Tail(@)] /\ cccd' = [cccd EXCEPT ![p] = write.value]
  BY DEF Subscribed, client_state, server_state
<1>2. /\ heard[p] \in Seq(Nat) /\ out[p] \in Seq(ServerSends) /\ back[p] \in Seq(ClientSends)
      /\ Latest(p) \in Nat
      /\ unreported[p] = HowMany(out[p], "indicate") + HowMany(back[p], "confirm")
      /\ HowMany(out[p], "indicate") \in Nat /\ HowMany(back[p], "confirm") \in Nat
  BY PeerTypes
<1>3. Tail(back[p]) \in Seq(ClientSends) /\ write \in ClientSends
  BY <1>1, <1>2, ShorterQueue
<1>4. answer \in ServerSends /\ answer.kind \notin SendKinds
  BY DEF ServerSends, SendKinds
<1>5. Append(out[p], answer) \in Seq(ServerSends)
  BY <1>2, <1>4, AppendProperties
<1>6. out' = out \/ out' = [out EXCEPT ![p] = Append(out[p], answer)]
  BY DEF Subscribed
<1> HIDE DEF write, answer
<1>7. NotifyTyped'
  <2>1. back' \in [Subscribers -> Seq(ClientSends)]
    BY <1>0, <1>1, <1>3, FunctionUpdated DEF NotifyTyped
  <2>2. write.value \in {"none"} \cup SendKinds
    BY <1>3 DEF ClientSends
  <2>3. cccd' \in [Subscribers -> {"none"} \cup SendKinds]
    BY <1>0, <1>1, <2>2, FunctionUpdated DEF NotifyTyped
  <2>4. out' \in [Subscribers -> Seq(ServerSends)]
    BY <1>0, <1>5, <1>6, FunctionUpdated DEF NotifyTyped
  <2> QED  BY <1>0, <1>1, <2>1, <2>3, <2>4 DEF NotifyTyped
<1>8. PeerServed(p)'
  <2>1. Latest(p)' = Latest(p) /\ StillToSend(p)' = StillToSend(p)
    BY <1>1 DEF Latest, StillToSend
  <2>2. back'[p] = Tail(back[p])
    BY <1>0, <1>1 DEF NotifyTyped
  <2>3. HowMany(back[p], "confirm") = HowMany(Tail(back[p]), "confirm") + 0
    <3>1. (IF write.kind = "confirm" THEN 1 ELSE 0) = 0
      BY <1>1
    <3>2. HowMany(back[p], "confirm")
            = HowMany(Tail(back[p]), "confirm") + (IF write.kind = "confirm" THEN 1 ELSE 0)
      BY <1>1, <1>2, CountTaken DEF write
    <3> QED  BY <3>1, <3>2
  <2>4. HowMany(Tail(back[p]), "confirm") \in Nat
    BY <1>3, CountIsNatural
  <2>5. CASE out' = out
    <3>1. Indications(p)' = Indications(p)
      BY <1>2, <2>2, <2>3, <2>4, <2>5 DEF Indications
    <3> QED  BY <1>0, <1>1, <2>1, <2>5, <3>1 DEF PeerServed
  <2>6. CASE out' = [out EXCEPT ![p] = Append(out[p], answer)]
    <3>1. out'[p] = Append(out[p], answer)
      BY <1>0, <2>6 DEF NotifyTyped
    <3>2. Ordered(heard[p], out'[p], Latest(p))
      BY <1>0, <1>2, <1>4, <3>1, OrderedAnswered DEF PeerServed
    <3>3. SentIn(out[p]) \subseteq SentIn(out'[p])
      BY <1>2, <1>4, <3>1, SentAppended
    <3>4. HowMany(out'[p], "indicate") = HowMany(out[p], "indicate") + 0
      <4>1. (IF answer.kind = "indicate" THEN 1 ELSE 0) = 0
        BY DEF answer
      <4> QED  BY <1>2, <1>4, <3>1, <4>1, CountAppended
    <3>5. Indications(p)' = Indications(p)
      BY <1>2, <2>2, <2>3, <2>4, <3>4 DEF Indications
    <3> QED  BY <1>0, <1>1, <2>1, <3>2, <3>3, <3>5 DEF PeerServed
  <2> QED  BY <1>6, <2>5, <2>6
<1>9. \A q \in Subscribers \ {p} : out'[q] = out[q] /\ back'[q] = back[q]
  BY <1>0, <1>1, <1>6 DEF NotifyTyped
<1> QED  BY <1>1, <1>7, <1>8, <1>9, OthersServed

LEMMA ConfirmedKeeps == ASSUME NEW p \in Subscribers PROVE NotifyInv /\ Confirmed(p) => NotifyInv'
<1> SUFFICES ASSUME NotifyInv, Confirmed(p) PROVE NotifyInv'
  OBVIOUS
<1>0. NotifyTyped /\ PeerServed(p)
  BY DEF NotifyInv
<1>1. /\ UNCHANGED <<connected_peers, cccd, out, heard, due, m_notifyCallback, sending, sends>>
      /\ back[p] # << >> /\ Head(back[p]).kind = "confirm"
      /\ back' = [back EXCEPT ![p] = Tail(@)] /\ unreported' = [unreported EXCEPT ![p] = @ - 1]
  BY DEF Confirmed, client_state
<1>2. /\ back[p] \in Seq(ClientSends) /\ unreported[p] \in Int
      /\ unreported[p] = HowMany(out[p], "indicate") + HowMany(back[p], "confirm")
      /\ HowMany(out[p], "indicate") \in Nat
  BY PeerTypes
<1>3. Tail(back[p]) \in Seq(ClientSends) /\ HowMany(Tail(back[p]), "confirm") \in Nat
  <2>1. Tail(back[p]) \in Seq(ClientSends)
    BY <1>1, <1>2, ShorterQueue
  <2> QED  BY <2>1, CountIsNatural
<1>4. NotifyTyped'
  <2>1. back' \in [Subscribers -> Seq(ClientSends)]
    BY <1>0, <1>1, <1>3, FunctionUpdated DEF NotifyTyped
  <2>2. unreported' \in [Subscribers -> Int]
    BY <1>0, <1>1 DEF NotifyTyped
  <2> QED  BY <1>0, <1>1, <2>1, <2>2 DEF NotifyTyped
<1>5. PeerServed(p)'
  <2>1. Latest(p)' = Latest(p) /\ StillToSend(p)' = StillToSend(p)
    BY <1>1 DEF Latest, StillToSend
  <2>2. back'[p] = Tail(back[p]) /\ unreported'[p] = unreported[p] - 1
    BY <1>0, <1>1 DEF NotifyTyped
  <2>3. HowMany(back[p], "confirm") = HowMany(Tail(back[p]), "confirm") + 1
    <3>1. (IF Head(back[p]).kind = "confirm" THEN 1 ELSE 0) = 1
      BY <1>1
    <3> QED  BY <1>1, <1>2, <3>1, CountTaken
  <2>4. unreported'[p] = Indications(p)'
    BY <1>1, <1>2, <1>3, <2>2, <2>3 DEF Indications
  <2> QED  BY <1>0, <1>1, <2>1, <2>4 DEF PeerServed
<1>6. \A q \in Subscribers \ {p} : back'[q] = back[q] /\ unreported'[q] = unreported[q]
  BY <1>0, <1>1 DEF NotifyTyped
<1> QED  BY <1>1, <1>4, <1>5, <1>6, OthersServed

LEMMA setNotifyKeeps == ASSUME NEW p \in Subscribers PROVE NotifyInv /\ setNotify(p) => NotifyInv'
<1> SUFFICES ASSUME NotifyInv, setNotify(p) PROVE NotifyInv'
  OBVIOUS
<1>0. NotifyTyped /\ PeerServed(p)
  BY DEF NotifyInv
<1>1. PICK kind \in {"none"} \cup SendKinds, found \in BOOLEAN, response \in BOOLEAN :
        /\ m_notifyCallback' = [m_notifyCallback EXCEPT ![p] = kind]
        /\ due' = [due EXCEPT ![p] = {}] /\ heard' = [heard EXCEPT ![p] = << >>]
        /\ back' = back \/ back' = [back EXCEPT ![p] =
                     Append(@, [kind |-> "write", value |-> kind, response |-> response])]
        /\ UNCHANGED <<connected_peers, cccd, out, sending, sends, unreported>>
  BY Zenon DEF setNotify, server_state
<1> DEFINE write == [kind |-> "write", value |-> kind, response |-> response]
<1>2. write \in ClientSends
  BY Zenon DEF ClientSends
<1>3. /\ out[p] \in Seq(ServerSends) /\ back[p] \in Seq(ClientSends)
      /\ HowMany(back[p], "confirm") \in Nat
  BY PeerTypes
<1>4. Append(back[p], write) \in Seq(ClientSends)
  BY <1>2, <1>3, AppendProperties
<1>5. back' = back \/ back' = [back EXCEPT ![p] = Append(back[p], write)]
  BY <1>1
<1>6. write.kind = "write"
  OBVIOUS
<1> HIDE DEF write
<1>7. NotifyTyped'
  <2>1. back' \in [Subscribers -> Seq(ClientSends)]
    BY <1>0, <1>4, <1>5, FunctionUpdated DEF NotifyTyped
  <2>2. m_notifyCallback' \in [Subscribers -> {"none"} \cup SendKinds]
    BY <1>0, <1>1, FunctionUpdated DEF NotifyTyped
  <2>3. due' \in [Subscribers -> SUBSET Nat] /\ heard' \in [Subscribers -> Seq(Nat)]
    BY <1>0, <1>1 DEF NotifyTyped
  <2> QED  BY <1>0, <1>1, <2>1, <2>2, <2>3 DEF NotifyTyped
<1>8. PeerServed(p)'
  <2>1. Latest(p)' = Latest(p)
    BY <1>1 DEF Latest
  <2>2. due'[p] = {} /\ heard'[p] = << >> /\ out'[p] = out[p] /\ unreported'[p] = unreported[p]
    BY <1>0, <1>1 DEF NotifyTyped
  <2>3. Ordered(heard'[p], out'[p], Latest(p)')
    BY <1>0, <2>1, <2>2, OrderedForgotten DEF PeerServed
  <2>4. HowMany(back'[p], "confirm") = HowMany(back[p], "confirm")
    <3>1. CASE back' = back
      BY <3>1
    <3>2. CASE back' = [back EXCEPT ![p] = Append(back[p], write)]
      <4>1. back'[p] = Append(back[p], write)
        BY <1>0, <3>2 DEF NotifyTyped
      <4>2. (IF write.kind = "confirm" THEN 1 ELSE 0) = 0
        BY <1>6
      <4>3. HowMany(back'[p], "confirm") = HowMany(back[p], "confirm") + 0
        BY <1>2, <1>3, <4>1, <4>2, CountAppended
      <4> QED  BY <1>3, <4>3
    <3> QED  BY <1>5, <3>1, <3>2
  <2>5. unreported'[p] = Indications(p)'
    BY <1>0, <2>2, <2>4 DEF PeerServed, Indications
  <2> QED  BY <2>2, <2>3, <2>5 DEF PeerServed
<1>9. \A q \in Subscribers \ {p} :
        /\ back'[q] = back[q] /\ heard'[q] = heard[q] /\ due'[q] = due[q]
        /\ m_notifyCallback'[q] = m_notifyCallback[q]
  BY <1>0, <1>1, <1>5 DEF NotifyTyped
<1> QED  BY <1>1, <1>7, <1>8, <1>9, OthersServed

LEMMA WriteAnsweredKeeps == ASSUME NEW p \in Subscribers PROVE NotifyInv /\ WriteAnswered(p) => NotifyInv'
<1> SUFFICES ASSUME NotifyInv, WriteAnswered(p) PROVE NotifyInv'
  OBVIOUS
<1>0. NotifyTyped /\ PeerServed(p)
  BY DEF NotifyInv
<1>1. /\ UNCHANGED <<connected_peers, cccd, back, heard, due, m_notifyCallback, sending, sends, unreported>>
      /\ out[p] # << >> /\ Head(out[p]).kind = "answer" /\ out' = [out EXCEPT ![p] = Tail(@)]
  BY DEF WriteAnswered, server_state
<1>2. /\ heard[p] \in Seq(Nat) /\ out[p] \in Seq(ServerSends) /\ Latest(p) \in Nat
      /\ HowMany(out[p], "indicate") \in Nat
  BY PeerTypes
<1>3. Tail(out[p]) \in Seq(ServerSends) /\ HowMany(Tail(out[p]), "indicate") \in Nat
  <2>1. Tail(out[p]) \in Seq(ServerSends)
    BY <1>1, <1>2, ShorterQueue
  <2> QED  BY <2>1, CountIsNatural
<1>4. NotifyTyped'
  <2>1. out' \in [Subscribers -> Seq(ServerSends)]
    BY <1>0, <1>1, <1>3, FunctionUpdated DEF NotifyTyped
  <2> QED  BY <1>0, <1>1, <2>1 DEF NotifyTyped
<1>5. PeerServed(p)'
  <2>1. Latest(p)' = Latest(p) /\ StillToSend(p)' = StillToSend(p)
    BY <1>1 DEF Latest, StillToSend
  <2>2. out'[p] = Tail(out[p])
    BY <1>0, <1>1 DEF NotifyTyped
  <2>3. HowMany(out[p], "indicate") = HowMany(Tail(out[p]), "indicate") + 0
    <3>1. (IF Head(out[p]).kind = "indicate" THEN 1 ELSE 0) = 0
      BY <1>1
    <3> QED  BY <1>1, <1>2, <3>1, CountTaken
  <2>4. Indications(p)' = Indications(p)
    BY <1>1, <1>2, <1>3, <2>2, <2>3 DEF Indications
  <2>5. Ordered(heard[p], Tail(out[p]), Latest(p))
    BY <1>0, <1>1, <1>2, OrderedDropped DEF PeerServed
  <2>6. SentIn(out[p]) \subseteq SentIn(Tail(out[p]))
    <3>1. ~(Head(out[p]).kind \in SendKinds)
      BY <1>1 DEF SendKinds
    <3> QED  BY <1>1, <1>2, <3>1, SentTaken
  <2> QED  BY <1>0, <1>1, <2>1, <2>2, <2>4, <2>5, <2>6 DEF PeerServed
<1>6. \A q \in Subscribers \ {p} : out'[q] = out[q]
  BY <1>0, <1>1 DEF NotifyTyped
<1> QED  BY <1>1, <1>4, <1>5, <1>6, OthersServed

LEMMA ReceivedKeeps == ASSUME NEW p \in Subscribers PROVE NotifyInv /\ Received(p) => NotifyInv'
<1> SUFFICES ASSUME NotifyInv, Received(p) PROVE NotifyInv'
  OBVIOUS
<1> DEFINE confirm == [kind |-> "confirm", value |-> "none", response |-> FALSE]
           first == Head(out[p])
<1>0. NotifyTyped /\ PeerServed(p)
  BY DEF NotifyInv
<1>1. /\ UNCHANGED <<connected_peers, cccd, due, m_notifyCallback, sending, sends, unreported>>
      /\ out[p] # << >> /\ first.kind \in SendKinds /\ out' = [out EXCEPT ![p] = Tail(@)]
      /\ heard' = IF m_notifyCallback[p] = "none" THEN heard
                  ELSE [heard EXCEPT ![p] = Append(@, first.value)]
      /\ back' = IF first.kind = "notify" THEN back ELSE [back EXCEPT ![p] = Append(@, confirm)]
  BY DEF Received, client_state, server_state
<1>2. /\ heard[p] \in Seq(Nat) /\ out[p] \in Seq(ServerSends) /\ back[p] \in Seq(ClientSends)
      /\ Latest(p) \in Nat
      /\ HowMany(out[p], "indicate") \in Nat /\ HowMany(back[p], "confirm") \in Nat
  BY PeerTypes
<1>3. Tail(out[p]) \in Seq(ServerSends) /\ HowMany(Tail(out[p]), "indicate") \in Nat
  <2>1. Tail(out[p]) \in Seq(ServerSends)
    BY <1>1, <1>2, ShorterQueue
  <2> QED  BY <2>1, CountIsNatural
<1>4. first.value \in Nat
  <2>1. first \in ServerSends
    BY <1>1, <1>2, ShorterQueue
  <2> QED  BY <2>1 DEF ServerSends
<1>5. confirm \in ClientSends /\ confirm.kind = "confirm"
  BY Zenon DEF ClientSends
<1>6. Append(back[p], confirm) \in Seq(ClientSends) /\ Append(heard[p], first.value) \in Seq(Nat)
  BY <1>2, <1>4, <1>5, AppendProperties
<1> HIDE DEF confirm, first
<1>7. NotifyTyped'
  <2>1. out' \in [Subscribers -> Seq(ServerSends)]
    BY <1>0, <1>1, <1>3, FunctionUpdated DEF NotifyTyped
  <2>2. back' \in [Subscribers -> Seq(ClientSends)]
    BY <1>0, <1>1, <1>6, FunctionUpdated DEF NotifyTyped
  <2>3. heard' \in [Subscribers -> Seq(Nat)]
    BY <1>0, <1>1, <1>6, FunctionUpdated DEF NotifyTyped
  <2> QED  BY <1>0, <1>1, <2>1, <2>2, <2>3 DEF NotifyTyped
<1>8. PeerServed(p)'
  <2>1. Latest(p)' = Latest(p) /\ StillToSend(p)' = StillToSend(p)
    BY <1>1 DEF Latest, StillToSend
  <2>2. out'[p] = Tail(out[p])
    BY <1>0, <1>1 DEF NotifyTyped
  <2>3. Indications(p)' = Indications(p)
    <3>1. HowMany(out[p], "indicate") = HowMany(Tail(out[p]), "indicate") + (IF first.kind = "indicate" THEN 1 ELSE 0)
      BY <1>1, <1>2, CountTaken DEF first
    <3>2. CASE first.kind = "notify"
      <4>1. (IF first.kind = "indicate" THEN 1 ELSE 0) = 0
        BY <3>2
      <4> QED  BY <1>1, <1>2, <1>3, <2>2, <3>1, <3>2, <4>1 DEF Indications
    <3>3. CASE first.kind = "indicate"
      <4>1. (IF first.kind = "indicate" THEN 1 ELSE 0) = 1 /\ (IF confirm.kind = "confirm" THEN 1 ELSE 0) = 1
        BY <1>5, <3>3
      <4>2. back'[p] = Append(back[p], confirm)
        BY <1>0, <1>1, <3>3 DEF NotifyTyped
      <4>3. HowMany(back'[p], "confirm") = HowMany(back[p], "confirm") + 1
        BY <1>2, <1>5, <4>1, <4>2, CountAppended
      <4> QED  BY <1>2, <1>3, <2>2, <3>1, <4>1, <4>3 DEF Indications
    <3> QED  BY <1>1, <3>2, <3>3 DEF SendKinds
  <2>4. SentIn(out[p]) \subseteq SentIn(out'[p]) \cup {first.value}
    BY <1>1, <1>2, <2>2, SentTaken DEF first
  <2>5. CASE m_notifyCallback[p] = "none"
    <3>1. Ordered(heard[p], Tail(out[p]), Latest(p))
      BY <1>0, <1>1, <1>2, OrderedDropped DEF PeerServed
    <3> QED  BY <1>0, <1>1, <2>1, <2>2, <2>3, <2>5, <3>1 DEF PeerServed
  <2>6. CASE m_notifyCallback[p] # "none"
    <3>1. heard'[p] = Append(heard[p], first.value)
      BY <1>0, <1>1, <2>6 DEF NotifyTyped
    <3>2. Ordered(heard'[p], out'[p], Latest(p))
      BY <1>0, <1>1, <1>2, <2>2, <3>1, OrderedHeard DEF PeerServed, first
    <3>3. ToSet(heard'[p]) = ToSet(heard[p]) \cup {first.value}
      BY <1>2, <1>4, <3>1, SetAppended
    <3>4. due'[p] \subseteq ToSet(heard'[p]) \cup SentIn(out'[p]) \cup StillToSend(p)'
      BY <1>0, <1>1, <2>1, <2>4, <3>3 DEF PeerServed
    <3> QED  BY <1>0, <1>1, <2>1, <2>3, <2>6, <3>2, <3>4 DEF PeerServed
  <2> QED  BY <2>5, <2>6
<1>9. \A q \in Subscribers \ {p} : out'[q] = out[q] /\ back'[q] = back[q] /\ heard'[q] = heard[q]
  BY <1>0, <1>1 DEF NotifyTyped
<1> QED  BY <1>1, <1>7, <1>8, <1>9, OthersServed

LEMMA LinksKeeps == ASSUME NEW p \in Subscribers PROVE NotifyInv /\ Links(p) => NotifyInv'
<1> SUFFICES ASSUME NotifyInv, Links(p) PROVE NotifyInv'
  OBVIOUS
<1>0. NotifyTyped /\ PeerServed(p)
  BY DEF NotifyInv
<1>1. /\ UNCHANGED <<cccd, out, back, heard, due, sending, sends, unreported>>
      /\ p \notin connected_peers /\ connected_peers' = connected_peers \cup {p}
      /\ m_notifyCallback' = m_notifyCallback \/ m_notifyCallback' = [m_notifyCallback EXCEPT ![p] = "none"]
  BY DEF Links, server_state
<1>2. NotifyTyped'
  BY <1>0, <1>1 DEF NotifyTyped
<1>3. PeerServed(p)'
  <2>1. Latest(p)' = Latest(p) /\ StillToSend(p)' = StillToSend(p) /\ Indications(p)' = Indications(p)
    BY <1>1 DEF Latest, StillToSend, Indications
  <2>2. due[p] = {}
    BY <1>0, <1>1 DEF PeerServed
  <2> QED  BY <1>0, <1>1, <2>1, <2>2 DEF PeerServed
<1>4. \A q \in Subscribers \ {p} : m_notifyCallback'[q] = m_notifyCallback[q]
  BY <1>0, <1>1 DEF NotifyTyped
<1> QED  BY <1>1, <1>2, <1>3, <1>4, OthersServed

LEMMA UnlinksKeeps == ASSUME NEW p \in Subscribers PROVE NotifyInv /\ Unlinks(p) => NotifyInv'
<1> SUFFICES ASSUME NotifyInv, Unlinks(p) PROVE NotifyInv'
  OBVIOUS
<1>0. NotifyTyped /\ PeerServed(p)
  BY DEF NotifyInv
<1>1. /\ UNCHANGED <<m_notifyCallback, sending, sends>>
      /\ connected_peers' = connected_peers \ {p} /\ cccd' = [cccd EXCEPT ![p] = "none"]
      /\ unreported' = [unreported EXCEPT ![p] = @ - Indications(p)]
      /\ out' = [out EXCEPT ![p] = << >>] /\ back' = [back EXCEPT ![p] = << >>]
      /\ due' = [due EXCEPT ![p] = {}] /\ heard' = [heard EXCEPT ![p] = << >>]
  BY DEF Unlinks
<1>2. unreported[p] \in Int /\ Indications(p) = unreported[p]
  BY <1>0, PeerTypes DEF PeerServed
<1>3. NotifyTyped'
  <2>1. unreported' \in [Subscribers -> Int]
    BY <1>0, <1>1, <1>2 DEF NotifyTyped
  <2>2. out' \in [Subscribers -> Seq(ServerSends)] /\ back' \in [Subscribers -> Seq(ClientSends)]
        /\ heard' \in [Subscribers -> Seq(Nat)]
    BY <1>0, <1>1 DEF NotifyTyped
  <2>3. due' \in [Subscribers -> SUBSET Nat] /\ cccd' \in [Subscribers -> {"none"} \cup SendKinds]
    BY <1>0, <1>1 DEF NotifyTyped
  <2> QED  BY <1>0, <1>1, <2>1, <2>2, <2>3 DEF NotifyTyped
<1>4. PeerServed(p)'
  <2>1. Latest(p)' = Latest(p)
    BY <1>1 DEF Latest
  <2>2. out'[p] = << >> /\ back'[p] = << >> /\ heard'[p] = << >> /\ due'[p] = {} /\ unreported'[p] = 0
    BY <1>0, <1>1, <1>2 DEF NotifyTyped
  <2>3. Indications(p)' = 0
    <3>1. << >> \in Seq(Nat)
      OBVIOUS
    <3>2. HowMany(<< >>, "indicate") = 0 /\ HowMany(<< >>, "confirm") = 0
      BY <3>1, CountIsNatural
    <3> QED  BY <2>2, <3>2 DEF Indications
  <2>4. Ordered(heard'[p], out'[p], Latest(p)')
    BY <1>0, <2>1, <2>2, OrderedForgotten DEF PeerServed
  <2> QED  BY <2>2, <2>3, <2>4 DEF PeerServed
<1>5. \A q \in Subscribers \ {p} :
        /\ out'[q] = out[q] /\ back'[q] = back[q] /\ heard'[q] = heard[q] /\ due'[q] = due[q]
        /\ unreported'[q] = unreported[q]
  BY <1>0, <1>1 DEF NotifyTyped
<1> QED  BY <1>1, <1>3, <1>4, <1>5, OthersServed

LEMMA SendFailsKeeps == NotifyInv /\ SendFails => NotifyInv'
<1> SUFFICES ASSUME NotifyInv, SendFails PROVE NotifyInv'
  OBVIOUS
<1>0. NotifyTyped /\ LoopSound /\ \A p \in Subscribers : PeerServed(p)
  BY DEF NotifyInv
<1>1. /\ UNCHANGED <<connected_peers, cccd, back, heard, m_notifyCallback, sending, out, due, unreported>>
      /\ sending = NotSending /\ sends \in Nat /\ sends' = sends + 1
  BY <1>0 DEF SendFails, CallsSend, client_state, LoopSound
<1>2. NotifyTyped'
  BY <1>0, <1>1 DEF NotifyTyped
<1>3. LoopSound'
  BY <1>0, <1>1 DEF LoopSound, NotSending
<1>4. ASSUME NEW p \in Subscribers PROVE PeerServed(p)'
  <2>1. Latest(p) = sends /\ StillToSend(p) = {}
    BY <1>1, NoLoop
  <2>2. Latest(p)' = sends + 1
    <3>1. ToSet(sending.todo) = {}
      BY <1>1 DEF NotSending, ToSet
    <3> QED  BY <1>1, <3>1 DEF Latest
  <2>3. PeerServed(p)
    BY <1>0
  <2> QED  BY <1>0, <1>1, <1>3, <2>1, <2>2, <2>3, StaysServed DEF PeerServed
<1> QED  BY <1>2, <1>3, <1>4 DEF NotifyInv

LEMMA NotifyKept == NotifyInv /\ [NotifyNext]_notifications => NotifyInv'
<1> SUFFICES ASSUME NotifyInv, [NotifyNext]_notifications PROVE NotifyInv'
  OBVIOUS
<1>1. CASE SendToOne
  <2>1. PICK p \in Subscribers, kind \in SendKinds :
          /\ CallsSend /\ Transmit({p}, sends + 1, [q \in Subscribers |-> kind]) /\ Due({p})
          /\ UNCHANGED sending
    BY <1>1 DEF SendToOne
  <2>2. {p} \in SUBSET Subscribers /\ \A r \in {p} : [q \in Subscribers |-> kind][r] \in SendKinds
    OBVIOUS
  <2> QED  BY <2>1, <2>2, SentAtOnce
<1>2. CASE SendFails
  BY <1>2, SendFailsKeeps
<1>3. CASE SendToSubscribed
  <2> DEFINE subscribed == {p \in connected_peers : cccd[p] # "none"}
  <2>1. subscribed \in SUBSET Subscribers /\ \A p \in subscribed : cccd[p] \in SendKinds
    BY DEF NotifyInv, NotifyTyped
  <2>2. CallsSend /\ Transmit(subscribed, sends + 1, cccd) /\ Due(subscribed) /\ UNCHANGED sending
    BY <1>3 DEF SendToSubscribed
  <2> HIDE DEF subscribed
  <2> QED  BY <2>1, <2>2, SentAtOnce
<1>4. CASE SendToAll
  BY <1>4, LoopStarted
<1>5. CASE SendNext
  BY <1>5, LoopGoesOn
<1>6. CASE SendGivesUp
  BY <1>6, LoopGivenUp
<1>7. ASSUME NEW p \in Subscribers,
             \/ Subscribed(p) \/ Confirmed(p) \/ setNotify(p) \/ WriteAnswered(p)
             \/ Received(p) \/ Links(p) \/ Unlinks(p)
      PROVE  NotifyInv'
  BY <1>7, SubscribedKeeps, ConfirmedKeeps, setNotifyKeeps, WriteAnsweredKeeps, ReceivedKeeps,
     LinksKeeps, UnlinksKeeps
<1>8. CASE UNCHANGED notifications
  BY <1>8 DEF notifications, NotifyInv, NotifyTyped, LoopSound, PeerServed, Latest, StillToSend, Indications
<1> QED  BY <1>1, <1>2, <1>3, <1>4, <1>5, <1>6, <1>7, <1>8 DEF NotifyNext

\* A value sent while a peer's subscription is in effect reaches the peer's
\* callback, in the order of sending, and each attempt is reported once, for any
\* number of peers, of values and of calls of setNotify (sendValue, setNotify).
THEOREM NoneMissedProved == NotifySpec => []NoneMissed
<1>1. NotifyInv => NoneMissed
  BY DEF NotifyInv, NoneMissed, PeerServed, Ordered, InTheAir
<1> QED  BY <1>1, NotifyStarts, NotifyKept, PTL DEF NotifySpec

-----------------------------------------------------------------------------
(* NimBLEL2CAPChannel *)


\* The fragments still to send are numbered in order and behind all that the host took;
\* this is what a retry must not break: a fragment that was taken has left the message.
MessageOK == message \in Seq(Nat) /\ received \in Seq(Nat) /\ numbered \in Nat
Rising(s) == \A i, j \in 1 .. Len(s) : i < j => s[i] < s[j]
Behind ==
  /\ \A i \in 1 .. Len(received) : received[i] <= numbered
  /\ \A i \in 1 .. Len(message) : message[i] <= numbered
  /\ \A i \in 1 .. Len(received), j \in 1 .. Len(message) : received[i] < message[j]
ChannelInv ==
  /\ MessageOK /\ Rising(received) /\ Rising(message) /\ Behind
  /\ writer \in {"sends", "delays", "waits"} => message # <<>>

LEMMA ChannelInvStarts == L2capInit => ChannelInv
  BY DEF L2capInit, ChannelInv, MessageOK, Rising, Behind

\* A message that is given up or replaced by its rest keeps the order.
LEMMA TailFacts ==
  ASSUME message \in Seq(Nat), message # <<>>
  PROVE  /\ Tail(message) \in Seq(Nat) /\ Head(message) = message[1]
         /\ Len(Tail(message)) = Len(message) - 1
         /\ \A i \in 1 .. Len(Tail(message)) : Tail(message)[i] = message[i + 1]
  OBVIOUS

LEMMA RestKept ==
  ASSUME ChannelInv, message # <<>>, message' = Tail(message),
         UNCHANGED <<received, numbered>>
  PROVE  MessageOK' /\ Rising(received)' /\ Rising(message)' /\ Behind'
  BY TailFacts DEF ChannelInv, MessageOK, Rising, Behind

\* The head of the message is larger than what the host has and smaller than the rest.
LEMMA TakenKept ==
  ASSUME ChannelInv, message # <<>>, message' = Tail(message),
         received' = Append(received, Head(message)), UNCHANGED numbered
  PROVE  MessageOK' /\ Rising(received)' /\ Rising(message)' /\ Behind'
<1> USE DEF ChannelInv, MessageOK, Rising, Behind
<1>1. /\ received' \in Seq(Nat) /\ Len(received') = Len(received) + 1
      /\ received'[Len(received) + 1] = message[1]
      /\ \A i \in 1 .. Len(received) : received'[i] = received[i]
  BY TailFacts
<1>2. MessageOK' /\ Rising(message)'
  BY <1>1, TailFacts
<1>3. ASSUME NEW i \in 1 .. Len(received'), NEW j \in 1 .. Len(received'), i < j
      PROVE  received'[i] < received'[j]
  <2>1. Len(received) \in Nat /\ Len(message) \in Nat /\ 1 \in 1 .. Len(message)
    BY DEF MessageOK
  <2>2. i \in 1 .. Len(received)
    BY <1>1, <1>3, <2>1
  <2>3. CASE j \in 1 .. Len(received)
    BY <1>1, <1>3, <2>2, <2>3
  <2>4. CASE j = Len(received) + 1
    BY <1>1, <2>1, <2>2, <2>4
  <2> QED  BY <1>1, <2>1, <2>3, <2>4
<1>4. Behind'
  BY <1>1, TailFacts
<1> QED  BY <1>2, <1>3, <1>4 DEF Rising

LEMMA ChannelInvKept == ChannelInv /\ [L2capNext]_l2cap => ChannelInv'
<1> SUFFICES ASSUME ChannelInv, [L2capNext]_l2cap PROVE ChannelInv'
  OBVIOUS
<1> USE DEF channel_state, write_call
<1>1. ASSUME NEW n \in 1 .. MaxFragments, WriteBegins(n) PROVE ChannelInv'
  <2>1. n \in Nat
    BY <1>1
  <2>2. /\ message' \in Seq(Nat) /\ Len(message') = n
        /\ \A i \in 1 .. n : message'[i] = numbered + i
    BY <1>1, <2>1 DEF WriteBegins, ChannelInv, MessageOK
  <2> QED
    BY <1>1, <2>1, <2>2 DEF WriteBegins, ChannelInv, MessageOK, Rising, Behind
<1>2. CASE FragmentBegins \/ Wakes \/ HostBusy \/ HandleConnection \/ HandleDisconnection
           \/ HandleTxUnstalled \/ UNCHANGED l2cap
  <2>1. UNCHANGED <<message, received, numbered>>
    BY <1>2 DEF FragmentBegins, Wakes, HostBusy, HandleConnection, HandleDisconnection,
                HandleTxUnstalled, l2cap
  <2>2. writer' \in {"sends", "delays", "waits"} => message # <<>>
    BY <1>2 DEF ChannelInv, FragmentBegins, Wakes, HostBusy, HandleConnection,
                HandleDisconnection, HandleTxUnstalled, l2cap
  <2> QED  BY <2>1, <2>2 DEF ChannelInv, MessageOK, Rising, Behind
<1>3. CASE CannotSend \/ DelayEnds \/ WriteEnds
  <2>1. UNCHANGED <<received, numbered>> /\ (UNCHANGED message \/ message' = <<>>)
    BY <1>3 DEF CannotSend, DelayEnds, WriteEnds, Returns
  <2>2. writer' \in {"sends", "delays", "waits"} => message' # <<>>
    BY <1>3 DEF ChannelInv, CannotSend, DelayEnds, WriteEnds, Returns
  <2>3. CASE UNCHANGED message
    BY <2>1, <2>2, <2>3 DEF ChannelInv, MessageOK, Rising, Behind
  <2>4. CASE message' = <<>>
    <3>1. MessageOK' /\ Len(message') = 0
      BY <2>1, <2>4 DEF ChannelInv, MessageOK
    <3>2. Rising(received)' /\ Rising(message)' /\ Behind'
      BY <2>1, <3>1 DEF ChannelInv, Rising, Behind
    <3> QED  BY <2>2, <3>1, <3>2 DEF ChannelInv
  <2> QED  BY <2>1, <2>3, <2>4
<1>4. CASE FragmentTaken \/ FragmentStalls
  <2>1. /\ message # <<>> /\ message' = Tail(message) /\ writer' = "next"
        /\ received' = Append(received, Head(message)) /\ UNCHANGED numbered
    BY <1>4 DEF ChannelInv, FragmentTaken, FragmentStalls, Taken, FragmentDone
  <2> QED  BY <2>1, TakenKept DEF ChannelInv
<1>5. CASE HostRefuses
  <2>1. /\ message # <<>> /\ message' = Tail(message) /\ writer' = "next"
        /\ UNCHANGED <<received, numbered>>
    BY <1>5 DEF ChannelInv, HostRefuses, FragmentDone
  <2> QED  BY <2>1, RestKept DEF ChannelInv
<1> QED
  BY <1>1, <1>2, <1>3, <1>4, <1>5 DEF L2capNext, Writes

\* Through stalls, retries, refusals and disconnections the host gets every fragment at
\* most once and later fragments later (writeFragment, write).
THEOREM AtMostOnceInOrderAlways == L2capSpec => []AtMostOnceInOrder
<1>1. ChannelInv => AtMostOnceInOrder
  BY DEF ChannelInv, MessageOK, Rising, AtMostOnceInOrder
<1> QED  BY <1>1, ChannelInvStarts, ChannelInvKept, PTL DEF L2capSpec
===============================================================================
