---------------------------- MODULE NimBLEClient ----------------------------
(***************************************************************************)
(* A central's client of esp-nimble-cpp (NimBLEClient.cpp, the clients in  *)
(* NimBLEDevice.cpp, the waits in NimBLEUtils.cpp) for one peer: a task    *)
(* calls connect and secureConnection, which wait for the host's task to   *)
(* release them, while the host reports what happens to the connection and *)
(* the client may be told to delete itself.                                *)
(*                                                                         *)
(* The host (external) reports the end of an attempt at its timeout, one   *)
(* second before the waiting task gives up, and each end of a connection.  *)
(* LateEvents allows what the code takes no precaution against: an event   *)
(* between the release of a wait and the return of the call, one for an    *)
(* attempt the caller had cancelled at its own timeout, and a client that  *)
(* is deleted while it connects asynchronously.                            *)
(***************************************************************************)
EXTENDS Naturals

CONSTANT LateEvents

VARIABLES
  own_client,             \* "none", "live"; "freed" while somebody may still refer to it
  m_connHandle,       \* it is not BLE_HS_CONN_HANDLE_NONE
  m_pTaskData,        \* a task waits in a call of the client
  m_config,
  m_terminateFailCount, m_asyncSecureAttempt,
  call,               \* the task's step, the flags of its wait, its retries
  notified,           \* TASK_BLOCK_BIT of the task
  release,            \* the host's task is about to release the task, with these flags
  link,               \* the host: "none", "connecting", "up", "closing"
  exchanging, securing, encrypted,    \* MTU exchange, pairing and its result
  used_freed           \* a freed client was used

counters == <<m_terminateFailCount, m_asyncSecureAttempt>>
attributes == <<own_client, m_connHandle, m_pTaskData, m_config, counters>>
task == <<call, notified, release>>
gap == <<link, exchanging, securing, encrypted>>
central == <<attributes, task, gap, used_freed>>

Idle == [step |-> "idle", flags |-> "ok", retries |-> 0]
NoRelease == "none"
NewConfig == [asyncConnect |-> FALSE, exchangeMTU |-> FALSE,
              deleteOnDisconnect |-> FALSE, deleteOnConnectFail |-> FALSE]

ClientInit ==
  /\ own_client = "none" /\ m_connHandle = FALSE /\ m_pTaskData = FALSE
  /\ m_config = NewConfig /\ m_terminateFailCount = 0 /\ m_asyncSecureAttempt = 0
  /\ call = Idle /\ notified = FALSE /\ release = NoRelease
  /\ link = "none" /\ exchanging = FALSE /\ securing = FALSE /\ encrypted = FALSE
  /\ used_freed = FALSE

CallAt(step) == call.step = step
Free == own_client' = "freed"

\* Any step of a call, or event of the host, that reads a client that is gone.
Touches == used_freed' = (used_freed \/ own_client # "live")

-----------------------------------------------------------------------------
(* Clients of the device *)

createClient ==
  /\ CallAt("idle") /\ own_client # "live" /\ link = "none"
  /\ own_client' = "live" /\ m_connHandle' = FALSE /\ m_pTaskData' = FALSE
  /\ m_config' = NewConfig /\ m_terminateFailCount' = 0 /\ m_asyncSecureAttempt' = 0
  /\ UNCHANGED <<task, gap, used_freed>>

setSelfDelete(onDisconnect, onConnectFail) ==
  /\ CallAt("idle") /\ own_client = "live"
  /\ m_config' = [m_config EXCEPT !.deleteOnDisconnect = onDisconnect,
                                  !.deleteOnConnectFail = onConnectFail]
  /\ UNCHANGED <<own_client, m_connHandle, m_pTaskData, counters, task, gap,
                 used_freed>>

\* Mutant: a client is freed although a task waits in one of its calls.
EndsAtOnce(config) == Free /\ m_config' = config

\* Now, or by the call that waits.  A cancel that fails only leaves the mark.
Ends(config) ==
  IF m_pTaskData
    THEN m_config' = [config EXCEPT !.deleteOnConnectFail = TRUE] /\ UNCHANGED own_client
    ELSE Free /\ m_config' = config

\* NimBLEDevice::deleteClient: a connected client ends with its connection.
deleteClient ==
  IF m_connHandle
    THEN /\ m_config' = [m_config EXCEPT !.deleteOnDisconnect = TRUE]
         /\ link' = "closing" /\ UNCHANGED own_client
    ELSE Ends(m_config) /\ UNCHANGED link

AppDeletes ==
  /\ CallAt("idle") /\ own_client = "live" /\ (LateEvents \/ link # "connecting")
  /\ deleteClient
  /\ UNCHANGED <<m_connHandle, m_pTaskData, counters, task, exchanging, securing,
                 encrypted, used_freed>>

-----------------------------------------------------------------------------
(* connect *)

connect(asyncConnect, exchangeMTU) ==
  /\ CallAt("idle") /\ own_client = "live" /\ ~m_connHandle /\ link = "none"
  /\ m_config' = [m_config EXCEPT !.asyncConnect = asyncConnect, !.exchangeMTU = exchangeMTU]
  /\ link' = "connecting"
  /\ call' = IF asyncConnect THEN Idle ELSE [Idle EXCEPT !.step = "called"]
  /\ UNCHANGED <<own_client, m_connHandle, m_pTaskData, counters, notified, release,
                 exchanging, securing, encrypted, used_freed>>

\* The task data are known to the client only after the host has the attempt.
ConnectWaits ==
  /\ CallAt("called") /\ m_pTaskData' = TRUE
  /\ call' = [Idle EXCEPT !.step = "waiting"] /\ Touches
  /\ UNCHANGED <<own_client, m_connHandle, m_config, counters, notified, release, gap>>

\* taskWait also ends on a bit that was set before it began.
Woken(step) ==
  /\ notified /\ notified' = FALSE
  /\ call' = [call EXCEPT !.step = step]

ConnectWakes ==
  /\ CallAt("waiting") /\ Woken("woken")
  /\ UNCHANGED <<attributes, release, gap, used_freed>>

\* Without an answer to the MTU exchange the connection is used as it is.
ConnectTimesOut ==
  /\ CallAt("waiting") /\ ~notified /\ release = NoRelease /\ link \in {"connecting", "up"}
  /\ call' = [call EXCEPT !.step = "woken", !.flags = IF m_connHandle THEN "ok" ELSE "timeout"]
  /\ link' = IF ~m_connHandle /\ link = "connecting" /\ ~LateEvents THEN "none" ELSE link
  /\ UNCHANGED <<attributes, notified, release, exchanging, securing, encrypted, used_freed>>

ConnectForgetsWait ==
  /\ CallAt("woken") /\ m_pTaskData' = FALSE
  /\ call' = [call EXCEPT !.step = "tail"] /\ Touches
  /\ UNCHANGED <<own_client, m_connHandle, m_config, counters, notified, release, gap>>

\* onConnect, or the client that failed to connect deletes itself.
ConnectReturns ==
  /\ CallAt("tail") /\ call' = Idle /\ Touches
  /\ IF call.flags # "ok" /\ m_config.deleteOnConnectFail /\ own_client = "live"
       THEN deleteClient
       ELSE UNCHANGED <<own_client, m_config, link>>
  /\ UNCHANGED <<m_connHandle, m_pTaskData, counters, notified, release, exchanging,
                 securing, encrypted>>

-----------------------------------------------------------------------------
(* secureConnection, disconnect, cancelConnect *)

\* startSecurity, which also succeeds while a procedure goes on.
startSecurity == link = "up" /\ securing' = TRUE

\* Only whether it is the first matters.
MoreAttempts == IF m_asyncSecureAttempt = 2 THEN 2 ELSE m_asyncSecureAttempt + 1

secureConnection(async) ==
  /\ CallAt("idle") /\ own_client = "live" /\ m_connHandle
  /\ IF link = "up" THEN startSecurity ELSE UNCHANGED securing
  /\ IF async \/ link # "up"
       THEN UNCHANGED <<m_pTaskData, call>>
       ELSE m_pTaskData' = TRUE /\ call' = [step |-> "securing", flags |-> "notconn", retries |-> 1]
  /\ m_asyncSecureAttempt' = CASE ~async -> m_asyncSecureAttempt
                               [] async /\ link = "up" -> MoreAttempts
                               [] OTHER -> 0
  /\ UNCHANGED <<own_client, m_connHandle, m_config, m_terminateFailCount, notified, release, link,
                 exchanging, encrypted, used_freed>>

\* A peer that has lost the key is asked to pair once more.
SecureRetries ==
  /\ CallAt("securing") /\ call.flags = "missing" /\ call.retries > 0 /\ link = "up"
  /\ Woken("securing") /\ startSecurity
  /\ call' = [call EXCEPT !.retries = @ - 1]
  /\ UNCHANGED <<attributes, release, link, exchanging, encrypted, used_freed>>

\* What the flags say is returned; the connection may be secured or not.
SecureReturns ==
  /\ CallAt("securing") /\ ~(call.flags = "missing" /\ call.retries > 0 /\ link = "up")
  /\ notified /\ notified' = FALSE
  /\ call' = Idle /\ m_pTaskData' = FALSE /\ Touches
  /\ UNCHANGED <<own_client, m_connHandle, m_config, counters, release, gap>>

disconnect ==
  /\ CallAt("idle") /\ own_client = "live" /\ m_connHandle /\ link = "up" /\ link' = "closing"
  /\ UNCHANGED <<attributes, task, exchanging, securing, encrypted, used_freed>>

-----------------------------------------------------------------------------
(* handleGapEvent in the host's task *)

HostTaskFree == release = NoRelease
Settled == LateEvents \/ (call.step \notin {"woken", "tail"} /\ (notified => CallAt("idle")))
Event == HostTaskFree /\ Settled /\ Touches

\* The handler's last step, which uses the task data it saw when it began.
Releases(flags) == release' = IF m_pTaskData THEN flags ELSE NoRelease

taskRelease ==
  /\ release # NoRelease /\ release' = NoRelease
  /\ call' = IF call.step \in {"waiting", "securing"} THEN [call EXCEPT !.flags = release] ELSE call
  /\ notified' = TRUE
  /\ UNCHANGED <<attributes, gap, used_freed>>

Unexpected == m_connHandle \/ (~m_config.asyncConnect /\ ~m_pTaskData)

\* A connection nobody waits for is dropped.
ConnectUnexpected ==
  /\ link = "connecting" /\ Event /\ Unexpected
  /\ link' \in {"closing", "none"}
  /\ UNCHANGED <<attributes, task, exchanging, securing, encrypted>>

ConnectSucceeds ==
  /\ link = "connecting" /\ Event /\ ~Unexpected
  /\ link' = "up" /\ m_connHandle' = TRUE
  /\ IF m_config.exchangeMTU
       THEN \/ exchanging' = TRUE /\ UNCHANGED release
            \/ exchanging' = FALSE /\ Releases("error")
       ELSE UNCHANGED exchanging /\ Releases("ok")
  /\ UNCHANGED <<own_client, m_pTaskData, m_config, counters, call, notified, securing,
                 encrypted>>

ConnectFails ==
  /\ link = "connecting" /\ Event /\ ~Unexpected
  /\ link' = "none" /\ m_connHandle' = FALSE
  /\ IF m_config.asyncConnect /\ m_config.deleteOnConnectFail /\ own_client = "live"
       THEN Ends(m_config) ELSE UNCHANGED <<own_client, m_config>>
  /\ Releases("error")
  /\ UNCHANGED <<m_pTaskData, counters, call, notified, exchanging,
                 securing, encrypted>>

\* BLE_GAP_EVENT_MTU, whoever began the exchange, releases whichever call waits.
MtuEvent ==
  /\ link = "up" /\ m_connHandle /\ Event
  /\ exchanging' = FALSE /\ Releases("ok")
  /\ UNCHANGED <<attributes, call, notified, link, securing, encrypted>>

\* A peer may not answer at all.
MtuUnanswered ==
  /\ exchanging /\ exchanging' = FALSE
  /\ UNCHANGED <<attributes, task, link, securing, encrypted, used_freed>>

\* A missing key is deleted, and an asynchronous attempt made once more.
EncChange(status) ==
  /\ link = "up" /\ m_connHandle /\ securing /\ Event
  /\ encrypted' = (status = "ok" \/ encrypted)
  /\ securing' = (status = "missing" /\ m_asyncSecureAttempt = 1)
  /\ m_asyncSecureAttempt' = CASE status = "ok" -> 0
                               [] status = "missing" /\ m_asyncSecureAttempt = 1 -> 2
                               [] OTHER -> m_asyncSecureAttempt
  /\ Releases(status)
  /\ UNCHANGED <<own_client, m_connHandle, m_pTaskData, m_config, m_terminateFailCount, call, notified,
                 link, exchanging>>

\* A connection has ended, for whatever reason.
ClientDisconnects ==
  /\ link \in {"up", "closing"} /\ HostTaskFree /\ Settled
  /\ link' = "none" /\ exchanging' = FALSE /\ securing' = FALSE /\ encrypted' = FALSE
  /\ IF own_client # "live" \/ ~m_connHandle     \* getClientByHandle finds none
       THEN UNCHANGED <<attributes, release>>
       ELSE /\ m_connHandle' = FALSE /\ m_terminateFailCount' = 0 /\ m_asyncSecureAttempt' = 0
            /\ IF m_config.deleteOnDisconnect THEN Ends(m_config) ELSE UNCHANGED <<own_client, m_config>>
            /\ UNCHANGED m_pTaskData
            /\ Releases("error")
  /\ UNCHANGED <<call, notified, used_freed>>

\* Twice more, then the host is reset, which ends every connection.
TerminationFails ==
  /\ link = "closing" /\ m_connHandle /\ Event
  /\ m_terminateFailCount < 3 /\ m_terminateFailCount' = m_terminateFailCount + 1
  /\ UNCHANGED <<own_client, m_connHandle, m_pTaskData, m_config, m_asyncSecureAttempt, task, gap>>

-----------------------------------------------------------------------------

Calls ==
  \/ ConnectWaits \/ ConnectWakes \/ ConnectForgetsWait \/ ConnectReturns
  \/ SecureRetries \/ SecureReturns

ClientNext ==
  \/ createClient \/ AppDeletes \/ disconnect \/ ConnectTimesOut \/ Calls
  \/ \E d \in BOOLEAN, f \in BOOLEAN : setSelfDelete(d, f)
  \/ \E a \in BOOLEAN, m \in BOOLEAN : connect(a, m)
  \/ \E a \in BOOLEAN : secureConnection(a)
  \/ taskRelease \/ ConnectUnexpected \/ ConnectSucceeds \/ ConnectFails
  \/ MtuEvent \/ MtuUnanswered \/ TerminationFails
  \/ \E status \in {"ok", "missing", "error"} : EncChange(status)
  \/ ClientDisconnects

ClientSpec == ClientInit /\ [][ClientNext]_central

-----------------------------------------------------------------------------
(* Properties *)

\* No call and no event uses a client that was freed, whatever made it delete itself
\* while a task waits in connect or secureConnection.
NotUsedFreed == ~used_freed

=============================================================================
