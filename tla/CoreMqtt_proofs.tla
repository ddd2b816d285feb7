--------------------------- MODULE CoreMqtt_proofs ---------------------------
(* Proofs about CoreMqtt, for every set of handles and settings and for all    *)
(* thresholds.                                                                 *)
EXTENDS CoreMqtt, TLAPS

USE ClientsAssumption, SettingsAssumption, ThresholdAssumption, ResourcesAssumption
USE DEF netVars, flagVars, lockVars, cfgVars, supVars, libVars, Goto

\* A step keeps the type of every variable.
LEMMA TypeStep == TypeOK /\ [Next]_vars => TypeOK'
<1> SUFFICES ASSUME TypeOK, [Next]_vars PROVE TypeOK'
  OBVIOUS
<1> USE DEF TypeOK, Configs, Tokens, ClientStates, Events, Locations
<1>1. ASSUME NEW c \in Clients, ClientConnects(c) PROVE TypeOK'
  BY <1>1 DEF ClientConnects, Dispatch, Idle
<1>2. ASSUME NEW c \in Clients, ClientAborts(c) PROVE TypeOK'
  BY <1>2 DEF ClientAborts, Dispatch, Idle
<1>3. ASSUME NEW c \in Clients, ClientRetries(c) PROVE TypeOK'
  BY <1>3 DEF ClientRetries, Dispatch, Idle
<1>4. ASSUME NEW c \in Clients, ClientReceives(c) PROVE TypeOK'
  BY <1>4 DEF ClientReceives, Dispatch, Idle
<1>5. ASSUME NEW c \in Clients, OnConnected(c) PROVE TypeOK'
  BY <1>5 DEF OnConnected, Returns
<1>6. ASSUME NEW c \in Clients, OnIdentity(c) PROVE TypeOK'
  <2>1. g_device_info_sent' \in BOOLEAN
    BY <1>6, Zenon DEF OnIdentity, Returns
  <2>2. QED
    BY <1>6, <2>1 DEF OnIdentity, Returns
<1>7. ASSUME NEW c \in Clients, OnDisconnected(c) PROVE TypeOK'
  <2>1. mqtt_connected' \in BOOLEAN /\ g_device_info_sent' \in BOOLEAN
    BY <1>7, Zenon DEF OnDisconnected, Returns
  <2>2. QED
    BY <1>7, <2>1 DEF OnDisconnected, Returns
<1>8. ASSUME NEW c \in Clients, OnData(c) PROVE TypeOK'
  BY <1>8 DEF OnData, Returns
<1>9. CASE Begin
  BY <1>9 DEF Begin
<1>10. CASE DetachClient
  BY <1>10 DEF DetachClient
<1>11. CASE StopAndDestroy
  BY <1>11 DEF StopAndDestroy, AfterStop, Idle
<1>12. CASE NothingToStop
  BY <1>12 DEF NothingToStop, AfterStop
<1>13. CASE CreateFails
  BY <1>13 DEF CreateFails
<1>14. ASSUME NEW c \in Clients, CreateClient(c) PROVE TypeOK'
  BY <1>14 DEF CreateClient
<1>15. CASE StartClient
  BY <1>15 DEF StartClient
<1>16. CASE WindowEnds
  BY <1>16 DEF WindowEnds
<1>17. CASE CountFailure
  BY <1>17 DEF CountFailure, Bump
<1>18. CASE RefreshSucceeds
  <2>1. refresh_ready' \in BOOLEAN
    BY <1>18, Zenon DEF RefreshSucceeds
  <2>2. QED
    BY <1>18, <2>1 DEF RefreshSucceeds
<1>19. CASE RefreshFails
  BY <1>19 DEF RefreshFails
<1>20. CASE Escalate
  BY <1>20 DEF Escalate
<1>21. CASE HardFlags
  <2>1. mqtt_connected' \in BOOLEAN /\ network_ready' \in BOOLEAN
    BY <1>21, Zenon DEF HardFlags
  <2>2. QED
    BY <1>21, <2>1 DEF HardFlags
<1>22. CASE HardStart
  <2>1. recovery_ready' \in BOOLEAN
    BY <1>22, Zenon DEF HardStart
  <2>2. QED
    BY <1>22, <2>1 DEF HardStart
<1>23. CASE QueuePops
  BY <1>23 DEF QueuePops
<1>24. CASE QueueLocks
  BY <1>24 DEF QueueLocks
<1>25. CASE QueuePublishes
  BY <1>25 DEF QueuePublishes, Idle
<1>26. CASE StaDisconnected
  <2>1. mqtt_connected' \in BOOLEAN /\ network_ready' \in BOOLEAN
    BY <1>26, Zenon DEF StaDisconnected
  <2>2. QED
    BY <1>26, <2>1 DEF StaDisconnected
<1>27. CASE StaGotIp
  BY <1>27 DEF StaGotIp
<1>28. CASE RequestReconnect
  BY <1>28 DEF RequestReconnect, Reconnected
<1>29. CASE Configure
  BY <1>29 DEF Configure
<1>30. CASE MaintenanceRefresh
  <2>1. refresh_ready' \in BOOLEAN
    BY <1>30, Zenon DEF MaintenanceRefresh, MaintenanceAttempt
  <2>2. QED
    BY <1>30, <2>1 DEF MaintenanceRefresh, MaintenanceAttempt
<1>31. CASE MaintenanceRefreshFails
  <2>1. refresh_ready' \in BOOLEAN
    BY <1>31, Zenon DEF MaintenanceRefreshFails, MaintenanceAttempt
  <2>2. QED
    BY <1>31, <2>1 DEF MaintenanceRefreshFails, MaintenanceAttempt
<1>32. CASE TokenExpires
  BY <1>32 DEF TokenExpires
<1>33. CASE RefreshCooldownElapses
  BY <1>33 DEF RefreshCooldownElapses
<1>34. CASE RecoveryCooldownElapses
  BY <1>34 DEF RecoveryCooldownElapses
<1>35. CASE UNCHANGED vars
  BY <1>35 DEF vars
<1>36. QED
  BY <1>1, <1>2, <1>3, <1>4, <1>5, <1>6, <1>7, <1>8, <1>9, <1>10, <1>11, <1>12,
     <1>13, <1>14, <1>15, <1>16, <1>17, <1>18, <1>19, <1>20, <1>21, <1>22, <1>23,
     <1>24, <1>25, <1>26, <1>27, <1>28, <1>29, <1>30, <1>31, <1>32, <1>33, <1>34,
     <1>35
  DEF Next, ClientTask, EventHandler, Supervisor, QueueTask, WifiEvents, Environment

\* The boot state is well typed.
LEMMA TypeInit == Init => TypeOK
<1> SUFFICES ASSUME Init PROVE TypeOK
  OBVIOUS
<1> USE DEF Init
<1>1. /\ network_ready \in BOOLEAN /\ mqtt_connected \in BOOLEAN
      /\ g_device_info_sent \in BOOLEAN
      /\ refresh_ready \in BOOLEAN /\ recovery_ready \in BOOLEAN
  BY Zenon
<1>2. cfg \in [access_token : Tokens, refresh_token : BOOLEAN]
  BY DEF Tokens
<1>3. QED
  BY <1>1, <1>2 DEF TypeOK, Configs, Tokens, ClientStates, Events, Locations

\* Every variable keeps its type, the failure counter its bound.
THEOREM TypeCorrect == Spec => []TypeOK
  BY TypeInit, TypeStep, PTL DEF Spec

\* SessionInv is inductive: who owns a client moves between the shared handle
\* and the supervisor's local, and nobody else creates or destroys one.
LEMMA SessionStep == SessionInv /\ [Next]_vars => SessionInv'
<1> SUFFICES ASSUME SessionInv, [Next]_vars, TypeOK' PROVE SessionInv'
  BY TypeStep DEF SessionInv
<1> DEFINE Inv == Owned /\ Handover /\ MutexHeld /\ HandleLive /\ NoCallbackAfterDestroy
<1>1. Inv'
  <2> USE DEF SessionInv, TypeOK, Owned, Handover, MutexHeld, HandleLive,
              NoCallbackAfterDestroy, Live, Idle
  <2>1. ASSUME NEW c \in Clients, ClientConnects(c) PROVE Inv'
    BY <2>1 DEF ClientConnects, Dispatch, Idle
  <2>2. ASSUME NEW c \in Clients, ClientAborts(c) PROVE Inv'
    BY <2>2 DEF ClientAborts, Dispatch, Idle
  <2>3. ASSUME NEW c \in Clients, ClientRetries(c) PROVE Inv'
    BY <2>3 DEF ClientRetries, Dispatch, Idle
  <2>4. ASSUME NEW c \in Clients, ClientReceives(c) PROVE Inv'
    BY <2>4 DEF ClientReceives, Dispatch, Idle
  <2>5. ASSUME NEW c \in Clients, OnConnected(c) PROVE Inv'
    BY <2>5 DEF OnConnected, Returns
  <2>6. ASSUME NEW c \in Clients, OnIdentity(c) PROVE Inv'
    BY <2>6 DEF OnIdentity, Returns
  <2>7. ASSUME NEW c \in Clients, OnDisconnected(c) PROVE Inv'
    BY <2>7 DEF OnDisconnected, Returns
  <2>8. ASSUME NEW c \in Clients, OnData(c) PROVE Inv'
    BY <2>8 DEF OnData, Returns
  <2>9. CASE Begin
    BY <2>9 DEF Begin
  <2>10. CASE DetachClient
    BY <2>10 DEF DetachClient
  <2>11. CASE StopAndDestroy
    BY <2>11 DEF StopAndDestroy, AfterStop, Idle
  <2>12. CASE NothingToStop
    BY <2>12 DEF NothingToStop, AfterStop
  <2>13. CASE CreateFails
    BY <2>13 DEF CreateFails
  <2>14. ASSUME NEW c \in Clients, CreateClient(c) PROVE Inv'
    BY <2>14 DEF CreateClient
  <2>15. CASE StartClient
    BY <2>15 DEF StartClient
  <2>16. CASE WindowEnds
    BY <2>16 DEF WindowEnds
  <2>17. CASE CountFailure
    BY <2>17 DEF CountFailure, Bump
  <2>18. CASE RefreshSucceeds
    BY <2>18 DEF RefreshSucceeds
  <2>19. CASE RefreshFails
    BY <2>19 DEF RefreshFails
  <2>20. CASE Escalate
    BY <2>20 DEF Escalate
  <2>21. CASE HardFlags
    BY <2>21 DEF HardFlags
  <2>22. CASE HardStart
    BY <2>22 DEF HardStart
  <2>23. CASE QueuePops
    BY <2>23 DEF QueuePops
  <2>24. CASE QueueLocks
    BY <2>24 DEF QueueLocks
  <2>25. CASE QueuePublishes
    BY <2>25 DEF QueuePublishes, Idle
  <2>26. CASE StaDisconnected
    BY <2>26 DEF StaDisconnected
  <2>27. CASE StaGotIp
    BY <2>27 DEF StaGotIp
  <2>28. CASE RequestReconnect
    BY <2>28 DEF RequestReconnect, Reconnected
  <2>29. CASE Configure
    BY <2>29 DEF Configure
  <2>30. CASE MaintenanceRefresh
    BY <2>30 DEF MaintenanceRefresh, MaintenanceAttempt
  <2>31. CASE MaintenanceRefreshFails
    BY <2>31 DEF MaintenanceRefreshFails, MaintenanceAttempt
  <2>32. CASE TokenExpires
    BY <2>32 DEF TokenExpires
  <2>33. CASE RefreshCooldownElapses
    BY <2>33 DEF RefreshCooldownElapses
  <2>34. CASE RecoveryCooldownElapses
    BY <2>34 DEF RecoveryCooldownElapses
  <2>35. CASE UNCHANGED vars
    BY <2>35 DEF vars
  <2>36. QED
    BY <2>1, <2>2, <2>3, <2>4, <2>5, <2>6, <2>7, <2>8, <2>9, <2>10, <2>11, <2>12,
       <2>13, <2>14, <2>15, <2>16, <2>17, <2>18, <2>19, <2>20, <2>21, <2>22, <2>23,
       <2>24, <2>25, <2>26, <2>27, <2>28, <2>29, <2>30, <2>31, <2>32, <2>33, <2>34,
       <2>35
    DEF Next, ClientTask, EventHandler, Supervisor, QueueTask, WifiEvents, Environment
<1>2. QED
  BY <1>1 DEF SessionInv

\* The boot state satisfies the session invariant.
LEMMA SessionInit == Init => SessionInv
<1> SUFFICES ASSUME Init PROVE SessionInv
  OBVIOUS
<1>1. TypeOK
  BY TypeInit
<1>2. QED
  BY <1>1 DEF Init, SessionInv, Owned, Handover, MutexHeld, HandleLive,
              NoCallbackAfterDestroy, Live, Idle

\* The session invariant holds in every state.
THEOREM SessionCorrect == Spec => []SessionInv
  BY SessionInit, SessionStep, PTL DEF Spec

\* At most one esp-mqtt client is alive, whatever path tore down the last one.
THEOREM SingleSessionAlways == Spec => []SingleSession
<1>1. SessionInv => SingleSession
  BY DEF SessionInv, TypeOK, Owned, Handover, SingleSession
<1>2. QED
  BY <1>1, SessionCorrect, PTL

\* The shared handle is null or that of a live client, also during a publish.
THEOREM HandleAlwaysLive == Spec => []HandleLive
<1>1. SessionInv => HandleLive
  BY DEF SessionInv
<1>2. QED
  BY <1>1, SessionCorrect, PTL

\* mqtt_event_handler never runs for a destroyed client.
THEOREM CallbacksStop == Spec => []NoCallbackAfterDestroy
<1>1. SessionInv => NoCallbackAfterDestroy
  BY DEF SessionInv
<1>2. QED
  BY <1>1, SessionCorrect, PTL

\* If a client can always be created, a stale online flag without a client is
\* only ever seen inside a teardown.
LEMMA OnlineStep ==
  ASSUME ~ResourcesMayFail
  PROVE  SessionInv /\ OnlineInv /\ [Next]_vars => OnlineInv'
<1> SUFFICES ASSUME SessionInv, OnlineInv, [Next]_vars PROVE OnlineInv'
  OBVIOUS
<1> USE DEF SessionInv, TypeOK, Owned, Handover, NoCallbackAfterDestroy,
            OnlineInv, Live, Idle
<1>1. ASSUME NEW c \in Clients, ClientConnects(c) PROVE OnlineInv'
  BY <1>1 DEF ClientConnects, Dispatch, Idle
<1>2. ASSUME NEW c \in Clients, ClientAborts(c) PROVE OnlineInv'
  BY <1>2 DEF ClientAborts, Dispatch, Idle
<1>3. ASSUME NEW c \in Clients, ClientRetries(c) PROVE OnlineInv'
  BY <1>3 DEF ClientRetries, Dispatch, Idle
<1>4. ASSUME NEW c \in Clients, ClientReceives(c) PROVE OnlineInv'
  BY <1>4 DEF ClientReceives, Dispatch, Idle
<1>5. ASSUME NEW c \in Clients, OnConnected(c) PROVE OnlineInv'
  BY <1>5 DEF OnConnected, Returns
<1>6. ASSUME NEW c \in Clients, OnIdentity(c) PROVE OnlineInv'
  BY <1>6 DEF OnIdentity, Returns
<1>7. ASSUME NEW c \in Clients, OnDisconnected(c) PROVE OnlineInv'
  BY <1>7 DEF OnDisconnected, Returns
<1>8. ASSUME NEW c \in Clients, OnData(c) PROVE OnlineInv'
  BY <1>8 DEF OnData, Returns
<1>9. CASE Begin
  BY <1>9 DEF Begin
<1>10. CASE DetachClient
  BY <1>10 DEF DetachClient
<1>11. CASE StopAndDestroy
  BY <1>11 DEF StopAndDestroy, AfterStop, Idle
<1>12. CASE NothingToStop
  BY <1>12 DEF NothingToStop, AfterStop
<1>13. CASE CreateFails
  BY <1>13 DEF CreateFails
<1>14. ASSUME NEW c \in Clients, CreateClient(c) PROVE OnlineInv'
  BY <1>14 DEF CreateClient
<1>15. CASE StartClient
  BY <1>15 DEF StartClient
<1>16. CASE WindowEnds
  BY <1>16 DEF WindowEnds
<1>17. CASE CountFailure
  BY <1>17 DEF CountFailure, Bump
<1>18. CASE RefreshSucceeds
  BY <1>18 DEF RefreshSucceeds
<1>19. CASE RefreshFails
  BY <1>19 DEF RefreshFails
<1>20. CASE Escalate
  BY <1>20 DEF Escalate
<1>21. CASE HardFlags
  BY <1>21 DEF HardFlags
<1>22. CASE HardStart
  BY <1>22 DEF HardStart
<1>23. CASE QueuePops
  BY <1>23 DEF QueuePops
<1>24. CASE QueueLocks
  BY <1>24 DEF QueueLocks
<1>25. CASE QueuePublishes
  BY <1>25 DEF QueuePublishes, Idle
<1>26. CASE StaDisconnected
  BY <1>26 DEF StaDisconnected
<1>27. CASE StaGotIp
  BY <1>27 DEF StaGotIp
<1>28. CASE RequestReconnect
  BY <1>28 DEF RequestReconnect, Reconnected
<1>29. CASE Configure
  BY <1>29 DEF Configure
<1>30. CASE MaintenanceRefresh
  BY <1>30 DEF MaintenanceRefresh, MaintenanceAttempt
<1>31. CASE MaintenanceRefreshFails
  BY <1>31 DEF MaintenanceRefreshFails, MaintenanceAttempt
<1>32. CASE TokenExpires
  BY <1>32 DEF TokenExpires
<1>33. CASE RefreshCooldownElapses
  BY <1>33 DEF RefreshCooldownElapses
<1>34. CASE RecoveryCooldownElapses
  BY <1>34 DEF RecoveryCooldownElapses
<1>35. CASE UNCHANGED vars
  BY <1>35 DEF vars
<1>36. QED
  BY <1>1, <1>2, <1>3, <1>4, <1>5, <1>6, <1>7, <1>8, <1>9, <1>10, <1>11, <1>12,
     <1>13, <1>14, <1>15, <1>16, <1>17, <1>18, <1>19, <1>20, <1>21, <1>22, <1>23,
     <1>24, <1>25, <1>26, <1>27, <1>28, <1>29, <1>30, <1>31, <1>32, <1>33, <1>34,
     <1>35
  DEF Next, ClientTask, EventHandler, Supervisor, QueueTask, WifiEvents, Environment

\* The supervisor never rests on an online flag that no client can clear.
THEOREM OnlineAlwaysBacked ==
  ASSUME ~ResourcesMayFail
  PROVE  Spec => []OnlineNeedsClient
<1>1. Init => OnlineInv
  BY DEF Init, OnlineInv
<1>2. OnlineInv => OnlineNeedsClient
  BY DEF OnlineInv, OnlineNeedsClient
<1>3. SessionInv /\ OnlineInv /\ [Next]_vars => OnlineInv'
  BY OnlineStep
<1>4. QED
  BY <1>1, <1>2, <1>3, SessionCorrect, PTL DEF Spec
=============================================================================
