------------------------ MODULE NimBLEExtAdvertising ------------------------
(***************************************************************************)
(* Extended advertising of esp-nimble-cpp (NimBLEExtAdvertising.cpp): the  *)
(* instances an application sets, starts, stops and removes, and the       *)
(* library's record of which of them are active, which the application's   *)
(* task and the host's task both write.                                    *)
(*                                                                         *)
(* The host (external) keeps an instance's parameters and data until it is *)
(* removed or the host resets, refuses to configure one that is on air,    *)
(* and tells when advertising ends by itself: after it has ended.          *)
(*                                                                         *)
(* The file is compiled with CONFIG_BT_NIMBLE_EXT_ADV only, which this     *)
(* firmware's sdkconfig leaves off.                                        *)
(***************************************************************************)
EXTENDS TLC, Functions

CONSTANTS Instances, NoInstance

ASSUME ExtAdvertisingAssumption == NoInstance \notin Instances

\* Of an advertisement's settings, those that decide where its data go.
Params == [legacy_pdu : BOOLEAN, connectable : BOOLEAN, scannable : BOOLEAN]

VARIABLES
  ext_synced,
  m_advStatus,           \* the instances the library takes to be active
  configured,            \* the host's: instance -> its data, "none", "adv" or "rsp"
  advertises,                \* instances that advertise
  starting,              \* start is between the host's call and its mark
  ending,                \* the host's task is about to tell that this one ended
  crossed                \* instances whose start and end met

ext_advertising == <<ext_synced, m_advStatus, configured, advertises, starting, ending, crossed>>

ExtAdvertisingInit ==
  /\ ext_synced = TRUE /\ m_advStatus = {} /\ advertises = {} /\ crossed = {}
  /\ configured = [i \in {} |-> "none"]
  /\ starting = NoInstance /\ ending = NoInstance

-----------------------------------------------------------------------------
(* The application's task *)

NotStarting == starting = NoInstance

\* A legacy connectable one is scannable too.
Scannable(p) == p.scannable \/ (p.legacy_pdu /\ p.connectable)

\* The data of a scannable one that is not legacy are its scan response.
Data(p) == IF Scannable(p) /\ ~p.legacy_pdu THEN "rsp" ELSE "adv"

\* Configured, then given its data, and an address; each call may fail, and what was done
\* before stays.
setInstanceData(i, p) ==
  /\ NotStarting
  /\ \/ UNCHANGED configured
     \/ /\ ext_synced /\ i \notin advertises
        /\ \E data \in {"none", Data(p)} : configured' = (i :> data) @@ configured
  /\ UNCHANGED <<ext_synced, m_advStatus, advertises, starting, ending, crossed>>

\* A legacy one's, beside its data; the host takes none of one that is not scannable.
setExtScanResponseData(i) ==
  /\ NotStarting /\ ext_synced /\ i \in DOMAIN configured
  /\ configured' = [configured EXCEPT ![i] = IF @ = "none" THEN "rsp" ELSE @]
  /\ UNCHANGED <<ext_synced, m_advStatus, advertises, starting, ending, crossed>>

\* The host takes it, also when it is on air already.
StartAsks(i) ==
  /\ NotStarting /\ ext_synced /\ i \in DOMAIN configured
  /\ advertises' = advertises \cup {i} /\ starting' = i
  /\ crossed' = IF i = ending THEN crossed \cup {i} ELSE crossed \ {i}
  /\ UNCHANGED <<ext_synced, m_advStatus, configured, ending>>

StartMarks ==
  /\ starting # NoInstance
  /\ m_advStatus' = m_advStatus \cup {starting} /\ starting' = NoInstance
  /\ UNCHANGED <<ext_synced, configured, advertises, ending, crossed>>

\* removeInstance takes the configuration too.
stopInstance(i, removes) ==
  /\ NotStarting /\ ext_synced
  /\ advertises' = advertises \ {i} /\ m_advStatus' = m_advStatus \ {i} /\ crossed' = crossed \ {i}
  /\ configured' = IF removes THEN Restrict(configured, DOMAIN configured \ {i}) ELSE configured
  /\ UNCHANGED <<ext_synced, starting, ending>>

\* Mutant: the loop sets copies of the flags.
ClearsCopies ==
  /\ NotStarting /\ ext_synced
  /\ advertises' = {} /\ configured' = [i \in {} |-> "none"]
  /\ crossed' = {}
  /\ UNCHANGED <<ext_synced, m_advStatus, starting, ending>>

\* Also removeAll, whose second clear finds nothing.  The host may refuse while one is on
\* air.  The loop assigns to what looks like a copy and is the flag itself: a vector<bool>.
stopAll ==
  /\ NotStarting /\ ext_synced
  /\ advertises' = {} /\ configured' = [i \in {} |-> "none"]
  /\ m_advStatus' = {} /\ crossed' = {}
  /\ UNCHANGED <<ext_synced, starting, ending>>

-----------------------------------------------------------------------------
(* The host's task *)

\* The duration, the number of events, or a connection.
SetEnds(i) ==
  /\ ending = NoInstance /\ i \in advertises
  /\ advertises' = advertises \ {i} /\ ending' = i
  /\ crossed' = IF i = starting THEN crossed \cup {i} ELSE crossed
  /\ UNCHANGED <<ext_synced, m_advStatus, configured, starting>>

\* ADV_COMPLETE, and onStopped.
EndTold ==
  /\ ending # NoInstance
  /\ m_advStatus' = m_advStatus \ {ending} /\ ending' = NoInstance
  /\ UNCHANGED <<ext_synced, configured, advertises, starting, crossed>>

\* ADV_COMPLETE with a reset's reason: the flags stay until the host is in sync again.
ExtHostResets ==
  /\ ext_synced /\ ending = NoInstance
  /\ ext_synced' = FALSE
  /\ advertises' = {} /\ configured' = [i \in {} |-> "none"]
  /\ crossed' = IF NotStarting THEN crossed ELSE crossed \cup {starting}
  /\ UNCHANGED <<m_advStatus, starting, ending>>

\* What was active is not started again.
onExtHostSync ==
  /\ ~ext_synced
  /\ ext_synced' = TRUE /\ m_advStatus' = {}
  /\ UNCHANGED <<configured, advertises, starting, ending, crossed>>

ExtAdvertisingNext ==
  \/ \E i \in Instances, p \in Params : setInstanceData(i, p)
  \/ \E i \in Instances : \/ setExtScanResponseData(i) \/ StartAsks(i)
                          \/ \E removes \in BOOLEAN : stopInstance(i, removes)
                          \/ SetEnds(i)
  \/ StartMarks \/ stopAll \/ EndTold \/ ExtHostResets \/ onExtHostSync

ExtAdvertisingSpec == ExtAdvertisingInit /\ [][ExtAdvertisingNext]_ext_advertising

-----------------------------------------------------------------------------
(* Properties *)

\* isActive and isAdvertising tell what is on air, through starts, stops, removals, ends,
\* connections and host resets, except of an instance whose start met its own end: there
\* the two tasks write the flag in the wrong order, and it stays wrong until the next start
\* or stop.
StatusIsTrue ==
  ext_synced /\ NotStarting =>
    \A i \in Instances \ (crossed \cup {ending}) : i \in m_advStatus <=> i \in advertises
=============================================================================
