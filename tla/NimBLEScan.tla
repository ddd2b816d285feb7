----------------------------- MODULE NimBLEScan -----------------------------
(***************************************************************************)
(* Scanning (NimBLEScan.cpp): a task that blocks in getResults, another    *)
(* one (or a callback) that starts, stops and clears, and the host's task, *)
(* which reports advertisements and the end of a scan.  A device is kept   *)
(* until it was reported, or longer, as m_maxResults says.                 *)
(*                                                                         *)
(* The host (external) ends a timed scan, and reports the end of any scan  *)
(* when it resets.  Assumed of the application, as the code does not lock  *)
(* what it keeps while an event is handled: it stops and clears between    *)
(* two events.                                                             *)
(***************************************************************************)
EXTENDS Naturals, FiniteSets

CONSTANTS Advertisers, MaxResults     \* the values given to setMaxResults
Unlimited == 255

ASSUME MaxResultsAssumption == MaxResults \subseteq 0 .. Unlimited

VARIABLES
  m_maxResults, passive,
  found,             \* m_deviceVec: of each device isScannable and m_callbackSent (at most 2)
  scan_task,         \* m_pTaskData: a task is in getResults
  getting,           \* its step
  scan_notified,     \* TASK_BLOCK_BIT of the task
  discovering        \* the host's scan: "off", "timed", "forever"

settings == <<m_maxResults, passive>>
scan == <<settings, found, scan_task, getting, scan_notified, discovering>>

NoResults == [d \in {} |-> 0]

ScanInit ==
  /\ m_maxResults = Unlimited /\ passive = FALSE
  /\ found = NoResults /\ scan_task = FALSE /\ getting = "idle" /\ scan_notified = FALSE
  /\ discovering = "off"

isScanning == discovering # "off"

-----------------------------------------------------------------------------
(* start and stop, called by whichever task *)

\* Mutant: a task that waits in getResults is not told of a stop.
StoppedQuietly(clears) ==
  /\ found' = IF clears \/ m_maxResults = 0 THEN NoResults ELSE found
  /\ UNCHANGED scan_notified

\* The end of a scan that a task cancelled.
Stopped(clears) ==
  /\ found' = IF clears \/ m_maxResults = 0 THEN NoResults ELSE found
  /\ scan_notified' = (scan_notified \/ scan_task)

stop ==
  /\ Stopped(FALSE) /\ discovering' = "off"
  /\ UNCHANGED <<settings, scan_task, getting>>

\* A scan in progress is stopped first, if it can be, or goes on as it is; when the host
\* refuses the next one there is none.
startScan(length, isContinue, restart, started) ==
  \/ /\ isScanning /\ restart /\ Stopped(~isContinue)
     /\ discovering' = IF started THEN length ELSE "off"
  \/ /\ isScanning /\ started # restart
     /\ UNCHANGED <<found, scan_notified, discovering>>
  \/ /\ ~isScanning /\ found' = IF isContinue THEN found ELSE NoResults
     /\ discovering' = IF started THEN length ELSE "off"
     /\ UNCHANGED scan_notified

Start(length, isContinue, restart, started) ==
  /\ startScan(length, isContinue, restart, started)
  /\ UNCHANGED <<settings, scan_task, getting>>

-----------------------------------------------------------------------------
(* getResults, for a limited time *)

\* With another task's data there the results are returned as they are.
getResults ==
  /\ getting = "idle" /\ ~scan_task
  /\ scan_task' = TRUE /\ getting' = "start"
  /\ UNCHANGED <<settings, found, scan_notified, discovering>>

\* A scan that cannot be stopped, or not be started, is not waited for.
GetResultsStarts(isContinue, started) ==
  /\ getting = "start"
  /\ startScan("timed", isContinue, TRUE, started)
  /\ getting' = IF started THEN "wait" ELSE "return"
  /\ UNCHANGED <<settings, scan_task>>

\* The bit may have been set by the stop of its own start.
GetResultsWakes ==
  /\ getting = "wait" /\ scan_notified
  /\ scan_notified' = FALSE /\ getting' = "return"
  /\ UNCHANGED <<settings, found, scan_task, discovering>>

GetResultsReturns ==
  /\ getting = "return" /\ getting' = "idle" /\ scan_task' = FALSE
  /\ UNCHANGED <<settings, found, scan_notified, discovering>>

-----------------------------------------------------------------------------
(* The application between two events *)

clearResults ==
  /\ found' = NoResults
  /\ UNCHANGED <<settings, scan_task, getting, scan_notified, discovering>>

WithoutDevices(devices) == [d \in DOMAIN found \ devices |-> found[d]]

erase(d) ==
  /\ d \in DOMAIN found /\ found' = WithoutDevices({d})
  /\ UNCHANGED <<settings, scan_task, getting, scan_notified, discovering>>

setMaxResults ==
  /\ m_maxResults' \in MaxResults
  /\ UNCHANGED <<passive, found, scan_task, getting, scan_notified, discovering>>

setActiveScan ==
  /\ passive' = ~passive
  /\ UNCHANGED <<m_maxResults, found, scan_task, getting, scan_notified, discovering>>

-----------------------------------------------------------------------------
(* handleGapEvent *)

\* The type of a device is that of its first event, and a scan response makes a new
\* device, if it comes first; an advertisement is new data that has to be reported.
Seen(d, scannable, response) ==
  CASE d \notin DOMAIN found -> [scannable |-> scannable /\ ~response, sent |-> 0]
    [] d \in DOMAIN found /\ response -> found[d]
    [] OTHER -> [found[d] EXCEPT !.sent = 0]

\* onResult is called now, or with the scan response.
Reported(device, response) ==
  [device EXCEPT !.sent = IF passive \/ ~device.scannable \/ response THEN 2
                          ELSE IF @ = 0 THEN 1 ELSE @]

HasRoom == m_maxResults \in {0, Unlimited} \/ Cardinality(DOMAIN found) < m_maxResults

Discovered(d, scannable, response) ==
  /\ isScanning /\ (d \in DOMAIN found \/ HasRoom)
  /\ LET device == Reported(Seen(d, scannable, response), response)
     IN found' = IF m_maxResults = 0 /\ device.sent = 2
                   THEN WithoutDevices({d})
                   ELSE [a \in DOMAIN found \cup {d} |-> IF a = d THEN device ELSE found[a]]
  /\ UNCHANGED <<settings, scan_task, getting, scan_notified, discovering>>

\* BLE_GAP_EVENT_DISC_COMPLETE: the time is over, or the host resets.
DiscComplete ==
  /\ isScanning /\ discovering' = "off"
  /\ Stopped(FALSE)
  /\ UNCHANGED <<settings, scan_task, getting>>

ScanNext ==
  \/ stop
  \/ \E l \in {"timed", "forever"}, c \in BOOLEAN, r \in BOOLEAN, ok \in BOOLEAN :
       Start(l, c, r, ok)
  \/ getResults \/ GetResultsWakes \/ GetResultsReturns
  \/ \E c \in BOOLEAN, ok \in BOOLEAN : GetResultsStarts(c, ok)
  \/ clearResults \/ setMaxResults \/ setActiveScan
  \/ \E d \in Advertisers : erase(d)
  \/ \E d \in Advertisers, s \in BOOLEAN, r \in BOOLEAN : Discovered(d, s, r)
  \/ DiscComplete

\* The task that waits is scheduled, and a timed scan ends.
Getting ==
  \/ GetResultsWakes \/ GetResultsReturns
  \/ \E c \in BOOLEAN, ok \in BOOLEAN : GetResultsStarts(c, ok)
TimeIsOver == discovering = "timed" /\ DiscComplete
ScanFairness == WF_scan(Getting) /\ WF_scan(TimeIsOver)

ScanSpec == ScanInit /\ [][ScanNext]_scan /\ ScanFairness

-----------------------------------------------------------------------------
(* Properties *)

\* getResults(duration) comes back, whoever stops, restarts or prolongs its scan while
\* the task waits: its task data are there before the scan can end.
BlockingScanReturns == getting = "start" ~> getting = "idle"
=============================================================================
