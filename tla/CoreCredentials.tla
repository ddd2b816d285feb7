--------------------------- MODULE CoreCredentials ---------------------------
(***************************************************************************)
(* The credentials of the device over CoreStorage: the maintenance task    *)
(* and the reconnect supervisor refresh the token, the BLE worker          *)
(* provisions, a short task refetches the remote configuration, and the    *)
(* factory reset clears everything.  Each reads the configuration under    *)
(* config_mutex, talks HTTP without it, and stores the answer under it.    *)
(*                                                                         *)
(* A field is abstracted to the number of the grant it came from (tokens)  *)
(* or to 1 when it is present; "url" stands for the endpoints that         *)
(* SERVER_DATA and the remote configuration set together, "device_code"    *)
(* for device_code, user_code and verification_url.  No task here writes   *)
(* namespace "wifi".  Expiry is not timed: a refresh may be due any time.  *)
(***************************************************************************)
EXTENDS CoreStorage, Naturals, FiniteSets

CONSTANT MaxGrants             \* bound on the grants of the cloud

Refreshers == {"maint", "recon"}

ASSUME CredentialsAssumption ==
  /\ MaxGrants \in Nat \ {0}
  /\ Tasks = Refreshers \cup {"ble", "cfg", "button"}
  /\ CoreFields = {"url", "device_code", "access_token", "refresh_token"}
  /\ Values = 0..MaxGrants /\ Empty = 0

VARIABLES
  pc,               \* where a task is
  command,          \* what ble_rx_task is executing
  took,             \* the refresh token in the request of a task
  answer,           \* the fields its response sets, Unset for the others
  cooling,          \* last_token_refresh_attempt_us is less than the cooldown ago
  grants, honoured, \* the cloud: grants issued, refresh tokens it still accepts
  burst,            \* history: refresh requests of this cooldown window
  lost,             \* history: the cloud's last rotation may be unknown here
  undisturbed       \* history: no request in flight at the reset, no BLE write since

requests == <<pc, command, took, answer>>
cloud == <<grants, honoured>>
history == <<burst, lost, undisturbed>>
vars == <<storage, requests, cooling, cloud, history>>

Commands == {"none", "SERVER_DATA", "GET_TOKEN", "CHECK_AUTH"}
Places == {"idle", "due", "wait", "ask", "http", "got", "save", "restart"}

NoAnswer == [f \in CoreFields |-> Unset]

\* A response is kept no longer than the call that asked for it.
TypeOK ==
  /\ StorageTypeOK
  /\ pc \in [Tasks -> Places] /\ command \in Commands
  /\ took \in [Tasks -> Values]
  /\ answer \in [Tasks -> [CoreFields -> Values \cup {Unset}]]
  /\ \A t \in Tasks : pc[t] # "got" => answer[t] = NoAnswer
  /\ cooling \in BOOLEAN /\ grants \in Values /\ honoured \subseteq 1..grants
  /\ burst \in Nat /\ lost \in BOOLEAN /\ undisturbed \in BOOLEAN

job(t) == CASE t \in Refreshers -> "refresh"
            [] t = "ble" -> command
            [] t = "cfg" -> "config"
            [] OTHER -> "reset"

Init ==
  /\ StorageInit
  /\ pc = [t \in Tasks |-> "idle"] /\ command = "none"
  /\ took = [t \in Tasks |-> Empty] /\ answer = [t \in Tasks |-> NoAnswer]
  /\ cooling = FALSE /\ grants = 0 /\ honoured = {}
  /\ burst = 0 /\ lost = FALSE /\ undisturbed = FALSE

Goto(t, place) ==
  /\ pc' = [pc EXCEPT ![t] = place]
  /\ command' = IF t = "ble" /\ place = "idle" THEN "none" ELSE command

\* ble_rx_task takes the next payload from its queue.
Begins(c) ==
  /\ pc["ble"] = "idle"
  /\ command' = c

\* The wait loops of GET_TOKEN and CHECK_AUTH ignore what a request returns.
Waiting(t) == job(t) \in {"GET_TOKEN", "CHECK_AUTH"}
Return(t) ==
  /\ Goto(t, IF Waiting(t) THEN "wait" ELSE "idle")
  /\ took' = [took EXCEPT ![t] = Empty] /\ answer' = [answer EXCEPT ![t] = NoAnswer]

Unlocked == config_mutex = NoTask
Has(field) == config[field] # Empty

-----------------------------------------------------------------------------
(* Who starts a request *)

\* maintenance_task works on a copy of the configuration, and leaves a device
\* that is still to be authorised to BLE; the supervisor refreshes when its
\* sessions fail, on a copy that may be older.  Both read the time stamp first
\* and write it in a later step.
ChecksCooldown(t) ==
  /\ t \in Refreshers /\ pc[t] = "idle"
  /\ t = "maint" => /\ Unlocked /\ Has("refresh_token")
                    /\ Has("access_token") \/ ~Has("url")
  /\ ~cooling
  /\ Goto(t, "due")
  /\ UNCHANGED <<storage, took, answer, cooling, cloud, history>>

\* Mutant: only a success is stamped.
StampsNothing(t) ==
  /\ pc[t] = "due"
  /\ Goto(t, "ask")
  /\ UNCHANGED <<storage, took, answer, cooling, cloud, history>>

StampsAttempt(t) ==
  /\ pc[t] = "due"
  /\ cooling' = TRUE
  /\ Goto(t, "ask")
  /\ UNCHANGED <<storage, took, answer, cloud, history>>

\* 30 s are long for the few instructions between the check and the request.
CooldownElapses ==
  /\ cooling /\ \A t \in Refreshers : pc[t] \notin {"due", "ask"}
  /\ cooling' = FALSE /\ burst' = 0
  /\ UNCHANGED <<storage, requests, cloud, lost, undisturbed>>

\* maintenance_task starts config_refresh_task.
StartsConfigRefresh ==
  /\ pc["cfg"] = "idle" /\ Unlocked /\ Has("url")
  /\ Goto("cfg", "ask")
  /\ UNCHANGED <<storage, took, answer, cooling, cloud, history>>

-----------------------------------------------------------------------------
(* One request: perform_token_refresh, perform_token_exchange,               *)
(* perform_device_code_exchange and fetch_and_store_remote_config            *)

Needs(t) == CASE job(t) = "refresh" -> {"url", "refresh_token"}
              [] job(t) = "CHECK_AUTH" -> {"url", "device_code"}
              [] OTHER -> {"url"}

\* Reads the configuration under the mutex and sends the request, if there is
\* anything to send.
Asks(t) ==
  /\ pc[t] = "ask" /\ Unlocked
  /\ IF \A field \in Needs(t) : Has(field)
       THEN /\ Goto(t, "http")
            /\ took' = [took EXCEPT ![t] =
                          IF job(t) = "refresh" THEN config["refresh_token"] ELSE Empty]
            /\ burst' = IF job(t) = "refresh" THEN burst + 1 ELSE burst
            /\ UNCHANGED answer
       ELSE Return(t) /\ UNCHANGED burst
  /\ UNCHANGED <<storage, cooling, cloud, lost, undisturbed>>

\* No connection, a timeout before the cloud acted, an error status, no JSON.
RequestFails(t) ==
  /\ pc[t] = "http"
  /\ Return(t)
  /\ UNCHANGED <<storage, cooling, cloud, history>>

Answers(t, fields) ==
  /\ Goto(t, "got")
  /\ answer' = [answer EXCEPT ![t] = fields]
  /\ UNCHANGED took

\* The fields that each answer sets.
Tokens(refresh) ==
  [NoAnswer EXCEPT !["access_token"] = 1, !["refresh_token"] = refresh]

DeviceCode == [NoAnswer EXCEPT !["device_code"] = 1]
RemoteConfig == [NoAnswer EXCEPT !["url"] = 1]

NewGrant == grants < MaxGrants /\ grants' = grants + 1

\* The cloud replaces the refresh token it was given, or leaves it valid; its
\* answer arrives, or the request times out after all.
CloudRefreshes(t) ==
  /\ pc[t] = "http" /\ job(t) = "refresh" /\ took[t] \in honoured
  /\ NewGrant
  /\ \/ /\ honoured' = (honoured \ {took[t]}) \cup {grants'}
        /\ \/ /\ Answers(t, Tokens(grants'))
              /\ UNCHANGED lost
           \/ Return(t) /\ lost' = TRUE
     \/ /\ UNCHANGED <<honoured, lost>>
        /\ Answers(t, Tokens(Unset))
  /\ UNCHANGED <<storage, cooling, burst, undisturbed>>

\* The user authorised the device code.
CloudAuthorises(t) ==
  /\ pc[t] = "http" /\ job(t) = "CHECK_AUTH"
  /\ NewGrant
  /\ honoured' = honoured \cup {grants'}
  /\ Answers(t, Tokens(grants'))
  /\ UNCHANGED <<storage, cooling, history>>

CloudDescribes(t) ==
  /\ pc[t] = "http" /\ job(t) \in {"GET_TOKEN", "config"}
  /\ Answers(t, IF job(t) = "config" THEN RemoteConfig ELSE DeviceCode)
  /\ UNCHANGED <<storage, cooling, cloud, history>>

TokenJob(t) == job(t) \in {"refresh", "CHECK_AUTH"}

\* Mutant: a refresh token is only taken over when there is none.
MergedOnce(fields) ==
  [f \in Fields |-> IF /\ f \in CoreFields /\ fields[f] # Unset
                       /\ f = "refresh_token" => config[f] = Empty
                     THEN fields[f] ELSE config[f]]

Merged(fields) ==
  [f \in Fields |-> IF f \in CoreFields /\ fields[f] # Unset THEN fields[f] ELSE config[f]]

\* Mutant: the answer is stored in RAM and not saved.
StoresInRam(t) ==
  /\ pc[t] = "got" /\ Unlocked
  /\ config' = Merged(answer[t])
  /\ cooling' = (cooling \/ TokenJob(t))
  /\ lost' = (lost /\ answer[t]["refresh_token"] = Unset)
  /\ Return(t)
  /\ UNCHANGED <<config_mutex, flash, pending, step, sound, clean, cloud, burst, undisturbed>>

\* Stores the answer under the mutex; a token answer stamps the time as well.
Stores(t) ==
  /\ pc[t] = "got"
  /\ config' = Merged(answer[t])
  /\ Change(t)
  /\ cooling' = (cooling \/ TokenJob(t))
  /\ lost' = (lost /\ answer[t]["refresh_token"] = Unset)
  /\ Goto(t, "save")
  /\ took' = [took EXCEPT ![t] = Empty] /\ answer' = [answer EXCEPT ![t] = NoAnswer]
  /\ UNCHANGED <<cloud, burst, undisturbed>>

\* save_runtime_config; its result matters to no request.
Saves(t) ==
  /\ pc[t] = "save"
  /\ save_runtime_config(t)
  /\ IF step'[t] # "idle" THEN UNCHANGED <<pc, command>>
     ELSE Goto(t, CASE Waiting(t) -> "wait"
                    [] job(t) = "reset" -> "restart"
                    [] OTHER -> "idle")
  /\ UNCHANGED <<took, answer, cooling, cloud, history>>

-----------------------------------------------------------------------------
(* BLE provisioning: ble_rx_task, one command at a time *)

\* SERVER_DATA
BleWrites ==
  /\ Begins("SERVER_DATA")
  /\ config' = [config EXCEPT !["url"] = 1]
  /\ Change("ble")
  /\ pc' = [pc EXCEPT !["ble"] = "save"]
  /\ undisturbed' = FALSE
  /\ UNCHANGED <<took, answer, cooling, cloud, burst, lost>>

BleWaits(c) ==
  /\ Begins(c)
  /\ pc' = [pc EXCEPT !["ble"] = "wait"]
  /\ UNCHANGED <<storage, took, answer, cooling, cloud, history>>

\* wait_for_device_code returns at once when there is a code, of whatever age;
\* wait_for_access_token likewise, and CHECK_AUTH then restarts the device.
Awaited == IF command = "GET_TOKEN" THEN "device_code" ELSE "access_token"

WaitEnds ==
  /\ pc["ble"] = "wait" /\ Unlocked
  /\ Goto("ble", IF Has(Awaited) /\ command = "CHECK_AUTH" THEN "restart" ELSE "idle")
  /\ UNCHANGED <<storage, took, answer, cooling, cloud, history>>

WaitAsks ==
  /\ pc["ble"] = "wait" /\ Unlocked /\ ~Has(Awaited)
  /\ command = "CHECK_AUTH" => Has("device_code") /\ Has("url")
  /\ Goto("ble", "ask")
  /\ UNCHANGED <<storage, took, answer, cooling, cloud, history>>

-----------------------------------------------------------------------------
(* Factory reset (the button, or the reset command) and restarts *)

InFlight == \E t \in Tasks : pc[t] \in {"http", "got"}

\* Mutant: only RAM is cleared before the restart.
ClearsRam ==
  /\ pc["button"] = "idle" /\ Unlocked
  /\ config' = Blank
  /\ Goto("button", "restart")
  /\ undisturbed' = ~InFlight
  /\ UNCHANGED <<config_mutex, flash, pending, step, sound, clean, took, answer, cooling, cloud,
                 burst, lost>>

clear_runtime_credentials ==
  /\ pc["button"] = "idle"
  /\ config' = Blank
  /\ Change("button")
  /\ Goto("button", "save")
  /\ undisturbed' = ~InFlight
  /\ UNCHANGED <<took, answer, cooling, cloud, burst, lost>>

\* safe_restart, or a power loss at any moment.
Restarts ==
  /\ Restart
  /\ lost' = (lost \/ ~clean \/ \E t \in Tasks : TokenJob(t) /\ pc[t] \in {"got", "save"})
  /\ pc' = [t \in Tasks |-> "idle"] /\ command' = "none"
  /\ took' = [t \in Tasks |-> Empty] /\ answer' = [t \in Tasks |-> NoAnswer]
  /\ cooling' = FALSE /\ burst' = 0 /\ undisturbed' = FALSE
  /\ UNCHANGED cloud

Next ==
  \/ \E t \in Refreshers : ChecksCooldown(t) \/ StampsAttempt(t)
  \/ CooldownElapses \/ StartsConfigRefresh
  \/ \E t \in Tasks :
       \/ Asks(t) \/ RequestFails(t) \/ Stores(t) \/ Saves(t)
       \/ CloudRefreshes(t) \/ CloudAuthorises(t) \/ CloudDescribes(t)
  \/ BleWrites
  \/ BleWaits("GET_TOKEN") \/ BleWaits("CHECK_AUTH")
  \/ WaitEnds \/ WaitAsks
  \/ clear_runtime_credentials \/ Restarts

Spec == Init /\ [][Next]_vars

-----------------------------------------------------------------------------
(* Properties *)

\* Concurrency alone never costs the device its credentials: as long as no
\* rotation was lost with an answer or a restart, the refresh token in RAM is
\* one the cloud accepts, or its replacement is on the way to a task.
Brings(t) == pc[t] = "got" /\ answer[t]["refresh_token"] # Unset
Usable(token) ==
  \/ token \in honoured \cup {Empty}
  \/ lost
  \/ \E t \in Refreshers : Brings(t) /\ took[t] = token

RefreshTokenHonoured == Usable(config["refresh_token"])

\* Two tasks that check one cooldown cannot ask more often than once each in it.
RefreshBurst == burst <= Cardinality(Refreshers)

\* A factory reset that no request and no BLE write overlaps is one for good:
\* whatever the other tasks are about to do, the device boots with nothing.
ResetHolds ==
  [][(/\ pc["button"] = "restart" /\ pc'["button"] = "idle"
      /\ undisturbed /\ clean /\ clean') => config' = Blank]_vars

-----------------------------------------------------------------------------
(* The inductive invariant behind RefreshTokenHonoured *)

InSave == \A t \in Tasks : pc[t] = "save" <=> step[t] # "idle"

\* Every refresh token about is one the cloud has issued.
Issued ==
  /\ config["refresh_token"] <= grants /\ flash["refresh_token"] <= grants
  /\ \A t \in Tasks : took[t] <= grants

\* A token still to be stored is known to its task alone, hence not used up.
FreshAnswers ==
  \A t \in Tasks : Brings(t) =>
    /\ TokenJob(t)
    /\ answer[t]["refresh_token"] \in honoured
    /\ answer[t]["refresh_token"] # config["refresh_token"]
    /\ \A u \in Tasks :
         /\ took[u] # answer[t]["refresh_token"]
         /\ Brings(u) /\ u # t => answer[u]["refresh_token"] # answer[t]["refresh_token"]

\* What a restart would load is usable too, unless a token is still being saved.
SavedToken ==
  (clean /\ \A t \in Tasks : TokenJob(t) => pc[t] # "save")
    => Usable(flash["refresh_token"])

CredentialsInv ==
  TypeOK /\ StorageInv /\ InSave /\ Issued /\ FreshAnswers /\ RefreshTokenHonoured /\ SavedToken

-----------------------------------------------------------------------------
(* What the documentation says and the code does not do. *)

\* "runtime credentials are cleared and the device reboots into
\* provisioning-ready state": a token answer that arrives after the clear is
\* stored, and saved again before the restart.
ResetForgetsTokens ==
  [][pc["button"] = "restart" /\ pc'["button"] = "idle"
       => config'["access_token"] = Empty /\ config'["refresh_token"] = Empty]_vars
=============================================================================
