---------------------------- MODULE CoreCommands ----------------------------
(***************************************************************************)
(* What an MQTT message makes the device do: the route table and the RPC   *)
(* commands of core_mqtt_process.cpp, and perform_ota_update of            *)
(* core_http.cpp.  Everything runs in the MQTT client's task, one message  *)
(* at a time.                                                              *)
(*                                                                         *)
(* External: esp_http_client, the OTA API (esp_ota_begin erases the slot   *)
(* that is not running, esp_ota_end accepts a whole image only) and the    *)
(* bootloader, which starts the slot that is marked.                       *)
(***************************************************************************)
EXTENDS Naturals

CONSTANTS
  ImageBlocks,   \* blocks of 1024 bytes of a whole image
  SlotBlocks,    \* blocks an OTA slot holds
  Temps,         \* numbers a set-temp command may carry
  NoTemp         \* app_handle_set_temp was not called since boot

ASSUME CommandsAssumption ==
  /\ ImageBlocks \in Nat \ {0} /\ SlotBlocks \in Nat /\ ImageBlocks <= SlotBlocks
  /\ 0 \in Temps /\ NoTemp \notin Temps

Slots == {0, 1}
Idle == [command |-> "none"]

VARIABLES
  handling,        \* what the message in the client's task is doing
  ota, ota_in_progress,         \* where perform_ota_update is, and its flag
  ota_client, ota_handle,       \* external: the HTTP client and the OTA session
  image,           \* external: the blocks written to each slot
  running, boot,   \* external: the slot that runs and the one marked to boot
  credentials,     \* the configuration holds credentials
  temp             \* what app_handle_set_temp was called with last

update == <<ota, ota_in_progress, ota_client, ota_handle>>
marked == <<image, boot>>
commands == <<handling, update, marked, running, credentials, temp>>

-----------------------------------------------------------------------------
(* Messages and what they ask for *)

\* A payload counts as a number if it is one, holds one as "value", or is empty:
\* strtof then stops where it started, at the end of the text.
Numbers == {"number", "object with number", "empty"}
Payloads == Numbers \cup {"text", "url"}

\* The command and the arguments of an RPC message; "unreadable" stands for JSON that
\* does not parse or names no command in params.key.
RpcCommands == {"upgrade", "reboot", "reset", "target-temp", "other", "unreadable"}
Messages ==
  [route : {"upgrade", "reboot", "reset", "set-temp", "none"}, payload : Payloads]
    \cup [route : {"default"}, method : {"put", "get"}, command : RpcCommands, args : Payloads]

Asks(command) == [command |-> command]

\* parse_rpc_upgrade_url: a text, or an object with one under url, value or uri.
RpcEffect(m) ==
  IF m.method # "put" \/ m.command = "unreadable" THEN Idle
  ELSE CASE m.command = "upgrade" -> IF m.args \in {"text", "url"} THEN Asks("upgrade") ELSE Idle
         [] m.command = "reboot" -> Asks("restart")
         [] m.command = "reset" -> Asks("clear")
         [] OTHER -> Idle      \* target-temp is only logged here

\* perform_ota_update refuses an empty URL itself.
Effect(m) ==
  CASE m.route = "upgrade" -> IF m.payload = "empty" THEN Idle ELSE Asks("upgrade")
    [] m.route = "reboot" -> Asks("restart")
    [] m.route = "reset" -> Asks("clear")
    [] m.route = "set-temp" -> IF m.payload \in Numbers THEN Asks("temp") ELSE Idle
    [] m.route = "default" -> RpcEffect(m)
    [] OTHER -> Idle           \* handle_core_mqtt_route returns false

handle_core_mqtt_route(m) ==
  /\ handling = Idle
  /\ handling' = Effect(m)
  /\ \/ Effect(m).command = "temp" /\ m.payload = "empty" /\ temp' = 0
     \/ Effect(m).command = "temp" /\ m.payload # "empty" /\ temp' \in Temps
     \/ Effect(m).command # "temp" /\ UNCHANGED temp
  /\ UNCHANGED <<update, marked, running, credentials>>

TempHandled ==
  /\ handling.command = "temp" /\ handling' = Idle
  /\ UNCHANGED <<update, marked, running, credentials, temp>>

clear_credentials ==
  /\ handling.command = "clear" /\ handling' = Asks("restart")
  /\ credentials' = FALSE
  /\ UNCHANGED <<update, marked, running, temp>>

-----------------------------------------------------------------------------
(* perform_ota_update *)

OtaInit ==
  /\ ota = "none" /\ ota_in_progress = FALSE
  /\ ota_client = FALSE /\ ota_handle = FALSE

CommandsInit ==
  /\ handling = Idle /\ OtaInit
  /\ image = [s \in Slots |-> IF s = 0 THEN ImageBlocks ELSE 0]
  /\ running = 0 /\ boot = 0
  /\ credentials \in BOOLEAN /\ temp = NoTemp

Next_update_partition == 1 - running

Rest == UNCHANGED <<marked, running, credentials, temp>>
At(step) == handling.command = "upgrade" /\ ota = step
Goto(step) == ota' = step /\ UNCHANGED handling

OtaRefused ==
  /\ At("none") /\ ota_in_progress
  /\ handling' = Idle /\ UNCHANGED update /\ Rest

\* ota_in_progress.exchange(true), then esp_http_client_init.
OtaStarts ==
  /\ At("none") /\ ~ota_in_progress
  /\ ota_in_progress' = TRUE
  /\ ota_client' \in BOOLEAN
  /\ Goto(IF ota_client' THEN "open" ELSE "leave")
  /\ UNCHANGED <<ota_handle>> /\ Rest

OtaOpens ==
  /\ At("open")
  /\ ota' \in {"begin", "cleanup"} /\ UNCHANGED handling
  /\ UNCHANGED <<ota_in_progress, ota_client, ota_handle>> /\ Rest

\* Mutant: the slot that runs is updated in place.
BeginsRunning ==
  /\ At("begin")
  /\ \/ image' = [image EXCEPT ![running] = 0] /\ ota_handle' = TRUE /\ Goto("read")
     \/ UNCHANGED <<image, ota_handle>> /\ Goto("cleanup")
  /\ UNCHANGED <<ota_in_progress, ota_client, boot, running, credentials, temp>>

OtaBegins ==
  /\ At("begin")
  /\ \/ /\ image' = [image EXCEPT ![Next_update_partition] = 0]
        /\ ota_handle' = TRUE /\ Goto("read")
     \/ UNCHANGED <<image, ota_handle>> /\ Goto("cleanup")
  /\ UNCHANGED <<ota_in_progress, ota_client, boot, running, credentials, temp>>

\* Mutant: one block too many.
WritesPastEnd ==
  /\ At("read") /\ image[Next_update_partition] <= SlotBlocks
  /\ image' = [image EXCEPT ![Next_update_partition] = @ + 1]
  /\ UNCHANGED <<handling, update, boot, running, credentials, temp>>

\* A block is read and written, up to the size of the slot.
OtaWrites ==
  /\ At("read") /\ image[Next_update_partition] < SlotBlocks
  /\ image' = [image EXCEPT ![Next_update_partition] = @ + 1]
  /\ UNCHANGED <<handling, update, boot, running, credentials, temp>>

\* esp_http_client_read returns -1, or esp_ota_write an error: always past the slot's end.
OtaFails ==
  /\ At("read") /\ Goto("abort")
  /\ UNCHANGED <<ota_in_progress, ota_client, ota_handle>> /\ Rest

\* Reading 0 bytes: the server has sent all, or the connection closed half way.
OtaStreamEnds ==
  /\ At("read") /\ Goto("end")
  /\ UNCHANGED <<ota_in_progress, ota_client, ota_handle>> /\ Rest

\* esp_ota_end frees the session whatever it returns.
OtaEnds ==
  /\ At("end")
  /\ ota_handle' = FALSE
  /\ \/ image[Next_update_partition] = ImageBlocks /\ Goto("mark")
     \/ Goto("cleanup")
  /\ UNCHANGED <<ota_in_progress, ota_client>> /\ Rest

OtaAborts ==
  /\ At("abort") /\ Goto("cleanup")
  /\ ota_handle' = FALSE
  /\ UNCHANGED <<ota_in_progress, ota_client>> /\ Rest

\* esp_ota_set_boot_partition fails or takes effect; "ok" remembers ESP_OK.
OtaMarks ==
  /\ At("mark")
  /\ \/ boot' = Next_update_partition /\ Goto("cleanup ok")
     \/ UNCHANGED boot /\ Goto("cleanup")
  /\ UNCHANGED <<ota_in_progress, ota_client, ota_handle,
                 image, running, credentials, temp>>

OtaCleansUp ==
  /\ \/ At("cleanup") /\ Goto("leave")
     \/ At("cleanup ok") /\ Goto("leave ok")
  /\ ota_client' = FALSE
  /\ UNCHANGED <<ota_in_progress, ota_handle>> /\ Rest

OtaLeaves ==
  /\ \/ At("leave") /\ handling' = Idle
     \/ At("leave ok") /\ handling' = Asks("restart")
  /\ ota' = "none" /\ ota_in_progress' = FALSE
  /\ UNCHANGED <<ota_client, ota_handle>> /\ Rest

OtaSteps ==
  \/ OtaRefused \/ OtaStarts \/ OtaOpens \/ OtaBegins \/ OtaWrites \/ OtaFails \/ OtaStreamEnds
  \/ OtaEnds \/ OtaAborts \/ OtaMarks \/ OtaCleansUp \/ OtaLeaves

-----------------------------------------------------------------------------
Booted ==
  /\ handling' = Idle
  /\ ota' = "none" /\ ota_in_progress' = FALSE
  /\ ota_client' = FALSE /\ ota_handle' = FALSE
  /\ running' = boot /\ temp' = NoTemp
  /\ UNCHANGED <<marked, credentials>>

\* safe_restart at the end of a command, or power loss at any time.
CommandRestart == handling.command = "restart" /\ Booted
PowerLoss == Booted

CommandSteps == TempHandled \/ clear_credentials \/ OtaSteps \/ CommandRestart

CommandsNext ==
  \/ \E m \in Messages : handle_core_mqtt_route(m)
  \/ CommandSteps \/ PowerLoss
CommandsSpec == CommandsInit /\ [][CommandsNext]_commands

\* The client's task runs; HTTP reads time out after 5 s.
CommandsFairness == WF_commands(CommandSteps)

-----------------------------------------------------------------------------
(* Properties *)

CommandsTypeOK ==
  /\ handling \in [command : {"none", "upgrade", "restart", "clear", "temp"}]
  /\ ota \in {"none", "open", "begin", "read", "end", "abort", "mark", "cleanup", "cleanup ok",
              "leave", "leave ok"}
  /\ {ota_in_progress, ota_client, ota_handle, credentials} \subseteq BOOLEAN
  /\ image \in [Slots -> 0..SlotBlocks] /\ {running, boot} \subseteq Slots
  /\ temp \in Temps \cup {NoTemp}

\* No upgrade, cut off at any step by an error or by power loss, leaves the device
\* without an image to boot, and none runs from a slot that is being written.
AlwaysBootable == image[boot] = ImageBlocks /\ image[running] = ImageBlocks

\* Every way out of perform_ota_update releases the flag, the client and the session, so
\* that a failed upgrade can be tried again.
UpgradeLeavesNothing ==
  handling.command # "upgrade" => ~ota_in_progress /\ ~ota_client /\ ~ota_handle

\* The client's task comes back to its messages whatever the server sends, so the
\* session's keepalive resumes: an endless stream ends at the end of the slot.
CommandsEnd == []<>(handling = Idle)

\* What a person who starts an upgrade over the air relies on, whatever the server
\* sends and whenever the power fails: the device boots, keeps nothing of the attempt
\* and answers again (perform_ota_update).
UpgradeEndsWell == [](AlwaysBootable /\ UpgradeLeavesNothing) /\ CommandsEnd
=============================================================================
