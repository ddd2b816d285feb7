---------------------------- MODULE MCCoreDevice ----------------------------
(***************************************************************************)
(* The components of the device that share no variable with each other,    *)
(* each checked alone: interleaving them would add states and no           *)
(* behaviour.  focus is the one that runs; the others stay as they start.  *)
(***************************************************************************)
EXTENDS CoreTransportQueue, CoreStorage, CoreWifi, CoreTime, CoreCommands, CoreButton,
        CoreTokenTimer

VARIABLE focus

parts == <<vars, storage, wifi, time, commands, button, timer>>

DeviceInit ==
  /\ focus \in {"transport", "storage", "wifi", "time", "commands", "button", "token"}
  /\ Init /\ StorageInit /\ TimeInit /\ CommandsInit /\ ButtonInit /\ TokenInit
  /\ WifiInit(IF focus = "wifi" THEN "configure" ELSE "done")
  \* One start is enough for a component that does not run.
  /\ focus = "wifi" \/ wifi_ssid = NoNetwork
  /\ focus = "commands" \/ credentials
  /\ focus = "token" \/ next_round = 0

DeviceNext ==
  /\ UNCHANGED focus
  /\ \/ /\ focus = "transport" /\ Next
        /\ UNCHANGED <<storage, wifi, time, commands, button, timer>>
     \/ /\ focus = "storage" /\ StorageNext
        /\ UNCHANGED <<vars, wifi, time, commands, button, timer>>
     \/ /\ focus = "wifi" /\ WifiNext
        /\ UNCHANGED <<vars, storage, time, commands, button, timer>>
     \/ /\ focus = "time" /\ TimeNext
        /\ UNCHANGED <<vars, storage, wifi, commands, button, timer>>
     \/ /\ focus = "commands" /\ CommandsNext
        /\ UNCHANGED <<vars, storage, wifi, time, button, timer>>
     \/ /\ focus = "button" /\ ButtonNext
        /\ UNCHANGED <<vars, storage, wifi, time, commands, timer>>
     \/ /\ focus = "token" /\ TokenNext
        /\ UNCHANGED <<vars, storage, wifi, time, commands, button>>

DeviceSpec ==
  /\ DeviceInit /\ [][DeviceNext]_<<focus, parts>>
  \* No step these ask for is enabled in a component that does not run.
  /\ WifiFairness /\ TimeFairness /\ CommandsFairness

\* Every component's values stay in their types, each under its own faults.
DeviceTypeOK ==
  /\ TypeOK /\ StorageTypeOK /\ WifiTypeOK /\ TimeTypeOK
  /\ CommandsTypeOK /\ ButtonTypeOK /\ TokenTypeOK
=============================================================================
