-------------------------------- MODULE MCBle --------------------------------
(***************************************************************************)
(* Bluetooth: the provisioning transport and the parts of esp-nimble-cpp.  *)
(* The parts share no variable with each other and are checked one at a    *)
(* time: focus is the one that runs, the others stay as they start.        *)
(***************************************************************************)
EXTENDS CoreBle, NimBLEServer, NimBLEAdvertising, NimBLEAdvertisedDevice, NimBLEClient,
        NimBLEScan, NimBLERemote, NimBLEDevice, NimBLEExtAdvertisement, NimBLEExtAdvertising,
        NimBLEL2CAPChannel, NimBLEAttValue, NimBLEUUID, NimBLENotify, NimBLEHIDDevice

-----------------------------------------------------------------------------
(* Values of the constants *)

BoardCharacteristics == {<<"s1", 1>>, <<"s1", 2>>, <<"s2", 1>>}

\* UUIDs of 16 and 32 bits and texts, in bytes.
BoardUuids == {<<70, 70>>, <<80, 80>>, <<90, 90, 90, 90>>}
BoardTexts == {<<60>>, <<61>>}
BoardExtUuids == {<<70, 70>>, <<90, 90, 90, 90>>}
BoardExtTexts == {<<60>>, <<61, 61>>}

\* A peer with two services, one of them with a UUID of its own, and a characteristic
\* with two equal descriptors.
PeerAttribute(id, parent, short, size, kind) ==
  [id |-> id, parent |-> parent, uuid |-> [value |-> short, size |-> size], kind |-> kind]
BoardDatabase ==
  << PeerAttribute("s1", "root", "a", 16, "service"),
     PeerAttribute("s2", "root", "own", 128, "service"),
     PeerAttribute("c1", "s1", "a", 128, "characteristic"),
     PeerAttribute("d1", "c1", "a", 16, "descriptor"),
     PeerAttribute("d2", "c1", "a", 16, "descriptor") >>

\* One value that fits, one that makes the block grow, one of the greatest length and
\* one beyond it.
BoardWritten == {<<1>>, <<2, 2>>, <<3, 3, 3>>, <<4, 4, 4, 4>>}

\* Two bytes of the base UUID stand for its twelve, two for each half of the short form.
BoardBase == <<251, 52>>
BoardOthers == {<<251, 0>>, <<0, 0>>}
BoardWords == {<<0, 0>>, <<0, 24>>, <<24, 0>>, <<251, 52>>, <<52, 251>>}

-----------------------------------------------------------------------------

VARIABLE focus

BleParts == {"transport", "server", "advertising", "data", "client", "scan", "remote", "device",
             "ext_data", "ext_advertising", "l2cap", "value", "uuid", "notify", "hid"}

PartsInit ==
  /\ focus \in BleParts
  /\ BleInit /\ ServerInit /\ AdvertisingInit /\ AdvertisementInit /\ ClientInit
  /\ ScanInit /\ RemoteInit /\ DeviceStart /\ ExtAdvertisementInit /\ ExtAdvertisingInit
  /\ L2capInit /\ AttValueInit /\ UuidInit /\ NotifyInit /\ HidInit
  \* One start is enough for a part that does not run.
  /\ focus = "advertising" \/ m_advData = CHOOSE d \in AdvData : TRUE
  /\ focus = "value" \/ owner = "app"
  /\ focus = "uuid" \/ uuid = [bits |-> 16, bytes |-> <<0, 0>>]

peripheral == <<ble, server, advertising, advertisement, notifications, hid, att_value>>
observer == <<central, scan, remote>>
common == <<device, ext_advertisement, ext_advertising, l2cap, uuid_object>>
board == <<focus, peripheral, observer, common>>

PeripheralNext ==
  \/ /\ focus = "transport" /\ BleNext
     /\ UNCHANGED <<server, advertising, advertisement, notifications, hid, att_value>>
  \/ /\ focus = "server" /\ ServerNext
     /\ UNCHANGED <<ble, advertising, advertisement, notifications, hid, att_value>>
  \/ /\ focus = "advertising" /\ AdvertisingNext
     /\ UNCHANGED <<ble, server, advertisement, notifications, hid, att_value>>
  \/ /\ focus = "data" /\ AdvertisementNext
     /\ UNCHANGED <<ble, server, advertising, notifications, hid, att_value>>
  \/ /\ focus = "notify" /\ NotifyNext
     /\ UNCHANGED <<ble, server, advertising, advertisement, hid, att_value>>
  \/ /\ focus = "hid" /\ HidNext
     /\ UNCHANGED <<ble, server, advertising, advertisement, notifications, att_value>>
  \/ /\ focus = "value" /\ AttValueNext
     /\ UNCHANGED <<ble, server, advertising, advertisement, notifications, hid>>

ObserverNext ==
  \/ focus = "client" /\ ClientNext /\ UNCHANGED <<scan, remote>>
  \/ focus = "scan" /\ ScanNext /\ UNCHANGED <<central, remote>>
  \/ focus = "remote" /\ RemoteNext /\ UNCHANGED <<central, scan>>

CommonNext ==
  \/ /\ focus = "device" /\ DeviceSteps
     /\ UNCHANGED <<ext_advertisement, ext_advertising, l2cap, uuid_object>>
  \/ /\ focus = "ext_data" /\ ExtAdvertisementNext
     /\ UNCHANGED <<device, ext_advertising, l2cap, uuid_object>>
  \/ /\ focus = "ext_advertising" /\ ExtAdvertisingNext
     /\ UNCHANGED <<device, ext_advertisement, l2cap, uuid_object>>
  \/ /\ focus = "l2cap" /\ L2capNext
     /\ UNCHANGED <<device, ext_advertisement, ext_advertising, uuid_object>>
  \/ /\ focus = "uuid" /\ UuidNext
     /\ UNCHANGED <<device, ext_advertisement, ext_advertising, l2cap>>

PartsNext ==
  /\ UNCHANGED focus
  /\ \/ PeripheralNext /\ UNCHANGED <<observer, common>>
     \/ ObserverNext /\ UNCHANGED <<peripheral, common>>
     \/ CommonNext /\ UNCHANGED <<peripheral, observer>>

PartsSpec ==
  /\ PartsInit /\ [][PartsNext]_board
  \* No step these ask for is enabled in a part that does not run.
  /\ BleFairness /\ AdvertisingFairness /\ ScanFairness
=============================================================================
