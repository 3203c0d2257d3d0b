----------------------------- MODULE OtherServices ---------------------------
(***************************************************************************)
(* The queries, requests and notices of the classes that speak to other    *)
(* services than MCE: usb_moded, the thermal manager, the device lock and  *)
(* DSME.  See MceServices for what Get, Told, Set and Do are.              *)
(***************************************************************************)
EXTENDS MceServices

\* QmUSBMode: the strings of usb_moded and the modes they stand for.  Some of
\* them are only told, and are no state.
USBNames ==
    [connected |-> "Connected", disconnected |-> "Disconnected",
     data_in_use |-> "DataInUse", dialog_show |-> "ModeRequest",
     mass_storage |-> "MassStorage", charging_only |-> "ChargingOnly",
     ovi_suite |-> "OviSuite", ask |-> "Ask", undefined |-> "Undefined",
     windows_network |-> "SDK", mtp_mode |-> "MTP", adb_mode |-> "Adb",
     diag_mode |-> "Diag", developer_mode |-> "Developer",
     connection_sharing |-> "ConnectionSharing", host_mode |-> "Host",
     charger |-> "Charger"]

USBEvents == {"connected", "disconnected", "data_in_use", "dialog_show", "pre_unmount"}

Mode == {USBNames[s] : s \in DOMAIN USBNames}

stringToMode(s) == Named(USBNames, s, "Undefined")
modeToString(r) == CHOOSE s \in DOMAIN USBNames : USBNames[s] = r

USBGet(valid, s) == IF valid THEN stringToMode(s) ELSE "Undefined"

\* The announcement of a file system that will be unmounted is another signal.
USBTold(s) == IF s = "pre_unmount" THEN {"fileSystemWillUnmount"} ELSE {stringToMode(s)}

Requestable ==
    {"OviSuite", "MassStorage", "ChargingOnly", "SDK", "Developer", "MTP", "Adb",
     "Diag", "Host", "ConnectionSharing", "Charger"}

USBSet(r) == IF r \in Requestable THEN <<modeToString(r)>> ELSE <<>>

\* The default mode may also be to ask; it is set in a call that blocks.
setDefaultMode(r) ==
    IF r \in Requestable \cup {"Ask"} THEN <<modeToString(r)>> ELSE <<>>

getDefaultMode(valid, s) == IF valid THEN stringToMode(s) ELSE "Undefined"

\* The modes of a list of strings, in its order, without those not known.
USBModes(strings) ==
    SelectSeq([i \in DOMAIN strings |-> stringToMode(strings[i])],
              LAMBDA mode : mode # "Undefined")

getSupportedModes(valid, s) == IF valid THEN USBModes(s) ELSE <<>>
supportedModesChanged(s) == {USBModes(s)}

-----------------------------------------------------------------------------
\* QmThermal.
ThermalNames ==
    [normal |-> "Normal", warning |-> "Warning", alert |-> "Alert",
     low_temp_warning |-> "LowTemperatureWarning"]
ThermalStates == DOMAIN ThermalNames \cup {"fatal"}

ThermalGet(valid, s) == IF valid THEN Named(ThermalNames, s, "Unknown") ELSE "Error"
thermalStateChanged(s) == {Named(ThermalNames, s, "Unknown")}

-----------------------------------------------------------------------------
\* QmLocks: the device lock, 0, 1 or 2.  It does not let itself be unlocked.
DeviceLockNames == <<"Unlocked", "Locked">>

stateToState(n) == IF n + 1 \in DOMAIN DeviceLockNames THEN DeviceLockNames[n + 1] ELSE "Unknown"
stateFromState(r) == IF r = "Unlocked" THEN 0 ELSE IF r = "Locked" THEN 1 ELSE 2

DeviceLockGet(valid, s) == IF valid THEN stateToState(s) ELSE "Unknown"
deviceStateChanged(s) == {stateToState(s)}
DeviceLockSet(r) == <<stateFromState(r)>>
DeviceLockDo(s, w) == IF w = 1 THEN 1 ELSE s

-----------------------------------------------------------------------------
\* QmSystemState: requests to DSME and what DSME and the thermal manager tell.
SystemSet(r) ==
    Named([Powerup |-> <<"req_powerup">>, Reboot |-> <<"req_reboot">>,
           ShuttingDown |-> <<"req_shutdown">>], r, <<>>)

\* DSME may deny a request while the device is a mass storage, or for another
\* reason; the thermal manager tells its state as it does QmThermal.
SystemEvents ==
    {<<"shutdown">>, <<"battery_empty">>, <<"save_data">>, <<"thermal", "fatal">>,
     <<"thermal", "normal">>, <<"denied", "shutdown", "usb">>,
     <<"denied", "reboot", "usb">>, <<"denied", "reboot", "other">>}

SystemDo(s, w) ==
    CASE w = "req_powerup" -> {s}
      [] w = "req_reboot" -> {<<"save_data">>, <<"denied", "reboot", "usb">>}
      [] w = "req_shutdown" -> {<<"shutdown">>, <<"denied", "shutdown", "usb">>}

SystemTold(s) ==
    IF s[1] = "denied"
    THEN IF s[3] = "usb"
         THEN KnownOnly([shutdown |-> "ShutdownDeniedUSB", reboot |-> "RebootDeniedUSB"], s[2])
         ELSE {}
    ELSE IF s[1] = "thermal"
    THEN KnownOnly([fatal |-> "ThermalStateFatal"], s[2])
    ELSE KnownOnly([shutdown |-> "Shutdown", battery_empty |-> "BatteryStateEmpty",
                    save_data |-> "SaveData"], s[1])
==============================================================================
