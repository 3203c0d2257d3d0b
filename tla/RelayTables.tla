------------------------------ MODULE RelayTables ----------------------------
(***************************************************************************)
(* What connectNotify and disconnectNotify of each class of the library do *)
(* for each of its public signals, as a table: the counter of the signal,  *)
(* the bus signals subscribed to when that counter leaves zero, the ones   *)
(* unsubscribed from when it is back at zero, and whether disconnectNotify *)
(* lowers the counter (QmUSBMode raises one of its three).                 *)
(***************************************************************************)
EXTENDS Integers

\* A class with one counter whose two handlers mirror each other.
Mirrored(signals, bus) ==
    [counterOf |-> [s \in signals |-> 1],
     subscribe |-> <<bus>>, unsubscribe |-> <<bus>>, raised |-> {}]

QmActivity == Mirrored({"activityChanged"}, {"MCE_INACTIVITY_SIG"})
QmCallState == Mirrored({"stateChanged"}, {"MCE_CALL_STATE_SIG"})
QmDisplayState == Mirrored({"displayStateChanged"}, {"MCE_DISPLAY_SIG"})
QmThermal == Mirrored({"thermalChanged"}, {"SYS_THERMALMANAGER_STATE_SIG"})
QmSystemState ==
    Mirrored({"systemStateChanged"},
             {"dsme_shutdown_ind", "dsme_save_unsaved_data_ind", "dsme_battery_empty_ind",
              "dsme_state_req_denied_ind", "SYS_THERMALMANAGER_STATE_SIG"})

\* The device lock is unsubscribed on the session bus, with the name of the
\* service for an interface: the subscription on the system bus stays.
QmLocks ==
    [counterOf |-> [stateChanged |-> 1],
     subscribe |-> <<{"MCE_TKLOCK_MODE_SIG", "DEVLOCK_SIGNAL"}>>,
     unsubscribe |-> <<{"MCE_TKLOCK_MODE_SIG"}>>, raised |-> {}]

QmDeviceMode ==
    [counterOf |-> [deviceModeChanged |-> 1, devicePSMStateChanged |-> 2],
     subscribe |-> <<{"MCE_RADIO_STATES_SIG"}, {"MCE_PSM_STATE_SIG"}>>,
     unsubscribe |-> <<{"MCE_RADIO_STATES_SIG"}, {"MCE_PSM_STATE_SIG"}>>, raised |-> {}]

\* Two signals share the first counter; the third counter is raised by both
\* handlers.
QmUSBMode ==
    [counterOf |-> [modeChanged |-> 1, fileSystemWillUnmount |-> 1, error |-> 2,
                    supportedModesChanged |-> 3],
     subscribe |-> <<{"USB_MODE_SIGNAL"}, {"USB_MODE_ERROR_SIGNAL"},
                     {"USB_MODE_SUPPORTED_MODES_SIGNAL"}>>,
     unsubscribe |-> <<{"USB_MODE_SIGNAL"}, {"USB_MODE_ERROR_SIGNAL"},
                       {"USB_MODE_SUPPORTED_MODES_SIGNAL"}>>,
     raised |-> {3}]

AllClasses ==
    [QmActivity |-> QmActivity, QmCallState |-> QmCallState,
     QmDisplayState |-> QmDisplayState, QmThermal |-> QmThermal,
     QmSystemState |-> QmSystemState, QmLocks |-> QmLocks,
     QmDeviceMode |-> QmDeviceMode, QmUSBMode |-> QmUSBMode]
=============================================================================
