---------------------------- MODULE ServiceRequests --------------------------
(***************************************************************************)
(* Applications, one class of the library and its service.  A getter makes *)
(* one or two blocking calls; a setter may ask for a list in a blocking    *)
(* call and then sends its messages without waiting.  All calls of one     *)
(* application go over one connection, in order.  Signals wait for the     *)
(* event loop of the application, so the reply to a blocking call may      *)
(* overtake them; the answer to an asynchronous query comes in line.       *)
(* Any call may fail.  One application, the reader, has connected to the   *)
(* signal of the class, then asked for the state, and follows it.          *)
(***************************************************************************)
EXTENDS OtherServices

CONSTANTS
    Apps, Reader,    \* the applications and the one that follows the state
    Classes,         \* the classes
    MaxRequests,     \* bound on the requests, for each class
    MaxMoves         \* bound on the changes the service makes of its own

\* The classes that are modelled; a setting with a getter of its own counts as one.
ClassNames ==
    {"display", "brightness", "blankTimeout", "dimTimeout", "blanking", "mode", "psm",
     "batteryPsm", "tklock", "call", "cabc", "activity", "usb", "usbDefault", "usbModes",
     "thermal", "devicelock", "system"}

ASSUME ServiceAssumption == Reader \in Apps /\ Classes \subseteq ClassNames

VARIABLES
    class,           \* the class
    service,         \* the state of its service
    outbox,          \* per application, messages on their way to the service
    inbox,           \* signals and answers on their way to the reader
    view,            \* what the reader believes, <<>> if nothing
    reading,         \* the reply to the first query of a getter, <<>> if none
    asked,           \* history: the last request, whether all of its messages have
                     \* come and whether the query before them succeeded; <<>> if
                     \* the service did something else after
    thresholds,      \* history: thresholds asked for, or all if a query failed
    requests, moves  \* counters

requestVars ==
    <<class, service, outbox, inbox, view, reading, asked, thresholds, requests, moves>>

-----------------------------------------------------------------------------
\* The classes.  What one does not have is missing here.
States(c) ==
    CASE c = "display" -> DisplayStates
      [] c = "brightness" -> 1..MaxBrightness
      [] c \in {"blankTimeout", "dimTimeout"} -> Timeouts
      [] c = "blanking" -> {0, 1}
      [] c = "mode" -> {{}, {"wlan"}, {"master"}, {"master", "wlan"}, {"master", "cellular"}}
      [] c = "psm" -> BOOLEAN
      [] c = "batteryPsm" -> BatteryPSM
      [] c = "tklock" -> LockStates
      [] c = "call" -> CallStates
      [] c = "cabc" -> DOMAIN CABCModes
      [] c = "activity" -> BOOLEAN
      [] c \in {"usb", "usbDefault"} -> DOMAIN USBNames \ USBEvents
      [] c = "usbModes" -> {<<"ask">>, <<"adb_mode", "other", "charger">>}
      [] c = "thermal" -> ThermalStates
      [] c = "devicelock" -> 0..2
      [] c = "system" -> SystemEvents

Requests(c) ==
    CASE c = "display" -> DisplayRequests
      [] c = "brightness" -> 0..(MaxBrightness + 1)
      [] c \in {"blankTimeout", "dimTimeout"} -> Timeouts \cup {0}
      [] c = "blanking" -> BOOLEAN
      [] c = "mode" -> ModeRequests
      [] c = "psm" -> PSMRequests
      [] c = "batteryPsm" -> {-1, 0, 1, 100, 101} \cup {Thresholds[1] + 1}
      [] c \in {"tklock", "devicelock"} -> LockRequests
      [] c = "call" -> CallRequests
      [] c = "cabc" -> CABCRequests
      [] c \in {"usb", "usbDefault"} -> Mode
      [] c = "system" -> {"Powerup", "Reboot", "ShuttingDown", "invalid"}
      [] OTHER -> {}

\* A getter of one query has its reply in both places.
Get(c, valid1, s1, valid2, s2) ==
    CASE c = "display" -> DisplayGet(valid1, s1)
      [] c = "brightness" -> getDisplayBrightnessValue(valid1, s1)
      [] c = "blankTimeout" -> getDisplayBlankTimeout(valid1, s1)
      [] c = "dimTimeout" -> getDisplayDimTimeout(valid1, s1)
      [] c = "blanking" -> getBlankingWhenCharging(valid1, s1)
      [] c = "mode" -> getMode(valid1, s1)
      [] c = "psm" -> getPSMState(valid1, s1)
      [] c = "batteryPsm" -> getPSMBatteryMode(valid1, s1, valid2, s2)
      [] c = "tklock" -> TkLockGet(valid1, s1)
      [] c = "call" -> <<getState(valid1, s1), getType(valid2, s2)>>
      [] c = "cabc" -> CABCGet(valid1, s1)
      [] c = "activity" -> ActivityGet(valid1, s1)
      [] c = "usb" -> USBGet(valid1, s1)
      [] c = "usbDefault" -> getDefaultMode(valid1, s1)
      [] c = "usbModes" -> getSupportedModes(valid1, s1)
      [] c = "thermal" -> ThermalGet(valid1, s1)
      [] c = "devicelock" -> DeviceLockGet(valid1, s1)

Told(c, s) ==
    CASE c = "display" -> DisplayTold(s)
      [] c = "mode" -> deviceModeChangedSlot(s)
      [] c = "psm" -> devicePSMChangedSlot(s)
      [] c = "tklock" -> touchAndKeyboardStateChanged(s)
      [] c = "call" -> callStateChanged(s)
      [] c = "activity" -> slotActivityChanged(s)
      [] c = "usb" -> USBTold(s)
      [] c = "usbModes" -> supportedModesChanged(s)
      [] c = "thermal" -> thermalStateChanged(s)
      [] c = "devicelock" -> deviceStateChanged(s)
      [] c = "system" -> SystemTold(s)

\* valid: the query of a list, or the call that blocks, succeeds.
Sent(c, r, valid) ==
    CASE c = "display" -> DisplaySet(r)
      [] c = "brightness" -> setDisplayBrightnessValue(r, valid)
      [] c = "blankTimeout" -> setDisplayBlankTimeout(r, valid)
      [] c = "dimTimeout" -> setDisplayDimTimeout(r, valid)
      [] c = "blanking" -> setBlankingWhenCharging(r)
      [] c = "mode" -> setMode(r)
      [] c = "psm" -> setPSMState(r)
      [] c = "batteryPsm" -> setPSMBatteryMode(r, valid)
      [] c = "tklock" -> TkLockSet(r)
      [] c = "call" -> CallSet(r)
      [] c = "cabc" -> CABCSet(r, valid)
      [] c = "usb" -> USBSet(r)
      [] c = "usbDefault" -> IF valid THEN setDefaultMode(r) ELSE <<>>
      [] c = "devicelock" -> DeviceLockSet(r)
      [] c = "system" -> SystemSet(r)

Do(c, s, w) ==
    CASE c = "mode" -> {ModeDo(s, w)}
      [] c = "psm" -> PSMDo(s, w)
      [] c = "batteryPsm" -> {BatteryPSMDo(s, w)}
      [] c = "tklock" -> {TkLockDo(s, w)}
      [] c = "call" -> {CallDo(s, w)}
      [] c = "devicelock" -> {DeviceLockDo(s, w)}
      [] c = "system" -> SystemDo(s, w)
      [] OTHER -> {w}

\* Whether the service makes its state what the message w says.
Heeded(c, s, w) ==
    CASE c = "tklock" -> w \in LockStates
      [] c = "devicelock" -> w = 1
      [] c = "call" -> CallDo(s, w) = w
      [] c \in {"psm", "system"} -> FALSE
      [] OTHER -> TRUE

-----------------------------------------------------------------------------
RequestInit ==
    /\ class \in Classes
    /\ service \in States(class)
    /\ outbox = [a \in Apps |-> <<>>] /\ inbox = <<>>
    /\ view = <<>> /\ reading = <<>> /\ asked = <<>>
    /\ thresholds = IF class = "batteryPsm" /\ service.enabled
                    THEN {service.threshold} ELSE {}
    /\ requests = 0 /\ moves = 0

Silent == {"brightness", "blankTimeout", "dimTimeout", "blanking", "batteryPsm",
           "cabc", "usbDefault"}

\* The signal of the service, if its state is another now.
Signalled(s) ==
    inbox' = IF class \in Silent \/ s = service THEN inbox ELSE Append(inbox, s)

\* An application makes a call unless it is in one, and a blocking call is
\* answered after everything the application has sent before.
CanCall(a) == a = Reader => reading = <<>>
CanBlock(a) == CanCall(a) /\ outbox[a] = <<>>

AsksFirst == {"brightness", "blankTimeout", "dimTimeout", "batteryPsm", "usbDefault"}

\* A setter.  Each of its messages carries what was asked for, and whether the
\* call that comes first succeeded.
Request(a) ==
    /\ requests < MaxRequests[class]
    /\ IF class \in AsksFirst THEN CanBlock(a) ELSE CanCall(a)
    /\ \E r \in Requests(class),
          valid \in IF class \in AsksFirst \cup {"cabc"} THEN BOOLEAN ELSE {TRUE} :
        LET sent == Sent(class, r, valid)
        IN /\ outbox' = [outbox EXCEPT ![a] = @ \o
                [i \in DOMAIN sent |->
                    [query |-> FALSE, message |-> sent[i], request |-> r,
                     listed |-> valid, first |-> i = 1, last |-> i = Len(sent)]]]
           /\ thresholds' =
                IF class # "batteryPsm" \/ sent = <<>> \/ r = 0 THEN thresholds
                ELSE IF valid THEN thresholds \cup {ThresholdFor(r)}
                ELSE {Thresholds[i] : i \in DOMAIN Thresholds}
    /\ requests' = requests + 1
    /\ UNCHANGED <<class, service, inbox, view, reading, asked, moves>>

\* The query of getStateAsync.
getStateAsync ==
    /\ class \in {"tklock", "devicelock"}
    /\ CanCall(Reader)
    /\ requests < MaxRequests[class]
    /\ outbox' = [outbox EXCEPT ![Reader] =
                    Append(@, [query |-> TRUE])]
    /\ requests' = requests + 1
    /\ UNCHANGED <<class, service, inbox, view, reading, asked, thresholds, moves>>

\* What has been asked for, and whether all of its messages have come, when m
\* has; nothing if others came between them.
Followed(m) ==
    IF m.first \/ asked = <<m.request, FALSE, m.listed>>
    THEN <<m.request, m.last, m.listed>> ELSE <<>>

\* The service takes a message.  An answer may be an error, of which nobody hears.
Take(a) ==
    /\ outbox[a] # <<>>
    /\ outbox' = [outbox EXCEPT ![a] = Tail(@)]
    /\ IF Head(outbox[a]).query
       THEN /\ inbox' \in {inbox, Append(inbox, service)}
            /\ UNCHANGED <<service, asked>>
       ELSE /\ service' \in Do(class, service, Head(outbox[a]).message)
            /\ Signalled(service')
            /\ asked' = IF Heeded(class, service, Head(outbox[a]).message)
                        THEN Followed(Head(outbox[a])) ELSE <<>>
    /\ UNCHANGED <<class, view, reading, thresholds, requests, moves>>

\* The state changes for other reasons.
Move ==
    /\ moves < MaxMoves
    /\ moves' = moves + 1
    /\ service' \in States(class)
    /\ Signalled(service')
    /\ asked' = <<>>
    /\ thresholds' = IF class = "batteryPsm" THEN thresholds \cup {service'.threshold}
                     ELSE thresholds
    /\ UNCHANGED <<class, outbox, view, reading, requests>>

\* usb_moded tells of something that is no mode.
Notice ==
    /\ class = "usb" /\ moves < MaxMoves
    /\ moves' = moves + 1
    /\ \E s \in USBEvents : inbox' = Append(inbox, s)
    /\ UNCHANGED <<class, service, outbox, view, reading, asked, thresholds, requests>>

TwoQueries == {"batteryPsm", "call"}

\* A getter, or its first query.  An answer made of an error is not believed.
Query ==
    /\ class # "system"
    /\ CanBlock(Reader)
    /\ \E valid \in BOOLEAN :
        IF class \in TwoQueries
        THEN /\ reading' = <<[valid |-> valid, state |-> service]>>
             /\ UNCHANGED view
        ELSE /\ view' = IF valid THEN <<Get(class, valid, service, valid, service)>> ELSE <<>>
             /\ UNCHANGED reading
    /\ UNCHANGED <<class, service, outbox, inbox, asked, thresholds, requests, moves>>

SecondQuery ==
    /\ reading # <<>>
    /\ \E valid \in BOOLEAN :
        view' = IF valid /\ reading[1].valid
                THEN <<Get(class, TRUE, reading[1].state, TRUE, service)>> ELSE <<>>
    /\ reading' = <<>>
    /\ UNCHANGED <<class, service, outbox, inbox, asked, thresholds, requests, moves>>

\* A signal, or the answer to getStateAsync, reaches the reader.
Hear ==
    /\ inbox # <<>> /\ reading = <<>>
    /\ inbox' = Tail(inbox)
    /\ view' = IF (class = "usb" /\ Head(inbox) \in USBEvents)
                    \/ Told(class, Head(inbox)) = {}
               THEN view
               ELSE <<CHOOSE t \in Told(class, Head(inbox)) : TRUE>>
    /\ UNCHANGED <<class, service, outbox, reading, asked, thresholds, requests, moves>>

RequestNext ==
    \/ \E a \in Apps : Request(a) \/ Take(a)
    \/ getStateAsync
    \/ Move
    \/ Notice
    \/ Query
    \/ SecondQuery
    \/ Hear

RequestSpec == RequestInit /\ [][RequestNext]_requestVars

-----------------------------------------------------------------------------
\* What was asked for reads back; a threshold is rounded up to one in the list.
ReadsAsAsked ==
    Get(class, TRUE, service, TRUE, service) =
        IF class = "batteryPsm" /\ asked[1] > 0 THEN ThresholdFor(asked[1]) ELSE asked[1]

\* A request whose query succeeded, whose messages have all come, that the service
\* heeds and after which nothing else happened to the service reads back as it was
\* asked: set and get of each class convert in opposite ways, and the two messages
\* for power saving keep together.  Not heeded are a lock made unknown, the
\* device lock opened, a call changed from one state to another but none, and
\* forced power saving, whose state is not its setting.  A request whose query
\* failed is left out: setPSMBatteryMode then enables power saving at whatever
\* threshold there is, and returns true.
ReadBack == asked # <<>> /\ asked[2] /\ asked[3] => ReadsAsAsked

\* Once no signal is on its way, the reader believes what the service says,
\* although replies overtook signals, pairs were read in halves, and names that
\* the slot or the getter does not know were passed over (the slots and getters of
\* the classes with a signal).
ViewsSettle ==
    class \notin Silent /\ view # <<>> /\ inbox = <<>> /\ reading = <<>> =>
        LET truth == IF class = "system" THEN Told(class, service)
                     ELSE {Get(class, TRUE, service, TRUE, service)}
        IN truth = {} \/ view[1] \in truth

\* Power saving is never enabled with a threshold that nobody has asked for, in
\* whatever order the messages of two applications arrive; but for a request
\* whose query of the list failed (setPSMBatteryMode).
ThresholdWasAsked ==
    class = "batteryPsm" /\ service.enabled => service.threshold \in thresholds
==============================================================================
