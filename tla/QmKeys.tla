-------------------------------- MODULE QmKeys -------------------------------
(***************************************************************************)
(* One QmKeys object fed by the contacts of the phone: what its cache and  *)
(* its signals say, compared with the contacts themselves.  The object may *)
(* be created at any moment, in particular while contacts are closed; the  *)
(* events reach it in order and none is lost once it is connected.         *)
(***************************************************************************)
EXTENDS KeyCache

CONSTANT Contacts     \* the codes whose contacts are modelled

ASSUME QmKeysAssumption == Contacts \subseteq SupportedKeyCodes \cup {"SW_KEYPAD_SLIDE"}

VARIABLES
    closed,    \* the contacts that are closed
    regular,   \* history: the camera key started open and the shutter has only
               \* been closed with the focus contact, as in a two-stage key
    cache,     \* keyMap and cameraFocusDown
    signal,    \* the last keyEvent signal, as [key, state]
    moved      \* the last value of each deprecated signal

vars == <<closed, regular, cache, signal, moved>>

NoSignal == [key |-> "UnknownKey", state |-> "KeyInvalid"]
Channels == {"cameraLauncher", "volumeUp", "volumeDown", "keyboardSlider"}
NotMoved == "notMoved"
BoolName(b) == IF b THEN "true" ELSE "false"

TwoStage(contacts) ==
    "KEY_CAMERA" \in contacts => "KEY_CAMERA_FOCUS" \in contacts

Init ==
    /\ closed \in SUBSET Contacts
    /\ regular = (closed \cap {"KEY_CAMERA", "KEY_CAMERA_FOCUS"} = {})
    /\ cache = EmptyCache
    /\ signal = NoSignal
    /\ moved = [ch \in Channels |-> NotMoved]

\* Mutant: the position of a released shutter is always announced as Up.
Announced_AlwaysUp(before, ev) ==
    CASE ev.code = "KEY_CAMERA" ->
            [cameraLauncher |-> IF ev.value # 0 THEN "Through" ELSE "Up"]
      [] OTHER -> <<>>

\* The deprecated signal an event gives rise to, as channel |-> value.
Announced(before, ev) ==
    LET v == ev.value
        key == KeyOfEvent(ev.code)
        fromUp == value(before, "Camera") = "KeyUp"
    IN  CASE ev.code = "KEY_CAMERA" ->
                [cameraLauncher |-> IF v # 0 THEN "Through"
                                    ELSE IF before.cameraFocusDown THEN "Down" ELSE "Up"]
          [] ev.code = "KEY_CAMERA_FOCUS" /\ v = 0 -> [cameraLauncher |-> "Up"]
          [] ev.code = "KEY_CAMERA_FOCUS" /\ v # 0 /\ fromUp ->
                [cameraLauncher |-> "Down"]
          [] key = "VolumeUp" /\ v # 2 -> [volumeUp |-> BoolName(v = 1)]
          [] key = "VolumeDown" /\ v # 2 -> [volumeDown |-> BoolName(v = 1)]
          [] key = "KeyboardSlider" ->
                [keyboardSlider |-> IF v = 0 THEN "KeyboardSliderOut" ELSE "KeyboardSliderIn"]
          [] OTHER -> <<>>

\* One event is read and handled: cache, deprecated signal, keyEvent.
Receive(ev) ==
    LET announced == Announced(cache, ev)
    IN  /\ cache' = readyRead(cache, ev)
        /\ signal' = [key |-> KeyOfEvent(ev.code), state |-> SignalState(cache, ev)]
        /\ moved' = [ch \in Channels |->
                        IF ch \in DOMAIN announced THEN announced[ch] ELSE moved[ch]]

CloseContact(code) ==
    /\ code \notin closed
    /\ closed' = closed \cup {code}
    /\ regular' = (regular /\ TwoStage(closed'))
    /\ Receive([code |-> code, value |-> 1])

OpenContact(code) ==
    /\ code \in closed
    /\ closed' = closed \ {code}
    /\ regular' = (regular /\ TwoStage(closed'))
    /\ Receive([code |-> code, value |-> 0])

\* Auto-repeat; a switch does not repeat.
Repeat(code) ==
    /\ code \in closed \ {"SW_KEYPAD_SLIDE"}
    /\ Receive([code |-> code, value |-> 2])
    /\ UNCHANGED <<closed, regular>>

Next == \E code \in Contacts : CloseContact(code) \/ OpenContact(code) \/ Repeat(code)

Spec == Init /\ [][Next]_vars

-----------------------------------------------------------------------------
Level(code) == IF code \in closed THEN 1 ELSE 0

TypeOK ==
    /\ closed \subseteq Contacts /\ regular \in BOOLEAN
    /\ cache \in Cache
    /\ signal.key \in Keys \cup {"UnknownKey"} /\ signal.state \in KeyStates
    /\ DOMAIN moved = Channels

\* The cached camera state is what the daemon would be asked for: the event
\* path and the query path of getKeyState() tell the same story, for a key
\* that is not held when the object is created and whose shutter is two-stage.
CameraCacheAgrees ==
    (regular /\ cache.keyMap["Camera"] # NotCached)
        => cache.keyMap["Camera"] =
              CameraState(Level("KEY_CAMERA_FOCUS"), Level("KEY_CAMERA"))

\* No key is cached as pressed when none of its contacts is closed, whatever
\* the order of the contacts and whenever the object was created.
NoPhantomPress ==
    /\ \A key \in Keys \ {"Camera"} :
          cache.keyMap[key] = "KeyDown" =>
              \E code \in closed : KeyOfEvent(code) = key
    /\ cache.keyMap["Camera"] = "KeyDown" => "KEY_CAMERA" \in closed
    /\ cache.keyMap["Camera"] = "KeyHalfDown" => "KEY_CAMERA_FOCUS" \in closed

\* The last deprecated signal of a kind says what its accessor returns.
DeprecatedViewAgrees ==
    LET Says(ch, v) == moved[ch] # NotMoved => moved[ch] = v
    IN  /\ Says("cameraLauncher", getCameraLauncherPosition(value(cache, "Camera")))
        /\ Says("keyboardSlider", getSliderPosition(value(cache, "KeyboardSlider")))
        /\ Says("volumeUp", BoolName(isVolumeDown(value(cache, "VolumeUp"))))
        /\ Says("volumeDown", BoolName(isVolumeDown(value(cache, "VolumeDown"))))
=============================================================================
