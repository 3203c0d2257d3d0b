------------------------------- MODULE KeyCache ------------------------------
(***************************************************************************)
(* What a QmKeys object does with an event it reads from the daemon, as    *)
(* operators on its state [keyMap, cameraFocusDown], shared by the object  *)
(* on its own (QmKeys) and by the whole key system (KeySystem).            *)
(***************************************************************************)
EXTENDS InputEvents

KeyStates == {"KeyUp", "KeyHalfDown", "KeyDown", "KeyInvalid"}
NotCached == "notCached"     \* keyMap has no entry for the key

Cache == [keyMap : [Keys -> KeyStates \cup {NotCached}], cameraFocusDown : BOOLEAN]

EmptyCache ==
    [keyMap |-> [k \in Keys |-> NotCached], cameraFocusDown |-> FALSE]

\* QMap::value: a key without an entry reads as the first enumerator.
value(cache, key) ==
    IF cache.keyMap[key] = NotCached THEN "KeyUp" ELSE cache.keyMap[key]

UpOrDown(v) == IF v = 0 THEN "KeyUp" ELSE "KeyDown"

\* The key an event is about.
KeyOfEvent(code) ==
    CASE code = "KEY_CAMERA_FOCUS" -> "Camera"
      [] code = "SW_KEYPAD_SLIDE" -> "KeyboardSlider"
      [] OTHER -> codeToKey(code)

\* Mutants: the release of the shutter forgets that the focus contact is still
\* closed; the release of the focus contact is not remembered.
CameraReleased_NoFocus(cache) == "KeyUp"
FocusEvent_StaysDown(cache, v) ==
    [keyMap |-> [cache.keyMap EXCEPT !["Camera"] =
                    IF v = 0 THEN "KeyUp"
                    ELSE IF value(cache, "Camera") = "KeyUp" THEN "KeyHalfDown" ELSE @],
     cameraFocusDown |-> TRUE]

\* KEY_CAMERA, value 0: the state falls back to what the focus contact says.
CameraReleased(cache) ==
    IF cache.cameraFocusDown THEN "KeyHalfDown" ELSE "KeyUp"

CameraEvent(cache, v) ==
    [cache EXCEPT !.keyMap["Camera"] =
        IF v = 0 THEN CameraReleased(cache) ELSE "KeyDown"]

\* KEY_CAMERA_FOCUS: up means up; down counts only from the up state.
FocusEvent(cache, v) ==
    [keyMap |-> [cache.keyMap EXCEPT !["Camera"] =
                    IF v = 0 THEN "KeyUp"
                    ELSE IF value(cache, "Camera") = "KeyUp" THEN "KeyHalfDown" ELSE @],
     cameraFocusDown |-> v # 0]

\* The volume keys ignore auto-repeat, the other keys take it for a press.
VolumeEvent(cache, key, v) ==
    IF v = 2 THEN cache ELSE [cache EXCEPT !.keyMap[key] = UpOrDown(v)]

PlainEvent(cache, key, v) == [cache EXCEPT !.keyMap[key] = UpOrDown(v)]

\* readyRead: one event; every supported code has its case.
readyRead(cache, ev) ==
    LET key == KeyOfEvent(ev.code)
    IN  CASE ev.code = "KEY_CAMERA" -> CameraEvent(cache, ev.value)
          [] ev.code = "KEY_CAMERA_FOCUS" -> FocusEvent(cache, ev.value)
          [] key \in {"VolumeUp", "VolumeDown"} -> VolumeEvent(cache, key, ev.value)
          [] key = "UnknownKey" -> cache
          [] OTHER -> PlainEvent(cache, key, ev.value)

\* The state keyEvent() announces: what the map holds after the event.
SignalState(cache, ev) == value(readyRead(cache, ev), KeyOfEvent(ev.code))

-----------------------------------------------------------------------------
\* The state of the camera key computed from the two queried values.
CameraState(focus, camera) ==
    CASE camera = 1 /\ focus \in {0, 1} -> "KeyDown"
      [] camera = 0 /\ focus = 1 -> "KeyHalfDown"
      [] camera = 0 /\ focus = 0 -> "KeyUp"
      [] OTHER -> "KeyInvalid"

\* The state of any other key computed from the queried value.
StateOfValue(v) ==
    CASE v = 0 -> "KeyUp" [] v = 1 -> "KeyDown" [] OTHER -> "KeyInvalid"

\* The deprecated accessors, from the state getKeyState() returns.
getCameraLauncherPosition(state) ==
    CASE state = "KeyUp" -> "Up" [] state = "KeyHalfDown" -> "Down"
      [] state = "KeyDown" -> "Through" [] OTHER -> "Invalid"
getSliderPosition(state) ==
    IF state = "KeyDown" THEN "KeyboardSliderIn" ELSE "KeyboardSliderOut"
isVolumeDown(state) == state = "KeyDown"
=============================================================================
