---------------------------- MODULE KeyCacheProofs ---------------------------
(***************************************************************************)
(* Lemmas about the cache of a QmKeys object: which key an event is about, *)
(* and what the cache holds after each kind of event.  They are used for   *)
(* the object on its own (LibraryProofs) and for the whole key system      *)
(* (QmKeydProofs).                                                         *)
(***************************************************************************)
EXTENDS KeyCache, TLAPS

\* Every event is about a known key, and two codes are about the camera key.
LEMMA KeyOfEventKnown ==
    ASSUME NEW code \in SupportedKeyCodes \cup {"SW_KEYPAD_SLIDE"}
    PROVE  /\ KeyOfEvent(code) \in Keys \cup {"UnknownKey"}
           /\ KeyOfEvent(code) = "Camera" => code \in {"KEY_CAMERA", "KEY_CAMERA_FOCUS"}
<1>1. \A c \in DOMAIN KeyOfCode : KeyOfCode[c] = "Camera" => c = "KEY_CAMERA"
  BY DEF KeyOfCode
<1>2. {"Camera", "KeyboardSlider"} \subseteq Keys
  <2>1. "KEY_CAMERA" \in DOMAIN KeyOfCode /\ KeyOfCode["KEY_CAMERA"] = "Camera"
    BY DEF KeyOfCode
  <2> QED BY <2>1 DEF Keys
<1>3. codeToKey(code) \in Keys \cup {"UnknownKey"}
  BY DEF codeToKey, Keys
<1> QED BY <1>1, <1>2, <1>3 DEF KeyOfEvent, codeToKey

LEMMA KeysKnown == {"Camera", "KeyboardSlider", "VolumeUp", "VolumeDown"} \subseteq Keys
<1>1. /\ {"KEY_CAMERA", "KEY_VOLUMEUP", "KEY_VOLUMEDOWN"} \subseteq DOMAIN KeyOfCode
      /\ KeyOfCode["KEY_CAMERA"] = "Camera" /\ KeyOfCode["KEY_VOLUMEUP"] = "VolumeUp"
      /\ KeyOfCode["KEY_VOLUMEDOWN"] = "VolumeDown"
  BY DEF KeyOfCode
<1> QED BY <1>1 DEF Keys

\* What the cache holds after the shutter contact, the focus contact and any
\* other code have been read.
LEMMA CameraRead ==
    ASSUME NEW c \in Cache, NEW v \in 0..2
    PROVE  LET r == readyRead(c, [code |-> "KEY_CAMERA", value |-> v])
           IN  /\ r \in Cache
               /\ r.keyMap["Camera"] = IF v = 0 THEN CameraReleased(c) ELSE "KeyDown"
               /\ \A k \in Keys \ {"Camera"} : r.keyMap[k] = c.keyMap[k]
               /\ r.cameraFocusDown = c.cameraFocusDown
<1> DEFINE ev == [code |-> "KEY_CAMERA", value |-> v]
           x == IF v = 0 THEN CameraReleased(c) ELSE "KeyDown"
           r == readyRead(c, ev)
<1>1. r = CameraEvent(c, v)
  <2>1. ev.code = "KEY_CAMERA" /\ ev.value = v
    OBVIOUS
  <2>2. KeyOfEvent("KEY_CAMERA") = "Camera"
    BY DEF KeyOfEvent, codeToKey, KeyOfCode
  <2> HIDE DEF ev
  <2> QED BY <2>1, <2>2 DEF readyRead
<1>2. x \in KeyStates
  BY DEF CameraReleased, KeyStates
<1>3. r = [c EXCEPT !.keyMap["Camera"] = x]
  BY <1>1 DEF CameraEvent
<1> HIDE DEF x, r
<1>4. /\ r \in Cache
      /\ r.keyMap["Camera"] = x
      /\ \A k \in Keys \ {"Camera"} : r.keyMap[k] = c.keyMap[k]
      /\ r.cameraFocusDown = c.cameraFocusDown
  BY <1>2, <1>3, KeysKnown, Zenon DEF Cache
<1> QED BY <1>4 DEF r, x

LEMMA FocusRead ==
    ASSUME NEW c \in Cache, NEW v \in 0..2
    PROVE  LET r == readyRead(c, [code |-> "KEY_CAMERA_FOCUS", value |-> v])
           IN  /\ r \in Cache
               /\ r.keyMap["Camera"] =
                     IF v = 0 THEN "KeyUp"
                     ELSE IF value(c, "Camera") = "KeyUp" THEN "KeyHalfDown"
                     ELSE c.keyMap["Camera"]
               /\ \A k \in Keys \ {"Camera"} : r.keyMap[k] = c.keyMap[k]
               /\ r.cameraFocusDown = (v # 0)
<1> DEFINE ev == [code |-> "KEY_CAMERA_FOCUS", value |-> v]
           x == IF v = 0 THEN "KeyUp"
                ELSE IF value(c, "Camera") = "KeyUp" THEN "KeyHalfDown"
                ELSE c.keyMap["Camera"]
           r == readyRead(c, ev)
           d == (v # 0)
<1>1. r = FocusEvent(c, v)
  <2>1. ev.code = "KEY_CAMERA_FOCUS" /\ ev.value = v
    OBVIOUS
  <2>2. KeyOfEvent("KEY_CAMERA_FOCUS") = "Camera"
    BY DEF KeyOfEvent
  <2> HIDE DEF ev
  <2> QED BY <2>1, <2>2 DEF readyRead
<1>2. c.keyMap \in [Keys -> KeyStates \cup {NotCached}]
  BY DEF Cache
<1>3. x \in KeyStates \cup {NotCached} /\ d \in BOOLEAN
  BY <1>2, KeysKnown DEF KeyStates
<1>4. r = [keyMap |-> [c.keyMap EXCEPT !["Camera"] = x], cameraFocusDown |-> d]
  BY <1>1 DEF FocusEvent
<1> HIDE DEF x, r, d
<1>5. /\ r \in Cache
      /\ r.keyMap["Camera"] = x
      /\ \A k \in Keys \ {"Camera"} : r.keyMap[k] = c.keyMap[k]
      /\ r.cameraFocusDown = d
  BY <1>2, <1>3, <1>4, KeysKnown DEF Cache
<1> QED BY <1>5 DEF r, x, d

LEMMA OtherRead ==
    ASSUME NEW c \in Cache, NEW v \in 0..2,
           NEW code \in (SupportedKeyCodes \cup {"SW_KEYPAD_SLIDE"})
                           \ {"KEY_CAMERA", "KEY_CAMERA_FOCUS"}
    PROVE  LET r == readyRead(c, [code |-> code, value |-> v])
               key == KeyOfEvent(code)
           IN  /\ r \in Cache
               /\ key # "Camera"
               /\ key \in Keys => r.keyMap[key] =
                     IF v = 2 /\ key \in {"VolumeUp", "VolumeDown"} THEN c.keyMap[key]
                     ELSE UpOrDown(v)
               /\ \A k \in Keys \ {key} : r.keyMap[k] = c.keyMap[k]
               /\ r.cameraFocusDown = c.cameraFocusDown
<1> DEFINE ev == [code |-> code, value |-> v]
           key == KeyOfEvent(code)
           r == readyRead(c, ev)
<1>1. ev.code = code /\ ev.value = v
  OBVIOUS
<1>2. key \in Keys \cup {"UnknownKey"} /\ key # "Camera"
  BY KeyOfEventKnown
<1> HIDE DEF ev
<1>3. CASE r = c /\ (key \notin Keys \/ (v = 2 /\ key \in {"VolumeUp", "VolumeDown"}))
  BY <1>2, <1>3 DEF ev
<1>4. CASE r = PlainEvent(c, key, v) /\ key \in Keys
              /\ ~(v = 2 /\ key \in {"VolumeUp", "VolumeDown"})
  <2> DEFINE x == UpOrDown(v)
  <2>1. x \in KeyStates
    BY DEF UpOrDown, KeyStates
  <2>2. r = [c EXCEPT !.keyMap[key] = x]
    BY <1>4 DEF PlainEvent
  <2> HIDE DEF x, r, key
  <2>3. /\ r \in Cache
        /\ r.keyMap[key] = x
        /\ \A k \in Keys \ {key} : r.keyMap[k] = c.keyMap[k]
        /\ r.cameraFocusDown = c.cameraFocusDown
    BY <1>4, <2>1, <2>2, ZenonT(60) DEF Cache
  <2> QED BY <1>2, <1>4, <2>3 DEF r, x, key, ev
<1>5. "UnknownKey" \notin Keys
  BY DEF Keys, KeyOfCode
<1>6. \/ r = c /\ (key \notin Keys \/ (v = 2 /\ key \in {"VolumeUp", "VolumeDown"}))
      \/ /\ r = PlainEvent(c, key, v) /\ key \in Keys
         /\ ~(v = 2 /\ key \in {"VolumeUp", "VolumeDown"})
  BY <1>1, <1>2, <1>5, KeysKnown DEF readyRead, VolumeEvent, PlainEvent
<1> QED BY <1>3, <1>4, <1>6

\* Whatever has been read, the cache is one, and only the key of the event may
\* have another state in it.
LEMMA ReadKept ==
    ASSUME NEW c \in Cache, NEW ev \in Event
    PROVE  /\ readyRead(c, ev) \in Cache
           /\ \A k \in Keys : k # KeyOfEvent(ev.code) => readyRead(c, ev).keyMap[k] = c.keyMap[k]
<1>1. /\ ev = [code |-> ev.code, value |-> ev.value] /\ ev.value \in 0..2
      /\ ev.code \in SupportedKeyCodes \cup {"SW_KEYPAD_SLIDE", OtherCode}
  BY DEF Event, Codes
<1>2. KeyOfEvent("KEY_CAMERA") = "Camera" /\ KeyOfEvent("KEY_CAMERA_FOCUS") = "Camera"
  BY DEF KeyOfEvent, codeToKey, KeyOfCode
<1>3. CASE ev.code = "KEY_CAMERA"
  BY <1>1, <1>2, <1>3, CameraRead
<1>4. CASE ev.code = "KEY_CAMERA_FOCUS"
  BY <1>1, <1>2, <1>4, FocusRead
<1>5. CASE ev.code = OtherCode
  <2>1. KeyOfEvent(OtherCode) = "UnknownKey"
    BY DEF KeyOfEvent, codeToKey, KeyOfCode, OtherCode
  <2> QED BY <1>5, <2>1 DEF readyRead, OtherCode
<1>6. CASE ev.code \in (SupportedKeyCodes \cup {"SW_KEYPAD_SLIDE"})
                          \ {"KEY_CAMERA", "KEY_CAMERA_FOCUS"}
  BY <1>1, <1>6, OtherRead
<1> QED BY <1>1, <1>3, <1>4, <1>5, <1>6
==============================================================================
