----------------------------- MODULE InputEvents -----------------------------
(***************************************************************************)
(* The vocabulary shared by the qmkeyd daemon and the QmKeys client: the   *)
(* kernel key codes, the input events that travel over the local socket,   *)
(* and the two tables that relate codes to the keys of the public API.     *)
(* An event keeps its code and its value; the time stamp is abstracted.    *)
(* The only EV_SW code is SW_KEYPAD_SLIDE, so the type follows the code.   *)
(***************************************************************************)
EXTENDS Naturals, Sequences

\* Codes of EV_KEY events that the daemon lets through (the others and every
\* other event type are dropped), and the only EV_SW code.
SupportedKeyCodes ==
    {"KEY_RIGHTCTRL", "KEY_CAMERA", "KEY_CAMERA_FOCUS", "KEY_VOLUMEUP",
     "KEY_VOLUMEDOWN", "KEY_UP", "KEY_LEFT", "KEY_RIGHT", "KEY_END",
     "KEY_DOWN", "KEY_MUTE", "KEY_STOP", "KEY_FORWARD", "KEY_PLAYPAUSE",
     "KEY_PHONE", "KEY_PAUSECD", "KEY_PLAYCD", "KEY_STOPCD", "KEY_NEXTSONG",
     "KEY_FASTFORWARD", "KEY_PREVIOUSSONG", "KEY_REWIND", "KEY_POWER"}

isKeySupported(code) == code \in SupportedKeyCodes \cup {"SW_KEYPAD_SLIDE"}

\* A code the daemon does not know: it is read from the device and skipped.
OtherCode == "KEY_OTHER"

Codes == SupportedKeyCodes \cup {"SW_KEYPAD_SLIDE", OtherCode}

\* Values of an input event: 0 release, 1 press, 2 auto-repeat.
Event == [code : Codes, value : 0..2]

-----------------------------------------------------------------------------
\* codeToKey: the switch over key codes; two pairs of codes share a key.
KeyOfCode ==
    [KEY_CAMERA |-> "Camera", KEY_VOLUMEUP |-> "VolumeUp",
     KEY_VOLUMEDOWN |-> "VolumeDown", KEY_UP |-> "UpKey",
     KEY_DOWN |-> "DownKey", KEY_LEFT |-> "LeftKey", KEY_RIGHT |-> "RightKey",
     KEY_END |-> "End", KEY_MUTE |-> "Mute", KEY_STOPCD |-> "Stop",
     KEY_STOP |-> "Stop", KEY_FASTFORWARD |-> "Forward",
     KEY_FORWARD |-> "Forward", KEY_NEXTSONG |-> "NextSong",
     KEY_PLAYPAUSE |-> "PlayPause", KEY_PLAYCD |-> "Play",
     KEY_REWIND |-> "Rewind", KEY_PREVIOUSSONG |-> "PreviousSong",
     KEY_PHONE |-> "Phone", KEY_PAUSECD |-> "Pause",
     KEY_RIGHTCTRL |-> "RightCtrl", KEY_POWER |-> "PowerKey"]

codeToKey(code) ==
    IF code \in DOMAIN KeyOfCode THEN KeyOfCode[code] ELSE "UnknownKey"

\* keyToEvent: only four keys have a code to ask the daemon for; every other
\* key gives an all-zero event, which the daemon does not answer.
QueryCode ==
    [KeyboardSlider |-> "SW_KEYPAD_SLIDE", VolumeUp |-> "KEY_VOLUMEUP",
     VolumeDown |-> "KEY_VOLUMEDOWN", PowerKey |-> "KEY_POWER"]

keyToEvent(key) ==
    IF key \in DOMAIN QueryCode THEN QueryCode[key] ELSE OtherCode

Keys == {KeyOfCode[c] : c \in DOMAIN KeyOfCode} \cup {"KeyboardSlider"}
=============================================================================
