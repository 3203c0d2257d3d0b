------------------------------ MODULE KeySystemMC ----------------------------
(* Small instances of the key system: who is there and with which keys. *)
EXTENDS KeySystem

CONSTANTS l1, q1
OneListener == {l1}
OneQuerier == {q1}
Nobody == {}
ListenerAndQuerier == {l1, q1}

\* One built-in key, auto-repeating.
OneKey == [s \in Sources |-> IF s = "gpio" THEN {"KEY_VOLUMEUP"} ELSE {}]

\* The switch of the keyboard slider.
Slider == [s \in Sources |-> IF s = "gpio" THEN {"SW_KEYPAD_SLIDE"} ELSE {}]

\* A built-in key and a key of an accessory.
TwoKeys ==
    [s \in Sources |-> CASE s = "gpio" -> {"KEY_VOLUMEUP"}
                         [] s = ECI -> {"KEY_POWER"} [] OTHER -> {}]

\* The translated key of the accessory.
AccessoryKeys == [s \in Sources |-> IF s = ECI THEN {"KEY_REWIND"} ELSE {}]
=============================================================================
