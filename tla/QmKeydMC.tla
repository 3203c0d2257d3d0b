------------------------------- MODULE QmKeydMC ------------------------------
(* Small instances of the daemon: which keys each source of events has. *)
EXTENDS QmKeyd, TLC

\* An accessory with one translated key and one the daemon does not know, and no
\* headset.
AccessoryKeys == [s \in Sources |-> IF s = ECI THEN {"KEY_REWIND", OtherCode} ELSE {}]

\* A headset whose key is broadcast as it is, beside an accessory without keys.
HeadsetKeys == [s \in Sources |-> IF s = BT THEN {"KEY_PLAYCD"} ELSE {}]

ClientSymmetry == Permutations(Clients)
=============================================================================
