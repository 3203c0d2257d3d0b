------------------------------- MODULE KeyPress ------------------------------
(***************************************************************************)
(* What a KeyTranslator promises to the clients of the daemon, with no     *)
(* timer and no translator state: the stream of translated events is a     *)
(* sequence of complete short presses and of long presses, and a long      *)
(* press is the only thing that can be left open.  Once kernel events have *)
(* been missed, two more things may happen: a long press is never closed,  *)
(* and a short key goes up without having gone down.                       *)
(***************************************************************************)
EXTENDS KeyTranslation

CONSTANTS ShortKey, LongKey

VARIABLES
    longHeld,   \* a long press was announced and not yet released
    missed,     \* some kernel event did not reach the translator
    sent        \* the translated events emitted so far

pressVars == <<longHeld, missed, sent>>

PressInit ==
    /\ longHeld = FALSE
    /\ missed = FALSE
    /\ sent = <<>>

\* A short press is announced as a whole, at the moment the key is released.
ShortPress ==
    /\ ~longHeld
    /\ sent' = sent \o <<PressOf(ShortKey), ReleaseOf(ShortKey)>>
    /\ UNCHANGED <<longHeld, missed>>

LongPress ==
    /\ ~longHeld
    /\ sent' = sent \o <<PressOf(LongKey)>>
    /\ longHeld' = TRUE
    /\ UNCHANGED missed

LongRelease ==
    /\ longHeld
    /\ sent' = sent \o <<ReleaseOf(LongKey)>>
    /\ longHeld' = FALSE
    /\ UNCHANGED missed

MissEvent ==
    /\ missed' = TRUE
    /\ UNCHANGED <<longHeld, sent>>

\* The release of the long press was missed and the key is pressed again.
ForgetLong ==
    /\ missed /\ longHeld
    /\ longHeld' = FALSE
    /\ UNCHANGED <<missed, sent>>

\* The press was missed and the key is released.
StrayRelease ==
    /\ missed /\ ~longHeld
    /\ sent' = sent \o <<ReleaseOf(ShortKey)>>
    /\ UNCHANGED <<longHeld, missed>>

PressNext ==
    ShortPress \/ LongPress \/ LongRelease \/ MissEvent \/ ForgetLong \/ StrayRelease

PressSpec == PressInit /\ [][PressNext]_pressVars
=============================================================================
