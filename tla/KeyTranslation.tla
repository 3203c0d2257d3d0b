---------------------------- MODULE KeyTranslation ---------------------------
(***************************************************************************)
(* What one KeyTranslator object does with a stimulus, as operators on its *)
(* state, so that the stand-alone machine (KeyTranslator) and the daemon   *)
(* that owns two of them (QmKeyd) share one definition.                    *)
(*                                                                         *)
(* A translator is [state, timer]: the state enum, and whether the         *)
(* one-second single-shot QTimer is active.  Qt deactivates a single-shot  *)
(* timer before it calls the slot, and a stopped timer never fires.        *)
(***************************************************************************)
EXTENDS InputEvents

TranslatorStates ==
    {"WAIT_FOR_KEYPRESS", "WAIT_FOR_LONG_PRESS", "LONG_PRESS_DETECTED"}

Translator == [state : TranslatorStates, timer : BOOLEAN]

\* The constructor.
InitialTranslator == [state |-> "WAIT_FOR_KEYPRESS", timer |-> FALSE]

\* The two keys a translator emits.
TranslatedKeys == [short : Codes, long : Codes]

PressOf(code) == [code |-> code, value |-> 1]
ReleaseOf(code) == [code |-> code, value |-> 0]

\* Mutants: a press does not start the timer; a press does not leave the state
\* of a long press; a release does not stop the timer.
handleKeyDown_NoTimer(t) == [state |-> "WAIT_FOR_LONG_PRESS", timer |-> FALSE]
handleKeyDown_StateKept(t) ==
    [state |-> IF t.state = "LONG_PRESS_DETECTED" THEN t.state ELSE "WAIT_FOR_LONG_PRESS",
     timer |-> TRUE]
handleKeyUp_TimerRuns(t) == [state |-> "WAIT_FOR_KEYPRESS", timer |-> t.timer]

\* handleEvent with value 1, and handleKeyDown: the timer is (re)started
\* whatever it was doing; nothing is emitted yet.
handleKeyDown(t) == [state |-> "WAIT_FOR_LONG_PRESS", timer |-> TRUE]

\* handleEvent with value 0: handleKeyUp looks at the timer and the state as
\* the key press left them, and only then the state is reset.
handleKeyUp(t) == [state |-> "WAIT_FOR_KEYPRESS", timer |-> FALSE]

\* Mutants: the withheld press is forgotten; the state is reset before the
\* release is handled.
KeyUpEvents_NoPress(t, keys) ==
    <<ReleaseOf(IF t.state = "LONG_PRESS_DETECTED" THEN keys.long ELSE keys.short)>>
KeyUpEvents_StateReset(t, keys) ==
    (IF t.timer THEN <<PressOf(keys.short)>> ELSE <<>>) \o <<ReleaseOf(keys.short)>>

\* What handleKeyUp emits: the press it withheld while the timer was running,
\* then the release, of the long-press key only if a long press was detected.
KeyUpEvents(t, keys) ==
    (IF t.timer THEN <<PressOf(keys.short)>> ELSE <<>>)
      \o <<ReleaseOf(IF t.state = "LONG_PRESS_DETECTED"
                     THEN keys.long ELSE keys.short)>>

\* handleEvent as a whole: the new translator and what is emitted meanwhile.
handleEvent(t, value) ==
    IF value = 1 THEN handleKeyDown(t) ELSE IF value = 0 THEN handleKeyUp(t) ELSE t

HandleEventEmits(t, value, keys) ==
    IF value = 0 THEN KeyUpEvents(t, keys) ELSE <<>>

\* longPressTimeout: returns at once unless a long press is awaited.
longPressTimeout(t) ==
    [state |-> IF t.state = "WAIT_FOR_LONG_PRESS"
               THEN "LONG_PRESS_DETECTED" ELSE t.state,
     timer |-> FALSE]

TimeoutEvents(t, keys) ==
    IF t.state = "WAIT_FOR_LONG_PRESS" THEN <<PressOf(keys.long)>> ELSE <<>>
=============================================================================
