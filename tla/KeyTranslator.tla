---------------------------- MODULE KeyTranslator ----------------------------
(***************************************************************************)
(* One KeyTranslator object on its own: the accessory key it listens to,   *)
(* its one-second timer and the events it emits.  Presses and releases of  *)
(* the key alternate, but the translator does not see those that happen    *)
(* while the daemon has the device closed; the object outlives that.       *)
(***************************************************************************)
EXTENDS KeyTranslation

CONSTANTS
    ShortKey, LongKey,  \* shortPressKey and longPressKey
    MaxSent             \* bound on the length of the history "sent"

ASSUME KeysDiffer == ShortKey \in Codes /\ LongKey \in Codes /\ ShortKey # LongKey
ASSUME MaxSentOK == MaxSent \in Nat

VARIABLES
    translator,   \* the object's state and its timer
    pressed,      \* the key is physically down
    missed,       \* history: some press or release was not seen
    sent          \* history of what it emitted

vars == <<translator, pressed, missed, sent>>

MyKeys == [short |-> ShortKey, long |-> LongKey]

Init ==
    /\ translator = InitialTranslator
    /\ pressed = FALSE
    /\ missed = FALSE
    /\ sent = <<>>

\* The key moves: 1 and 0 alternate, 2 is auto-repeat.
KeyMoves(value) ==
    /\ pressed <=> value # 1
    /\ pressed' = (value # 0)

\* handleEvent(ev).
HandleEvent(value) ==
    /\ KeyMoves(value)
    /\ Len(sent) + 2 <= MaxSent
    /\ translator' = handleEvent(translator, value)
    /\ sent' = sent \o HandleEventEmits(translator, value, MyKeys)
    /\ UNCHANGED missed

\* The key moves while its device is closed.
MissEvent(value) ==
    /\ value # 2 /\ KeyMoves(value)
    /\ missed' = TRUE
    /\ UNCHANGED <<translator, sent>>

\* The timer expires while it is active.
LongPressTimeout ==
    /\ translator.timer
    /\ translator' = longPressTimeout(translator)
    /\ sent' = sent \o TimeoutEvents(translator, MyKeys)
    /\ UNCHANGED <<pressed, missed>>

Next ==
    \/ \E value \in 0..2 : HandleEvent(value) \/ MissEvent(value)
    \/ LongPressTimeout

\* The event loop fires an active timer sooner or later.
Spec == Init /\ [][Next]_vars /\ WF_vars(LongPressTimeout)

-----------------------------------------------------------------------------
TypeOK ==
    /\ translator \in Translator
    /\ pressed \in BOOLEAN /\ missed \in BOOLEAN
    /\ sent \in Seq(Event)

\* The timer is active only while a long press is awaited, whatever was missed:
\* the assumption behind the early return of longPressTimeout.
TimerMeansWaiting ==
    translator.timer <=> translator.state = "WAIT_FOR_LONG_PRESS"

\* A release of the long-press key always follows its press at once, even when
\* kernel events are missing: clients never see a long key go up unexpectedly.
LongReleaseFollowsPress ==
    \A i \in DOMAIN sent :
        sent[i] = ReleaseOf(LongKey) => i > 1 /\ sent[i-1] = PressOf(LongKey)

\* While no kernel event is missed the emitted stream is a sequence of complete
\* presses of one key each; only the last press may still be open, and only if
\* it is a long one: a short press is withheld until the key is released.
WellPaired ==
    ~missed =>
      \A i \in DOMAIN sent :
        IF sent[i].value = 0
        THEN i > 1 /\ sent[i-1] = PressOf(sent[i].code)
        ELSE IF i < Len(sent)
             THEN sent[i+1] = ReleaseOf(sent[i].code)
             ELSE sent[i] = PressOf(LongKey)

\* A press that has been seen is not withheld for ever: it is announced as a
\* short or as a long press, even if the release is never seen.
PressResolved ==
    (translator.state = "WAIT_FOR_LONG_PRESS")
        ~> (translator.state # "WAIT_FOR_LONG_PRESS")

\* The translator implements the abstract stream of presses.
Press == INSTANCE KeyPress WITH longHeld <- translator.state = "LONG_PRESS_DETECTED"

\* Every step of the translator is a step of KeyPress or leaves it alone: what
\* the clients can count on, with and without missed events.
ImplementsKeyPress == Press!PressSpec
=============================================================================
