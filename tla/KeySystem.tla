------------------------------- MODULE KeySystem -----------------------------
(***************************************************************************)
(* The daemon and its clients together.  A listener is a QmKeys object: it *)
(* stays connected and caches the keys it hears about.  A querier is one   *)
(* call of getKeyValue(): a connection of its own that sends one query,    *)
(* waits for anything to arrive, and is closed when the call returns.      *)
(***************************************************************************)
EXTENDS QmKeyd, KeyCache

CONSTANTS Listeners, Queriers

ASSUME KeySystemAssumption ==
    /\ Listeners \cup Queriers = Clients
    /\ Listeners \cap Queriers = {}

VARIABLES
    caches,   \* keyMap and cameraFocusDown of each listener
    asked,    \* the code a querier asks for, None outside the call
    sent,     \* the querier has written its query
    answers,  \* what the last call returned, and for which code
    seen,     \* history: the positions of the asked key since the call began
    unread    \* history: those in events the daemon had not read by then

sysVars == <<vars, caches, asked, sent, answers, seen, unread>>
queryVars == <<asked, sent, answers, seen, unread>>

NoAnswer == [code |-> OtherCode, value |-> 3, matched |-> TRUE]
TimedOut == 3      \* stands for the return value -1

SysInit ==
    /\ Init
    /\ caches = [l \in Listeners |-> EmptyCache]
    /\ asked = [q \in Queriers |-> None]
    /\ sent = [q \in Queriers |-> FALSE]
    /\ answers = [q \in Queriers |-> NoAnswer]
    /\ seen = [q \in Queriers |-> {}]
    /\ unread = [q \in Queriers |-> {}]

\* Is a key with this code down on some device?
IsDown(code) == \E s \in Sources : code \in held[s]
Levels(code) == IF IsDown(code) THEN {"down"} ELSE {"up"}

\* What an event says of its key.
Position(v) == IF v = 0 THEN "up" ELSE "down"

\* What the unread events of the devices say of a code.
Waiting(code) ==
    UNION {{Position(kbuf[s][i].value) :
              i \in {j \in DOMAIN kbuf[s] : kbuf[s][j].code = code}} : s \in Sources}

Watch == seen' = [q \in Queriers |-> IF asked[q] = None THEN seen[q]
                                     ELSE seen[q] \cup Levels(asked[q])']

-----------------------------------------------------------------------------
\* QmKeys: the constructor connects, the destructor closes; what arrives in
\* between goes through readyRead.
NewQmKeys(l) ==
    /\ Connect(l)
    /\ caches' = [caches EXCEPT ![l] = EmptyCache]
    /\ UNCHANGED queryVars

DeleteQmKeys(l) ==
    /\ CloseSocket(l) \/ DropSocket(l)
    /\ UNCHANGED <<caches, queryVars>>

ListenerReads(l) ==
    /\ ReadSocket(l)
    /\ caches' = [caches EXCEPT ![l] = readyRead(@, Head(outbox[l]))]
    /\ UNCHANGED queryVars

\* getKeyValue: connect, write the query, wait for something to read.
Ask(q, code) ==
    /\ Connect(q)
    /\ asked' = [asked EXCEPT ![q] = code]
    /\ sent' = [sent EXCEPT ![q] = FALSE]
    /\ seen' = [seen EXCEPT ![q] = Levels(code)]
    /\ unread' = [unread EXCEPT ![q] = Waiting(code)]
    /\ UNCHANGED <<caches, answers>>

WriteQuery(q) ==
    /\ asked[q] # None /\ ~sent[q]
    /\ SendQuery(q, asked[q])
    /\ sent' = [sent EXCEPT ![q] = TRUE]
    /\ UNCHANGED <<caches, asked, answers, seen, unread>>

\* What the call returns when ev is the last event it has read.
Response(code, ev) == [code |-> code, value |-> ev.value, matched |-> ev.code = code]

\* Something has arrived: the loop reads until an event matches the query or
\* there is no more, and the socket is closed with the call.
ReadResponse(q) ==
    /\ asked[q] # None /\ sent[q]
    /\ \E n \in 1..Len(outbox[q]) :
          /\ \A i \in 1..(n - 1) : outbox[q][i].code # asked[q]
          /\ answers' = [answers EXCEPT ![q] = Response(asked[q], outbox[q][n])]
    /\ CloseSocket(q)
    /\ asked' = [asked EXCEPT ![q] = None]
    /\ UNCHANGED <<caches, sent, seen, unread>>

\* Nothing arrives in time, or the connection is lost.
GiveUp(q) ==
    /\ asked[q] # None
    /\ outbox[q] = <<>>
    /\ CloseSocket(q) \/ DropSocket(q)
    /\ answers' = [answers EXCEPT ![q] =
                     [code |-> asked[q], value |-> TimedOut, matched |-> TRUE]]
    /\ asked' = [asked EXCEPT ![q] = None]
    /\ UNCHANGED <<caches, sent, seen, unread>>

Environment ==
    /\ UNCHANGED <<caches, asked, sent, answers, unread>>
    /\ Kernel \/ Daemon
    /\ Watch

Listener(l) == NewQmKeys(l) \/ DeleteQmKeys(l) \/ ListenerReads(l)

Querier(q) ==
    \/ \E code \in UNION {KeysOf[s] : s \in Sources} : Ask(q, code)
    \/ WriteQuery(q) \/ ReadResponse(q) \/ GiveUp(q)

SysNext ==
    \/ Environment
    \/ \E l \in Listeners : Listener(l)
    \/ \E q \in Queriers : Querier(q)

SysSpec == SysInit /\ [][SysNext]_sysVars

-----------------------------------------------------------------------------
SysTypeOK ==
    /\ caches \in [Listeners -> Cache]
    /\ asked \in [Queriers -> Codes \cup {None}]
    /\ sent \in [Queriers -> BOOLEAN]
    /\ answers \in [Queriers -> [code : Codes, value : 0..3, matched : BOOLEAN]]
    /\ seen \in [Queriers -> SUBSET {"up", "down"}]
    /\ unread \in [Queriers -> SUBSET {"up", "down"}]

\* What a listener will have cached for a code once it has read everything
\* that is on its way from source s: nothing if it has never heard of it.
Expected(l, s, code) ==
    LET coming == outbox[l] \o kbuf[s]
        about == {i \in DOMAIN coming : coming[i].code = code}
        cached == caches[l].keyMap[KeyOfEvent(code)]
    IN  IF about = {} THEN CASE cached = NotCached -> {}
                             [] cached = "KeyUp" -> {"up"}
                             [] OTHER -> {"down"}
        ELSE {Position(coming[i].value) : i \in {k \in about : \A j \in about : j <= k}}

\* The caches follow the keys: once a connected listener has read what is on
\* its way, every key it has heard of (and that is not translated) is cached
\* as what it physically is; clients that come and go do not disturb it.
CachesFollowKeys ==
    \A l \in Listeners \cap connections, s \in Devices : \A code \in KeysOf[s] :
        (peer[l] = "open" /\ TranslatorOf(s, code) = {})
            => Expected(l, s, code) \subseteq Levels(code)

\* getKeyState has got the answer of a call; after a timeout or for a value it does
\* not know it returns KeyInvalid.
Answered(q) == asked[q] = None /\ answers[q].matched /\ answers[q].value # TimedOut

\* What getKeyState says of a key whose value the call returned, if anything.
Says(q) ==
    CASE StateOfValue(answers[q].value) = "KeyUp" -> {"up"}
      [] StateOfValue(answers[q].value) = "KeyDown" -> {"down"}
      [] OTHER -> {}

\* A code that one device has and no translator emits, and that is not the code of
\* the switch: an event of it is about this one key.
Translated == UNION {{TranslatorKeys[i].short, TranslatorKeys[i].long} : i \in 0..1}
Plain(code) ==
    /\ \A s, t \in Sources : code \in KeysOf[s] \cap KeysOf[t] => s = t
    /\ code \notin Translated /\ code # "SW_KEYPAD_SLIDE"

\* Asked for a key of its own, getKeyState never says up or down unless the key
\* was so since the call began, or is so in an event that the daemon had still to
\* read when it began: the devices are open when the query is answered, no answer
\* is older than what was unread, whatever clients are there and come and go.
\* (AnswersAreOfTheCall asks for more: that the answer is a state, and of the call.)
AnswersAreCurrent ==
    \A q \in Queriers :
        Answered(q) /\ Plain(answers[q].code) => Says(q) \subseteq seen[q] \cup unread[q]

\* The documentation of getKeyState: it gets the current state of the key.  So when
\* the daemon has answered in time, it says pressed or released, and what it says was
\* true at some moment of the call.
AnswersAreOfTheCall ==
    \A q \in Queriers : Answered(q) => Says(q) # {} /\ Says(q) \subseteq seen[q]

\* The comment in getKeyValue: it loops because other events may come as well;
\* what it returns is then the answer for the key it was asked for.
AnswersMatchQuery == \A q \in Queriers : answers[q].matched

\* The documentation of getKeyState: it gets the current state of the key.  So
\* with nothing on its way, a key cached as down is a key that is held.
CachedDownIsHeld ==
    \A l \in Listeners \cap connections :
        (/\ peer[l] = "open" /\ outbox[l] = <<>> /\ present = Devices
         /\ \A s \in Sources : kbuf[s] = <<>>
         /\ caches[l].keyMap["Rewind"] = "KeyDown") => IsDown("KEY_REWIND")
=============================================================================
