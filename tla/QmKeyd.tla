-------------------------------- MODULE QmKeyd -------------------------------
(***************************************************************************)
(* The qmkeyd daemon: a single-threaded event loop between the input       *)
(* devices of the kernel and the clients of a local socket.                *)
(*                                                                         *)
(* Devices are opened when the first client is accepted and closed when    *)
(* the last one is gone; key events read from a device are broadcast to    *)
(* every client, those of two accessory keys through a KeyTranslator; a    *)
(* client may ask for the state of a key, and the Bluetooth headset is     *)
(* followed by BtDetect.  Handlers run one at a time: the read loop of a   *)
(* device (busy) finishes before another handler starts, while the kernel, *)
(* the user and the clients act at any moment.                             *)
(***************************************************************************)
EXTENDS BtDetect, KeyTranslation, FiniteSets

CONSTANTS
    Clients,        \* socket connections that may exist
    Devices,        \* the input devices with a fixed path
    KeysOf,         \* the keys of each source of events
    Unpluggable,    \* the fixed devices that may come and go
    CanRestart,     \* the daemon may be restarted
    MaxBuffered,    \* bound: unread events of one device
    MaxOutbox       \* bound: events written to a client and not yet read

\* The accessory whose keys are translated, and the headset's place among the
\* sources of events.
ECI == "eci"
BT == "bt"
Sources == Devices \cup {BT}

ASSUME KeydAssumption ==
    /\ Devices \subseteq {"gpio", "keypad", ECI, "powerButton"}
    /\ KeysOf \in [Sources -> SUBSET Codes]
    /\ Unpluggable \subseteq Devices
    /\ CanRestart \in BOOLEAN
    /\ MaxBuffered \in Nat /\ MaxOutbox \in Nat
    /\ None \notin Sources \cup Codes
    /\ IsFiniteSet(Clients)

VARIABLES
    peer,          \* the client's end of each connection
    pending,       \* connections the server has not accepted
    connections,   \* accepted sockets
    users,         \* the daemon's own count of them
    files,         \* descriptor of each fixed device
    present,       \* fixed devices that exist
    held,          \* keys of each source that are physically down
    kbuf,          \* unread kernel events of each open descriptor
    translators,   \* keyTranslator[0] and [1]
    outbox,        \* events written to each client and not yet read
    queries,       \* the query each client has sent, if unread
    busy           \* the source whose read loop is running

clientVars == <<peer, pending, connections, users>>
deviceVars == <<files, present, held, kbuf>>
socketVars == <<outbox, queries>>
vars == <<btVars, clientVars, deviceVars, translators, socketVars, busy>>

\* The keys of the two translators.
TranslatorKeys ==
    [i \in 0..1 |-> IF i = 0
                    THEN [short |-> "KEY_PREVIOUSSONG", long |-> "KEY_REWIND"]
                    ELSE [short |-> "KEY_NEXTSONG", long |-> "KEY_FORWARD"]]

Init ==
    /\ BtInit
    /\ peer = [c \in Clients |-> "idle"]
    /\ pending = {} /\ connections = {} /\ users = 0
    /\ files = [d \in Devices |-> "closed"]
    /\ present = Devices
    /\ held = [s \in Sources |-> {}]
    /\ kbuf = [s \in Sources |-> <<>>]
    /\ translators = [i \in 0..1 |-> InitialTranslator]
    /\ outbox = [c \in Clients |-> <<>>]
    /\ queries = [c \in Clients |-> None]
    /\ busy = None

-----------------------------------------------------------------------------
\* A source the daemon has an open descriptor of.
Opened(s) == IF s = BT THEN btFile # None ELSE files[s] # "closed"

\* The device behind that descriptor still exists.
Live(s) == IF s = BT THEN btFile # None /\ Alive(btFile) ELSE files[s] = "open"

\* No handler is running: a read loop ends when it finds nothing to read.
Free == IF busy = None THEN TRUE ELSE kbuf[busy] = <<>>

\* openHandles: every device that is not open and exists.  A descriptor whose
\* device has gone is not -1, so it is left alone.
openHandles(f) ==
    [d \in Devices |-> IF f[d] = "closed" /\ d \in present THEN "open" ELSE f[d]]

NoHandles == [d \in Devices |-> "closed"]

\* Mutant: one device is forgotten.
closeHandles_OneForgotten ==
    /\ files' = [d \in Devices |-> IF d = ECI THEN files[d] ELSE "closed"]
    /\ kbuf' = [s \in Sources |-> IF s \in {ECI, BT} THEN kbuf[s] ELSE <<>>]

\* closeHandles: every fixed device; what was unread is lost with it.  Neither
\* the translators, nor their timers, nor the headset are touched.
closeHandles ==
    /\ files' = NoHandles
    /\ kbuf' = [s \in Sources |-> IF s = BT THEN kbuf[s] ELSE <<>>]

\* broadcastToClients for each of the events, in order.
broadcastToClients(events) ==
    LET to == {c \in connections : peer[c] = "open"}
    IN  /\ \A c \in to : Len(outbox[c]) + Len(events) <= MaxOutbox
        /\ outbox' = [c \in Clients |-> IF c \in to THEN outbox[c] \o events
                                                    ELSE outbox[c]]

-----------------------------------------------------------------------------
\* The user and the kernel.
KernelEvent(s, code, value) ==
    kbuf' = IF Live(s)
            THEN [kbuf EXCEPT ![s] = Append(@, [code |-> code, value |-> value])]
            ELSE kbuf

Exists(s) == IF s = BT THEN Live(s) ELSE s \in present

PressKey(s, code) ==
    /\ Exists(s) /\ code \notin held[s] /\ Len(kbuf[s]) < MaxBuffered
    /\ held' = [held EXCEPT ![s] = @ \cup {code}]
    /\ KernelEvent(s, code, 1)
    /\ UNCHANGED <<btVars, clientVars, files, present, translators, socketVars, busy>>

ReleaseKey(s, code) ==
    /\ Exists(s) /\ code \in held[s] /\ Len(kbuf[s]) < MaxBuffered
    /\ held' = [held EXCEPT ![s] = @ \ {code}]
    /\ KernelEvent(s, code, 0)
    /\ UNCHANGED <<btVars, clientVars, files, present, translators, socketVars, busy>>

\* Auto-repeat, which a switch has not; the kernel repeats only towards an open
\* descriptor.
RepeatKey(s, code) ==
    /\ code # "SW_KEYPAD_SLIDE" /\ Live(s) /\ code \in held[s] /\ Len(kbuf[s]) < MaxBuffered
    /\ KernelEvent(s, code, 2)
    /\ UNCHANGED <<btVars, clientVars, files, present, held, translators, socketVars, busy>>

\* An accessory is unplugged: reads of its descriptor fail from now on, and
\* what it had not delivered is lost.
UnplugDevice(d) ==
    /\ d \in present \cap Unpluggable
    /\ present' = present \ {d}
    /\ held' = [held EXCEPT ![d] = {}]
    /\ files' = [files EXCEPT ![d] = IF @ = "open" THEN "dead" ELSE @]
    /\ kbuf' = [kbuf EXCEPT ![d] = <<>>]
    /\ UNCHANGED <<btVars, clientVars, translators, socketVars, busy>>

PlugDevice(d) ==
    /\ d \notin present
    /\ present' = present \cup {d}
    /\ UNCHANGED <<btVars, clientVars, files, held, kbuf, translators, socketVars, busy>>

\* Headset nodes come and go; unread events go with the device in use.
HeadsetNodes ==
    /\ BtKernel
    /\ IF btFile # None /\ ~Alive(btFile)'
       THEN /\ held' = [held EXCEPT ![BT] = {}]
            /\ kbuf' = [kbuf EXCEPT ![BT] = <<>>]
       ELSE UNCHANGED <<held, kbuf>>
    /\ UNCHANGED <<clientVars, files, present, translators, socketVars, busy>>

Kernel ==
    \/ \E s \in Sources : \E code \in KeysOf[s] :
          PressKey(s, code) \/ ReleaseKey(s, code) \/ RepeatKey(s, code)
    \/ \E d \in Devices : UnplugDevice(d) \/ PlugDevice(d)
    \/ HeadsetNodes

-----------------------------------------------------------------------------
\* The clients' ends of the sockets.
Connect(c) ==
    /\ peer[c] = "idle"
    /\ peer' = [peer EXCEPT ![c] = "open"]
    /\ pending' = pending \cup {c}
    /\ UNCHANGED <<btVars, connections, users, deviceVars, translators, socketVars, busy>>

\* A client asks again only after the daemon has read what it asked before, and
\* not while MaxOutbox events wait for it.
SendQuery(c, code) ==
    /\ peer[c] = "open" /\ queries[c] = None /\ Len(outbox[c]) < MaxOutbox
    /\ queries' = [queries EXCEPT ![c] = code]
    /\ UNCHANGED <<btVars, clientVars, deviceVars, translators, outbox, busy>>

ReadSocket(c) ==
    /\ peer[c] = "open" /\ outbox[c] # <<>>
    /\ outbox' = [outbox EXCEPT ![c] = Tail(@)]
    /\ UNCHANGED <<btVars, clientVars, deviceVars, translators, queries, busy>>

CloseSocket(c) ==
    /\ peer[c] = "open"
    /\ peer' = [peer EXCEPT ![c] = "closed"]
    /\ outbox' = [outbox EXCEPT ![c] = <<>>]
    /\ UNCHANGED <<btVars, pending, connections, users, deviceVars, translators, queries, busy>>

\* A client whose connection was lost with the daemon drops it at last; the
\* library never reconnects by itself.
DropSocket(c) ==
    /\ peer[c] = "lost"
    /\ peer' = [peer EXCEPT ![c] = "idle"]
    /\ UNCHANGED <<btVars, pending, connections, users, deviceVars, translators, socketVars, busy>>

-----------------------------------------------------------------------------
\* The daemon's handlers.

\* Mutant: the handles are opened for the second client.
newConnection_OpensLate(c) ==
    /\ Free /\ busy' = None
    /\ c \in pending
    /\ pending' = pending \ {c}
    /\ connections' = connections \cup {c}
    /\ users' = users + 1
    /\ files' = IF users' > 1 THEN openHandles(files) ELSE files
    /\ UNCHANGED <<btVars, peer, present, held, kbuf, translators, socketVars>>

\* newConnection: the server announces the connections one at a time.
newConnection(c) ==
    /\ Free /\ busy' = None
    /\ c \in pending
    /\ pending' = pending \ {c}
    /\ connections' = connections \cup {c}
    /\ users' = users + 1
    /\ files' = IF users' >= 1 THEN openHandles(files) ELSE files
    /\ UNCHANGED <<btVars, peer, present, held, kbuf, translators, socketVars>>

\* Mutants: the count is not lowered for the last client; the handles are closed
\* one client too early.
disconnected_CountKept(c) ==
    /\ Free /\ busy' = None
    /\ c \in connections /\ peer[c] = "closed"
    /\ connections' = connections \ {c}
    /\ users' = IF Cardinality(connections) = 1 THEN users ELSE users - 1
    /\ IF users' = 0 THEN closeHandles ELSE UNCHANGED <<files, kbuf>>
    /\ peer' = [peer EXCEPT ![c] = "idle"]
    /\ outbox' = [outbox EXCEPT ![c] = <<>>]
    /\ queries' = [queries EXCEPT ![c] = None]
    /\ UNCHANGED <<btVars, pending, present, held, translators>>

disconnected_ClosesEarly(c) ==
    /\ Free /\ busy' = None
    /\ c \in connections /\ peer[c] = "closed"
    /\ connections' = connections \ {c}
    /\ users' = users - 1
    /\ IF users' <= 1 THEN closeHandles ELSE UNCHANGED <<files, kbuf>>
    /\ peer' = [peer EXCEPT ![c] = "idle"]
    /\ outbox' = [outbox EXCEPT ![c] = <<>>]
    /\ queries' = [queries EXCEPT ![c] = None]
    /\ UNCHANGED <<btVars, pending, present, held, translators>>

\* disconnected: the last client to go takes the handles with it.
disconnected(c) ==
    /\ Free /\ busy' = None
    /\ c \in connections /\ peer[c] = "closed"
    /\ connections' = connections \ {c}
    /\ users' = users - 1
    /\ IF users' = 0 THEN closeHandles ELSE UNCHANGED <<files, kbuf>>
    /\ peer' = [peer EXCEPT ![c] = "idle"]
    /\ outbox' = [outbox EXCEPT ![c] = <<>>]
    /\ queries' = [queries EXCEPT ![c] = None]
    /\ UNCHANGED <<btVars, pending, present, held, translators>>

\* isKeyPressed is given the number of a code without its type and looks it up
\* among the keys.  The number of the slider switch, an EV_SW code, is that of
\* KEY_9 there, a key the daemon does not know; the switch itself is not read.
BitOf(code) == IF code = "SW_KEYPAD_SLIDE" THEN OtherCode ELSE code

\* isKeyPressed over every open descriptor.  The key bitmap is only cleared in
\* its first byte, so what it says of a device that has gone, for which the
\* ioctl fails, is whatever was on the stack.
KeyBits(code) ==
    LET open == {s \in Sources : Opened(s)}
    IN  IF \E s \in open : Live(s) /\ BitOf(code) \in held[s] THEN {1}
        ELSE IF \A s \in open : Live(s) THEN {0} ELSE {0, 1}

\* Mutant: a query for an unsupported key stays in the socket.
clientSocketReadyRead_OnlySupported(c) ==
    /\ Free /\ busy' = None
    /\ c \in connections /\ queries[c] # None
    /\ isKeySupported(queries[c]) /\ peer[c] = "open"
    /\ queries' = [queries EXCEPT ![c] = None]
    /\ \E value \in KeyBits(queries[c]) :
          outbox' = [outbox EXCEPT ![c] =
                       Append(@, [code |-> queries[c], value |-> value])]
    /\ UNCHANGED <<btVars, clientVars, deviceVars, translators>>

\* clientSocketReadyRead: the event comes back with the state of its key; one
\* the daemon does not support is not answered at all.
clientSocketReadyRead(c) ==
    /\ Free /\ busy' = None
    /\ c \in connections /\ queries[c] # None
    /\ queries' = [queries EXCEPT ![c] = None]
    /\ \/ /\ isKeySupported(queries[c]) /\ peer[c] = "open"
          /\ \E value \in KeyBits(queries[c]) :
                outbox' = [outbox EXCEPT ![c] =
                             Append(@, [code |-> queries[c], value |-> value])]
       \/ /\ ~(isKeySupported(queries[c]) /\ peer[c] = "open")
          /\ UNCHANGED outbox
    /\ UNCHANGED <<btVars, clientVars, deviceVars, translators>>

\* The translator an event is for: KEY_REWIND and KEY_FORWARD of the accessory.
TranslatorOf(s, code) ==
    {i \in 0..1 : s = ECI /\ code = TranslatorKeys[i].long}

\* handleKeyEvent: one turn of the read loop.
handleKeyEvent(s) ==
    /\ IF busy = s THEN TRUE ELSE Free
    /\ Opened(s) /\ kbuf[s] # <<>>
    /\ kbuf' = [kbuf EXCEPT ![s] = Tail(@)]
    /\ busy' = IF kbuf'[s] = <<>> THEN None ELSE s
    /\ LET ev == Head(kbuf[s])
       IN  \/ /\ ~isKeySupported(ev.code)
              /\ UNCHANGED <<translators, outbox>>
           \/ /\ isKeySupported(ev.code) /\ TranslatorOf(s, ev.code) = {}
              /\ broadcastToClients(<<ev>>)
              /\ UNCHANGED translators
           \/ \E i \in TranslatorOf(s, ev.code) :
              /\ isKeySupported(ev.code)
              /\ translators' = [translators EXCEPT ![i] = handleEvent(@, ev.value)]
              /\ broadcastToClients(
                    HandleEventEmits(translators[i], ev.value, TranslatorKeys[i]))
    /\ UNCHANGED <<btVars, clientVars, files, present, held, queries>>

\* The timer of a translator runs on when the handles are closed.
TimerExpires(i) ==
    /\ Free /\ busy' = None
    /\ translators[i].timer
    /\ translators' = [translators EXCEPT ![i] = longPressTimeout(@)]
    /\ broadcastToClients(TimeoutEvents(translators[i], TranslatorKeys[i]))
    /\ UNCHANGED <<btVars, clientVars, deviceVars, queries>>

\* detectBT, as BtDetect has it; a headset may be found with keys down.
HeadsetEvent ==
    /\ Free /\ busy' = None
    /\ detectBT
    /\ IF btFile' = btFile THEN UNCHANGED <<held, kbuf>>
       ELSE /\ kbuf' = [kbuf EXCEPT ![BT] = <<>>]
            /\ \E down \in (IF btFile' = None THEN {{}} ELSE SUBSET KeysOf[BT]) :
                  held' = [held EXCEPT ![BT] = down]
    /\ UNCHANGED <<clientVars, files, present, translators, socketVars>>

HeadsetWatchLost ==
    /\ Free /\ busy' = None
    /\ removeInotifyWatch
    /\ UNCHANGED <<clientVars, deviceVars, translators, socketVars>>

\* The daemon goes away and is started again: it starts from nothing, with a
\* new socket and a new watch, which says nothing of the nodes already there.
Restart ==
    /\ CanRestart
    /\ peer' = [c \in Clients |-> IF peer[c] = "open" THEN "lost"
                                  ELSE IF peer[c] = "closed" THEN "idle" ELSE peer[c]]
    /\ pending' = {} /\ connections' = {} /\ users' = 0
    /\ files' = NoHandles
    /\ kbuf' = [s \in Sources |-> <<>>]
    /\ translators' = [i \in 0..1 |-> InitialTranslator]
    /\ outbox' = [c \in Clients |-> <<>>]
    /\ queries' = [c \in Clients |-> None]
    /\ busy' = None
    /\ inotify' = <<>> /\ watching' = TRUE
    /\ closeBT
    /\ held' = [held EXCEPT ![BT] = {}]
    /\ UNCHANGED <<envBt, refused, present>>

ClientStep(c) ==
    \/ Connect(c) \/ ReadSocket(c) \/ CloseSocket(c) \/ DropSocket(c)
    \/ \E code \in (UNION {KeysOf[s] : s \in Sources}) \cup {OtherCode} : SendQuery(c, code)

DaemonFor(c) == newConnection(c) \/ disconnected(c) \/ clientSocketReadyRead(c)

Daemon ==
    \/ \E c \in Clients : DaemonFor(c)
    \/ \E s \in Sources : handleKeyEvent(s)
    \/ \E i \in 0..1 : TimerExpires(i)
    \/ HeadsetEvent \/ HeadsetWatchLost \/ Restart

Next == Kernel \/ Daemon \/ \E c \in Clients : ClientStep(c)

SafeSpec == Init /\ [][Next]_vars

\* Every round of the event loop serves every descriptor that is ready, so
\* none of them waits for ever; a client that is alive reads its socket.
Fairness ==
    /\ \A c \in Clients : SF_vars(DaemonFor(c)) /\ WF_vars(ReadSocket(c))
    /\ SF_vars(\E s \in Sources : handleKeyEvent(s))

Spec == SafeSpec /\ Fairness

-----------------------------------------------------------------------------
TypeOK ==
    /\ BtTypeOK
    /\ peer \in [Clients -> {"idle", "open", "closed", "lost"}]
    /\ pending \subseteq Clients /\ connections \subseteq Clients
    /\ users \in Nat
    /\ files \in [Devices -> {"closed", "open", "dead"}]
    /\ present \subseteq Devices
    /\ held \in [Sources -> SUBSET Codes]
    /\ kbuf \in [Sources -> Seq(Event)]
    /\ translators \in [0..1 -> Translator]
    /\ outbox \in [Clients -> Seq(Event)]
    /\ queries \in [Clients -> Codes \cup {None}]
    /\ busy \in Sources \cup {None}

\* The daemon's own count of its users is the number of accepted sockets, and
\* a socket is never both accepted and waiting to be.
UsersCounted ==
    /\ users = Cardinality(connections)
    /\ pending \cap connections = {}

\* Without users no input device is kept open, so that an idle phone is not
\* woken by its keys; only the headset stays open.
NoIdleHandles == users = 0 => \A d \in Devices : files[d] = "closed"

\* The read loop of a device has no bound: it ends when the device has nothing
\* more to say at a moment when it looks, which devices are trusted to grant.
LoopsEnd == []<>Free

\* As long as no device keeps the daemon in its read loop for ever, every query is
\* read sooner or later, whatever the devices send and the other clients do.
QueriesRead ==
    LoopsEnd => \A c \in Clients : queries[c] # None ~> queries[c] = None

\* A connection that has gone at the client's end is cleaned up: handles are
\* given back once all clients have closed their sockets for good, unless a
\* device keeps the daemon in its read loop for ever.
HandlesReleased ==
    LoopsEnd => ((<>[](\A c \in Clients : peer[c] # "open"))
                    => <>[](\A d \in Devices : files[d] = "closed"))
=============================================================================
