----------------------------- MODULE QmKeydProofs ----------------------------
(***************************************************************************)
(* Proofs about QmKeyd, for any finite set of clients, any devices, keys   *)
(* and bounds: the count of users, the handles given back, and the headset *)
(* detection inside the daemon, which BtDetectProofs treats on its own.  Then about the key system around it: *)
(* that it implements the daemon, what the listeners have cached, and what *)
(* getKeyValue returns.                                                    *)
(*                                                                         *)
(* The daemon is many small actions on five groups of variables.  A first  *)
(* lemma for each group says which actions touch it at all; the invariant  *)
(* of the group is then shown to be kept by those.                         *)
(***************************************************************************)
EXTENDS KeySystem, KeyCacheProofs, BtDetectProofs, FiniteSetTheorems

\* A socket the daemon knows of has a client at its other end, or one that has
\* just gone: it is accepted once, and its identity is not used again before
\* the daemon has noticed the end.
Counted ==
    /\ peer \in [Clients -> {"idle", "open", "closed", "lost"}]
    /\ pending \subseteq Clients /\ connections \subseteq Clients
    /\ \A c \in pending \cup connections : peer[c] \in {"open", "closed"}
    /\ UsersCounted

Handles ==
    /\ files \in [Devices -> {"closed", "open", "dead"}]
    /\ NoIdleHandles

KeydInv == Counted /\ Handles /\ DeviceInv

LEMMA InitKeydInv == Init => KeydInv
<1> SUFFICES ASSUME Init PROVE KeydInv
  OBVIOUS
<1>1. Counted
  BY FS_EmptySet DEF Init, Counted, UsersCounted
<1>2. Handles
  BY DEF Init, Handles, NoIdleHandles
<1>4. DeviceInv
  BY InitInv DEF Init, Inv
<1> QED BY <1>1, <1>2, <1>4 DEF KeydInv

-----------------------------------------------------------------------------
\* The kernel leaves the clients and the translators alone, and so on: which
\* actions touch which group of variables.
LEMMA KernelEffect ==
    ASSUME Kernel
    PROVE  /\ UNCHANGED <<clientVars, translators>>
           /\ UNCHANGED files \/ \E d \in Devices : UnplugDevice(d)
           /\ UNCHANGED btVars \/ BtKernel
<1>1. CASE \E s \in Sources : \E code \in KeysOf[s] :
             PressKey(s, code) \/ ReleaseKey(s, code) \/ RepeatKey(s, code)
  BY <1>1 DEF PressKey, ReleaseKey, RepeatKey
<1>2. CASE \E d \in Devices : UnplugDevice(d)
  BY <1>2 DEF UnplugDevice
<1>3. CASE \E d \in Devices : PlugDevice(d)
  BY <1>3 DEF PlugDevice
<1>4. CASE HeadsetNodes
  BY <1>4 DEF HeadsetNodes
<1> QED BY <1>1, <1>2, <1>3, <1>4 DEF Kernel

LEMMA ClientEffect ==
    ASSUME NEW c \in Clients, ClientStep(c)
    PROVE  /\ UNCHANGED <<files, translators, btVars>>
           /\ UNCHANGED clientVars \/ Connect(c) \/ CloseSocket(c) \/ DropSocket(c)
<1>1. CASE Connect(c)
  BY <1>1 DEF Connect, deviceVars
<1>2. CASE ReadSocket(c)
  BY <1>2 DEF ReadSocket, deviceVars
<1>3. CASE CloseSocket(c)
  BY <1>3 DEF CloseSocket, deviceVars
<1>4. CASE DropSocket(c)
  BY <1>4 DEF DropSocket, deviceVars
<1>5. CASE \E code \in (UNION {KeysOf[s] : s \in Sources}) \cup {OtherCode} : SendQuery(c, code)
  BY <1>5 DEF SendQuery, deviceVars
<1> QED BY <1>1, <1>2, <1>3, <1>4, <1>5 DEF ClientStep

LEMMA DaemonEffect ==
    ASSUME Daemon
    PROVE  \/ \E c \in Clients : newConnection(c) \/ disconnected(c)
           \/ Restart
           \/ /\ UNCHANGED <<clientVars, files>>
              /\ UNCHANGED btVars \/ detectBT \/ removeInotifyWatch
              /\ \/ UNCHANGED translators
                 \/ \E s \in Sources : handleKeyEvent(s)
                 \/ \E i \in 0..1 : TimerExpires(i)
<1>1. CASE \E c \in Clients : clientSocketReadyRead(c)
  BY <1>1 DEF clientSocketReadyRead, deviceVars
<1>2. CASE \E s \in Sources : handleKeyEvent(s)
  <2>1. UNCHANGED <<clientVars, files, btVars>>
    BY <1>2 DEF handleKeyEvent
  <2> QED BY <1>2, <2>1
<1>3. CASE \E i \in 0..1 : TimerExpires(i)
  <2>1. UNCHANGED <<clientVars, files, btVars>>
    BY <1>3 DEF TimerExpires, deviceVars
  <2> QED BY <1>3, <2>1
<1>4. CASE HeadsetEvent
  BY <1>4 DEF HeadsetEvent
<1>5. CASE HeadsetWatchLost
  BY <1>5 DEF HeadsetWatchLost, deviceVars
<1> QED BY <1>1, <1>2, <1>3, <1>4, <1>5 DEF Daemon, DaemonFor

-----------------------------------------------------------------------------
\* The clients and their count.
LEMMA CountedKept ==
    ASSUME Counted, [Next]_vars
    PROVE  Counted'
<1>f. IsFiniteSet(Clients) /\ IsFiniteSet(connections) /\ users \in Nat
  BY KeydAssumption, FS_Subset, FS_CardinalityType DEF Counted, UsersCounted
<1>1. CASE UNCHANGED clientVars
  BY <1>1 DEF Counted, UsersCounted, clientVars
<1>2. ASSUME NEW c \in Clients, Connect(c)
      PROVE  Counted'
  <2>1. /\ peer[c] = "idle" /\ peer' = [peer EXCEPT ![c] = "open"]
        /\ pending' = pending \cup {c} /\ UNCHANGED <<connections, users>>
    BY <1>2 DEF Connect
  <2> QED BY <2>1 DEF Counted, UsersCounted
<1>3. ASSUME NEW c \in Clients, CloseSocket(c)
      PROVE  Counted'
  <2>1. /\ peer' = [peer EXCEPT ![c] = "closed"]
        /\ UNCHANGED <<pending, connections, users>>
    BY <1>3 DEF CloseSocket
  <2> QED BY <2>1 DEF Counted, UsersCounted
<1>4. ASSUME NEW c \in Clients, DropSocket(c)
      PROVE  Counted'
  <2>1. /\ peer[c] = "lost" /\ peer' = [peer EXCEPT ![c] = "idle"]
        /\ UNCHANGED <<pending, connections, users>>
    BY <1>4 DEF DropSocket
  <2> QED BY <2>1 DEF Counted, UsersCounted
<1>5. ASSUME NEW c \in Clients, newConnection(c)
      PROVE  Counted'
  <2>1. /\ c \in pending /\ pending' = pending \ {c}
        /\ connections' = connections \cup {c} /\ users' = users + 1
        /\ UNCHANGED peer
    BY <1>5 DEF newConnection
  <2>2. Cardinality(connections') = Cardinality(connections) + 1
    BY <1>f, <2>1, FS_AddElement DEF Counted, UsersCounted
  <2>3. UsersCounted'
    BY <2>1, <2>2 DEF Counted, UsersCounted
  <2> QED BY <2>1, <2>3 DEF Counted
<1>6. ASSUME NEW c \in Clients, disconnected(c)
      PROVE  Counted'
  <2>1. /\ c \in connections /\ connections' = connections \ {c} /\ users' = users - 1
        /\ peer' = [peer EXCEPT ![c] = "idle"] /\ UNCHANGED pending
    BY <1>6 DEF disconnected
  <2>2. Cardinality(connections') = Cardinality(connections) - 1
    BY <1>f, <2>1, FS_RemoveElement
  <2>3. UsersCounted'
    BY <2>1, <2>2 DEF Counted, UsersCounted
  <2> QED BY <2>1, <2>3 DEF Counted, UsersCounted
<1>7. CASE Restart
  <2>1. /\ peer' = [c \in Clients |-> IF peer[c] = "open" THEN "lost"
                                      ELSE IF peer[c] = "closed" THEN "idle" ELSE peer[c]]
        /\ pending' = {} /\ connections' = {} /\ users' = 0
    BY <1>7 DEF Restart
  <2> QED BY <2>1, FS_EmptySet DEF Counted, UsersCounted
<1>8. CASE Kernel
  BY <1>1, <1>8, KernelEffect
<1>9. CASE Daemon
  BY <1>1, <1>5, <1>6, <1>7, <1>9, DaemonEffect
<1>10. CASE \E c \in Clients : ClientStep(c)
  BY <1>1, <1>2, <1>3, <1>4, <1>10, ClientEffect
<1> QED BY <1>1, <1>8, <1>9, <1>10 DEF Next, vars

\* The handles of the fixed devices.
LEMMA HandlesKept ==
    ASSUME Counted, Handles, [Next]_vars
    PROVE  Handles'
<1>f. users \in Nat
  <2>1. IsFiniteSet(Clients) /\ connections \in SUBSET Clients
    BY KeydAssumption DEF Counted
  <2>2. IsFiniteSet(connections)
    BY <2>1, FS_Subset
  <2> QED BY <2>2, FS_CardinalityType DEF Counted, UsersCounted
<1>1. CASE UNCHANGED <<clientVars, files>>
  BY <1>1 DEF Handles, NoIdleHandles, clientVars
<1>2. ASSUME NEW d \in Devices, UnplugDevice(d)
      PROVE  Handles'
  <2>1. /\ files' = [files EXCEPT ![d] = IF @ = "open" THEN "dead" ELSE @]
        /\ users' = users
    BY <1>2 DEF UnplugDevice, clientVars
  <2> QED BY <2>1 DEF Handles, NoIdleHandles
<1>3. ASSUME NEW c \in Clients, newConnection(c)
      PROVE  Handles'
  <2>1. users' # 0 /\ users' >= 1
    BY <1>f, <1>3 DEF newConnection
  <2>2. files' = openHandles(files)
    BY <1>3, <2>1 DEF newConnection
  <2> QED BY <2>1, <2>2 DEF Handles, NoIdleHandles, openHandles
<1>4. ASSUME NEW c \in Clients, disconnected(c)
      PROVE  Handles'
  <2>1. files' = IF users' = 0 THEN NoHandles ELSE files
    BY <1>4 DEF disconnected, closeHandles
  <2> QED BY <2>1 DEF Handles, NoIdleHandles, NoHandles
<1>5. CASE Restart
  <2>1. files' = NoHandles
    BY <1>5 DEF Restart
  <2> QED BY <2>1 DEF Handles, NoIdleHandles, NoHandles
<1>6. CASE Kernel
  BY <1>1, <1>2, <1>6, KernelEffect
<1>7. CASE Daemon
  BY <1>1, <1>3, <1>4, <1>5, <1>7, DaemonEffect
<1>8. ASSUME NEW c \in Clients, ClientStep(c)
      PROVE  Handles'
  <2>1. UNCHANGED files
    BY <1>8, ClientEffect
  <2>2. users' = users
    BY <1>8, ClientEffect DEF clientVars, Connect, CloseSocket, DropSocket
  <2> QED BY <2>1, <2>2 DEF Handles, NoIdleHandles
<1> QED BY <1>1, <1>6, <1>7, <1>8 DEF Next, vars, deviceVars

-----------------------------------------------------------------------------
\* The headset detection inside the daemon: its own steps, and the restart,
\* after which nothing is in use and nothing is in the queue.
LEMMA DevicesKept ==
    ASSUME DeviceInv, [Next]_vars
    PROVE  DeviceInv'
<1>1. CASE [BtNext]_btVars
  BY <1>1, StepKeepsDevices
<1>2. CASE Restart
  <2>1. /\ inotify' = <<>> /\ watching' = TRUE /\ btFile' = None /\ btfname' = None
        /\ UNCHANGED <<nodes, gen, latest, refused>>
    BY <1>2 DEF Restart, closeBT, envBt
  <2>2. BtTypeOK'
    BY <2>1, EmptySeq DEF DeviceInv, BtTypeOK
  <2>3. Numbered'
    BY <2>1 DEF DeviceInv, Numbered, Alive
  <2>4. NameOfFile' /\ DeletionPending'
    BY <2>1 DEF NameOfFile, DeletionPending
  <2> QED BY <2>2, <2>3, <2>4 DEF DeviceInv
<1>3. CASE Kernel
  BY <1>1, <1>3, KernelEffect DEF BtNext
<1>4. CASE Daemon
  <2>1. CASE \E c \in Clients : newConnection(c) \/ disconnected(c)
    BY <1>1, <2>1 DEF newConnection, disconnected
  <2> QED BY <1>1, <1>2, <1>4, <2>1, DaemonEffect DEF BtNext
<1>5. CASE \E c \in Clients : ClientStep(c)
  BY <1>1, <1>5, ClientEffect
<1> QED BY <1>1, <1>3, <1>4, <1>5 DEF Next, vars

LEMMA SafeSpecInv == SafeSpec => []KeydInv
<1>1. KeydInv /\ [Next]_vars => KeydInv'
  BY CountedKept, HandlesKept, DevicesKept DEF KeydInv
<1> QED BY <1>1, InitKeydInv, PTL DEF SafeSpec

-----------------------------------------------------------------------------
\* The daemon's count of its users is the number of accepted sockets, through
\* any interleaving of connections, disconnections and restarts.
THEOREM UsersAreCounted == SafeSpec => []UsersCounted
<1>1. KeydInv => UsersCounted
  BY DEF KeydInv, Counted
<1> QED BY <1>1, SafeSpecInv, PTL

\* Without users no fixed input device is kept open.
THEOREM HandlesGivenBack == SafeSpec => []NoIdleHandles
<1>1. KeydInv => NoIdleHandles
  BY DEF KeydInv, Handles
<1> QED BY <1>1, SafeSpecInv, PTL

\* The headset in use is a live one inside the daemon too, whatever the rest of
\* it does and however often it is restarted.
THEOREM HeadsetAliveInDaemon == SafeSpec => []SettledHeadsetIsAlive
<1>1. KeydInv => SettledHeadsetIsAlive
  BY DevicesSettled DEF KeydInv
<1> QED BY <1>1, SafeSpecInv, PTL

-----------------------------------------------------------------------------
\* Events of a code other than auto-repeat, which some keys ignore; a sequence
\* without any, and one whose events from the last of them on say position x.
Edge(ev, code) == ev.code = code /\ ev.value # 2

Quiet(events, code) == \A i \in 1..Len(events) : ~Edge(events[i], code)

Telling(events, code, x) ==
    \A i \in 1..Len(events) :
        (/\ events[i].code = code
         /\ \A j \in 1..Len(events) : j > i => ~Edge(events[j], code))
            => Position(events[i].value) = x

Foreign(events, code) == \A i \in 1..Len(events) : events[i].code # code

LEMMA EmptyHeard ==
    ASSUME NEW code, NEW x
    PROVE  Quiet(<<>>, code) /\ Telling(<<>>, code, x) /\ Foreign(<<>>, code)
BY EmptySeq DEF Quiet, Telling, Foreign

\* What one more event does.
LEMMA AppendHeard ==
    ASSUME NEW q \in Seq(Event), NEW e \in Event, NEW code, NEW x
    PROVE  /\ Append(q, e) \in Seq(Event)
           /\ Quiet(Append(q, e), code) <=> Quiet(q, code) /\ ~Edge(e, code)
           /\ Telling(Append(q, e), code, x) <=>
                /\ e.code = code => Position(e.value) = x
                /\ Edge(e, code) \/ Telling(q, code, x)
<1> DEFINE r == Append(q, e)
<1>1. /\ r \in Seq(Event) /\ Len(q) \in Nat /\ Len(r) = Len(q) + 1 /\ r[Len(q) + 1] = e
      /\ \A i \in 1..Len(q) : r[i] = q[i]
  BY AppendProperties, LenProperties
<1> HIDE DEF r
<1>2. Quiet(r, code) <=> Quiet(q, code) /\ ~Edge(e, code)
  BY <1>1 DEF Quiet
<1>3. ASSUME Telling(r, code, x)
      PROVE  (e.code = code => Position(e.value) = x) /\ (Edge(e, code) \/ Telling(q, code, x))
  BY <1>1, <1>3 DEF Telling
<1>4. ASSUME e.code = code => Position(e.value) = x, Edge(e, code) \/ Telling(q, code, x)
      PROVE  Telling(r, code, x)
  <2> SUFFICES ASSUME NEW i \in 1..Len(r), r[i].code = code,
                      \A j \in 1..Len(r) : j > i => ~Edge(r[j], code)
               PROVE  Position(r[i].value) = x
    BY DEF Telling
  <2>1. CASE i = Len(q) + 1
    BY <1>1, <1>4, <2>1
  <2>2. CASE i # Len(q) + 1
    <3>1. i \in 1..Len(q) /\ r[i] = q[i] /\ ~Edge(e, code)
      BY <1>1, <2>2
    <3>2. \A j \in 1..Len(q) : j > i => ~Edge(q[j], code)
      BY <1>1
    <3> QED BY <1>4, <3>1, <3>2 DEF Telling
  <2> QED BY <2>1, <2>2
<1> QED BY <1>1, <1>2, <1>3, <1>4 DEF r

\* What is left when the first event is read.
LEMMA TailHeard ==
    ASSUME NEW q \in Seq(Event), q # <<>>, NEW code, NEW x
    PROVE  /\ Head(q) \in Event /\ Tail(q) \in Seq(Event) /\ Head(q) = q[1]
           /\ Quiet(q, code) <=> ~Edge(Head(q), code) /\ Quiet(Tail(q), code)
           /\ Telling(q, code, x) => Telling(Tail(q), code, x)
           /\ Telling(q, code, x) /\ Quiet(Tail(q), code) /\ Head(q).code = code
                => Position(Head(q).value) = x
<1> DEFINE r == Tail(q)
<1>1. /\ Head(q) = q[1] /\ Len(q) \in Nat \ {0} /\ r \in Seq(Event) /\ Len(r) = Len(q) - 1
      /\ Head(q) \in Event
      /\ \A i \in 1..Len(r) : r[i] = q[i + 1]
  BY HeadTailProperties, EmptySeq
<1> HIDE DEF r
<1>2. \A i \in 1..Len(q) : i = 1 \/ (i - 1 \in 1..Len(r) /\ r[i - 1] = q[i])
  BY <1>1
<1>3. Quiet(q, code) <=> ~Edge(Head(q), code) /\ Quiet(r, code)
  <2>1. ASSUME Quiet(q, code) PROVE ~Edge(Head(q), code) /\ Quiet(r, code)
    BY <1>1, <2>1 DEF Quiet
  <2>2. ASSUME ~Edge(Head(q), code), Quiet(r, code) PROVE Quiet(q, code)
    BY <1>1, <1>2, <2>2 DEF Quiet
  <2> QED BY <2>1, <2>2
<1>4. ASSUME Telling(q, code, x) PROVE Telling(r, code, x)
  <2> SUFFICES ASSUME NEW i \in 1..Len(r), r[i].code = code,
                      \A j \in 1..Len(r) : j > i => ~Edge(r[j], code)
               PROVE  Position(r[i].value) = x
    BY DEF Telling
  <2>1. i + 1 \in 1..Len(q) /\ q[i + 1] = r[i]
    BY <1>1
  <2>2. \A j \in 1..Len(q) : j > i + 1 => ~Edge(q[j], code)
    BY <1>1, <1>2
  <2> QED BY <1>4, <2>1, <2>2 DEF Telling
<1>5. ASSUME Telling(q, code, x), Quiet(r, code), Head(q).code = code
      PROVE  Position(Head(q).value) = x
  <2>1. \A j \in 1..Len(q) : j > 1 => ~Edge(q[j], code)
    BY <1>1, <1>2, <1>5 DEF Quiet
  <2>2. 1 \in 1..Len(q)
    BY <1>1
  <2> QED BY <1>1, <1>5, <2>1, <2>2 DEF Telling
<1> QED BY <1>1, <1>3, <1>4, <1>5 DEF r

\* Events of other codes change nothing.
LEMMA ForeignHeard ==
    ASSUME NEW q \in Seq(Event), NEW es \in Seq(Event), NEW code, Foreign(es, code), NEW x
    PROVE  /\ q \o es \in Seq(Event)
           /\ Quiet(q \o es, code) <=> Quiet(q, code)
           /\ Telling(q \o es, code, x) <=> Telling(q, code, x)
<1> DEFINE r == q \o es
<1>1. /\ r \in Seq(Event) /\ Len(q) \in Nat /\ Len(es) \in Nat /\ Len(r) = Len(q) + Len(es)
      /\ \A i \in 1..Len(q) : r[i] = q[i]
      /\ \A i \in 1..Len(r) : i > Len(q) => i - Len(q) \in 1..Len(es) /\ r[i] = es[i - Len(q)]
  BY ConcatProperties, LenProperties
<1> HIDE DEF r
<1>2. \A i \in 1..Len(r) : i > Len(q) => r[i].code # code
  BY <1>1 DEF Foreign
<1>3. Quiet(r, code) <=> Quiet(q, code)
  <2>1. ASSUME Quiet(r, code), NEW i \in 1..Len(q) PROVE ~Edge(q[i], code)
    <3>1. i \in 1..Len(r) /\ r[i] = q[i]
      BY <1>1
    <3> QED BY <2>1, <3>1 DEF Quiet
  <2>2. ASSUME Quiet(q, code), NEW i \in 1..Len(r) PROVE ~Edge(r[i], code)
    <3>1. CASE i > Len(q)
      BY <1>2, <3>1 DEF Edge
    <3>2. CASE ~(i > Len(q))
      <4>1. i \in 1..Len(q) /\ r[i] = q[i]
        BY <1>1, <3>2
      <4> QED BY <2>2, <4>1 DEF Quiet
    <3> QED BY <3>1, <3>2
  <2> QED BY <2>1, <2>2 DEF Quiet
<1>4. ASSUME Telling(q, code, x) PROVE Telling(r, code, x)
  <2> SUFFICES ASSUME NEW i \in 1..Len(r), r[i].code = code,
                      \A j \in 1..Len(r) : j > i => ~Edge(r[j], code)
               PROVE  Position(r[i].value) = x
    BY DEF Telling
  <2>1. i \in 1..Len(q) /\ r[i] = q[i]
    BY <1>1, <1>2
  <2>2. \A j \in 1..Len(q) : j > i => ~Edge(q[j], code)
    BY <1>1
  <2> QED BY <1>4, <2>1, <2>2 DEF Telling
<1>5. ASSUME Telling(r, code, x) PROVE Telling(q, code, x)
  <2> SUFFICES ASSUME NEW i \in 1..Len(q), q[i].code = code,
                      \A j \in 1..Len(q) : j > i => ~Edge(q[j], code)
               PROVE  Position(q[i].value) = x
    BY DEF Telling
  <2>1. i \in 1..Len(r) /\ r[i] = q[i]
    BY <1>1
  <2>2. ASSUME NEW j \in 1..Len(r), j > i PROVE ~Edge(r[j], code)
    <3>1. CASE j > Len(q)
      BY <1>2, <3>1 DEF Edge
    <3>2. CASE ~(j > Len(q))
      <4>1. j \in 1..Len(q) /\ r[j] = q[j]
        BY <1>1, <3>2
      <4> QED BY <2>2, <4>1
    <3> QED BY <3>1, <3>2
  <2> QED BY <1>5, <2>1, <2>2 DEF Telling
<1> QED BY <1>1, <1>3, <1>4, <1>5 DEF r

-----------------------------------------------------------------------------
\* What is on its way: the events of a source are of its keys; only an accepted
\* and open connection has events to read; a query that is unread is the client's.
DeviceSide ==
    /\ held \in [Sources -> SUBSET Codes] /\ kbuf \in [Sources -> Seq(Event)]
    /\ \A s \in Sources :
        /\ held[s] \subseteq KeysOf[s]
        /\ \A i \in 1..Len(kbuf[s]) : kbuf[s][i].code \in KeysOf[s]

ClientSide ==
    /\ outbox \in [Clients -> Seq(Event)]
    /\ \A c \in Clients : outbox[c] # <<>> => c \in connections /\ peer[c] = "open"
    /\ queries \in [Clients -> Codes \cup {None}]
    /\ \A c \in Clients : queries[c] # None => peer[c] \in {"open", "closed"}

LEMMA KernelEventKept ==
    ASSUME DeviceSide, NEW s \in Sources, NEW code \in KeysOf[s], NEW v \in 0..2,
           KernelEvent(s, code, v)
    PROVE  /\ kbuf' \in [Sources -> Seq(Event)]
           /\ \A t \in Sources : \A i \in 1..Len(kbuf'[t]) : kbuf'[t][i].code \in KeysOf[t]
           /\ \A t \in Sources \ {s} : kbuf'[t] = kbuf[t]
           /\ kbuf'[s] = IF Live(s) THEN Append(kbuf[s], [code |-> code, value |-> v]) ELSE kbuf[s]
<1> DEFINE e == [code |-> code, value |-> v]
<1>1. e \in Event /\ e.code = code
  BY KeydAssumption DEF Event
<1> HIDE DEF e
<1>2. CASE Live(s)
  <2>1. kbuf' = [kbuf EXCEPT ![s] = Append(kbuf[s], e)]
    BY <1>2 DEF KernelEvent, e
  <2>2. /\ Append(kbuf[s], e) \in Seq(Event)
        /\ \A i \in 1..Len(Append(kbuf[s], e)) : Append(kbuf[s], e)[i].code \in KeysOf[s]
    BY <1>1, AppendProperties, LenProperties DEF DeviceSide
  <2> QED BY <1>2, <2>1, <2>2 DEF DeviceSide, e
<1>3. CASE ~Live(s)
  BY <1>3 DEF KernelEvent, DeviceSide
<1> QED BY <1>2, <1>3

LEMMA DeviceSideKept ==
    ASSUME DeviceSide, [Next]_vars
    PROVE  DeviceSide'
<1>1. CASE UNCHANGED <<held, kbuf>>
  BY <1>1 DEF DeviceSide
<1>2. ASSUME NEW s \in Sources, NEW code \in KeysOf[s],
             PressKey(s, code) \/ ReleaseKey(s, code) \/ RepeatKey(s, code)
      PROVE  DeviceSide'
  <2>1. PICK v \in 0..2 : KernelEvent(s, code, v)
    BY <1>2 DEF PressKey, ReleaseKey, RepeatKey
  <2>2. /\ held' \in [Sources -> SUBSET Codes]
        /\ \A t \in Sources : held'[t] \subseteq KeysOf[t]
    <3>1. code \in Codes
      BY KeydAssumption
    <3>2. held' \in {held, [held EXCEPT ![s] = held[s] \cup {code}],
                     [held EXCEPT ![s] = held[s] \ {code}]}
      BY <1>2 DEF PressKey, ReleaseKey, RepeatKey
    <3>3. PICK h \in SUBSET KeysOf[s] : held' = [held EXCEPT ![s] = h] \/ held' = held
      BY <3>2 DEF DeviceSide
    <3>4. h \subseteq Codes
      BY KeydAssumption
    <3>5. CASE held' = held
      BY <3>5 DEF DeviceSide
    <3>6. CASE held' = [held EXCEPT ![s] = h]
      BY <3>4, <3>6 DEF DeviceSide
    <3> QED BY <3>3, <3>5, <3>6
  <2> QED BY <2>1, <2>2, KernelEventKept DEF DeviceSide
<1>3. ASSUME NEW s \in Sources, kbuf' = [kbuf EXCEPT ![s] = <<>>],
             NEW down \in SUBSET KeysOf[s], held' = [held EXCEPT ![s] = down]
      PROVE  DeviceSide'
  <2>1. <<>> \in Seq(Event) /\ Len(<<>>) = 0 /\ down \in SUBSET Codes
    BY EmptySeq, KeydAssumption
  <2>2. kbuf' \in [Sources -> Seq(Event)] /\ held' \in [Sources -> SUBSET Codes]
    BY <1>3, <2>1 DEF DeviceSide
  <2>3. ASSUME NEW t \in Sources
        PROVE  /\ held'[t] \subseteq KeysOf[t]
               /\ \A i \in 1..Len(kbuf'[t]) : kbuf'[t][i].code \in KeysOf[t]
    <3>1. CASE t = s
      <4>1. kbuf'[t] = <<>> /\ held'[t] = down
        BY <1>3, <3>1 DEF DeviceSide
      <4> QED BY <2>1, <3>1, <4>1
    <3>2. CASE t # s
      <4>1. kbuf'[t] = kbuf[t] /\ held'[t] = held[t]
        BY <1>3, <3>2 DEF DeviceSide
      <4> QED BY <4>1 DEF DeviceSide
    <3> QED BY <3>1, <3>2
  <2> QED BY <2>2, <2>3 DEF DeviceSide
<1>4. ASSUME NEW d \in Devices, UnplugDevice(d)
      PROVE  DeviceSide'
  <2>1. d \in Sources /\ {} \in SUBSET KeysOf[d]
    BY DEF Sources
  <2> QED BY <1>3, <1>4, <2>1 DEF UnplugDevice
<1>5. CASE HeadsetNodes
  <2>1. BT \in Sources /\ {} \in SUBSET KeysOf[BT]
    BY DEF Sources
  <2> QED BY <1>1, <1>3, <1>5, <2>1 DEF HeadsetNodes
<1>6. CASE HeadsetEvent
  <2>1. BT \in Sources /\ {} \in SUBSET KeysOf[BT]
    BY DEF Sources
  <2> QED BY <1>1, <1>3, <1>6, <2>1 DEF HeadsetEvent
<1>7. ASSUME NEW c \in Clients, disconnected(c)
      PROVE  DeviceSide'
  <2>1. /\ held' = held
        /\ kbuf' = kbuf \/ kbuf' = [s \in Sources |-> IF s = BT THEN kbuf[s] ELSE <<>>]
    BY <1>7 DEF disconnected, closeHandles
  <2>2. <<>> \in Seq(Event) /\ Len(<<>>) = 0
    BY EmptySeq
  <2>3. CASE kbuf' = [s \in Sources |-> IF s = BT THEN kbuf[s] ELSE <<>>]
    BY <2>1, <2>2, <2>3 DEF DeviceSide
  <2> QED BY <1>1, <2>1, <2>3
<1>8. CASE Restart
  <2>1. kbuf' = [s \in Sources |-> <<>>] /\ held' = [held EXCEPT ![BT] = {}]
    BY <1>8 DEF Restart
  <2>2. <<>> \in Seq(Event) /\ Len(<<>>) = 0
    BY EmptySeq
  <2>3. held' \in [Sources -> SUBSET Codes] /\ \A s \in Sources : held'[s] \subseteq KeysOf[s]
    BY <2>1 DEF DeviceSide
  <2>4. kbuf' \in [Sources -> Seq(Event)] /\ \A s \in Sources : kbuf'[s] = <<>>
    BY <2>1, <2>2
  <2> QED BY <2>2, <2>3, <2>4 DEF DeviceSide
<1>9. ASSUME NEW s \in Sources, handleKeyEvent(s)
      PROVE  DeviceSide'
  <2>1. kbuf[s] # <<>> /\ kbuf' = [kbuf EXCEPT ![s] = Tail(@)] /\ held' = held
    BY <1>9 DEF handleKeyEvent
  <2>2. /\ Tail(kbuf[s]) \in Seq(Event)
        /\ \A i \in 1..Len(Tail(kbuf[s])) : Tail(kbuf[s])[i].code \in KeysOf[s]
    <3>1. kbuf[s] \in Seq(Event)
      BY DEF DeviceSide
    <3>2. /\ Tail(kbuf[s]) \in Seq(Event) /\ Len(kbuf[s]) \in Nat
          /\ Len(Tail(kbuf[s])) = Len(kbuf[s]) - 1
          /\ \A i \in 1..Len(Tail(kbuf[s])) : Tail(kbuf[s])[i] = kbuf[s][i + 1]
      BY <2>1, <3>1, HeadTailProperties, LenProperties
    <3> QED BY <3>2 DEF DeviceSide
  <2> QED BY <2>1, <2>2 DEF DeviceSide
<1>10. CASE Kernel
  BY <1>1, <1>2, <1>4, <1>5, <1>10 DEF Kernel, PlugDevice
<1>11. CASE Daemon
  <2>1. CASE \E c \in Clients : newConnection(c) \/ clientSocketReadyRead(c)
    BY <1>1, <2>1 DEF newConnection, clientSocketReadyRead, deviceVars
  <2>2. CASE (\E i \in 0..1 : TimerExpires(i)) \/ HeadsetWatchLost
    BY <1>1, <2>2 DEF TimerExpires, HeadsetWatchLost, deviceVars
  <2> QED BY <1>6, <1>7, <1>8, <1>9, <1>11, <2>1, <2>2 DEF Daemon, DaemonFor
<1>12. ASSUME NEW c \in Clients, ClientStep(c)
       PROVE  DeviceSide'
  <2>1. UNCHANGED deviceVars
    BY <1>12 DEF ClientStep, Connect, ReadSocket, CloseSocket, DropSocket, SendQuery
  <2> QED BY <1>1, <2>1 DEF deviceVars
<1> QED BY <1>1, <1>10, <1>11, <1>12 DEF Next, vars, deviceVars

\* What a translator emits is of its two keys.
LEMMA Emitted ==
    ASSUME NEW i \in 0..1, NEW t, NEW v, NEW es,
           \/ es = HandleEventEmits(t, v, TranslatorKeys[i])
           \/ es = TimeoutEvents(t, TranslatorKeys[i])
    PROVE  /\ es \in Seq(Event)
           /\ \A j \in 1..Len(es) :
                es[j].code \in {TranslatorKeys[i].short, TranslatorKeys[i].long}
<1> DEFINE short == TranslatorKeys[i].short
           long == TranslatorKeys[i].long
<1>1. short \in Codes /\ long \in Codes
  <2>1. i = 0 \/ i = 1
    OBVIOUS
  <2> QED BY <2>1 DEF TranslatorKeys, Codes, SupportedKeyCodes
<1> HIDE DEF short, long
<1>2. PICK k : k = TranslatorKeys[i] /\ k.short = short /\ k.long = long
  BY DEF short, long
<1> DEFINE E == {PressOf(short), PressOf(long), ReleaseOf(short), ReleaseOf(long)}
<1>3. E \subseteq Event /\ \A e \in E : e.code \in {short, long}
  BY <1>1 DEF PressOf, ReleaseOf, Event
<1> HIDE DEF E
<1>4. <<>> \in Seq(E) /\ \A e \in E : <<e>> \in Seq(E)
  <2>1. ASSUME NEW e \in E PROVE <<e>> \in Seq(E)
    OBVIOUS
  <2> QED BY <2>1, EmptySeq
<1>5. es \in Seq(E)
  <2>1. CASE es = TimeoutEvents(t, TranslatorKeys[i])
    <3>1. es \in {<<>>, <<PressOf(long)>>}
      BY <1>2, <2>1 DEF TimeoutEvents
    <3> QED BY <1>4, <3>1 DEF E
  <2>2. CASE es = HandleEventEmits(t, v, TranslatorKeys[i])
    <3>1. PICK a, b : /\ a = IF t.timer THEN <<PressOf(k.short)>> ELSE <<>>
                      /\ b = <<ReleaseOf(IF t.state = "LONG_PRESS_DETECTED"
                                         THEN k.long ELSE k.short)>>
      OBVIOUS
    <3>2. a \in Seq(E) /\ b \in Seq(E)
      BY <1>2, <1>4, <3>1 DEF E
    <3>3. es = a \o b \/ es = <<>>
      BY <1>2, <2>2, <3>1 DEF HandleEventEmits, KeyUpEvents
    <3> QED BY <1>4, <3>2, <3>3, ConcatProperties
  <2> QED BY <2>1, <2>2
<1>6. es \in Seq(Event) /\ \A j \in 1..Len(es) : es[j] \in E
  BY <1>3, <1>5, ElementOfSeq, SeqMonotonic
<1> QED BY <1>3, <1>6 DEF short, long

LEMMA BroadcastKept ==
    ASSUME ClientSide, NEW es \in Seq(Event), broadcastToClients(es),
           UNCHANGED <<connections, peer>>
    PROVE  /\ outbox' \in [Clients -> Seq(Event)]
           /\ \A c \in Clients :
                outbox'[c] = IF c \in connections /\ peer[c] = "open" THEN outbox[c] \o es
                             ELSE outbox[c]
           /\ \A c \in Clients : outbox'[c] # <<>> => c \in connections' /\ peer'[c] = "open"
<1>1. ASSUME NEW c \in Clients PROVE outbox[c] \o es \in Seq(Event)
  BY ConcatProperties DEF ClientSide
<1>2. outbox' = [c \in Clients |-> IF c \in connections /\ peer[c] = "open"
                                   THEN outbox[c] \o es ELSE outbox[c]]
  BY DEF broadcastToClients
<1> QED BY <1>1, <1>2 DEF ClientSide

\* What the read loop sends for an event: nothing, the event, or what a
\* translator makes of it.
LEMMA HandlerBroadcasts ==
    ASSUME NEW s \in Sources, handleKeyEvent(s), DeviceSide
    PROVE  \/ UNCHANGED outbox /\ ~isKeySupported(Head(kbuf[s]).code)
           \/ /\ broadcastToClients(<<Head(kbuf[s])>>) /\ <<Head(kbuf[s])>> \in Seq(Event)
              /\ TranslatorOf(s, Head(kbuf[s]).code) = {}
           \/ \E i \in TranslatorOf(s, Head(kbuf[s]).code) : \E es \in Seq(Event) :
                /\ broadcastToClients(es)
                /\ \A j \in 1..Len(es) :
                      es[j].code \in {TranslatorKeys[i].short, TranslatorKeys[i].long}
<1>1. Head(kbuf[s]) \in Event
  BY HeadTailProperties DEF handleKeyEvent, DeviceSide
<1>2. <<Head(kbuf[s])>> \in Seq(Event)
  BY <1>1
<1>3. ASSUME NEW i \in TranslatorOf(s, Head(kbuf[s]).code),
             broadcastToClients(HandleEventEmits(translators[i], Head(kbuf[s]).value,
                                                 TranslatorKeys[i]))
      PROVE  \E es \in Seq(Event) :
                /\ broadcastToClients(es)
                /\ \A j \in 1..Len(es) :
                      es[j].code \in {TranslatorKeys[i].short, TranslatorKeys[i].long}
  <2>1. PICK es : es = HandleEventEmits(translators[i], Head(kbuf[s]).value, TranslatorKeys[i])
    OBVIOUS
  <2>2. i \in 0..1
    BY DEF TranslatorOf
  <2> QED BY <1>3, <2>1, <2>2, Emitted
<1> QED BY <1>2, <1>3 DEF handleKeyEvent

LEMMA ClientSideKept ==
    ASSUME Counted, DeviceSide, ClientSide, [Next]_vars
    PROVE  ClientSide'
<1>1. CASE UNCHANGED <<connections, peer, outbox, queries>>
  BY <1>1 DEF ClientSide
<1>2. ASSUME NEW es \in Seq(Event), broadcastToClients(es),
             UNCHANGED <<connections, peer, queries>>
      PROVE  ClientSide'
  BY <1>2, BroadcastKept DEF ClientSide
<1>3. ASSUME NEW s \in Sources, handleKeyEvent(s) PROVE ClientSide'
  <2>1. UNCHANGED <<connections, peer, queries>>
    BY <1>3 DEF handleKeyEvent, clientVars
  <2> QED BY <1>1, <1>2, <1>3, <2>1, HandlerBroadcasts
<1>4. ASSUME NEW i \in 0..1, TimerExpires(i) PROVE ClientSide'
  <2>1. PICK es : es = TimeoutEvents(translators[i], TranslatorKeys[i])
    OBVIOUS
  <2>2. es \in Seq(Event)
    BY <2>1, Emitted
  <2>3. broadcastToClients(es) /\ UNCHANGED <<connections, peer, queries>>
    BY <1>4, <2>1 DEF TimerExpires, clientVars
  <2> QED BY <1>2, <2>2, <2>3
<1>5. ASSUME NEW c \in Clients, newConnection(c) PROVE ClientSide'
  BY <1>5 DEF newConnection, socketVars, ClientSide
<1>6. ASSUME NEW c \in Clients, disconnected(c) PROVE ClientSide'
  <2>1. /\ connections' = connections \ {c} /\ peer' = [peer EXCEPT ![c] = "idle"]
        /\ outbox' = [outbox EXCEPT ![c] = <<>>] /\ queries' = [queries EXCEPT ![c] = None]
    BY <1>6 DEF disconnected
  <2>2. <<>> \in Seq(Event)
    BY EmptySeq
  <2>3. outbox' \in [Clients -> Seq(Event)] /\ queries' \in [Clients -> Codes \cup {None}]
    BY <2>1, <2>2 DEF ClientSide
  <2>4. ASSUME NEW d \in Clients
        PROVE  /\ outbox'[d] # <<>> => d \in connections' /\ peer'[d] = "open"
               /\ queries'[d] # None => peer'[d] \in {"open", "closed"}
    <3>1. CASE d = c
      BY <2>1, <3>1 DEF ClientSide
    <3>2. CASE d # c
      BY <2>1, <3>2 DEF ClientSide, Counted
    <3> QED BY <3>1, <3>2
  <2> QED BY <2>3, <2>4 DEF ClientSide
<1>7. ASSUME NEW c \in Clients, clientSocketReadyRead(c) PROVE ClientSide'
  <2>1. /\ c \in connections /\ queries[c] # None /\ queries' = [queries EXCEPT ![c] = None]
        /\ UNCHANGED <<connections, peer>>
    BY <1>7 DEF clientSocketReadyRead, clientVars
  <2>2. queries[c] \in Codes
    BY <2>1 DEF ClientSide
  <2>3. queries' \in [Clients -> Codes \cup {None}]
        /\ \A d \in Clients : queries'[d] # None => peer'[d] \in {"open", "closed"}
    BY <2>1 DEF ClientSide
  <2>4. \/ UNCHANGED outbox
        \/ /\ peer[c] = "open"
           /\ \E v \in 0..1 :
                 outbox' = [outbox EXCEPT ![c] = Append(outbox[c], [code |-> queries[c], value |-> v])]
    <3>1. KeyBits(queries[c]) \subseteq 0..1
      BY DEF KeyBits
    <3>2. \/ UNCHANGED outbox
          \/ /\ peer[c] = "open"
             /\ \E v \in KeyBits(queries[c]) :
                   outbox' = [outbox EXCEPT ![c] =
                                Append(outbox[c], [code |-> queries[c], value |-> v])]
      BY <1>7, Zenon DEF clientSocketReadyRead
    <3> QED BY <3>1, <3>2
  <2>5. CASE UNCHANGED outbox
    BY <2>1, <2>3, <2>5 DEF ClientSide
  <2>6. ASSUME peer[c] = "open", NEW v \in 0..1,
               outbox' = [outbox EXCEPT ![c] = Append(outbox[c], [code |-> queries[c], value |-> v])]
        PROVE  ClientSide'
    <3>1. [code |-> queries[c], value |-> v] \in Event
      BY <2>2 DEF Event
    <3>2. Append(outbox[c], [code |-> queries[c], value |-> v]) \in Seq(Event)
      BY <3>1, AppendProperties DEF ClientSide
    <3> QED BY <2>1, <2>3, <2>6, <3>2 DEF ClientSide
  <2> QED BY <2>4, <2>5, <2>6
<1>8. CASE Restart
  <2>1. /\ outbox' = [c \in Clients |-> <<>>] /\ queries' = [c \in Clients |-> None]
    BY <1>8 DEF Restart
  <2>2. <<>> \in Seq(Event)
    BY EmptySeq
  <2> QED BY <2>1, <2>2 DEF ClientSide
<1>9. ASSUME NEW c \in Clients, Connect(c) PROVE ClientSide'
  <2>1. peer[c] = "idle" /\ peer' = [peer EXCEPT ![c] = "open"]
        /\ UNCHANGED <<connections, outbox, queries>>
    BY <1>9 DEF Connect, socketVars
  <2> QED BY <2>1 DEF ClientSide, Counted
<1>10. ASSUME NEW c \in Clients, NEW code \in Codes, SendQuery(c, code) PROVE ClientSide'
  <2>1. peer[c] = "open" /\ queries' = [queries EXCEPT ![c] = code]
        /\ UNCHANGED <<connections, peer, outbox>>
    BY <1>10 DEF SendQuery, clientVars
  <2> QED BY <2>1 DEF ClientSide
<1>11. ASSUME NEW c \in Clients, ReadSocket(c) PROVE ClientSide'
  <2>1. peer[c] = "open" /\ outbox[c] # <<>> /\ outbox' = [outbox EXCEPT ![c] = Tail(@)]
        /\ UNCHANGED <<connections, peer, queries>>
    BY <1>11 DEF ReadSocket, clientVars
  <2>2. Tail(outbox[c]) \in Seq(Event)
    BY <2>1, HeadTailProperties DEF ClientSide
  <2> QED BY <2>1, <2>2 DEF ClientSide
<1>12. ASSUME NEW c \in Clients, CloseSocket(c) PROVE ClientSide'
  <2>1. peer' = [peer EXCEPT ![c] = "closed"] /\ outbox' = [outbox EXCEPT ![c] = <<>>]
        /\ peer[c] = "open" /\ UNCHANGED <<connections, queries>>
    BY <1>12 DEF CloseSocket
  <2>2. <<>> \in Seq(Event)
    BY EmptySeq
  <2>3. outbox' \in [Clients -> Seq(Event)]
    BY <2>1, <2>2 DEF ClientSide
  <2>4. ASSUME NEW d \in Clients
        PROVE  /\ outbox'[d] # <<>> => d \in connections' /\ peer'[d] = "open"
               /\ queries'[d] # None => peer'[d] \in {"open", "closed"}
    <3>1. CASE d = c
      BY <2>1, <3>1 DEF ClientSide, Counted
    <3>2. CASE d # c
      BY <2>1, <3>2 DEF ClientSide, Counted
    <3> QED BY <3>1, <3>2
  <2> QED BY <2>1, <2>3, <2>4 DEF ClientSide
<1>13. ASSUME NEW c \in Clients, DropSocket(c) PROVE ClientSide'
  <2>1. peer[c] = "lost" /\ peer' = [peer EXCEPT ![c] = "idle"]
        /\ UNCHANGED <<connections, outbox, queries>>
    BY <1>13 DEF DropSocket, socketVars
  <2> QED BY <2>1 DEF ClientSide, Counted
<1>14. CASE Kernel
  <2>1. UNCHANGED <<clientVars, socketVars>>
    BY <1>14 DEF Kernel, PressKey, ReleaseKey, RepeatKey, UnplugDevice, PlugDevice, HeadsetNodes
  <2> QED BY <1>1, <2>1 DEF clientVars, socketVars
<1>15. CASE Daemon
  <2>1. CASE HeadsetEvent \/ HeadsetWatchLost
    BY <1>1, <2>1 DEF HeadsetEvent, HeadsetWatchLost, clientVars, socketVars
  <2> QED BY <1>3, <1>4, <1>5, <1>6, <1>7, <1>8, <1>15, <2>1 DEF Daemon, DaemonFor
<1>16. ASSUME NEW c \in Clients, ClientStep(c) PROVE ClientSide'
  <2>1. (UNION {KeysOf[s] : s \in Sources}) \cup {OtherCode} \subseteq Codes
    BY KeydAssumption DEF Codes
  <2>2. ASSUME NEW code \in (UNION {KeysOf[s] : s \in Sources}) \cup {OtherCode},
               SendQuery(c, code)
        PROVE  ClientSide'
    BY <1>10, <2>1, <2>2
  <2> QED BY <1>9, <1>11, <1>12, <1>13, <1>16, <2>2 DEF ClientStep
<1> QED BY <1>1, <1>14, <1>15, <1>16 DEF Next, vars, clientVars, socketVars

\* The daemon keeps the devices that stay open as long as it has clients, and
\* nothing is unread of a device that is closed.
Fed ==
    \A d \in Devices \ Unpluggable :
        /\ d \in present /\ files[d] \in {"closed", "open"}
        /\ connections # {} => files[d] = "open"
        /\ files[d] = "closed" => kbuf[d] = <<>>

LEMMA FedKept ==
    ASSUME Counted, DeviceSide, Handles, Fed, [Next]_vars
    PROVE  Fed'
<1> SUFFICES ASSUME NEW d \in Devices \ Unpluggable
             PROVE  /\ d \in present' /\ files'[d] \in {"closed", "open"}
                    /\ connections' # {} => files'[d] = "open"
                    /\ files'[d] = "closed" => kbuf'[d] = <<>>
  BY DEF Fed
<1>0. /\ d \in present /\ files[d] \in {"closed", "open"}
      /\ connections # {} => files[d] = "open"
      /\ files[d] = "closed" => kbuf[d] = <<>>
  BY DEF Fed
<1>d. d \in Sources /\ d # BT
  BY KeydAssumption DEF Sources, ECI, BT
<1>1. CASE present' = present /\ files' = files /\ kbuf'[d] = kbuf[d] /\ connections' = connections
  BY <1>0, <1>1
<1>2. ASSUME NEW s \in Sources, NEW code \in KeysOf[s],
             PressKey(s, code) \/ ReleaseKey(s, code) \/ RepeatKey(s, code)
      PROVE  kbuf'[d] = kbuf[d] \/ files[d] = "open"
  <2>1. PICK v \in 0..2 : KernelEvent(s, code, v)
    BY <1>2 DEF PressKey, ReleaseKey, RepeatKey
  <2>2. CASE s = d
    BY <1>d, <2>1, <2>2, KernelEventKept DEF Live
  <2>3. CASE s # d
    BY <1>d, <2>1, <2>3, KernelEventKept
  <2> QED BY <2>2, <2>3
<1>3. CASE Kernel
  <2>1. connections' = connections
    BY <1>3, KernelEffect DEF clientVars
  <2>2. ASSUME NEW s \in Sources, NEW code \in KeysOf[s],
               PressKey(s, code) \/ ReleaseKey(s, code) \/ RepeatKey(s, code)
        PROVE  present' = present /\ files' = files
    BY <2>2 DEF PressKey, ReleaseKey, RepeatKey
  <2>3. CASE \E s \in Sources : \E code \in KeysOf[s] :
               PressKey(s, code) \/ ReleaseKey(s, code) \/ RepeatKey(s, code)
    BY <1>0, <1>2, <2>1, <2>2, <2>3
  <2>4. ASSUME NEW e \in Devices, UnplugDevice(e)
        PROVE  d \in present' /\ files'[d] = files[d] /\ kbuf'[d] = kbuf[d]
    <3>1. d # e
      BY <2>4 DEF UnplugDevice
    <3>2. d \in present'
      BY <1>0, <2>4, <3>1 DEF UnplugDevice
    <3>3. files'[d] = files[d]
      <4>1. files' = [files EXCEPT ![e] = IF files[e] = "open" THEN "dead" ELSE files[e]]
        BY <2>4 DEF UnplugDevice
      <4> QED BY <3>1, <4>1 DEF Handles
    <3>4. kbuf'[d] = kbuf[d]
      BY <1>d, <2>4, <3>1 DEF UnplugDevice, DeviceSide
    <3> QED BY <3>2, <3>3, <3>4
  <2>5. ASSUME NEW e \in Devices, PlugDevice(e)
        PROVE  d \in present' /\ files'[d] = files[d] /\ kbuf'[d] = kbuf[d]
    BY <1>0, <2>5 DEF PlugDevice
  <2>6. CASE HeadsetNodes
    <3>1. kbuf' = [kbuf EXCEPT ![BT] = <<>>] \/ kbuf' = kbuf
      BY <2>6 DEF HeadsetNodes
    <3>2. kbuf'[d] = kbuf[d]
      BY <1>d, <3>1 DEF DeviceSide
    <3> QED BY <1>1, <2>1, <2>6, <3>2 DEF HeadsetNodes
  <2> QED BY <1>0, <1>3, <2>1, <2>3, <2>4, <2>5, <2>6 DEF Kernel
<1>4. ASSUME NEW c \in Clients, newConnection(c)
      PROVE  present' = present /\ files'[d] = "open"
  <2>1. users \in Nat
    <3>1. IsFiniteSet(Clients) /\ connections \in SUBSET Clients
      BY KeydAssumption DEF Counted
    <3> QED BY <3>1, FS_Subset, FS_CardinalityType DEF Counted, UsersCounted
  <2>2. files' = openHandles(files)
    BY <1>4, <2>1 DEF newConnection
  <2> QED BY <1>0, <1>4, <2>2 DEF newConnection, openHandles
<1>5. ASSUME NEW c \in Clients, disconnected(c)
      PROVE  /\ present' = present /\ connections' \subseteq connections
             /\ \/ files' = files /\ kbuf' = kbuf
                \/ connections' = {} /\ files'[d] = "closed" /\ kbuf'[d] = <<>>
  <2>1. connections' = connections \ {c} /\ present' = present
    BY <1>5 DEF disconnected
  <2>2. CASE users' = 0
    <3>1. Counted'
      BY <1>5, CountedKept DEF Next, Daemon, DaemonFor
    <3>2. IsFiniteSet(connections') /\ Cardinality(connections') = 0
      BY <2>2, <3>1, KeydAssumption, FS_Subset DEF Counted, UsersCounted
    <3>3. connections' = {}
      BY <3>2, FS_EmptySet
    <3>4. files'[d] = "closed" /\ kbuf'[d] = <<>>
      BY <1>d, <1>5, <2>2 DEF disconnected, closeHandles, NoHandles
    <3> QED BY <2>1, <3>3, <3>4
  <2>3. CASE users' # 0
    BY <1>5, <2>1, <2>3 DEF disconnected
  <2> QED BY <2>2, <2>3
<1>6. ASSUME NEW s \in Sources, handleKeyEvent(s)
      PROVE  kbuf'[d] = kbuf[d] \/ files[d] = "open"
  <2>1. kbuf[s] # <<>> /\ kbuf' = [kbuf EXCEPT ![s] = Tail(@)]
    BY <1>6 DEF handleKeyEvent
  <2> QED BY <1>0, <1>d, <2>1 DEF DeviceSide
<1>7. CASE Restart
  <2>1. connections' = {} /\ files' = NoHandles /\ kbuf' = [s \in Sources |-> <<>>]
        /\ present' = present
    BY <1>7 DEF Restart
  <2> QED BY <1>0, <1>d, <2>1 DEF NoHandles
<1>8. CASE Daemon
  <2>1. ASSUME NEW c \in Clients, clientSocketReadyRead(c)
        PROVE  present' = present /\ files' = files /\ kbuf' = kbuf /\ connections' = connections
    BY <2>1 DEF clientSocketReadyRead, deviceVars, clientVars
  <2>2. ASSUME NEW s \in Sources, handleKeyEvent(s)
        PROVE  present' = present /\ files' = files /\ connections' = connections
    BY <2>2 DEF handleKeyEvent, clientVars
  <2>3. CASE (\E i \in 0..1 : TimerExpires(i)) \/ HeadsetWatchLost
    BY <1>1, <2>3 DEF TimerExpires, HeadsetWatchLost, deviceVars, clientVars
  <2>4. CASE HeadsetEvent
    <3>1. kbuf' = [kbuf EXCEPT ![BT] = <<>>] \/ kbuf' = kbuf
      BY <2>4 DEF HeadsetEvent
    <3>2. kbuf'[d] = kbuf[d]
      BY <1>d, <3>1 DEF DeviceSide
    <3> QED BY <1>1, <2>4, <3>2 DEF HeadsetEvent, clientVars
  <2>5. CASE \E c \in Clients : newConnection(c)
    BY <1>0, <1>4, <2>5
  <2>6. CASE \E c \in Clients : disconnected(c)
    BY <1>0, <1>5, <2>6
  <2>7. CASE \E s \in Sources : handleKeyEvent(s)
    BY <1>0, <1>6, <2>2, <2>7
  <2> QED BY <1>1, <1>7, <1>8, <2>1, <2>3, <2>4, <2>5, <2>6, <2>7 DEF Daemon, DaemonFor
<1>9. ASSUME NEW c \in Clients, ClientStep(c)
      PROVE  UNCHANGED <<present, files, kbuf, connections>>
  BY <1>9 DEF ClientStep, Connect, ReadSocket, CloseSocket, DropSocket, SendQuery, deviceVars,
              clientVars
<1> QED BY <1>1, <1>3, <1>8, <1>9 DEF Next, vars, deviceVars, clientVars

-----------------------------------------------------------------------------
\* The keys the querying clients ask for are keys of the sources.
AllCodes == UNION {KeysOf[s] : s \in Sources}

Asking == asked \in [Queriers -> AllCodes \cup {None}]

\* Every step of the key system is a step of the daemon and its clients.
LEMMA SysStep ==
    ASSUME Asking, [SysNext]_sysVars
    PROVE  [Next]_vars /\ Asking'
<1>0. Listeners \subseteq Clients /\ Queriers \subseteq Clients
  BY KeySystemAssumption
<1>1. CASE UNCHANGED sysVars
  BY <1>1 DEF sysVars, Asking
<1>2. CASE Environment
  BY <1>2 DEF Environment, Next, Asking
<1>3. ASSUME NEW l \in Listeners, Listener(l) PROVE [Next]_vars /\ Asking'
  <2>1. Connect(l) \/ CloseSocket(l) \/ DropSocket(l) \/ ReadSocket(l)
    BY <1>3 DEF Listener, NewQmKeys, DeleteQmKeys, ListenerReads
  <2>2. asked' = asked
    BY <1>3 DEF Listener, NewQmKeys, DeleteQmKeys, ListenerReads, queryVars
  <2> QED BY <1>0, <2>1, <2>2 DEF Next, ClientStep, Asking
<1>4. ASSUME NEW q \in Queriers, Querier(q) PROVE [Next]_vars /\ Asking'
  <2>1. ASSUME NEW code \in AllCodes, Ask(q, code) PROVE [Next]_vars /\ Asking'
    BY <1>0, <2>1 DEF Ask, Next, ClientStep, Asking
  <2>2. CASE WriteQuery(q)
    <3>1. asked[q] \in AllCodes /\ SendQuery(q, asked[q]) /\ asked' = asked
      BY <2>2 DEF WriteQuery, Asking
    <3> QED BY <1>0, <3>1 DEF Next, ClientStep, Asking, AllCodes
  <2>3. CASE ReadResponse(q) \/ GiveUp(q)
    <3>1. /\ CloseSocket(q) \/ DropSocket(q)
          /\ asked' = [asked EXCEPT ![q] = None]
      BY <2>3 DEF ReadResponse, GiveUp
    <3> QED BY <1>0, <3>1 DEF Next, ClientStep, Asking
  <2> QED BY <1>4, <2>1, <2>2, <2>3 DEF Querier, AllCodes
<1> QED BY <1>1, <1>2, <1>3, <1>4 DEF SysNext

Wires == DeviceSide /\ ClientSide /\ Fed /\ Asking

LEMMA SysInitially == SysInit => Init /\ KeydInv /\ Wires
<1> SUFFICES ASSUME SysInit PROVE Init /\ KeydInv /\ Wires
  OBVIOUS
<1>1. Init /\ KeydInv
  BY InitKeydInv DEF SysInit
<1>2. <<>> \in Seq(Event) /\ Len(<<>>) = 0
  BY EmptySeq
<1>3. DeviceSide
  BY <1>1, <1>2 DEF Init, DeviceSide
<1>4. ClientSide
  BY <1>1, <1>2 DEF Init, ClientSide
<1>5. Fed
  BY <1>1 DEF Init, Fed, Sources
<1>6. Asking
  BY DEF SysInit, Asking
<1> QED BY <1>1, <1>3, <1>4, <1>5, <1>6 DEF Wires

LEMMA SysKept ==
    ASSUME KeydInv, Wires, [SysNext]_sysVars
    PROVE  [Next]_vars /\ KeydInv' /\ Wires'
<1>1. [Next]_vars /\ Asking'
  BY SysStep DEF Wires
<1>2. KeydInv'
  BY <1>1, CountedKept, HandlesKept, DevicesKept DEF KeydInv
<1> QED BY <1>1, <1>2, DeviceSideKept, ClientSideKept, FedKept DEF KeydInv, Wires

\* The key system is the daemon with clients of two kinds: everything that is
\* proved of the daemon with any clients holds of it.
THEOREM SystemImplementsDaemon == SysSpec => SafeSpec
<1>1. KeydInv /\ Wires /\ [SysNext]_sysVars => [Next]_vars /\ KeydInv' /\ Wires'
  BY SysKept
<1> QED BY <1>1, SysInitially, PTL DEF SysSpec, SafeSpec

-----------------------------------------------------------------------------
\* A key whose cached state can be told from its source alone: a device that
\* stays has it, no other code there or elsewhere stands for it, and it is neither
\* translated nor what a translator emits, nor the camera key with its two stages.
Solitary(s, code) ==
    /\ s \in Devices \ Unpluggable /\ code \in KeysOf[s]
    /\ isKeySupported(code) /\ TranslatorOf(s, code) = {}
    /\ KeyOfEvent(code) \in Keys \ {"Camera"}
    /\ \A t \in Sources : \A c \in KeysOf[t] : KeyOfEvent(c) = KeyOfEvent(code) => t = s /\ c = code
    /\ \A c \in Translated : KeyOfEvent(c) # KeyOfEvent(code)

StateAt(x) == IF x = "down" THEN "KeyDown" ELSE "KeyUp"

\* What is unread of a source, what is unread of a connection and what is cached
\* agree with where the key is: the last edge says it, and if there is none on
\* the way the cache says it, if it says anything.
Agrees(k, o, cached, code, x) ==
    /\ Quiet(k, code) => Telling(o, code, x)
    /\ Quiet(k, code) /\ Quiet(o, code) => cached \in {NotCached, StateAt(x)}

Where(s, code) == IF code \in held[s] THEN "down" ELSE "up"

Cached(l, code) == caches[l].keyMap[KeyOfEvent(code)]

Listening(s, code) ==
    /\ Telling(kbuf[s], code, Where(s, code))
    /\ \A l \in Listeners : l \in connections /\ peer[l] = "open" =>
          Agrees(kbuf[s], outbox[l], Cached(l, code), code, Where(s, code))

\* No other code on its way stands for the same key.
Separate(code) ==
    \A l \in Listeners : \A i \in 1..Len(outbox[l]) :
        outbox[l][i].code = code \/ KeyOfEvent(outbox[l][i].code) # KeyOfEvent(code)

Caching ==
    /\ caches \in [Listeners -> Cache]
    /\ \A l \in Listeners : queries[l] = None
    /\ \A l \in Listeners : l \in pending => caches[l] = EmptyCache

\* One more event of a source, an event read by the daemon and sent on, events of
\* other keys, and an event read by the listener.
LEMMA AgreesAppend ==
    ASSUME NEW k \in Seq(Event), NEW e \in Event, NEW code, NEW x, NEW y, NEW o, NEW cached,
           Agrees(k, o, cached, code, x), ~Edge(e, code) => y = x
    PROVE  Agrees(Append(k, e), o, cached, code, y)
<1>1. Quiet(Append(k, e), code) => Quiet(k, code) /\ ~Edge(e, code)
  BY AppendHeard
<1> QED BY <1>1 DEF Agrees

LEMMA AgreesSent ==
    ASSUME NEW k \in Seq(Event), k # <<>>, NEW code, Head(k).code = code, NEW x,
           NEW o \in Seq(Event), NEW cached, Telling(k, code, x), Agrees(k, o, cached, code, x)
    PROVE  Agrees(Tail(k), o \o <<Head(k)>>, cached, code, x)
<1>1. /\ Head(k) \in Event
      /\ Quiet(k, code) <=> ~Edge(Head(k), code) /\ Quiet(Tail(k), code)
      /\ Quiet(Tail(k), code) => Position(Head(k).value) = x
  BY TailHeard
<1>2. o \o <<Head(k)>> = Append(o, Head(k))
  BY <1>1, AppendIsConcat
<1>3. /\ Quiet(Append(o, Head(k)), code) <=> Quiet(o, code) /\ ~Edge(Head(k), code)
      /\ Telling(Append(o, Head(k)), code, x) <=>
            /\ Head(k).code = code => Position(Head(k).value) = x
            /\ Edge(Head(k), code) \/ Telling(o, code, x)
  BY <1>1, AppendHeard
<1>4. Quiet(Tail(k), code) => Telling(Append(o, Head(k)), code, x)
  BY <1>1, <1>3, Zenon DEF Agrees
<1>5. Quiet(Tail(k), code) /\ Quiet(Append(o, Head(k)), code) => cached \in {NotCached, StateAt(x)}
  BY <1>1, <1>3, Zenon DEF Agrees
<1> QED BY <1>2, <1>4, <1>5 DEF Agrees

LEMMA AgreesForeign ==
    ASSUME NEW k, NEW code, NEW x, NEW o \in Seq(Event), NEW cached, NEW es \in Seq(Event),
           Foreign(es, code), Agrees(k, o, cached, code, x)
    PROVE  Agrees(k, o \o es, cached, code, x)
BY ForeignHeard DEF Agrees

LEMMA AgreesSkipped ==
    ASSUME NEW k \in Seq(Event), k # <<>>, NEW code, Head(k).code # code, NEW x,
           NEW o, NEW cached, Agrees(k, o, cached, code, x)
    PROVE  Agrees(Tail(k), o, cached, code, x)
<1>1. Quiet(k, code) <=> Quiet(Tail(k), code)
  BY TailHeard DEF Edge
<1> QED BY <1>1 DEF Agrees

LEMMA AgreesRead ==
    ASSUME NEW k, NEW code, NEW x \in {"up", "down"}, NEW o \in Seq(Event), o # <<>>, NEW cached,
           NEW after, Agrees(k, o, cached, code, x),
           \/ Head(o).code # code /\ after = cached
           \/ Head(o).code = code /\ Head(o).value = 2 /\ after = cached
           \/ Head(o).code = code /\ after = UpOrDown(Head(o).value)
    PROVE  Agrees(k, Tail(o), after, code, x)
<1>1. /\ Quiet(o, code) <=> ~Edge(Head(o), code) /\ Quiet(Tail(o), code)
      /\ Telling(o, code, x) => Telling(Tail(o), code, x)
      /\ Telling(o, code, x) /\ Quiet(Tail(o), code) /\ Head(o).code = code
            => Position(Head(o).value) = x
  BY TailHeard
<1>2. ASSUME Quiet(k, code), Quiet(Tail(o), code) PROVE after \in {NotCached, StateAt(x)}
  <2>1. CASE ~Edge(Head(o), code) /\ after = cached
    BY <1>1, <1>2, <2>1 DEF Agrees
  <2>2. CASE Head(o).code = code /\ after = UpOrDown(Head(o).value)
    <3>1. Position(Head(o).value) = x
      BY <1>1, <1>2, <2>2 DEF Agrees
    <3> QED BY <2>2, <3>1 DEF Position, UpOrDown, StateAt
  <2> QED BY <2>1, <2>2 DEF Edge
<1> QED BY <1>1, <1>2 DEF Agrees

\* Nothing about the key changes, or nobody listens any more.
LEMMA ListeningSame ==
    ASSUME NEW s \in Sources, NEW code, Listening(s, code),
           kbuf'[s] = kbuf[s], code \in held'[s] <=> code \in held[s],
           \A l \in Listeners : l \in connections' /\ peer'[l] = "open" =>
              /\ l \in connections /\ peer[l] = "open"
              /\ outbox'[l] = outbox[l] /\ caches'[l] = caches[l]
    PROVE  Listening(s, code)'
<1>1. Where(s, code)' = Where(s, code)
  BY DEF Where
<1>2. ASSUME NEW l \in Listeners, l \in connections', peer'[l] = "open"
      PROVE  /\ Agrees(kbuf[s], outbox[l], Cached(l, code), code, Where(s, code))
             /\ outbox'[l] = outbox[l] /\ Cached(l, code)' = Cached(l, code)
  BY <1>2 DEF Listening, Cached
<1> QED BY <1>1, <1>2, Zenon DEF Listening

LEMMA NobodyListens ==
    ASSUME NEW s \in Sources, NEW code, kbuf'[s] = <<>>, connections' = {}
    PROVE  Listening(s, code)'
BY EmptyHeard DEF Listening

\* What is broadcast, and events that are not about the key of a code.
Sent(events) ==
    \A c \in Clients :
        outbox'[c] = IF c \in connections /\ peer[c] = "open" THEN outbox[c] \o events
                     ELSE outbox[c]

Apart(events, code) ==
    \A i \in 1..Len(events) : KeyOfEvent(events[i].code) # KeyOfEvent(code)

LEMMA HandlerSends ==
    ASSUME DeviceSide, ClientSide, NEW s, NEW code, Solitary(s, code),
           NEW t \in Sources, handleKeyEvent(t)
    PROVE  \/ /\ t = s /\ Head(kbuf[t]).code = code /\ Sent(<<Head(kbuf[t])>>)
           \/ /\ t # s \/ Head(kbuf[t]).code # code
              /\ \E es \in Seq(Event) : Apart(es, code) /\ Sent(es)
<1>1. UNCHANGED <<connections, peer>>
  BY DEF handleKeyEvent, clientVars
<1>2. \A es \in Seq(Event) : broadcastToClients(es) => Sent(es)
  BY <1>1, BroadcastKept DEF Sent
<1>3. Head(kbuf[t]).code \in KeysOf[t] /\ Head(kbuf[t]) \in Event
  <2>1. kbuf[t] \in Seq(Event) /\ kbuf[t] # <<>>
    BY DEF DeviceSide, handleKeyEvent
  <2>2. Head(kbuf[t]) = kbuf[t][1] /\ 1 \in 1..Len(kbuf[t]) /\ Head(kbuf[t]) \in Event
    BY <2>1, HeadTailProperties, EmptySeq, LenProperties
  <2> QED BY <2>2 DEF DeviceSide
<1>4. CASE t = s /\ Head(kbuf[t]).code = code
  BY <1>2, <1>4, HandlerBroadcasts DEF Solitary
<1>5. CASE t # s \/ Head(kbuf[t]).code # code
  <2>1. KeyOfEvent(Head(kbuf[t]).code) # KeyOfEvent(code)
    BY <1>3, <1>5 DEF Solitary
  <2>2. CASE UNCHANGED outbox
    <3>1. <<>> \in Seq(Event) /\ Apart(<<>>, code)
      BY EmptySeq DEF Apart
    <3>2. ASSUME NEW c \in Clients PROVE outbox[c] \o <<>> = outbox[c]
      BY ConcatEmptySeq DEF ClientSide
    <3> QED BY <1>5, <2>2, <3>1, <3>2 DEF Sent
  <2>3. CASE broadcastToClients(<<Head(kbuf[t])>>) /\ <<Head(kbuf[t])>> \in Seq(Event)
    <3>1. PICK e : e = Head(kbuf[t])
      OBVIOUS
    <3>2. Len(<<e>>) = 1 /\ <<e>>[1] = e
      OBVIOUS
    <3>3. Apart(<<e>>, code)
      BY <2>1, <3>1, <3>2 DEF Apart
    <3> QED BY <1>2, <1>5, <2>3, <3>1, <3>3
  <2>4. ASSUME NEW i \in TranslatorOf(t, Head(kbuf[t]).code), NEW es \in Seq(Event),
               broadcastToClients(es),
               \A j \in 1..Len(es) :
                  es[j].code \in {TranslatorKeys[i].short, TranslatorKeys[i].long}
        PROVE  Apart(es, code) /\ Sent(es)
    <3>1. {TranslatorKeys[i].short, TranslatorKeys[i].long} \subseteq Translated
      BY DEF Translated, TranslatorOf
    <3> QED BY <1>2, <2>4, <3>1 DEF Apart, Solitary
  <2> QED BY <1>5, <2>2, <2>3, <2>4, HandlerBroadcasts
<1> QED BY <1>4, <1>5

LEMMA TimerSends ==
    ASSUME ClientSide, NEW s, NEW code, Solitary(s, code), NEW i \in 0..1, TimerExpires(i)
    PROVE  \E es \in Seq(Event) : Apart(es, code) /\ Sent(es)
<1>1. PICK es : es = TimeoutEvents(translators[i], TranslatorKeys[i])
  OBVIOUS
<1>2. /\ es \in Seq(Event)
      /\ \A j \in 1..Len(es) : es[j].code \in {TranslatorKeys[i].short, TranslatorKeys[i].long}
  BY <1>1, Emitted
<1>3. {TranslatorKeys[i].short, TranslatorKeys[i].long} \subseteq Translated
  BY DEF Translated
<1>4. broadcastToClients(es) /\ UNCHANGED <<connections, peer>>
  BY <1>1 DEF TimerExpires, clientVars
<1>5. Apart(es, code)
  BY <1>2, <1>3 DEF Apart, Solitary
<1>6. Sent(es)
  BY <1>2, <1>4, BroadcastKept DEF Sent
<1> QED BY <1>2, <1>5, <1>6

\* An object that is not connected yet has heard nothing, and none of them sends
\* a query on its own connection.
LEMMA CachingKept ==
    ASSUME KeydInv, Wires, Caching, [SysNext]_sysVars
    PROVE  Caching'
<1>0. Listeners \subseteq Clients /\ Queriers \subseteq Clients /\ Listeners \cap Queriers = {}
  BY KeySystemAssumption
<1>1. CASE UNCHANGED <<caches, pending, queries>>
  BY <1>1 DEF Caching
<1>2. ASSUME UNCHANGED caches, pending' \subseteq pending,
             \A l \in Listeners : queries'[l] = queries[l] \/ queries'[l] = None
      PROVE  Caching'
  BY <1>2 DEF Caching
<1>3. CASE Environment
  <2>1. UNCHANGED caches
    BY <1>3 DEF Environment
  <2>2. CASE Kernel
    BY <1>1, <2>1, <2>2, KernelEffect DEF Kernel, PressKey, ReleaseKey, RepeatKey, UnplugDevice,
       PlugDevice, HeadsetNodes, clientVars, socketVars
  <2>3. ASSUME NEW c \in Clients, queries' = [queries EXCEPT ![c] = None]
        PROVE  \A l \in Listeners : queries'[l] = queries[l] \/ queries'[l] = None
    BY <1>0, <2>3 DEF Wires, ClientSide
  <2>4. ASSUME NEW c \in Clients, DaemonFor(c) PROVE Caching'
    <3>1. CASE newConnection(c)
      BY <1>2, <2>1, <3>1 DEF newConnection, socketVars
    <3>2. CASE disconnected(c)
      BY <1>2, <2>1, <2>3, <3>2 DEF disconnected
    <3>3. CASE clientSocketReadyRead(c)
      BY <1>2, <2>1, <2>3, <3>3 DEF clientSocketReadyRead, clientVars
    <3> QED BY <2>4, <3>1, <3>2, <3>3 DEF DaemonFor
  <2>5. CASE Restart
    <3>1. pending' = {} /\ queries' = [c \in Clients |-> None]
      BY <2>5 DEF Restart
    <3> QED BY <1>0, <1>2, <2>1, <3>1
  <2>6. CASE \/ \E s \in Sources : handleKeyEvent(s)
             \/ \E i \in 0..1 : TimerExpires(i)
             \/ HeadsetEvent \/ HeadsetWatchLost
    <3>1. UNCHANGED <<pending, queries>>
      BY <2>6 DEF handleKeyEvent, TimerExpires, HeadsetEvent, HeadsetWatchLost, clientVars,
         socketVars
    <3> QED BY <1>1, <2>1, <3>1
  <2> QED BY <1>3, <2>2, <2>4, <2>5, <2>6 DEF Environment, Daemon
<1>4. ASSUME NEW l \in Listeners, Listener(l) PROVE Caching'
  <2>1. CASE NewQmKeys(l)
    <3>1. caches' = [caches EXCEPT ![l] = EmptyCache] /\ pending' = pending \cup {l}
          /\ queries' = queries
      BY <2>1 DEF NewQmKeys, Connect, socketVars
    <3>2. EmptyCache \in Cache
      BY DEF EmptyCache, Cache
    <3> QED BY <3>1, <3>2 DEF Caching
  <2>2. CASE DeleteQmKeys(l)
    BY <1>1, <2>2 DEF DeleteQmKeys, CloseSocket, DropSocket, socketVars
  <2>3. CASE ListenerReads(l)
    <3>1. /\ outbox[l] # <<>>
          /\ caches' = [caches EXCEPT ![l] = readyRead(caches[l], Head(outbox[l]))]
          /\ UNCHANGED <<pending, queries>>
      BY <2>3 DEF ListenerReads, ReadSocket, clientVars
    <3>2. Head(outbox[l]) \in Event /\ l \in connections
      BY <1>0, <3>1, HeadTailProperties DEF Wires, ClientSide
    <3>3. readyRead(caches[l], Head(outbox[l])) \in Cache
      BY <3>2, ReadKept DEF Caching
    <3>4. l \notin pending
      BY <3>2 DEF KeydInv, Counted, UsersCounted
    <3> QED BY <3>1, <3>3, <3>4 DEF Caching
  <2> QED BY <1>4, <2>1, <2>2, <2>3 DEF Listener
<1>5. ASSUME NEW q \in Queriers, Querier(q) PROVE Caching'
  <2>1. UNCHANGED caches
    BY <1>5 DEF Querier, Ask, WriteQuery, ReadResponse, GiveUp
  <2>2. ASSUME NEW code \in AllCodes, Ask(q, code) PROVE Caching'
    <3>1. pending' = pending \cup {q} /\ queries' = queries
      BY <2>2 DEF Ask, Connect, socketVars
    <3> QED BY <1>0, <2>1, <3>1 DEF Caching
  <2>3. CASE WriteQuery(q)
    <3>1. queries' = [queries EXCEPT ![q] = asked[q]] /\ pending' = pending
      BY <2>3 DEF WriteQuery, SendQuery, clientVars
    <3>2. \A l \in Listeners : queries'[l] = queries[l]
      BY <1>0, <3>1 DEF Wires, ClientSide
    <3> QED BY <1>2, <2>1, <3>1, <3>2
  <2>4. CASE ReadResponse(q) \/ GiveUp(q)
    <3>1. UNCHANGED <<pending, queries>>
      BY <2>4 DEF ReadResponse, GiveUp, CloseSocket, DropSocket, socketVars
    <3> QED BY <1>1, <2>1, <3>1
  <2> QED BY <1>5, <2>2, <2>3, <2>4 DEF Querier, AllCodes
<1>6. CASE UNCHANGED sysVars
  BY <1>1, <1>6 DEF sysVars, vars, clientVars, socketVars
<1> QED BY <1>3, <1>4, <1>5, <1>6 DEF SysNext

LEMMA SeparateKept ==
    ASSUME KeydInv, Wires, Caching, [SysNext]_sysVars,
           NEW s \in Sources, NEW code \in Codes, Solitary(s, code), Separate(code)
    PROVE  Separate(code)'
<1> DEFINE Told(o) == \A i \in 1..Len(o) : o[i].code = code \/ KeyOfEvent(o[i].code) # KeyOfEvent(code)
<1>0. /\ Listeners \subseteq Clients /\ Queriers \subseteq Clients
      /\ Listeners \cap Queriers = {}
      /\ \A l \in Listeners : outbox[l] \in Seq(Event) /\ Told(outbox[l]) /\ queries[l] = None
  BY KeySystemAssumption DEF Wires, ClientSide, Separate, Caching
<1>a. SUFFICES ASSUME NEW l \in Listeners PROVE Told(outbox'[l])
  BY DEF Separate
<1>1. CASE outbox'[l] = outbox[l]
  BY <1>0, <1>1
<1>2. CASE outbox'[l] = <<>>
  <2>1. Len(<<>>) = 0
    BY EmptySeq
  <2> QED BY <1>2, <2>1
<1>3. CASE outbox[l] # <<>> /\ outbox'[l] = Tail(outbox[l])
  <2>1. /\ Len(outbox[l]) \in Nat /\ Len(Tail(outbox[l])) = Len(outbox[l]) - 1
        /\ \A i \in 1..Len(Tail(outbox[l])) : Tail(outbox[l])[i] = outbox[l][i + 1]
    BY <1>0, <1>3, HeadTailProperties, LenProperties
  <2> QED BY <1>0, <1>3, <2>1
<1>4. ASSUME NEW es \in Seq(Event), Told(es), Sent(es) PROVE Told(outbox'[l])
  <2>1. CASE outbox'[l] = outbox[l] \o es
    <3>1. /\ Len(outbox[l]) \in Nat /\ Len(es) \in Nat
          /\ Len(outbox'[l]) = Len(outbox[l]) + Len(es)
          /\ \A i \in 1..Len(outbox[l]) : outbox'[l][i] = outbox[l][i]
          /\ \A i \in 1..Len(outbox'[l]) : i > Len(outbox[l]) =>
                i - Len(outbox[l]) \in 1..Len(es) /\ outbox'[l][i] = es[i - Len(outbox[l])]
      BY <1>0, <2>1, ConcatProperties, LenProperties
    <3>2. ASSUME NEW i \in 1..Len(outbox'[l])
          PROVE  \/ outbox'[l][i].code = code
                 \/ KeyOfEvent(outbox'[l][i].code) # KeyOfEvent(code)
      <4>1. CASE i \in 1..Len(outbox[l])
        BY <1>0, <3>1, <4>1
      <4>2. CASE i > Len(outbox[l])
        BY <1>4, <3>1, <4>2
      <4> QED BY <3>1, <4>1, <4>2
    <3> QED BY <3>2
  <2> QED BY <1>0, <1>1, <1>4, <2>1 DEF Sent
<1>5. ASSUME NEW es \in Seq(Event), Apart(es, code), Sent(es) PROVE Told(outbox'[l])
  BY <1>4, <1>5 DEF Apart
<1> HIDE DEF Told
<1>6. CASE Environment
  <2>1. CASE Kernel
    BY <1>1, <2>1 DEF Kernel, PressKey, ReleaseKey, RepeatKey, UnplugDevice,
       PlugDevice, HeadsetNodes, socketVars
  <2>2. ASSUME NEW c \in Clients, DaemonFor(c) PROVE Told(outbox'[l])
    <3>1. CASE newConnection(c)
      BY <1>1, <3>1 DEF newConnection, socketVars
    <3>2. CASE disconnected(c)
      <4>1. outbox' = [outbox EXCEPT ![c] = <<>>]
        BY <3>2 DEF disconnected
      <4>2. outbox'[l] \in {outbox[l], <<>>}
        BY <1>0, <4>1 DEF Wires, ClientSide
      <4> QED BY <1>1, <1>2, <4>2
    <3>3. CASE clientSocketReadyRead(c)
      <4>1. c # l
        BY <1>0, <3>3 DEF clientSocketReadyRead
      <4>2. \/ outbox' = outbox
            \/ \E v \in KeyBits(queries[c]) :
                  outbox' = [outbox EXCEPT ![c] =
                               Append(outbox[c], [code |-> queries[c], value |-> v])]
        BY <3>3, Zenon DEF clientSocketReadyRead
      <4>3. outbox'[l] = outbox[l]
        BY <1>0, <4>1, <4>2, Zenon DEF Wires, ClientSide
      <4> QED BY <1>1, <4>3
    <3> QED BY <2>2, <3>1, <3>2, <3>3 DEF DaemonFor
  <2>3. ASSUME NEW t \in Sources, handleKeyEvent(t) PROVE Told(outbox'[l])
    <3>1. CASE \E es \in Seq(Event) : Apart(es, code) /\ Sent(es)
      BY <1>5, <3>1
    <3>2. CASE Head(kbuf[t]).code = code /\ Sent(<<Head(kbuf[t])>>)
      <4>1. PICK e : e = Head(kbuf[t])
        OBVIOUS
      <4>2. e \in Event
        BY <2>3, <4>1, HeadTailProperties DEF handleKeyEvent, Wires, DeviceSide
      <4>3. <<e>> \in Seq(Event) /\ Len(<<e>>) = 1 /\ <<e>>[1] = e
        BY <4>2
      <4>4. Told(<<e>>)
        BY <3>2, <4>1, <4>3 DEF Told
      <4> QED BY <1>4, <3>2, <4>1, <4>3, <4>4
    <3> QED BY <2>3, <3>1, <3>2, HandlerSends DEF Wires
  <2>4. ASSUME NEW i \in 0..1, TimerExpires(i) PROVE Told(outbox'[l])
    BY <1>5, <2>4, TimerSends DEF Wires
  <2>5. CASE HeadsetEvent \/ HeadsetWatchLost
    BY <1>1, <2>5 DEF HeadsetEvent, HeadsetWatchLost, socketVars
  <2>6. CASE Restart
    <3>1. outbox' = [c \in Clients |-> <<>>]
      BY <2>6 DEF Restart
    <3> QED BY <1>0, <1>2, <3>1
  <2> QED BY <1>6, <2>1, <2>2, <2>3, <2>4, <2>5, <2>6 DEF Environment, Daemon
<1>7. ASSUME NEW c \in Clients, ClientStep(c) PROVE Told(outbox'[l])
  <2>1. \/ outbox' = outbox
        \/ outbox' = [outbox EXCEPT ![c] = <<>>]
        \/ outbox[c] # <<>> /\ outbox' = [outbox EXCEPT ![c] = Tail(outbox[c])]
    BY <1>7 DEF ClientStep, Connect, ReadSocket, CloseSocket, DropSocket, SendQuery, socketVars
  <2>2. \/ outbox'[l] \in {outbox[l], <<>>}
        \/ outbox[l] # <<>> /\ outbox'[l] = Tail(outbox[l])
    BY <1>0, <2>1 DEF Wires, ClientSide
  <2> QED BY <1>1, <1>2, <1>3, <2>2
<1>8. ASSUME NEW k \in Listeners, Listener(k) PROVE Told(outbox'[l])
  <2>1. ClientStep(k)
    BY <1>8 DEF Listener, NewQmKeys, DeleteQmKeys, ListenerReads, ClientStep
  <2> QED BY <1>0, <1>7, <2>1
<1>9. ASSUME NEW q \in Queriers, Querier(q) PROVE Told(outbox'[l])
  <2>1. CASE WriteQuery(q)
    BY <1>1, <2>1 DEF WriteQuery, SendQuery
  <2>2. CASE ~WriteQuery(q)
    <3>1. ClientStep(q)
      BY <1>9, <2>2 DEF Querier, Ask, ReadResponse, GiveUp, ClientStep
    <3> QED BY <1>0, <1>7, <3>1
  <2> QED BY <2>1, <2>2
<1>10. CASE UNCHANGED sysVars
  BY <1>1, <1>10 DEF sysVars, vars, socketVars
<1> QED BY <1>6, <1>8, <1>9, <1>10 DEF SysNext

\* Whatever happens, what a listener has cached and what is on its way to it say
\* together where the key is.
LEMMA ListeningKept ==
    ASSUME KeydInv, Wires, Caching, [SysNext]_sysVars,
           NEW s \in Sources, NEW code \in Codes, Solitary(s, code), Separate(code),
           Listening(s, code)
    PROVE  Listening(s, code)'
<1>0. /\ Listeners \subseteq Clients /\ Queriers \subseteq Clients
      /\ Listeners \cap Queriers = {}
      /\ \A l \in Listeners : outbox[l] \in Seq(Event) /\ queries[l] = None
      /\ s \in Devices \ Unpluggable /\ s # BT /\ code \in KeysOf[s]
      /\ kbuf[s] \in Seq(Event)
      /\ Telling(kbuf[s], code, Where(s, code))
  BY KeySystemAssumption, KeydAssumption
     DEF Wires, ClientSide, DeviceSide, Caching, Solitary, Listening, BT, ECI
<1>1. ASSUME NEW t \in Sources, NEW c \in KeysOf[t],
             PressKey(t, c) \/ ReleaseKey(t, c) \/ RepeatKey(t, c), UNCHANGED caches
      PROVE  Listening(s, code)'
  <2>1. UNCHANGED <<connections, peer, outbox, files>>
    BY <1>1 DEF PressKey, ReleaseKey, RepeatKey, clientVars, socketVars
  <2>2. CASE t # s
    <3>1. kbuf'[s] = kbuf[s]
      <4>1. PICK v \in 0..2 : KernelEvent(t, c, v)
        BY <1>1 DEF PressKey, ReleaseKey, RepeatKey
      <4> QED BY <2>2, <4>1, KernelEventKept DEF Wires
    <3>2. held'[s] = held[s]
      BY <1>1, <2>2 DEF PressKey, ReleaseKey, RepeatKey, Wires, DeviceSide
    <3> QED BY <1>1, <2>1, <3>1, <3>2, ListeningSame
  <2>3. CASE t = s /\ files[s] # "open"
    <3>1. kbuf[s] = <<>> /\ connections = {} /\ ~Live(s)
      BY <1>0, <2>3 DEF Wires, Fed, Live
    <3>2. kbuf'[s] = kbuf[s]
      BY <1>1, <2>3, <3>1 DEF PressKey, ReleaseKey, RepeatKey, KernelEvent
    <3> QED BY <2>1, <3>1, <3>2, NobodyListens
  <2>4. CASE t = s /\ files[s] = "open"
    <3>1. PICK v \in 0..2 :
             /\ KernelEvent(s, c, v)
             /\ c = code /\ v # 2 => Where(s, code)' = Position(v)
             /\ c # code \/ v = 2 => Where(s, code)' = Where(s, code)
             /\ c = code => Position(v) = Where(s, code)'
      <4>1. CASE PressKey(s, c)
        <5>1. held'[s] = held[s] \cup {c} /\ KernelEvent(s, c, 1)
          BY <4>1 DEF PressKey, Wires, DeviceSide
        <5> QED BY <5>1 DEF Where, Position
      <4>2. CASE ReleaseKey(s, c)
        <5>1. held'[s] = held[s] \ {c} /\ KernelEvent(s, c, 0)
          BY <4>2 DEF ReleaseKey, Wires, DeviceSide
        <5> QED BY <5>1 DEF Where, Position
      <4>3. CASE RepeatKey(s, c)
        <5>1. held'[s] = held[s] /\ c \in held[s] /\ KernelEvent(s, c, 2)
          BY <4>3 DEF RepeatKey
        <5> QED BY <5>1 DEF Where, Position
      <4> QED BY <1>1, <2>4, <4>1, <4>2, <4>3
    <3>2. PICK e \in Event : e = [code |-> c, value |-> v]
      BY <1>1, KeydAssumption DEF Event
    <3>3. kbuf'[s] = Append(kbuf[s], e) /\ e.code = c /\ e.value = v
      BY <1>0, <1>1, <2>4, <3>1, <3>2, KernelEventKept DEF Wires, Live
    <3>4. ~Edge(e, code) => Where(s, code)' = Where(s, code)
      BY <3>1, <3>3 DEF Edge
    <3>5. Telling(kbuf'[s], code, Where(s, code)')
      <4>1. e.code = code => Position(e.value) = Where(s, code)'
        BY <3>1, <3>3
      <4>2. CASE Edge(e, code)
        BY <1>0, <3>3, <4>1, <4>2, AppendHeard
      <4>3. CASE ~Edge(e, code)
        BY <1>0, <3>3, <3>4, <4>1, <4>3, AppendHeard
      <4> QED BY <4>2, <4>3
    <3>6. ASSUME NEW l \in Listeners, l \in connections', peer'[l] = "open"
          PROVE  Agrees(kbuf'[s], outbox'[l], Cached(l, code)', code, Where(s, code)')
      <4>1. /\ Agrees(kbuf[s], outbox[l], Cached(l, code), code, Where(s, code))
            /\ outbox'[l] = outbox[l] /\ Cached(l, code)' = Cached(l, code)
        BY <1>1, <2>1, <3>6 DEF Listening, Cached
      <4> QED BY <1>0, <3>3, <3>4, <4>1, AgreesAppend
    <3> QED BY <3>5, <3>6 DEF Listening
  <2> QED BY <2>2, <2>3, <2>4
<1>2. CASE Kernel /\ UNCHANGED caches
  <2>1. UNCHANGED <<clientVars, socketVars>>
    BY <1>2 DEF Kernel, PressKey, ReleaseKey, RepeatKey, UnplugDevice, PlugDevice, HeadsetNodes
  <2>2. ASSUME NEW d \in Devices, UnplugDevice(d) \/ PlugDevice(d)
        PROVE  kbuf'[s] = kbuf[s] /\ held'[s] = held[s]
    <3>1. CASE UnplugDevice(d)
      <4>1. d # s /\ held' = [held EXCEPT ![d] = {}] /\ kbuf' = [kbuf EXCEPT ![d] = <<>>]
        BY <1>0, <3>1 DEF UnplugDevice
      <4> QED BY <4>1 DEF Wires, DeviceSide
    <3>2. CASE PlugDevice(d)
      BY <3>2 DEF PlugDevice
    <3> QED BY <2>2, <3>1, <3>2
  <2>3. CASE HeadsetNodes
    <3>1. \/ UNCHANGED <<held, kbuf>>
          \/ held' = [held EXCEPT ![BT] = {}] /\ kbuf' = [kbuf EXCEPT ![BT] = <<>>]
      BY <2>3 DEF HeadsetNodes
    <3>2. kbuf'[s] = kbuf[s] /\ held'[s] = held[s]
      BY <1>0, <3>1 DEF Wires, DeviceSide
    <3> QED BY <1>2, <2>1, <3>2, ListeningSame DEF clientVars, socketVars
  <2>4. ASSUME NEW d \in Devices, UnplugDevice(d) \/ PlugDevice(d)
        PROVE  Listening(s, code)'
    BY <1>2, <2>1, <2>2, <2>4, ListeningSame DEF clientVars, socketVars
  <2> QED BY <1>1, <1>2, <2>3, <2>4 DEF Kernel
<1>3. ASSUME NEW c \in Clients, DaemonFor(c), UNCHANGED caches
      PROVE  Listening(s, code)'
  <2>1. CASE newConnection(c)
    <3>1. /\ UNCHANGED <<peer, held, kbuf, outbox>> /\ connections' = connections \cup {c}
          /\ c \in pending
      BY <2>1 DEF newConnection, socketVars
    <3>2. ASSUME NEW l \in Listeners, l \in connections', peer'[l] = "open"
          PROVE  Agrees(kbuf'[s], outbox'[l], Cached(l, code)', code, Where(s, code)')
      <4>1. Cached(l, code)' = Cached(l, code) /\ Where(s, code)' = Where(s, code)
        BY <1>3, <3>1 DEF Cached, Where
      <4>2. CASE l = c
        <5>1. outbox[l] = <<>>
          BY <1>0, <3>1, <4>2 DEF Wires, ClientSide, KeydInv, Counted, UsersCounted
        <5>2. Cached(l, code) = NotCached
          BY <3>1, <4>2 DEF Cached, Caching, EmptyCache, Solitary
        <5> QED BY <3>1, <4>1, <5>1, <5>2, EmptyHeard DEF Agrees
      <4>3. CASE l # c
        BY <3>1, <3>2, <4>1, <4>3, Zenon DEF Listening
      <4> QED BY <4>2, <4>3
    <3>3. Telling(kbuf'[s], code, Where(s, code)')
      BY <1>0, <3>1 DEF Where
    <3> QED BY <3>2, <3>3 DEF Listening
  <2>2. CASE disconnected(c)
    <3>1. /\ connections' = connections \ {c} /\ held' = held
          /\ peer' = [peer EXCEPT ![c] = "idle"] /\ outbox' = [outbox EXCEPT ![c] = <<>>]
          /\ (files' = NoHandles) \/ UNCHANGED kbuf
      BY <2>2 DEF disconnected, closeHandles
    <3>2. CASE files' = NoHandles
      <4>1. Fed'
        BY SysKept DEF Wires
      <4>2. kbuf'[s] = <<>> /\ connections' = {}
        BY <1>0, <3>2, <4>1 DEF Fed, NoHandles
      <4> QED BY <4>2, NobodyListens
    <3>3. CASE UNCHANGED kbuf
      <4>1. ASSUME NEW l \in Listeners, l \in connections', peer'[l] = "open"
            PROVE  /\ l \in connections /\ peer[l] = "open"
                   /\ outbox'[l] = outbox[l] /\ caches'[l] = caches[l]
        <5>1. l # c
          BY <3>1, <4>1
        <5> QED BY <1>0, <1>3, <3>1, <4>1, <5>1 DEF Wires, ClientSide, KeydInv, Counted
      <4> QED BY <3>1, <3>3, <4>1, ListeningSame
    <3> QED BY <3>1, <3>2, <3>3
  <2>3. CASE clientSocketReadyRead(c)
    <3>1. UNCHANGED <<clientVars, deviceVars>> /\ queries[c] # None
      BY <2>3 DEF clientSocketReadyRead
    <3>2. \/ outbox' = outbox
          \/ \E v \in KeyBits(queries[c]) :
                outbox' = [outbox EXCEPT ![c] =
                             Append(outbox[c], [code |-> queries[c], value |-> v])]
      BY <2>3, Zenon DEF clientSocketReadyRead
    <3>3. \A l \in Listeners : outbox'[l] = outbox[l]
      BY <1>0, <3>1, <3>2, Zenon DEF Wires, ClientSide
    <3> QED BY <1>3, <3>1, <3>3, ListeningSame DEF clientVars, deviceVars
  <2> QED BY <1>3, <2>1, <2>2, <2>3 DEF DaemonFor
<1>4. ASSUME NEW es \in Seq(Event), Apart(es, code), Sent(es),
             UNCHANGED <<connections, peer, caches, held>>,
             \/ kbuf'[s] = kbuf[s]
             \/ /\ kbuf[s] # <<>> /\ Head(kbuf[s]).code # code /\ kbuf'[s] = Tail(kbuf[s])
      PROVE  Listening(s, code)'
  <2>1. Where(s, code)' = Where(s, code)
    BY <1>4 DEF Where
  <2>2. Foreign(es, code)
    BY <1>4 DEF Apart, Foreign
  <2>3. Telling(kbuf'[s], code, Where(s, code))
    BY <1>0, <1>4, TailHeard
  <2>4. ASSUME NEW l \in Listeners, l \in connections', peer'[l] = "open"
        PROVE  Agrees(kbuf'[s], outbox'[l], Cached(l, code)', code, Where(s, code)')
    <3>1. /\ Agrees(kbuf[s], outbox[l], Cached(l, code), code, Where(s, code))
          /\ Cached(l, code)' = Cached(l, code)
      BY <1>4, <2>4 DEF Listening, Cached
    <3>2. outbox'[l] = outbox[l] \o es
      BY <1>0, <1>4, <2>4 DEF Sent
    <3>3. Agrees(kbuf'[s], outbox[l], Cached(l, code), code, Where(s, code))
      <4>1. CASE kbuf'[s] = kbuf[s]
        BY <3>1, <4>1
      <4>2. CASE kbuf[s] # <<>> /\ Head(kbuf[s]).code # code /\ kbuf'[s] = Tail(kbuf[s])
        BY <1>0, <3>1, <4>2, AgreesSkipped
      <4> QED BY <1>4, <4>1, <4>2
    <3> QED BY <1>0, <2>1, <2>2, <3>1, <3>2, <3>3, AgreesForeign
  <2> QED BY <2>1, <2>3, <2>4 DEF Listening
<1>5. ASSUME NEW t \in Sources, handleKeyEvent(t), UNCHANGED caches
      PROVE  Listening(s, code)'
  <2>1. /\ UNCHANGED <<connections, peer, held>> /\ kbuf[t] # <<>>
        /\ kbuf' = [kbuf EXCEPT ![t] = Tail(kbuf[t])]
    BY <1>5 DEF handleKeyEvent, clientVars
  <2>2. CASE t = s /\ Head(kbuf[t]).code = code /\ Sent(<<Head(kbuf[t])>>)
    <3>1. kbuf'[s] = Tail(kbuf[s]) /\ Where(s, code)' = Where(s, code)
      BY <2>1, <2>2 DEF Wires, DeviceSide, Where
    <3>2. Telling(kbuf'[s], code, Where(s, code))
      BY <1>0, <2>1, <2>2, <3>1, TailHeard
    <3>3. ASSUME NEW l \in Listeners, l \in connections', peer'[l] = "open"
          PROVE  Agrees(kbuf'[s], outbox'[l], Cached(l, code)', code, Where(s, code)')
      <4>1. /\ Agrees(kbuf[s], outbox[l], Cached(l, code), code, Where(s, code))
            /\ Cached(l, code)' = Cached(l, code)
        BY <1>5, <2>1, <3>3 DEF Listening, Cached
      <4>2. outbox'[l] = outbox[l] \o <<Head(kbuf[s])>>
        BY <1>0, <2>1, <2>2, <3>3 DEF Sent
      <4>3. PICK k, o, cached, x : /\ k = kbuf[s] /\ o = outbox[l] /\ cached = Cached(l, code)
                                   /\ x = Where(s, code)
        OBVIOUS
      <4>4. Agrees(Tail(k), o \o <<Head(k)>>, cached, code, x)
        BY <1>0, <2>1, <2>2, <4>1, <4>3, AgreesSent
      <4> QED BY <3>1, <4>1, <4>2, <4>3, <4>4
    <3> QED BY <3>1, <3>2, <3>3 DEF Listening
  <2>3. CASE /\ t # s \/ Head(kbuf[t]).code # code
             /\ \E es \in Seq(Event) : Apart(es, code) /\ Sent(es)
    <3>1. \/ kbuf'[s] = kbuf[s]
          \/ /\ kbuf[s] # <<>> /\ Head(kbuf[s]).code # code /\ kbuf'[s] = Tail(kbuf[s])
      BY <2>1, <2>3 DEF Wires, DeviceSide
    <3> QED BY <1>4, <1>5, <2>1, <2>3, <3>1
  <2> QED BY <1>5, <2>2, <2>3, HandlerSends DEF Wires
<1>6. ASSUME NEW i \in 0..1, TimerExpires(i), UNCHANGED caches
      PROVE  Listening(s, code)'
  <2>1. UNCHANGED <<connections, peer, held, kbuf>>
    BY <1>6 DEF TimerExpires, clientVars, deviceVars
  <2> QED BY <1>4, <1>6, <2>1, TimerSends DEF Wires
<1>7. CASE (HeadsetEvent \/ HeadsetWatchLost) /\ UNCHANGED caches
  <2>1. UNCHANGED <<clientVars, socketVars>>
    BY <1>7 DEF HeadsetEvent, HeadsetWatchLost
  <2>2. kbuf'[s] = kbuf[s] /\ held'[s] = held[s]
    <3>1. CASE HeadsetWatchLost
      BY <3>1 DEF HeadsetWatchLost, deviceVars
    <3>2. CASE HeadsetEvent
      <4>1. \/ UNCHANGED <<held, kbuf>>
            \/ /\ kbuf' = [kbuf EXCEPT ![BT] = <<>>]
               /\ \E down \in SUBSET KeysOf[BT] : held' = [held EXCEPT ![BT] = down]
        BY <3>2 DEF HeadsetEvent
      <4> QED BY <1>0, <4>1 DEF Wires, DeviceSide
    <3> QED BY <1>7, <3>1, <3>2
  <2> QED BY <1>7, <2>1, <2>2, ListeningSame DEF clientVars, socketVars
<1>8. CASE Restart
  <2>1. connections' = {} /\ kbuf'[s] = <<>>
    BY <1>8 DEF Restart
  <2> QED BY <2>1, NobodyListens
<1>9. CASE Environment
  BY <1>2, <1>3, <1>5, <1>6, <1>7, <1>8, <1>9 DEF Environment, Daemon
<1>10. ASSUME NEW c \in Clients,
              Connect(c) \/ CloseSocket(c) \/ DropSocket(c) \/ \E k \in Codes : SendQuery(c, k),
              \A l \in Listeners \ {c} : caches'[l] = caches[l]
       PROVE  (c \in Listeners /\ Connect(c)) \/ caches' = caches => Listening(s, code)'
  <2>1. /\ UNCHANGED <<connections, kbuf, held>>
        /\ \/ /\ peer[c] = "idle" /\ peer' = [peer EXCEPT ![c] = "open"] /\ outbox' = outbox
              /\ Connect(c)
           \/ peer' = [peer EXCEPT ![c] = "closed"] /\ outbox' = [outbox EXCEPT ![c] = <<>>]
           \/ peer' = [peer EXCEPT ![c] = "idle"] /\ outbox' = outbox
           \/ peer' = peer /\ outbox' = outbox /\ \E k \in Codes : SendQuery(c, k)
    BY <1>10 DEF Connect, CloseSocket, DropSocket, SendQuery, deviceVars, clientVars, socketVars
  <2>2. ASSUME (c \in Listeners /\ Connect(c)) \/ caches' = caches,
               NEW l \in Listeners, l \in connections', peer'[l] = "open"
        PROVE  /\ l \in connections /\ peer[l] = "open"
               /\ outbox'[l] = outbox[l] /\ caches'[l] = caches[l]
    <3>1. CASE l = c
      <4>1. peer' = peer /\ outbox' = outbox /\ ~Connect(c)
        BY <1>0, <2>1, <2>2, <3>1 DEF KeydInv, Counted, Connect
      <4> QED BY <2>1, <2>2, <4>1
    <3>2. CASE l # c
      BY <1>0, <1>10, <2>1, <2>2, <3>2 DEF KeydInv, Counted, Wires, ClientSide
    <3> QED BY <3>1, <3>2
  <2> QED BY <2>1, <2>2, ListeningSame
<1>11. ASSUME NEW l \in Listeners, NewQmKeys(l) \/ DeleteQmKeys(l)
       PROVE  Listening(s, code)'
  <2>1. \A k \in Listeners \ {l} : caches'[k] = caches[k]
    BY <1>11 DEF NewQmKeys, DeleteQmKeys, Caching
  <2> QED BY <1>0, <1>10, <1>11, <2>1 DEF NewQmKeys, DeleteQmKeys
<1>12. ASSUME NEW l \in Listeners, ListenerReads(l)
       PROVE  Listening(s, code)'
  <2>1. /\ outbox[l] # <<>> /\ outbox' = [outbox EXCEPT ![l] = Tail(outbox[l])]
        /\ caches' = [caches EXCEPT ![l] = readyRead(caches[l], Head(outbox[l]))]
        /\ UNCHANGED <<connections, peer, kbuf, held>>
    BY <1>12 DEF ListenerReads, ReadSocket, clientVars, deviceVars
  <2>2. Where(s, code)' = Where(s, code) /\ Where(s, code) \in {"up", "down"}
    BY <2>1 DEF Where
  <2>3. ASSUME NEW k \in Listeners, k \in connections', peer'[k] = "open"
        PROVE  Agrees(kbuf'[s], outbox'[k], Cached(k, code)', code, Where(s, code)')
    <3>1. Agrees(kbuf[s], outbox[k], Cached(k, code), code, Where(s, code))
      BY <2>1, <2>3 DEF Listening
    <3>2. CASE k # l
      <4>1. outbox'[k] = outbox[k] /\ Cached(k, code)' = Cached(k, code)
        BY <1>0, <2>1, <3>2 DEF Wires, ClientSide, Caching, Cached
      <4> QED BY <2>1, <2>2, <3>1, <4>1
    <3>3. CASE k = l
      <4>1. PICK e : e = Head(outbox[l])
        OBVIOUS
      <4>2. /\ e \in Event /\ outbox'[l] = Tail(outbox[l])
            /\ Cached(l, code)' = readyRead(caches[l], e).keyMap[KeyOfEvent(code)]
            /\ e.code = code \/ KeyOfEvent(e.code) # KeyOfEvent(code)
        <5>1. e = outbox[l][1] /\ 1 \in 1..Len(outbox[l]) /\ e \in Event
          BY <1>0, <2>1, <4>1, HeadTailProperties, EmptySeq, LenProperties
        <5>2. outbox'[l] = Tail(outbox[l])
          BY <1>0, <2>1 DEF Wires, ClientSide
        <5>3. caches'[l] = readyRead(caches[l], e)
          BY <2>1, <4>1 DEF Caching
        <5> QED BY <5>1, <5>2, <5>3 DEF Separate, Cached
      <4>3. \/ e.code # code /\ Cached(l, code)' = Cached(l, code)
            \/ e.code = code /\ e.value = 2 /\ Cached(l, code)' = Cached(l, code)
            \/ e.code = code /\ Cached(l, code)' = UpOrDown(e.value)
        <5>1. CASE e.code # code
          <6>1. caches[l] \in Cache /\ KeyOfEvent(code) \in Keys
            BY DEF Caching, Solitary
          <6> QED BY <4>2, <5>1, <6>1, ReadKept DEF Cached
        <5>2. CASE e.code = code
          <6>1. e = [code |-> code, value |-> e.value] /\ e.value \in 0..2
            BY <4>2, <5>2 DEF Event
          <6>2. /\ KeyOfEvent("KEY_CAMERA") = "Camera"
                /\ KeyOfEvent("KEY_CAMERA_FOCUS") = "Camera"
            BY DEF KeyOfEvent, codeToKey, KeyOfCode
          <6>3. code \in (SupportedKeyCodes \cup {"SW_KEYPAD_SLIDE"})
                            \ {"KEY_CAMERA", "KEY_CAMERA_FOCUS"}
            BY <6>2 DEF Solitary, isKeySupported
          <6>4. PICK v \in 0..2 : v = e.value
            BY <6>1
          <6>5. caches[l] \in Cache /\ KeyOfEvent(code) \in Keys
            BY DEF Caching, Solitary
          <6>6. \/ v = 2 /\ readyRead(caches[l], e).keyMap[KeyOfEvent(code)] = Cached(l, code)
                \/ readyRead(caches[l], e).keyMap[KeyOfEvent(code)] = UpOrDown(v)
            BY <6>1, <6>3, <6>4, <6>5, OtherRead DEF Cached
          <6> QED BY <4>2, <5>2, <6>4, <6>6
        <5> QED BY <5>1, <5>2
      <4>4. PICK j, o, cached, after, x :
               /\ j = kbuf[s] /\ o = outbox[l] /\ cached = Cached(l, code)
               /\ after = Cached(l, code)' /\ x = Where(s, code)
        OBVIOUS
      <4>5. Agrees(j, Tail(o), after, code, x)
        BY <1>0, <2>1, <2>2, <3>1, <3>3, <4>1, <4>3, <4>4, AgreesRead
      <4> QED BY <2>1, <2>2, <3>3, <4>2, <4>4, <4>5
    <3> QED BY <3>2, <3>3
  <2>4. Telling(kbuf'[s], code, Where(s, code)')
    BY <1>0, <2>1, <2>2
  <2> QED BY <2>3, <2>4 DEF Listening
<1>13. ASSUME NEW q \in Queriers, Querier(q)
       PROVE  Listening(s, code)'
  <2>1. caches' = caches
    BY <1>13 DEF Querier, Ask, WriteQuery, ReadResponse, GiveUp
  <2>2. Connect(q) \/ CloseSocket(q) \/ DropSocket(q) \/ \E k \in Codes : SendQuery(q, k)
    <3>1. CASE WriteQuery(q)
      <4>1. asked[q] \in Codes /\ SendQuery(q, asked[q])
        BY <3>1, KeydAssumption DEF WriteQuery, Wires, Asking, AllCodes
      <4> QED BY <4>1
    <3>2. CASE ~WriteQuery(q)
      BY <1>13, <3>2 DEF Querier, Ask, ReadResponse, GiveUp
    <3> QED BY <3>1, <3>2
  <2> QED BY <1>0, <1>10, <2>1, <2>2
<1>14. CASE UNCHANGED sysVars
  BY <1>14, ListeningSame DEF sysVars, vars, clientVars, deviceVars, socketVars
<1> QED BY <1>9, <1>11, <1>12, <1>13, <1>14 DEF SysNext, Listener

\* What a listener will have cached, from what is unread on both ways.
LEMMA ExpectedAgrees ==
    ASSUME NEW s \in Sources, NEW code, NEW l \in Listeners, NEW x \in {"up", "down"},
           kbuf[s] \in Seq(Event), outbox[l] \in Seq(Event), Telling(kbuf[s], code, x),
           Agrees(kbuf[s], outbox[l], Cached(l, code), code, x)
    PROVE  Expected(l, s, code) \subseteq {x}
<1>0. PICK o \in Seq(Event), k \in Seq(Event) : o = outbox[l] /\ k = kbuf[s]
  OBVIOUS
<1> DEFINE coming == o \o k
           about == {i \in DOMAIN coming : coming[i].code = code}
           last == {i \in about : \A j \in about : j <= i}
<1>1. /\ coming \in Seq(Event)
      /\ Len(o) \in Nat /\ Len(k) \in Nat /\ Len(coming) = Len(o) + Len(k)
      /\ \A i \in 1..(Len(o) + Len(k)) :
            coming[i] = IF i <= Len(o) THEN o[i] ELSE k[i - Len(o)]
  <2>1. Len(o) \in Nat /\ Len(k) \in Nat
    BY LenProperties
  <2> QED BY <2>1, ConcatProperties
<1>2. Expected(l, s, code) = IF about = {} THEN CASE Cached(l, code) = NotCached -> {}
                                                  [] Cached(l, code) = "KeyUp" -> {"up"}
                                                  [] OTHER -> {"down"}
                             ELSE {Position(coming[i].value) : i \in last}
  BY <1>0 DEF Expected, Cached
<1>3. DOMAIN coming = 1..Len(coming)
  BY <1>1, LenProperties
<1> HIDE DEF coming
<1>4. /\ \A i \in 1..Len(o) : i \in 1..Len(coming) /\ coming[i] = o[i]
      /\ \A i \in 1..Len(k) : \E m \in 1..Len(coming) : m = i + Len(o) /\ coming[m] = k[i]
      /\ \A i \in 1..Len(coming) : i > Len(o) =>
            i - Len(o) \in 1..Len(k) /\ coming[i] = k[i - Len(o)]
  <2>1. ASSUME NEW i \in 1..Len(o) PROVE i \in 1..Len(coming) /\ coming[i] = o[i]
    BY <1>1
  <2>2. ASSUME NEW i \in 1..Len(k)
        PROVE  \E m \in 1..Len(coming) : m = i + Len(o) /\ coming[m] = k[i]
    <3>1. PICK m \in 1..(Len(o) + Len(k)) : m = i + Len(o)
      BY <1>1
    <3>2. m - Len(o) = i /\ ~(m <= Len(o)) /\ m \in 1..Len(coming)
      BY <1>1, <3>1
    <3>3. coming[m] = k[m - Len(o)]
      BY <1>1, <3>2
    <3> QED BY <3>1, <3>2, <3>3
  <2>3. ASSUME NEW i \in 1..Len(coming), i > Len(o)
        PROVE  i - Len(o) \in 1..Len(k) /\ coming[i] = k[i - Len(o)]
    BY <1>1, <2>3
  <2> QED BY <2>1, <2>2, <2>3
<1>5. CASE about = {}
  <2>1. \A i \in 1..Len(coming) : coming[i].code # code
    BY <1>3, <1>5
  <2>2. ASSUME NEW i \in 1..Len(k) PROVE ~Edge(k[i], code)
    <3>1. PICK m \in 1..Len(coming) : coming[m] = k[i]
      BY <1>4
    <3> QED BY <2>1, <3>1 DEF Edge
  <2>3. ASSUME NEW i \in 1..Len(o) PROVE ~Edge(o[i], code)
    BY <1>4, <2>1 DEF Edge
  <2>4. Cached(l, code) \in {NotCached, StateAt(x)}
    BY <1>0, <2>2, <2>3 DEF Agrees, Quiet
  <2> QED BY <1>2, <1>5, <2>4 DEF StateAt, NotCached
<1>6. ASSUME NEW i \in last PROVE Position(coming[i].value) = x
  <2>1. /\ i \in 1..Len(coming) /\ coming[i].code = code
        /\ \A j \in 1..Len(coming) : j > i => coming[j].code # code
    <3>1. i \in about /\ \A j \in about : j <= i
      BY <1>6
    <3>2. i \in 1..Len(coming) /\ coming[i].code = code
      BY <1>3, <3>1
    <3>3. ASSUME NEW j \in 1..Len(coming), j > i PROVE coming[j].code # code
      <4>1. ASSUME j \in about PROVE FALSE
        <5>1. j <= i
          BY <3>1, <4>1
        <5>2. i \in Nat /\ j \in Nat
          BY <1>1, <3>2
        <5> QED BY <3>3, <5>1, <5>2
      <4> QED BY <1>3, <4>1
    <3> QED BY <3>2, <3>3
  <2>2. CASE i \in 1..Len(o)
    <3>1. coming[i] = o[i] /\ \A j \in 1..Len(o) : j > i => ~Edge(o[j], code)
      BY <1>4, <2>1, <2>2 DEF Edge
    <3>2. Quiet(k, code)
      <4>1. ASSUME NEW j \in 1..Len(k) PROVE ~Edge(k[j], code)
        <5>1. PICK m \in 1..Len(coming) : m = j + Len(o) /\ coming[m] = k[j]
          BY <1>4
        <5>2. m > i
          BY <1>1, <2>2, <5>1
        <5> QED BY <2>1, <5>1, <5>2 DEF Edge
      <4> QED BY <4>1 DEF Quiet
    <3>3. Telling(o, code, x)
      BY <1>0, <3>2 DEF Agrees
    <3> QED BY <2>1, <2>2, <3>1, <3>3 DEF Telling
  <2>3. CASE i > Len(o)
    <3>1. /\ i - Len(o) \in 1..Len(k) /\ k[i - Len(o)] = coming[i]
          /\ \A j \in 1..Len(k) : j > i - Len(o) => ~Edge(k[j], code)
      <4>1. ASSUME NEW j \in 1..Len(k), j > i - Len(o) PROVE ~Edge(k[j], code)
        <5>1. PICK m \in 1..Len(coming) : m = j + Len(o) /\ coming[m] = k[j]
          BY <1>4
        <5>2. m > i
          BY <1>1, <2>1, <4>1, <5>1
        <5> QED BY <2>1, <5>1, <5>2 DEF Edge
      <4> QED BY <1>4, <2>1, <2>3, <4>1
    <3> QED BY <1>0, <2>1, <3>1 DEF Telling
  <2> QED BY <1>1, <2>1, <2>2, <2>3
<1>7. CASE about # {}
  BY <1>2, <1>6, <1>7
<1> QED BY <1>5, <1>7

\* The inductive invariant of the key system.
SysInv ==
    /\ KeydInv /\ Wires /\ Caching
    /\ \A s \in Sources, code \in Codes :
          Solitary(s, code) => Separate(code) /\ Listening(s, code)

LEMMA SysSpecInv == SysSpec => []SysInv
<1>1. SysInit => SysInv
  <2> SUFFICES ASSUME SysInit PROVE SysInv
    OBVIOUS
  <2>0. Listeners \subseteq Clients /\ Len(<<>>) = 0 /\ Init /\ KeydInv /\ Wires
    BY KeySystemAssumption, SysInitially, EmptySeq
  <2>1. Caching
    <3>1. EmptyCache \in Cache
      BY DEF EmptyCache, Cache
    <3>2. caches = [l \in Listeners |-> EmptyCache] /\ pending = {}
          /\ queries = [c \in Clients |-> None]
      BY DEF SysInit, Init
    <3> QED BY <2>0, <3>1, <3>2 DEF Caching
  <2>2. \A code \in Codes : Separate(code)
    BY <2>0 DEF Init, Separate
  <2>3. \A s \in Sources, code \in Codes : Listening(s, code)
    BY <2>0, EmptyHeard DEF Init, Listening
  <2> QED BY <2>0, <2>1, <2>2, <2>3 DEF SysInv
<1>2. SysInv /\ [SysNext]_sysVars => SysInv'
  <2> SUFFICES ASSUME SysInv, [SysNext]_sysVars PROVE SysInv'
    OBVIOUS
  <2>1. KeydInv' /\ Wires' /\ Caching'
    BY SysKept, CachingKept DEF SysInv
  <2>2. ASSUME NEW s \in Sources, NEW code \in Codes, Solitary(s, code)
        PROVE  Separate(code)' /\ Listening(s, code)'
    BY <2>2, SeparateKept, ListeningKept DEF SysInv
  <2> QED BY <2>1, <2>2 DEF SysInv, Solitary
<1> QED BY <1>1, <1>2, PTL DEF SysSpec

\* A key that is alone on its device and in the table of keys is followed: once
\* a connected listener has read what is on its way it has cached what the key
\* physically is, whatever other clients, devices and keys do meanwhile.  Only
\* the key itself has to be alone: other devices may be unplugged, other keys
\* translated or shared, and the daemon may be restarted.
SolitaryFollowed ==
    \A s \in Sources, code \in Codes, l \in Listeners \cap connections :
        (Solitary(s, code) /\ peer[l] = "open") => Expected(l, s, code) \subseteq Levels(code)

THEOREM SolitaryKeysFollowed == SysSpec => []SolitaryFollowed
<1>1. SysInv => SolitaryFollowed
  <2> SUFFICES ASSUME SysInv, NEW s \in Sources, NEW code \in Codes,
                      NEW l \in Listeners \cap connections, Solitary(s, code), peer[l] = "open"
               PROVE  Expected(l, s, code) \subseteq Levels(code)
    BY DEF SolitaryFollowed
  <2>1. l \in Clients /\ kbuf[s] \in Seq(Event) /\ outbox[l] \in Seq(Event)
    BY KeySystemAssumption DEF SysInv, Wires, DeviceSide, ClientSide
  <2>2. IsDown(code) <=> code \in held[s]
    BY DEF IsDown, SysInv, Wires, DeviceSide, Solitary
  <2>3. Listening(s, code)
    BY DEF SysInv
  <2>4. PICK x \in {"up", "down"} : x = Where(s, code)
    BY DEF Where
  <2>5. Expected(l, s, code) \subseteq {x}
    BY <2>1, <2>3, <2>4, ExpectedAgrees DEF Listening
  <2> QED BY <2>2, <2>4, <2>5 DEF Levels, Where
<1> QED BY <1>1, SysSpecInv, PTL

\* The caches follow the keys: where every key that is not translated is alone
\* with its device and its place in the table of keys, all of them are followed.
\* The runs that find a key stuck or answered for another show what happens to
\* keys that are not.
THEOREM CachesFollow ==
    ASSUME \A s \in Devices : \A code \in KeysOf[s] :
              TranslatorOf(s, code) = {} => Solitary(s, code)
    PROVE  SysSpec => []CachesFollowKeys
<1>1. \A s \in Devices : \A code \in KeysOf[s] : s \in Sources /\ code \in Codes
  BY KeydAssumption DEF Sources
<1>2. SolitaryFollowed => CachesFollowKeys
  BY <1>1 DEF SolitaryFollowed, CachesFollowKeys
<1> QED BY <1>2, SolitaryKeysFollowed, PTL

-----------------------------------------------------------------------------
\* The variables of the queriers, by type.
LEMMA SysTypeKept ==
    ASSUME SysTypeOK, KeydInv, Wires, Caching, [SysNext]_sysVars
    PROVE  SysTypeOK'
<1>1. caches' \in [Listeners -> Cache] /\ asked' \in [Queriers -> Codes \cup {None}]
  <2>1. Caching' /\ Asking'
    BY SysKept, CachingKept DEF Wires
  <2>2. AllCodes \subseteq Codes
    BY KeydAssumption DEF AllCodes
  <2> QED BY <2>1, <2>2 DEF Caching, Asking
<1> SUFFICES /\ sent' \in [Queriers -> BOOLEAN]
             /\ answers' \in [Queriers -> [code : Codes, value : 0..3, matched : BOOLEAN]]
             /\ seen' \in [Queriers -> SUBSET {"up", "down"}]
             /\ unread' \in [Queriers -> SUBSET {"up", "down"}]
  BY <1>1 DEF SysTypeOK
<1>2. \A code : Levels(code) \in SUBSET {"up", "down"}
  BY DEF Levels
<1>w. \A code : Waiting(code) \in SUBSET {"up", "down"}
  BY DEF Waiting, Position
<1>3. CASE UNCHANGED <<sent, answers, seen, unread>>
  BY <1>3 DEF SysTypeOK
<1>4. CASE Environment
  <2>1. sent' = sent /\ answers' = answers /\ unread' = unread /\ Watch
    BY <1>4 DEF Environment
  <2>2. \A code : Levels(code)' \in SUBSET {"up", "down"}
    BY DEF Levels
  <2>3. seen' \in [Queriers -> SUBSET {"up", "down"}]
    <3>1. ASSUME NEW q \in Queriers
          PROVE  (IF asked[q] = None THEN seen[q] ELSE seen[q] \cup Levels(asked[q])')
                    \in SUBSET {"up", "down"}
      BY DEF SysTypeOK, Levels
    <3> QED BY <2>1, <3>1 DEF Watch
  <2> QED BY <2>1, <2>3 DEF SysTypeOK
<1>5. ASSUME NEW q \in Queriers, Querier(q)
      PROVE  /\ sent' \in [Queriers -> BOOLEAN]
             /\ answers' \in [Queriers -> [code : Codes, value : 0..3, matched : BOOLEAN]]
             /\ seen' \in [Queriers -> SUBSET {"up", "down"}]
             /\ unread' \in [Queriers -> SUBSET {"up", "down"}]
  <2>1. ASSUME NEW code \in AllCodes, Ask(q, code)
        PROVE  /\ answers' = answers /\ sent' \in [Queriers -> BOOLEAN]
               /\ seen' \in [Queriers -> SUBSET {"up", "down"}]
               /\ unread' \in [Queriers -> SUBSET {"up", "down"}]
    <3>1. PICK x \in SUBSET {"up", "down"} : seen' = [seen EXCEPT ![q] = x]
      BY <1>2, <2>1 DEF Ask
    <3>2. PICK y \in SUBSET {"up", "down"} : unread' = [unread EXCEPT ![q] = y]
      BY <1>w, <2>1 DEF Ask
    <3> QED BY <2>1, <3>1, <3>2 DEF Ask, SysTypeOK
  <2>2. CASE WriteQuery(q)
    BY <2>2 DEF WriteQuery, SysTypeOK
  <2>3. CASE ReadResponse(q) \/ GiveUp(q)
    <3>1. asked[q] \in Codes
      BY <2>3 DEF ReadResponse, GiveUp, SysTypeOK
    <3>2. PICK a \in [code : Codes, value : 0..3, matched : BOOLEAN] :
             answers' = [answers EXCEPT ![q] = a]
      <4>1. CASE GiveUp(q)
        <5>1. answers' = [answers EXCEPT ![q] = [code |-> asked[q], value |-> 3, matched |-> TRUE]]
          BY <4>1 DEF GiveUp, TimedOut
        <5>2. [code |-> asked[q], value |-> 3, matched |-> TRUE]
                 \in [code : Codes, value : 0..3, matched : BOOLEAN]
          BY <3>1
        <5> QED BY <5>1, <5>2
      <4>2. CASE ReadResponse(q)
        <5>1. PICK n \in 1..Len(outbox[q]) :
                 answers' = [answers EXCEPT ![q] = Response(asked[q], outbox[q][n])]
          BY <4>2 DEF ReadResponse
        <5>2. outbox[q][n] \in Event
          <6>1. outbox[q] \in Seq(Event)
            BY KeySystemAssumption DEF Wires, ClientSide
          <6> QED BY <6>1, ElementOfSeq
        <5>3. Response(asked[q], outbox[q][n])
                 \in [code : Codes, value : 0..3, matched : BOOLEAN]
          BY <3>1, <5>2 DEF Response, Event
        <5> QED BY <5>1, <5>3
      <4> QED BY <2>3, <4>1, <4>2
    <3>3. sent' = sent /\ seen' = seen /\ unread' = unread
      BY <2>3 DEF ReadResponse, GiveUp
    <3> QED BY <3>2, <3>3 DEF SysTypeOK
  <2> QED BY <1>5, <2>1, <2>2, <2>3 DEF Querier, AllCodes, SysTypeOK
<1>6. CASE \E l \in Listeners : Listener(l)
  BY <1>3, <1>6 DEF Listener, NewQmKeys, DeleteQmKeys, ListenerReads, queryVars
<1>7. CASE UNCHANGED sysVars
  BY <1>3, <1>7 DEF sysVars
<1> QED BY <1>4, <1>5, <1>6, <1>7 DEF SysNext

LEMMA SysTypeInv == SysSpec => [](SysInv /\ SysTypeOK)
<1>1. SysInit => SysTypeOK
  <2> SUFFICES ASSUME SysInit PROVE SysTypeOK
    OBVIOUS
  <2>1. EmptyCache \in Cache /\ OtherCode \in Codes
    BY DEF EmptyCache, Cache, Codes
  <2>2. NoAnswer \in [code : Codes, value : 0..3, matched : BOOLEAN]
    BY <2>1 DEF NoAnswer
  <2> QED BY <2>1, <2>2 DEF SysInit, SysTypeOK
<1>2. SysInv /\ SysTypeOK /\ [SysNext]_sysVars => SysTypeOK'
  BY SysTypeKept DEF SysInv
<1> QED BY <1>1, <1>2, SysSpecInv, PTL DEF SysSpec

-----------------------------------------------------------------------------
\* Whether the events of a code all say one of the given positions.
Shown(events, code, levels) ==
    \A i \in 1..Len(events) : events[i].code = code => Position(events[i].value) \in levels

LEMMA ShownMore ==
    ASSUME NEW q \in Seq(Event), NEW code, NEW levels, NEW more, levels \subseteq more,
           Shown(q, code, levels)
    PROVE  /\ Shown(q, code, more) /\ Shown(<<>>, code, more)
           /\ q # <<>> => Shown(Tail(q), code, more)
           /\ q # <<>> /\ Head(q).code = code => Position(Head(q).value) \in more
           /\ \A e \in Event : (e.code = code => Position(e.value) \in more)
                 => Shown(Append(q, e), code, more)
           /\ \A es \in Seq(Event) : Shown(es, code, more) => Shown(q \o es, code, more)
<1>1. Shown(q, code, more) /\ Len(q) \in Nat
  BY LenProperties DEF Shown
<1>2. Shown(<<>>, code, more)
  <2>1. Len(<<>>) = 0
    BY EmptySeq
  <2> QED BY <2>1 DEF Shown
<1>3. ASSUME q # <<>>
      PROVE  /\ Shown(Tail(q), code, more)
             /\ Head(q).code = code => Position(Head(q).value) \in more
  <2>1. /\ Head(q) = q[1] /\ Len(q) > 0 /\ Len(Tail(q)) = Len(q) - 1
        /\ \A i \in 1..Len(Tail(q)) : Tail(q)[i] = q[i + 1]
    BY <1>1, <1>3, HeadTailProperties, EmptySeq, LenProperties
  <2>2. ASSUME NEW i \in 1..Len(Tail(q)), Tail(q)[i].code = code
        PROVE  Position(Tail(q)[i].value) \in more
    <3>1. PICK j \in 1..Len(q) : j = i + 1
      BY <1>1, <2>1
    <3> QED BY <1>1, <2>1, <2>2, <3>1 DEF Shown
  <2>3. 1 \in 1..Len(q)
    BY <1>1, <2>1
  <2> QED BY <1>1, <2>1, <2>2, <2>3 DEF Shown
<1>4. ASSUME NEW e \in Event, e.code = code => Position(e.value) \in more
      PROVE  Shown(Append(q, e), code, more)
  <2>1. /\ Len(Append(q, e)) = Len(q) + 1 /\ Append(q, e)[Len(q) + 1] = e
        /\ \A i \in 1..Len(q) : Append(q, e)[i] = q[i]
    BY AppendProperties
  <2>2. ASSUME NEW i \in 1..Len(Append(q, e)), Append(q, e)[i].code = code
        PROVE  Position(Append(q, e)[i].value) \in more
    <3>1. i \in 1..Len(q) \/ i = Len(q) + 1
      BY <1>1, <2>1
    <3> QED BY <1>1, <1>4, <2>1, <2>2, <3>1 DEF Shown
  <2> QED BY <2>2 DEF Shown
<1>5. ASSUME NEW es \in Seq(Event), Shown(es, code, more)
      PROVE  Shown(q \o es, code, more)
  <2>1. Len(es) \in Nat
    BY LenProperties
  <2>2. /\ Len(q \o es) = Len(q) + Len(es)
        /\ \A i \in 1..(Len(q) + Len(es)) :
              (q \o es)[i] = IF i <= Len(q) THEN q[i] ELSE es[i - Len(q)]
    BY ConcatProperties
  <2>3. ASSUME NEW i \in 1..Len(q \o es), (q \o es)[i].code = code
        PROVE  Position((q \o es)[i].value) \in more
    <3>1. CASE i <= Len(q)
      BY <1>1, <2>1, <2>2, <2>3, <3>1 DEF Shown
    <3>2. CASE ~(i <= Len(q))
      <4>1. PICK j \in 1..Len(es) : j = i - Len(q)
        BY <1>1, <2>1, <2>2, <3>2
      <4> QED BY <1>1, <1>5, <2>1, <2>2, <2>3, <3>2, <4>1 DEF Shown
    <3> QED BY <3>1, <3>2
  <2> QED BY <2>3 DEF Shown
<1> QED BY <1>1, <1>2, <1>3, <1>4, <1>5

\* A system whose devices all stay and that has no headset: the bitmap of every
\* open descriptor can be read, so that the answer to a query is not whatever was
\* on the stack.
Steady == Unpluggable = {} /\ Nodes = {}

NoHeadset == held[BT] = {} /\ kbuf[BT] = <<>>

\* The positions a call may answer with: those the key has had since it began and
\* those in events that were unread then.
Window(q) == seen[q] \cup unread[q]

\* What a call that asks for a code has on its way shows such a position.
Watching(q, code) ==
    /\ Levels(code) \subseteq Window(q)
    /\ queries[q] \in {None, code}
    /\ Shown(outbox[q], code, Window(q))
    /\ \A s \in Sources : Shown(kbuf[s], code, Window(q))

LEMMA NoHeadsetHere ==
    ASSUME Steady, DeviceInv
    PROVE  /\ btFile = None /\ inotify = <<>> /\ ~Live(BT)
           /\ Device = {} /\ ~BtKernel /\ ~HeadsetEvent
<1>1. Device = {} /\ InotifyEvent = {}
  BY DEF Steady, Device, InotifyEvent
<1>2. btFile = None /\ inotify \in Seq({})
  BY <1>1 DEF DeviceInv, BtTypeOK
<1>3. inotify = <<>>
  <2>1. inotify # <<>> => Head(inotify) \in {}
    BY <1>2, HeadTailProperties
  <2> QED BY <2>1
<1>4. ~BtKernel
  BY DEF Steady, BtKernel
<1>5. ~HeadsetEvent
  BY <1>3 DEF HeadsetEvent, detectBT
<1> QED BY <1>1, <1>2, <1>3, <1>4, <1>5 DEF Live

LEMMA NoHeadsetKept ==
    ASSUME Steady, KeydInv, Wires, NoHeadset, [SysNext]_sysVars
    PROVE  NoHeadset'
<1>1. [Next]_vars /\ btFile = None /\ ~Live(BT) /\ ~BtKernel /\ ~HeadsetEvent
  BY SysKept, NoHeadsetHere DEF KeydInv
<1>2. BT \in Sources /\ BT \notin Devices /\ held \in [Sources -> SUBSET Codes]
      /\ kbuf \in [Sources -> Seq(Event)]
  BY KeydAssumption DEF Sources, BT, ECI, Wires, DeviceSide
<1>3. CASE UNCHANGED <<held, kbuf>>
  BY <1>3 DEF NoHeadset
<1>4. ASSUME NEW s \in Sources, NEW code \in KeysOf[s],
             PressKey(s, code) \/ ReleaseKey(s, code) \/ RepeatKey(s, code)
      PROVE  NoHeadset'
  <2>1. s # BT
    BY <1>1, <1>4 DEF PressKey, ReleaseKey, RepeatKey, Exists
  <2>2. PICK v \in 0..2 : KernelEvent(s, code, v)
    BY <1>4 DEF PressKey, ReleaseKey, RepeatKey
  <2>3. kbuf'[BT] = kbuf[BT]
    BY <1>2, <2>1, <2>2, KernelEventKept DEF Wires
  <2>4. held'[BT] = held[BT]
    BY <1>2, <1>4, <2>1 DEF PressKey, ReleaseKey, RepeatKey
  <2> QED BY <2>3, <2>4 DEF NoHeadset
<1>5. CASE Kernel
  <2>1. ~HeadsetNodes /\ \A d \in Devices : ~UnplugDevice(d)
    BY <1>1 DEF HeadsetNodes, UnplugDevice, Steady
  <2> QED BY <1>3, <1>4, <1>5, <2>1 DEF Kernel, PlugDevice
<1>6. CASE Daemon
  <2>1. ASSUME NEW c \in Clients, disconnected(c) PROVE NoHeadset'
    <3>1. held' = held /\ (kbuf' = kbuf \/ kbuf' = [s \in Sources |-> IF s = BT THEN kbuf[s] ELSE <<>>])
      BY <2>1 DEF disconnected, closeHandles
    <3> QED BY <1>2, <3>1 DEF NoHeadset
  <2>2. CASE Restart
    <3>1. held' = [held EXCEPT ![BT] = {}] /\ kbuf' = [s \in Sources |-> <<>>]
      BY <2>2 DEF Restart
    <3> QED BY <1>2, <3>1 DEF NoHeadset
  <2>3. ASSUME NEW s \in Sources, handleKeyEvent(s) PROVE NoHeadset'
    <3>1. held' = held /\ kbuf' = [kbuf EXCEPT ![s] = Tail(@)] /\ kbuf[s] # <<>>
      BY <2>3 DEF handleKeyEvent
    <3> QED BY <1>2, <3>1 DEF NoHeadset
  <2>4. ASSUME NEW c \in Clients, newConnection(c) \/ clientSocketReadyRead(c)
        PROVE  NoHeadset'
    BY <1>3, <2>4 DEF newConnection, clientSocketReadyRead, deviceVars
  <2>5. CASE (\E i \in 0..1 : TimerExpires(i)) \/ HeadsetWatchLost
    BY <1>3, <2>5 DEF TimerExpires, HeadsetWatchLost, deviceVars
  <2> QED BY <1>1, <1>6, <2>1, <2>2, <2>3, <2>4, <2>5 DEF Daemon, DaemonFor
<1>7. ASSUME NEW c \in Clients, ClientStep(c) PROVE NoHeadset'
  BY <1>3, <1>7 DEF ClientStep, Connect, ReadSocket, CloseSocket, DropSocket, SendQuery, deviceVars
<1> QED BY <1>1, <1>3, <1>5, <1>6, <1>7 DEF Next, vars, deviceVars

\* What the daemon answers is where the key is: with a client the devices are
\* open, and the bitmap of each can be read.
LEMMA BitsSay ==
    ASSUME Steady, KeydInv, Wires, NoHeadset, connections # {}, NEW code, Plain(code),
           NEW v \in KeyBits(code)
    PROVE  v \in 0..1 /\ Position(v) \in Levels(code)
<1>1. \A t \in Sources : t # BT => Opened(t) /\ Live(t)
  <2>1. \A d \in Devices : files[d] = "open"
    BY DEF Wires, Fed, Steady
  <2> QED BY <2>1 DEF Sources, Opened, Live
<1>2. ~Opened(BT)
  BY NoHeadsetHere DEF Opened, KeydInv
<1>3. (\E t \in {s \in Sources : Opened(s)} : Live(t) /\ code \in held[t]) <=> IsDown(code)
  BY <1>1, <1>2 DEF IsDown, NoHeadset
<1>4. \A t \in {s \in Sources : Opened(s)} : Live(t)
  BY <1>1, <1>2
<1>5. v = IF IsDown(code) THEN 1 ELSE 0
  BY <1>3, <1>4 DEF KeyBits, BitOf, Plain
<1> QED BY <1>5 DEF Position, Levels

\* What the daemon, the kernel and the user do while a call lasts.
LEMMA WatchingKept ==
    ASSUME Steady, KeydInv, Wires, NoHeadset, SysTypeOK,
           NEW q \in Queriers, NEW code \in Codes, asked[q] = code, Plain(code),
           Watching(q, code), Environment
    PROVE  Watching(q, code)'
<1>0. /\ q \in Clients /\ asked' = asked /\ code # None /\ Watch
      /\ unread' = unread
      /\ held \in [Sources -> SUBSET Codes] /\ kbuf \in [Sources -> Seq(Event)]
      /\ outbox \in [Clients -> Seq(Event)] /\ queries \in [Clients -> Codes \cup {None}]
  BY KeySystemAssumption, KeydAssumption DEF Environment, Wires, DeviceSide, ClientSide
<1>1. Window(q)' = Window(q) \cup Levels(code)'
  <2>1. seen'[q] = seen[q] \cup Levels(asked[q])' /\ unread' = unread
    BY <1>0 DEF Watch
  <2>2. Levels(asked[q])' = Levels(code)'
    BY <1>0 DEF Levels, IsDown
  <2> QED BY <2>1, <2>2 DEF Window
<1>2. Window(q) \subseteq Window(q)' /\ Levels(code) \subseteq Window(q)' /\ Levels(code)' \subseteq Window(q)'
  BY <1>1 DEF Watching
<1>a. SUFFICES /\ queries'[q] \in {None, code}
               /\ Shown(outbox'[q], code, Window(q)')
               /\ \A s \in Sources : Shown(kbuf'[s], code, Window(q)')
  BY <1>2 DEF Watching
<1>4. Shown(<<>>, code, Window(q)')
  <2>1. Len(<<>>) = 0
    BY EmptySeq
  <2> QED BY <2>1 DEF Shown
<1>5. /\ Shown(outbox[q], code, Window(q)')
      /\ \A s \in Sources : Shown(kbuf[s], code, Window(q)')
  BY <1>0, <1>2, ShownMore DEF Watching
<1>6. CASE /\ queries'[q] \in {None, queries[q]}
           /\ outbox'[q] \in {<<>>, outbox[q]}
           /\ \A s \in Sources : kbuf'[s] \in {<<>>, kbuf[s]}
  BY <1>4, <1>5, <1>6 DEF Watching
<1>7. ASSUME NEW t \in Sources, NEW c \in KeysOf[t],
             PressKey(t, c) \/ ReleaseKey(t, c) \/ RepeatKey(t, c), NEW s \in Sources
      PROVE  Shown(kbuf'[s], code, Window(q)')
  <2>1. PICK v \in 0..2 :
           /\ KernelEvent(t, c, v)
           /\ c = code => Position(v) \in Levels(code)'
    <3>1. CASE PressKey(t, c)
      <4>1. held'[t] = held[t] \cup {c} /\ KernelEvent(t, c, 1)
        BY <1>0, <3>1 DEF PressKey
      <4>2. c = code => Position(1) \in Levels(code)'
        BY <4>1 DEF Levels, IsDown, Position
      <4> QED BY <4>1, <4>2
    <3>2. CASE ReleaseKey(t, c)
      <4>1. held' = [held EXCEPT ![t] = held[t] \ {c}] /\ KernelEvent(t, c, 0)
        BY <3>2 DEF ReleaseKey
      <4>2. c = code => \A u \in Sources : code \notin held'[u]
        <5>1. SUFFICES ASSUME c = code, NEW u \in Sources PROVE code \notin held'[u]
          OBVIOUS
        <5>2. CASE u = t
          BY <1>0, <4>1, <5>1, <5>2
        <5>3. CASE u # t
          <6>1. code \notin held[u]
            BY <5>1, <5>3 DEF Plain, Wires, DeviceSide
          <6> QED BY <1>0, <4>1, <5>3, <6>1
        <5> QED BY <5>2, <5>3
      <4>3. c = code => Position(0) \in Levels(code)'
        BY <4>2 DEF Levels, IsDown, Position
      <4> QED BY <4>1, <4>3
    <3>3. CASE RepeatKey(t, c)
      <4>1. held' = held /\ c \in held[t] /\ KernelEvent(t, c, 2)
        BY <3>3 DEF RepeatKey
      <4>2. c = code => Position(2) \in Levels(code)'
        BY <4>1 DEF Levels, IsDown, Position
      <4> QED BY <4>1, <4>2
    <3> QED BY <1>7, <3>1, <3>2, <3>3
  <2>2. PICK e \in Event : e = [code |-> c, value |-> v]
    BY KeydAssumption DEF Event
  <2>3. e.code = code => Position(e.value) \in Window(q)'
    BY <1>2, <2>1, <2>2
  <2>4. kbuf'[s] = kbuf[s] \/ kbuf'[s] = Append(kbuf[s], e)
    BY <2>1, <2>2, KernelEventKept DEF Wires
  <2>5. PICK k, levels : /\ k = kbuf[s] /\ k \in Seq(Event)
                          /\ levels = Window(q)' /\ Shown(k, code, levels)
    BY <1>0, <1>5, <1>7
  <2>6. e.code = code => Position(e.value) \in levels
    BY <2>3, <2>5
  <2>7. Shown(Append(k, e), code, levels)
    BY <2>5, <2>6, ShownMore
  <2> QED BY <2>4, <2>5, <2>7
<1>8. CASE Kernel
  <2>1. ASSUME NEW t \in Sources, NEW c \in KeysOf[t],
               PressKey(t, c) \/ ReleaseKey(t, c) \/ RepeatKey(t, c)
        PROVE  UNCHANGED <<outbox, queries>>
    BY <2>1 DEF PressKey, ReleaseKey, RepeatKey, socketVars
  <2>2. CASE \E t \in Sources : \E c \in KeysOf[t] :
               PressKey(t, c) \/ ReleaseKey(t, c) \/ RepeatKey(t, c)
    <3>1. UNCHANGED <<outbox, queries>>
      BY <2>1, <2>2
    <3>2. \A s \in Sources : Shown(kbuf'[s], code, Window(q)')
      BY <1>7, <2>2
    <3> QED BY <1>5, <3>1, <3>2 DEF Watching
  <2>3. ~HeadsetNodes /\ \A d \in Devices : ~UnplugDevice(d)
    BY NoHeadsetHere DEF HeadsetNodes, UnplugDevice, Steady, KeydInv
  <2>4. ASSUME NEW d \in Devices, PlugDevice(d)
        PROVE  UNCHANGED <<outbox, queries, kbuf>>
    BY <2>4 DEF PlugDevice, socketVars
  <2> QED BY <1>6, <1>8, <2>2, <2>3, <2>4 DEF Kernel
<1>9. ASSUME NEW c \in Clients, disconnected(c)
      PROVE  /\ queries'[q] \in {None, queries[q]}
             /\ outbox'[q] \in {<<>>, outbox[q]}
             /\ \A s \in Sources : kbuf'[s] \in {<<>>, kbuf[s]}
  <2>1. queries' = [queries EXCEPT ![c] = None] /\ outbox' = [outbox EXCEPT ![c] = <<>>]
    BY <1>9 DEF disconnected
  <2>2. kbuf' = kbuf \/ kbuf' = [s \in Sources |-> IF s = BT THEN kbuf[s] ELSE <<>>]
    BY <1>9 DEF disconnected, closeHandles
  <2> QED BY <1>0, <2>1, <2>2
<1>10. ASSUME NEW c \in Clients, clientSocketReadyRead(c)
       PROVE  /\ queries'[q] \in {None, code} /\ kbuf' = kbuf
              /\ Shown(outbox'[q], code, Window(q)')
  <2>1. /\ c \in connections /\ queries[c] # None /\ queries' = [queries EXCEPT ![c] = None]
        /\ kbuf' = kbuf
    BY <1>10 DEF clientSocketReadyRead, deviceVars
  <2>2. \/ UNCHANGED outbox
        \/ \E v \in KeyBits(queries[c]) :
              outbox' = [outbox EXCEPT ![c] =
                           Append(outbox[c], [code |-> queries[c], value |-> v])]
    BY <1>10, Zenon DEF clientSocketReadyRead
  <2>3. queries'[q] \in {None, code}
    BY <1>0, <2>1 DEF Watching
  <2>4. CASE outbox'[q] = outbox[q]
    BY <1>5, <2>1, <2>3, <2>4
  <2>5. ASSUME c = q, NEW v \in KeyBits(queries[c]),
               outbox' = [outbox EXCEPT ![c] = Append(outbox[c], [code |-> queries[c], value |-> v])]
        PROVE  Shown(outbox'[q], code, Window(q)')
    <3>1. queries[c] = code
      BY <2>1, <2>5 DEF Watching
    <3>2. v \in 0..1 /\ Position(v) \in Levels(code)
      BY <2>1, <2>5, <3>1, BitsSay
    <3>3. PICK e \in Event : e = [code |-> code, value |-> v]
      <4>1. [code |-> code, value |-> v] \in Event
        BY <3>2 DEF Event
      <4> QED BY <4>1
    <3>4. outbox'[q] = Append(outbox[q], e)
      BY <1>0, <2>5, <3>1, <3>3
    <3>5. Position(e.value) \in Window(q)'
      BY <1>2, <3>2, <3>3
    <3> QED BY <1>0, <1>5, <2>5, <3>4, <3>5, ShownMore
  <2>6. c # q => outbox'[q] = outbox[q]
    BY <1>0, <2>2, Zenon
  <2> QED BY <2>1, <2>2, <2>3, <2>4, <2>5, <2>6
<1>11. ASSUME NEW es \in Seq(Event), broadcastToClients(es), UNCHANGED <<connections, peer>>,
              Shown(es, code, Window(q)')
       PROVE  Shown(outbox'[q], code, Window(q)')
  <2>1. outbox'[q] = outbox[q] \/ outbox'[q] = outbox[q] \o es
    BY <1>0, <1>11, BroadcastKept DEF Wires
  <2>2. PICK o, levels : /\ o = outbox[q] /\ o \in Seq(Event)
                          /\ levels = Window(q)' /\ Shown(o, code, levels)
    BY <1>0, <1>5, <1>11
  <2>3. Shown(o \o es, code, levels)
    BY <1>11, <2>2, ShownMore
  <2> QED BY <2>1, <2>2, <2>3
<1>12. ASSUME NEW i \in 0..1, NEW es \in Seq(Event),
              \A j \in 1..Len(es) : es[j].code \in {TranslatorKeys[i].short, TranslatorKeys[i].long}
       PROVE  Shown(es, code, Window(q)')
  <2>1. {TranslatorKeys[i].short, TranslatorKeys[i].long} \subseteq Translated
    BY DEF Translated
  <2> QED BY <1>12, <2>1 DEF Shown, Plain
<1>13. ASSUME NEW t \in Sources, handleKeyEvent(t)
       PROVE  /\ queries' = queries
              /\ Shown(outbox'[q], code, Window(q)')
              /\ \A s \in Sources : Shown(kbuf'[s], code, Window(q)')
  <2>1. /\ queries' = queries /\ UNCHANGED <<connections, peer>> /\ kbuf[t] # <<>>
        /\ kbuf' = [kbuf EXCEPT ![t] = Tail(kbuf[t])]
    BY <1>13 DEF handleKeyEvent, clientVars
  <2>3. /\ Shown(kbuf[t], code, Window(q)') /\ kbuf[t] \in Seq(Event)
        /\ Shown(Tail(kbuf[t]), code, Window(q)')
        /\ Head(kbuf[t]).code = code => Position(Head(kbuf[t]).value) \in Window(q)'
    BY <1>0, <1>5, <2>1, ShownMore
  <2>4. \A s \in Sources : Shown(kbuf'[s], code, Window(q)')
    BY <1>0, <1>5, <2>1, <2>3
  <2>5. CASE broadcastToClients(<<Head(kbuf[t])>>) /\ <<Head(kbuf[t])>> \in Seq(Event)
    <3>1. PICK e : e = Head(kbuf[t])
      OBVIOUS
    <3>2. Len(<<e>>) = 1 /\ <<e>>[1] = e
      OBVIOUS
    <3>3. Shown(<<e>>, code, Window(q)')
      BY <2>3, <3>1, <3>2 DEF Shown
    <3> QED BY <1>11, <2>1, <2>4, <2>5, <3>1, <3>3
  <2>6. ASSUME NEW i \in TranslatorOf(t, Head(kbuf[t]).code), NEW es \in Seq(Event),
               broadcastToClients(es),
               \A j \in 1..Len(es) :
                  es[j].code \in {TranslatorKeys[i].short, TranslatorKeys[i].long}
        PROVE  Shown(outbox'[q], code, Window(q)')
    <3>1. i \in 0..1
      BY DEF TranslatorOf
    <3> QED BY <1>11, <1>12, <2>1, <2>6, <3>1
  <2> QED BY <1>5, <1>13, <2>1, <2>4, <2>5, <2>6, HandlerBroadcasts DEF Wires
<1>14. ASSUME NEW i \in 0..1, TimerExpires(i)
       PROVE  /\ queries' = queries /\ kbuf' = kbuf
              /\ Shown(outbox'[q], code, Window(q)')
  <2>1. PICK es : es = TimeoutEvents(translators[i], TranslatorKeys[i])
    OBVIOUS
  <2>2. /\ es \in Seq(Event)
        /\ \A j \in 1..Len(es) : es[j].code \in {TranslatorKeys[i].short, TranslatorKeys[i].long}
    BY <2>1, Emitted
  <2>3. /\ broadcastToClients(es) /\ UNCHANGED <<connections, peer>>
        /\ queries' = queries /\ kbuf' = kbuf
    BY <1>14, <2>1 DEF TimerExpires, clientVars, deviceVars
  <2> QED BY <1>11, <1>12, <2>2, <2>3
<1>15. CASE Restart
  <2>1. /\ kbuf' = [s \in Sources |-> <<>>] /\ outbox' = [c \in Clients |-> <<>>]
        /\ queries' = [c \in Clients |-> None]
    BY <1>15 DEF Restart
  <2> QED BY <1>0, <1>6, <2>1
<1>16. CASE Daemon
  <2>1. ASSUME NEW c \in Clients, newConnection(c)
        PROVE  UNCHANGED <<outbox, queries, kbuf>>
    BY <2>1 DEF newConnection, socketVars
  <2>2. CASE HeadsetWatchLost
    BY <1>6, <2>2 DEF HeadsetWatchLost, deviceVars, socketVars
  <2>3. ~HeadsetEvent
    BY NoHeadsetHere DEF KeydInv
  <2>4. CASE \E c \in Clients : newConnection(c)
    BY <1>6, <2>1, <2>4
  <2>5. CASE \E c \in Clients : disconnected(c)
    BY <1>6, <1>9, <2>5
  <2>6. CASE \E c \in Clients : clientSocketReadyRead(c)
    BY <1>5, <1>10, <2>6
  <2>7. CASE \E t \in Sources : handleKeyEvent(t)
    BY <1>13, <2>7 DEF Watching
  <2>8. CASE \E i \in 0..1 : TimerExpires(i)
    BY <1>5, <1>14, <2>8 DEF Watching
  <2> QED BY <1>15, <1>16, <2>2, <2>3, <2>4, <2>5, <2>6, <2>7, <2>8 DEF Daemon, DaemonFor
<1> QED BY <1>8, <1>16 DEF Environment

\* A call begins with the positions of the unread events in its window.
LEMMA AskedWatched ==
    ASSUME Wires, SysTypeOK, NEW q \in Queriers, NEW code \in Codes, Ask(q, code)
    PROVE  Watching(q, code)'
<1>0. q \in Clients /\ peer[q] = "idle" /\ UNCHANGED <<held, kbuf, outbox, queries>>
  BY KeySystemAssumption DEF Ask, Connect, deviceVars, socketVars
<1>1. seen'[q] = Levels(code) /\ unread'[q] = Waiting(code)
  BY DEF Ask, SysTypeOK
<1>2. Levels(code)' = Levels(code)
  BY <1>0 DEF Levels, IsDown
<1>3. queries'[q] = None /\ outbox'[q] = <<>>
  BY <1>0 DEF Wires, ClientSide
<1>4. ASSUME NEW s \in Sources PROVE Shown(kbuf'[s], code, Window(q)')
  <2>1. ASSUME NEW i \in 1..Len(kbuf[s]), kbuf[s][i].code = code
        PROVE  Position(kbuf[s][i].value) \in Waiting(code)
    <3>1. i \in {j \in DOMAIN kbuf[s] : kbuf[s][j].code = code}
      BY <2>1, LenProperties DEF Wires, DeviceSide
    <3> QED BY <3>1 DEF Waiting
  <2> QED BY <1>0, <1>1, <2>1 DEF Shown, Window
<1>5. Shown(<<>>, code, Window(q)')
  <2>1. Len(<<>>) = 0
    BY EmptySeq
  <2> QED BY <2>1 DEF Shown
<1>6. Levels(code)' \subseteq Window(q)'
  BY <1>1, <1>2 DEF Window
<1> QED BY <1>3, <1>4, <1>5, <1>6 DEF Watching

\* A call that was answered for a plain code has read an event that shows a position
\* of the window; the answer getKeyState makes of it says no more than that.
PlainAnswersShown ==
    \A q \in Queriers :
        Answered(q) /\ Plain(answers[q].code) => Position(answers[q].value) \in Window(q)

AnswerInv ==
    /\ NoHeadset /\ PlainAnswersShown
    /\ \A q \in Queriers :
          (asked[q] # None /\ Plain(asked[q])) => Watching(q, asked[q])

LEMMA ResponseCurrent ==
    ASSUME KeydInv, Wires, SysTypeOK, AnswerInv, NEW q \in Queriers, ReadResponse(q) \/ GiveUp(q),
           Answered(q)', Plain(answers'[q].code)
    PROVE  Position(answers'[q].value) \in Window(q)'
<1>0. answers'[q].value # TimedOut /\ answers'[q].matched
  BY DEF Answered
<1>1. /\ asked[q] # None /\ asked[q] \in Codes /\ Window(q)' = Window(q)
      /\ q \in Clients /\ outbox[q] \in Seq(Event)
  BY KeySystemAssumption DEF ReadResponse, GiveUp, SysTypeOK, Wires, ClientSide, Window
<1>2. ~GiveUp(q)
  <2>1. ASSUME GiveUp(q) PROVE FALSE
    <3>1. answers'[q] = [code |-> asked[q], value |-> TimedOut, matched |-> TRUE]
      BY <2>1 DEF GiveUp, SysTypeOK
    <3> QED BY <1>0, <3>1
  <2> QED BY <2>1
<1>3. PICK n \in 1..Len(outbox[q]) : answers'[q] = Response(asked[q], outbox[q][n])
  BY <1>2 DEF ReadResponse, SysTypeOK
<1>4. /\ answers'[q].code = asked[q] /\ answers'[q].value = outbox[q][n].value
      /\ outbox[q][n].code = asked[q]
  <2>1. /\ answers'[q].code = asked[q] /\ answers'[q].value = outbox[q][n].value
        /\ answers'[q].matched = (outbox[q][n].code = asked[q])
    <3>1. PICK e, a, code : e = outbox[q][n] /\ a = answers'[q] /\ code = asked[q]
      OBVIOUS
    <3>2. a = [code |-> code, value |-> e.value, matched |-> e.code = code]
      BY <1>3, <3>1 DEF Response
    <3>3. a.code = code /\ a.value = e.value
      BY <3>2
    <3>4. a.matched = (e.code = code)
      BY <3>2, Zenon
    <3> QED BY <3>1, <3>3, <3>4
  <2> QED BY <1>0, <2>1
<1>5. Shown(outbox[q], asked[q], Window(q))
  BY <1>1, <1>4 DEF AnswerInv, Watching
<1> QED BY <1>1, <1>3, <1>4, <1>5 DEF Shown

LEMMA AnswerKept ==
    ASSUME Steady, KeydInv, Wires, SysTypeOK, AnswerInv, [SysNext]_sysVars
    PROVE  AnswerInv'
<1>0. NoHeadset' /\ Listeners \subseteq Clients /\ Queriers \subseteq Clients
      /\ Listeners \cap Queriers = {}
  BY NoHeadsetKept, KeySystemAssumption DEF AnswerInv
<1> SUFFICES ASSUME NEW q \in Queriers
             PROVE  /\ (asked'[q] # None /\ Plain(asked'[q])) => Watching(q, asked[q])'
                    /\ Answered(q)' /\ Plain(answers'[q].code)
                         => Position(answers'[q].value) \in Window(q)'
  BY <1>0 DEF AnswerInv, PlainAnswersShown, Plain
<1> DEFINE Goal == /\ (asked'[q] # None /\ Plain(asked'[q])) => Watching(q, asked[q])'
                   /\ Answered(q)' /\ Plain(answers'[q].code)
                         => Position(answers'[q].value) \in Window(q)'
<1>1. CASE /\ asked'[q] = asked[q] /\ answers'[q] = answers[q]
           /\ seen'[q] = seen[q] /\ unread'[q] = unread[q]
           /\ held' = held /\ kbuf' = kbuf
           /\ outbox'[q] \in {<<>>, outbox[q]} /\ queries'[q] \in {queries[q], asked[q]}
  <2>1. Shown(<<>>, asked[q], Window(q)) /\ Window(q)' = Window(q)
    <3>1. Len(<<>>) = 0
      BY EmptySeq
    <3> QED BY <1>1, <3>1 DEF Shown, Window
  <2>2. ASSUME asked'[q] # None, Plain(asked'[q])
        PROVE  Watching(q, asked[q])'
    <3>1. Watching(q, asked[q])
      BY <1>1, <2>2 DEF AnswerInv
    <3>2. Levels(asked[q])' = Levels(asked[q])
      BY <1>1 DEF Levels, IsDown
    <3> QED BY <1>1, <2>1, <3>1, <3>2 DEF Watching
  <2>3. Answered(q)' /\ Plain(answers'[q].code)
            => Position(answers'[q].value) \in Window(q)'
    BY <1>1, <2>1, Zenon DEF AnswerInv, PlainAnswersShown, Answered
  <2> QED BY <2>2, <2>3
<1>2. CASE Environment
  <2>1. asked' = asked /\ answers' = answers /\ unread' = unread /\ Watch
    BY <1>2 DEF Environment
  <2>2. CASE asked[q] = None
    <3>1. Window(q)' = Window(q)
      BY <2>1, <2>2 DEF Watch, Window
    <3> QED BY <2>1, <2>2, <3>1, Zenon DEF AnswerInv, PlainAnswersShown, Answered
  <2>3. ASSUME asked[q] # None, Plain(asked[q])
        PROVE  Watching(q, asked[q])'
    <3>1. PICK code \in Codes : code = asked[q]
      BY <2>3 DEF SysTypeOK
    <3>2. Watching(q, code)'
      BY <1>2, <2>3, <3>1, WatchingKept DEF AnswerInv
    <3> QED BY <2>1, <3>1, <3>2 DEF Watching, Levels, IsDown
  <2> QED BY <2>1, <2>2, <2>3 DEF Answered
<1>3. ASSUME NEW c \in Clients \ {q}, ClientStep(c)
      PROVE  /\ held' = held /\ kbuf' = kbuf
             /\ outbox'[q] = outbox[q] /\ queries'[q] = queries[q]
  <2>1. /\ held' = held /\ kbuf' = kbuf
        /\ outbox' = outbox \/ \E x : outbox' = [outbox EXCEPT ![c] = x]
        /\ queries' = queries \/ \E x : queries' = [queries EXCEPT ![c] = x]
    BY <1>3 DEF ClientStep, Connect, ReadSocket, CloseSocket, DropSocket, SendQuery,
       deviceVars, socketVars
  <2> QED BY <1>0, <2>1 DEF Wires, ClientSide
<1>4. ASSUME NEW l \in Listeners, Listener(l)
      PROVE  Goal
  <2>1. ClientStep(l) /\ UNCHANGED <<asked, answers, seen, unread>>
    BY <1>4 DEF Listener, NewQmKeys, DeleteQmKeys, ListenerReads, queryVars, ClientStep
  <2> QED BY <1>0, <1>1, <1>3, <2>1
<1>5. ASSUME NEW r \in Queriers, Querier(r)
      PROVE  Goal
  <2>1. ASSUME NEW code \in AllCodes, Ask(r, code) PROVE Goal
    <3>0. code \in Codes /\ code # None
      BY KeydAssumption DEF AllCodes
    <3>1. /\ asked' = [asked EXCEPT ![r] = code] /\ answers' = answers
          /\ \E x : seen' = [seen EXCEPT ![r] = x]
          /\ \E x : unread' = [unread EXCEPT ![r] = x]
      BY <2>1 DEF Ask
    <3>2. CASE r = q
      <4>1. asked'[q] = code
        BY <3>1, <3>2 DEF SysTypeOK
      <4>2. Watching(q, code)'
        BY <2>1, <3>0, <3>2, AskedWatched DEF AnswerInv
      <4> QED BY <3>0, <4>1, <4>2 DEF Watching, Levels, IsDown, Answered
    <3>3. CASE r # q
      <4>1. ClientStep(r)
        BY <2>1 DEF Ask, ClientStep
      <4> QED BY <1>0, <1>1, <1>3, <3>1, <3>3, <4>1 DEF SysTypeOK
    <3> QED BY <3>2, <3>3
  <2>2. CASE WriteQuery(r)
    <3>1. /\ asked[r] # None /\ SendQuery(r, asked[r]) /\ UNCHANGED <<asked, answers, seen, unread>>
          /\ queries' = [queries EXCEPT ![r] = asked[r]] /\ outbox' = outbox
          /\ held' = held /\ kbuf' = kbuf
      BY <2>2 DEF WriteQuery, SendQuery, deviceVars
    <3>2. queries'[q] \in {queries[q], asked[q]}
      BY <1>0, <3>1 DEF Wires, ClientSide
    <3> QED BY <1>1, <3>1, <3>2
  <2>3. CASE ReadResponse(r) \/ GiveUp(r)
    <3>1. asked' = [asked EXCEPT ![r] = None] /\ seen' = seen /\ unread' = unread
          /\ \E x : answers' = [answers EXCEPT ![r] = x]
          /\ ClientStep(r)
      BY <2>3 DEF ReadResponse, GiveUp, ClientStep
    <3>2. CASE r = q
      <4>1. asked'[q] = None
        BY <3>1, <3>2 DEF SysTypeOK
      <4> QED BY <2>3, <3>2, <4>1, ResponseCurrent
    <3>3. CASE r # q
      BY <1>0, <1>1, <1>3, <3>1, <3>3 DEF SysTypeOK
    <3> QED BY <3>2, <3>3
  <2> QED BY <1>5, <2>1, <2>2, <2>3 DEF Querier, AllCodes
<1>6. CASE UNCHANGED sysVars
  BY <1>1, <1>6 DEF sysVars, vars, deviceVars, socketVars
<1> QED BY <1>2, <1>4, <1>5, <1>6 DEF SysNext

LEMMA AnswersInv == ASSUME Steady PROVE SysSpec => []AnswerInv
<1>1. SysInit => AnswerInv
  <2> SUFFICES ASSUME SysInit PROVE AnswerInv
    OBVIOUS
  <2>1. NoHeadset
    BY DEF SysInit, Init, NoHeadset, Sources
  <2>2. \A q \in Queriers : answers[q].value = TimedOut /\ asked[q] = None
    BY DEF SysInit, NoAnswer, TimedOut
  <2> QED BY <2>1, <2>2 DEF AnswerInv, PlainAnswersShown, Answered
<1>2. SysInv /\ SysTypeOK /\ AnswerInv /\ [SysNext]_sysVars => AnswerInv'
  BY AnswerKept DEF SysInv
<1> QED BY <1>1, <1>2, SysTypeInv, PTL DEF SysSpec

\* Where the bitmap of every device can be read, a state that getKeyState has from
\* the daemon about a plain code is one the key had since the call began, or one in
\* an event the daemon had not read by then, whatever other clients are connected,
\* ask, come and go, keys change, and however often the daemon restarts.
THEOREM AnswersCurrent == ASSUME Steady PROVE SysSpec => []AnswersAreCurrent
<1>1. ASSUME AnswerInv, NEW q \in Queriers, Answered(q), Plain(answers[q].code)
      PROVE  Says(q) \subseteq seen[q] \cup unread[q]
  <2>1. Position(answers[q].value) \in seen[q] \cup unread[q]
    BY <1>1 DEF AnswerInv, PlainAnswersShown, Window
  <2>2. Says(q) \subseteq {Position(answers[q].value)}
    BY DEF Says, StateOfValue, Position
  <2> QED BY <2>1, <2>2
<1>2. AnswerInv => AnswersAreCurrent
  BY <1>1 DEF AnswersAreCurrent
<1> QED BY <1>2, AnswersInv, PTL
=============================================================================
