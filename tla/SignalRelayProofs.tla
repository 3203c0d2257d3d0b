--------------------------- MODULE SignalRelayProofs -------------------------
(***************************************************************************)
(* Proofs about SignalRelay, for any finite sets of threads and receivers  *)
(* and any well-formed tables: the bus signals follow the counters, what   *)
(* is connected is delivered once the notifications are made, and what has *)
(* been disconnected is given back.                                        *)
(*                                                                         *)
(* The counters lag behind the connections by the notifications that are   *)
(* still pending, and are never lower than that: a call that removes       *)
(* several connections at once lowers them too little, not too much.  As   *)
(* long as no call has done so they are exact.                             *)
(***************************************************************************)
EXTENDS SignalRelay, TLAPS, FiniteSetTheorems

\* The connections that a counter is about, and the notifications pending for it.
ConnectedTo(k) == {p \in Connected : Table.counterOf[p[2]] = k}
PendingFor(kind, k) ==
    {t \in Threads : /\ pending[t].kind = kind
                     /\ Table.counterOf[pending[t].signal] = k}

Call == [kind : {"connect", "disconnect"}, signal : Signals]

Types ==
    /\ class \in DOMAIN Classes
    /\ connections \in [Receivers -> [Signals -> 0..2]]
    /\ pending \in [Threads -> Call \cup {NoCall}]
    /\ connectCount \in [Counters -> Int]

Balance ==
    \A k \in Counters \ Table.raised :
        Cardinality(ConnectedTo(k)) + Cardinality(PendingFor("disconnect", k))
            <= connectCount[k] + Cardinality(PendingFor("connect", k))

Inv == Types /\ SubscribedWhilePositive /\ Balance

-----------------------------------------------------------------------------
\* What the assumption says of the class at hand.
LEMMA TableFacts ==
    ASSUME Types
    PROVE  /\ IsFiniteSet(Signals)
           /\ \A s \in Signals : Table.counterOf[s] \in Counters
           /\ \A k \in Counters : Table.unsubscribe[k] \subseteq Table.subscribe[k]
           /\ \A j, k \in Counters :
                 j # k => Table.subscribe[j] \cap Table.subscribe[k] = {}
<1>1. WellFormed(Table)
  BY RelayAssumption DEF Types, Table
<1> QED BY <1>1 DEF WellFormed, Signals, Counters

\* The sets that are counted are finite.
LEMMA Finite ==
    ASSUME Types, NEW k
    PROVE  /\ IsFiniteSet(ConnectedTo(k)) /\ Cardinality(ConnectedTo(k)) \in Nat
           /\ \A kind : /\ IsFiniteSet(PendingFor(kind, k))
                        /\ Cardinality(PendingFor(kind, k)) \in Nat
<1>1. IsFiniteSet(Receivers \X Signals)
  BY RelayAssumption, TableFacts, FS_Product
<1>2. ConnectedTo(k) \in SUBSET (Receivers \X Signals)
  BY DEF ConnectedTo, Connected
<1>3. IsFiniteSet(ConnectedTo(k))
  BY <1>1, <1>2, FS_Subset
<1>4. ASSUME NEW kind
      PROVE  IsFiniteSet(PendingFor(kind, k))
  <2>1. PendingFor(kind, k) \in SUBSET Threads
    BY DEF PendingFor
  <2> QED BY <2>1, RelayAssumption, FS_Subset
<1> QED BY <1>3, <1>4, FS_CardinalityType

\* A notification in sight is about a signal of the class.
LEMMA CallTypes ==
    ASSUME Types, NEW t \in Threads, pending[t].kind \in {"connect", "disconnect"}
    PROVE  /\ pending[t] \in Call /\ pending[t].signal \in Signals
           /\ Table.counterOf[pending[t].signal] \in Counters
<1>1. NoCall.kind = "none"
  BY DEF NoCall
<1>2. pending[t] \in Call
  BY <1>1 DEF Types
<1> QED BY <1>2, TableFacts DEF Call

LEMMA InitRelayInv == Init => Inv
<1> SUFFICES ASSUME Init PROVE Inv
  OBVIOUS
<1>1. Types
  BY DEF Init, Types
<1>2. SubscribedWhilePositive
  BY DEF Init, SubscribedWhilePositive
<1>3. Balance
  <2> SUFFICES ASSUME NEW k \in Counters
               PROVE  Cardinality(ConnectedTo(k)) + Cardinality(PendingFor("disconnect", k))
                        <= connectCount[k] + Cardinality(PendingFor("connect", k))
    BY DEF Balance
  <2>1. ConnectedTo(k) = {}
    BY DEF Init, ConnectedTo, Connected
  <2>2. \A kind \in {"connect", "disconnect"} : PendingFor(kind, k) = {}
    <3>1. NoCall.kind = "none"
      BY DEF NoCall
    <3> QED BY <3>1 DEF Init, PendingFor
  <2>3. connectCount[k] = 0 /\ Cardinality({}) = 0
    BY FS_EmptySet DEF Init
  <2> QED BY <2>1, <2>2, <2>3
<1> QED BY <1>1, <1>2, <1>3 DEF Inv

-----------------------------------------------------------------------------
\* A thread changes a connection: a notification is pending.
LEMMA CallAdded ==
    ASSUME Types, NEW t \in Threads, NEW s \in Signals, NEW kind \in {"connect", "disconnect"},
           pending[t] = NoCall, UNCHANGED class,
           pending' = [pending EXCEPT ![t] = [kind |-> kind, signal |-> s]]
    PROVE  /\ pending' \in [Threads -> Call \cup {NoCall}]
           /\ \A k : t \notin PendingFor(kind, k)
           /\ \A k : \A other \in {"connect", "disconnect"} :
                 PendingFor(other, k)' =
                    IF other = kind /\ k = Table.counterOf[s]
                    THEN PendingFor(other, k) \cup {t} ELSE PendingFor(other, k)
<1>1. [kind |-> kind, signal |-> s] \in Call /\ NoCall.kind = "none"
  BY DEF Call, NoCall
<1>2. pending' \in [Threads -> Call \cup {NoCall}]
  BY <1>1 DEF Types
<1>3. Table' = Table
  BY DEF Table
<1>4. \A k : t \notin PendingFor(kind, k)
  BY <1>1 DEF PendingFor
<1>5. ASSUME NEW k, NEW other \in {"connect", "disconnect"}
      PROVE  PendingFor(other, k)' =
                 IF other = kind /\ k = Table.counterOf[s]
                 THEN PendingFor(other, k) \cup {t} ELSE PendingFor(other, k)
  BY <1>1, <1>3 DEF PendingFor, Types
<1> QED BY <1>2, <1>4, <1>5

\* The notification is made: it is no longer pending.
LEMMA CallMade ==
    ASSUME Types, NEW t \in Threads, pending[t].kind \in {"connect", "disconnect"},
           UNCHANGED class, pending' = [pending EXCEPT ![t] = NoCall]
    PROVE  /\ pending' \in [Threads -> Call \cup {NoCall}]
           /\ \A k : \A kind \in {"connect", "disconnect"} :
                 /\ PendingFor(kind, k)' = PendingFor(kind, k) \ {t}
                 /\ t \in PendingFor(kind, k) <=>
                       kind = pending[t].kind /\ k = Table.counterOf[pending[t].signal]
<1>1. NoCall.kind = "none"
  BY DEF NoCall
<1>2. pending' \in [Threads -> Call \cup {NoCall}]
  BY DEF Types
<1>3. Table' = Table
  BY DEF Table
<1>4. ASSUME NEW k, NEW kind \in {"connect", "disconnect"}
      PROVE  /\ PendingFor(kind, k)' = PendingFor(kind, k) \ {t}
             /\ t \in PendingFor(kind, k) <=>
                   kind = pending[t].kind /\ k = Table.counterOf[pending[t].signal]
  BY <1>1, <1>3 DEF PendingFor, Types
<1> QED BY <1>2, <1>4

\* Qt's own steps leave the counters and the subscriptions alone.
LEMMA SubscribedKeptByQt ==
    ASSUME SubscribedWhilePositive, UNCHANGED <<class, connectCount, subscribed>>
    PROVE  SubscribedWhilePositive'
BY DEF SubscribedWhilePositive, Table, Counters

LEMMA ConnectKeepsInv ==
    ASSUME Inv, NEW t \in Threads, NEW r \in Receivers, NEW s \in Signals, Connect(t, r, s)
    PROVE  Inv'
<1>1. /\ pending[t] = NoCall /\ connections[r][s] < 2
      /\ connections' = [connections EXCEPT ![r][s] = @ + 1]
      /\ pending' = [pending EXCEPT ![t] = [kind |-> "connect", signal |-> s]]
      /\ UNCHANGED <<class, connectCount, subscribed>>
  BY DEF Connect
<1>2. Types /\ Table' = Table /\ Signals' = Signals /\ Counters' = Counters
  BY <1>1 DEF Inv, Table, Signals, Counters
<1>3. Types'
  <2>1. pending' \in [Threads -> Call \cup {NoCall}]
    BY <1>1, <1>2, CallAdded
  <2>2. connections' \in [Receivers -> [Signals -> 0..2]]
    BY <1>1, <1>2 DEF Types
  <2> QED BY <1>1, <1>2, <2>1, <2>2 DEF Types, Call
<1>4. Balance'
  <2> SUFFICES ASSUME NEW k \in Counters, k \notin Table.raised
               PROVE  (Cardinality(ConnectedTo(k)) + Cardinality(PendingFor("disconnect", k))
                         <= connectCount[k] + Cardinality(PendingFor("connect", k)))'
    BY <1>2 DEF Balance
  <2>1. /\ t \notin PendingFor("connect", k)
        /\ PendingFor("disconnect", k)' = PendingFor("disconnect", k)
        /\ PendingFor("connect", k)' = IF k = Table.counterOf[s]
                                       THEN PendingFor("connect", k) \cup {t}
                                       ELSE PendingFor("connect", k)
    BY <1>1, <1>2, CallAdded, ZenonT(60)
  <2>2. ConnectedTo(k)' = IF k = Table.counterOf[s] THEN ConnectedTo(k) \cup {<<r, s>>}
                          ELSE ConnectedTo(k)
    BY <1>1, <1>2 DEF ConnectedTo, Connected, Types
  <2>3. Cardinality(ConnectedTo(k)) + Cardinality(PendingFor("disconnect", k))
          <= connectCount[k] + Cardinality(PendingFor("connect", k))
    BY DEF Inv, Balance
  <2>4. connectCount'[k] = connectCount[k] /\ connectCount[k] \in Int
    BY <1>1, <1>2 DEF Types
  <2>5. CASE k = Table.counterOf[s]
    <3>1. Cardinality(PendingFor("connect", k)') = Cardinality(PendingFor("connect", k)) + 1
      BY <1>2, <2>1, <2>5, Finite, FS_AddElement
    <3>2. IsFiniteSet(ConnectedTo(k)) /\ Cardinality(ConnectedTo(k)) \in Nat
      BY <1>2, Finite
    <3>3. Cardinality(ConnectedTo(k) \cup {<<r, s>>}) =
            IF <<r, s>> \in ConnectedTo(k) THEN Cardinality(ConnectedTo(k))
            ELSE Cardinality(ConnectedTo(k)) + 1
      BY <3>2, FS_AddElement
    <3>4. /\ Cardinality(ConnectedTo(k)') <= Cardinality(ConnectedTo(k)) + 1
          /\ Cardinality(ConnectedTo(k)') \in Nat
      BY <2>2, <2>5, <3>2, <3>3
    <3> QED BY <1>2, <2>1, <2>3, <2>4, <2>5, <3>1, <3>4, Finite
  <2>6. CASE k # Table.counterOf[s]
    BY <2>1, <2>2, <2>3, <2>4, <2>6
  <2> QED BY <2>5, <2>6
<1> QED BY <1>1, <1>3, <1>4, SubscribedKeptByQt DEF Inv

LEMMA DisconnectKeepsInv ==
    ASSUME Inv, NEW t \in Threads, NEW r \in Receivers, NEW s \in Signals, Disconnect(t, r, s)
    PROVE  Inv'
<1>1. /\ pending[t] = NoCall /\ connections[r][s] > 0
      /\ connections' = [connections EXCEPT ![r][s] = 0]
      /\ pending' = [pending EXCEPT ![t] = [kind |-> "disconnect", signal |-> s]]
      /\ UNCHANGED <<class, connectCount, subscribed>>
  BY DEF Disconnect
<1>2. Types /\ Table' = Table /\ Signals' = Signals /\ Counters' = Counters
  BY <1>1 DEF Inv, Table, Signals, Counters
<1>3. Types'
  <2>1. pending' \in [Threads -> Call \cup {NoCall}]
    BY <1>1, <1>2, CallAdded, ZenonT(60)
  <2>2. connections' \in [Receivers -> [Signals -> 0..2]]
    BY <1>1, <1>2 DEF Types
  <2> QED BY <1>1, <1>2, <2>1, <2>2 DEF Types, Call
<1>4. Balance'
  <2> SUFFICES ASSUME NEW k \in Counters, k \notin Table.raised
               PROVE  (Cardinality(ConnectedTo(k)) + Cardinality(PendingFor("disconnect", k))
                         <= connectCount[k] + Cardinality(PendingFor("connect", k)))'
    BY <1>2 DEF Balance
  <2>1. /\ t \notin PendingFor("disconnect", k)
        /\ PendingFor("connect", k)' = PendingFor("connect", k)
        /\ PendingFor("disconnect", k)' = IF k = Table.counterOf[s]
                                          THEN PendingFor("disconnect", k) \cup {t}
                                          ELSE PendingFor("disconnect", k)
    BY <1>1, <1>2, CallAdded, ZenonT(60)
  <2>2. ConnectedTo(k)' = ConnectedTo(k) \ {<<r, s>>}
    BY <1>1, <1>2 DEF ConnectedTo, Connected, Types
  <2>3. k = Table.counterOf[s] <=> <<r, s>> \in ConnectedTo(k)
    BY <1>1 DEF ConnectedTo, Connected
  <2>4. Cardinality(ConnectedTo(k)) + Cardinality(PendingFor("disconnect", k))
          <= connectCount[k] + Cardinality(PendingFor("connect", k))
    BY DEF Inv, Balance
  <2>5. connectCount'[k] = connectCount[k] /\ connectCount[k] \in Int
    BY <1>1, <1>2 DEF Types
  <2>6. CASE k = Table.counterOf[s]
    <3>1. Cardinality(PendingFor("disconnect", k)') = Cardinality(PendingFor("disconnect", k)) + 1
      BY <1>2, <2>1, <2>6, Finite, FS_AddElement
    <3>2. Cardinality(ConnectedTo(k)') = Cardinality(ConnectedTo(k)) - 1
      BY <1>2, <2>2, <2>3, <2>6, Finite, FS_RemoveElement
    <3> QED BY <1>2, <2>1, <2>4, <2>5, <2>6, <3>1, <3>2, Finite
  <2>7. CASE k # Table.counterOf[s]
    <3>1. ConnectedTo(k)' = ConnectedTo(k)
      BY <2>2, <2>3, <2>7
    <3> QED BY <2>1, <2>4, <2>5, <2>7, <3>1
  <2> QED BY <2>6, <2>7
<1> QED BY <1>1, <1>3, <1>4, SubscribedKeptByQt DEF Inv

LEMMA DisconnectAllKeepsInv ==
    ASSUME Inv, NEW t \in Threads, DisconnectAll(t)
    PROVE  Inv'
<1>1. /\ connections' = [r \in Receivers |-> [s \in Signals |-> 0]]
      /\ UNCHANGED <<class, pending, connectCount, subscribed>>
  BY DEF DisconnectAll
<1>2. Types /\ Table' = Table /\ Signals' = Signals /\ Counters' = Counters
  BY <1>1 DEF Inv, Table, Signals, Counters
<1>3. Types'
  BY <1>1, <1>2 DEF Types, Call
<1>4. Balance'
  <2> SUFFICES ASSUME NEW k \in Counters, k \notin Table.raised
               PROVE  (Cardinality(ConnectedTo(k)) + Cardinality(PendingFor("disconnect", k))
                         <= connectCount[k] + Cardinality(PendingFor("connect", k)))'
    BY <1>2 DEF Balance
  <2>1. /\ PendingFor("disconnect", k)' = PendingFor("disconnect", k)
        /\ PendingFor("connect", k)' = PendingFor("connect", k)
    BY <1>1, <1>2 DEF PendingFor
  <2>2. ConnectedTo(k)' = {}
    BY <1>1, <1>2 DEF ConnectedTo, Connected
  <2>3. Cardinality(ConnectedTo(k)) + Cardinality(PendingFor("disconnect", k))
          <= connectCount[k] + Cardinality(PendingFor("connect", k))
    BY DEF Inv, Balance
  <2>4. connectCount'[k] = connectCount[k] /\ connectCount[k] \in Int
    BY <1>1, <1>2 DEF Types
  <2>5. Cardinality({}) = 0
    BY FS_EmptySet
  <2> QED BY <1>2, <2>1, <2>2, <2>3, <2>4, <2>5, Finite
<1> QED BY <1>1, <1>3, <1>4, SubscribedKeptByQt DEF Inv

-----------------------------------------------------------------------------
\* The notification of a connection.
LEMMA NotifyConnectKeepsInv ==
    ASSUME Inv, NEW t \in Threads, connectNotify(t)
    PROVE  Inv'
<1> DEFINE n == Table.counterOf[pending[t].signal]
<1>1. /\ pending[t].kind = "connect" /\ pending' = [pending EXCEPT ![t] = NoCall]
      /\ subscribed' = IF connectCount[n] = 0 THEN subscribed \cup Table.subscribe[n]
                       ELSE subscribed
      /\ connectCount' = [connectCount EXCEPT ![n] = @ + 1]
      /\ UNCHANGED <<class, connections>>
  BY DEF connectNotify
<1>2. Types /\ Table' = Table /\ Signals' = Signals /\ Counters' = Counters
  BY <1>1 DEF Inv, Table, Signals, Counters
<1>3. n \in Counters
  BY <1>1, <1>2, CallTypes
<1>4. connectCount \in [Counters -> Int]
  BY <1>2 DEF Types
<1>5. Types'
  <2>1. pending' \in [Threads -> Call \cup {NoCall}]
    BY <1>1, <1>2, CallMade
  <2>2. connectCount' \in [Counters -> Int]
    BY <1>1, <1>3, <1>4
  <2> HIDE DEF n
  <2> QED BY <1>1, <1>2, <2>1, <2>2 DEF Types, Call
<1> HIDE DEF n
<1>6. SubscribedWhilePositive'
  <2> SUFFICES ASSUME NEW k \in Counters, k \notin Table.raised
               PROVE  IF connectCount'[k] > 0 THEN Table.subscribe[k] \subseteq subscribed'
                      ELSE Table.unsubscribe[k] \cap subscribed' = {}
    BY <1>2 DEF SubscribedWhilePositive
  <2>1. IF connectCount[k] > 0 THEN Table.subscribe[k] \subseteq subscribed
        ELSE Table.unsubscribe[k] \cap subscribed = {}
    BY DEF Inv, SubscribedWhilePositive
  <2>2. connectCount'[k] = IF k = n THEN connectCount[k] + 1 ELSE connectCount[k]
    BY <1>1, <1>3, <1>4
  <2>3. CASE k = n
    <3>1. connectCount'[k] = connectCount[k] + 1 /\ connectCount[k] \in Int
      BY <1>4, <2>2, <2>3
    <3>2. CASE connectCount[k] = 0
      <4>1. subscribed' = subscribed \cup Table.subscribe[k] /\ connectCount'[k] > 0
        BY <1>1, <2>3, <3>1, <3>2
      <4> QED BY <4>1
    <3>3. CASE connectCount[k] # 0
      <4>1. subscribed' = subscribed
        BY <1>1, <2>3, <3>3
      <4>2. connectCount'[k] > 0 <=> connectCount[k] > 0
        BY <3>1, <3>3
      <4> QED BY <2>1, <4>1, <4>2
    <3> QED BY <3>2, <3>3
  <2>4. CASE k # n
    <3>1. Table.unsubscribe[k] \cap Table.subscribe[n] = {}
      BY <1>2, <1>3, <2>4, TableFacts
    <3>2. connectCount'[k] = connectCount[k]
      BY <2>2, <2>4
    <3>3. subscribed \subseteq subscribed' /\ subscribed' \subseteq subscribed \cup Table.subscribe[n]
      BY <1>1
    <3> QED BY <2>1, <3>1, <3>2, <3>3
  <2> QED BY <2>3, <2>4
<1>7. Balance'
  <2> SUFFICES ASSUME NEW k \in Counters, k \notin Table.raised
               PROVE  (Cardinality(ConnectedTo(k)) + Cardinality(PendingFor("disconnect", k))
                         <= connectCount[k] + Cardinality(PendingFor("connect", k)))'
    BY <1>2 DEF Balance
  <2>1. /\ PendingFor("connect", k)' = PendingFor("connect", k) \ {t}
        /\ PendingFor("disconnect", k)' = PendingFor("disconnect", k) \ {t}
        /\ t \in PendingFor("connect", k) <=> k = n
        /\ t \notin PendingFor("disconnect", k)
    BY <1>1, <1>2, CallMade DEF n
  <2>2. ConnectedTo(k)' = ConnectedTo(k)
    BY <1>1, <1>2 DEF ConnectedTo, Connected
  <2>3. Cardinality(ConnectedTo(k)) + Cardinality(PendingFor("disconnect", k))
          <= connectCount[k] + Cardinality(PendingFor("connect", k))
    BY DEF Inv, Balance
  <2>4. /\ connectCount'[k] = IF k = n THEN connectCount[k] + 1 ELSE connectCount[k]
        /\ connectCount[k] \in Int
    BY <1>1, <1>3, <1>4
  <2>5. PendingFor("disconnect", k)' = PendingFor("disconnect", k)
    BY <2>1
  <2>6. Cardinality(PendingFor("connect", k)') =
          IF k = n THEN Cardinality(PendingFor("connect", k)) - 1
          ELSE Cardinality(PendingFor("connect", k))
    BY <1>2, <2>1, Finite, FS_RemoveElement
  <2> QED BY <1>2, <2>2, <2>3, <2>4, <2>5, <2>6, Finite
<1> QED BY <1>5, <1>6, <1>7 DEF Inv

\* The notification of a disconnection.
LEMMA NotifyDisconnectKeepsInv ==
    ASSUME Inv, NEW t \in Threads, disconnectNotify(t)
    PROVE  Inv'
<1> DEFINE n == Table.counterOf[pending[t].signal]
<1>1. /\ pending[t].kind = "disconnect" /\ pending' = [pending EXCEPT ![t] = NoCall]
      /\ connectCount' = [connectCount EXCEPT ![n] = Lowered(n)]
      /\ subscribed' = IF Lowered(n) = 0 THEN subscribed \ Table.unsubscribe[n]
                       ELSE subscribed
      /\ UNCHANGED <<class, connections>>
  BY DEF disconnectNotify, Unsubscribed
<1>2. Types /\ Table' = Table /\ Signals' = Signals /\ Counters' = Counters
  BY <1>1 DEF Inv, Table, Signals, Counters
<1>3. n \in Counters
  BY <1>1, <1>2, CallTypes
<1>4. connectCount \in [Counters -> Int]
  BY <1>2 DEF Types
<1>5. Lowered(n) = (IF n \in Table.raised THEN connectCount[n] + 1 ELSE connectCount[n] - 1)
  BY DEF Lowered
<1> HIDE DEF n
<1>6. Types'
  <2>1. pending' \in [Threads -> Call \cup {NoCall}]
    BY <1>1, <1>2, CallMade
  <2>2. connectCount' \in [Counters -> Int]
    BY <1>1, <1>3, <1>4, <1>5
  <2> QED BY <1>1, <1>2, <2>1, <2>2 DEF Types, Call
<1>7. SubscribedWhilePositive'
  <2> SUFFICES ASSUME NEW k \in Counters, k \notin Table.raised
               PROVE  IF connectCount'[k] > 0 THEN Table.subscribe[k] \subseteq subscribed'
                      ELSE Table.unsubscribe[k] \cap subscribed' = {}
    BY <1>2 DEF SubscribedWhilePositive
  <2>1. IF connectCount[k] > 0 THEN Table.subscribe[k] \subseteq subscribed
        ELSE Table.unsubscribe[k] \cap subscribed = {}
    BY DEF Inv, SubscribedWhilePositive
  <2>2. CASE k = n
    <3>1. connectCount'[k] = connectCount[k] - 1 /\ connectCount[k] \in Int
      BY <1>1, <1>3, <1>4, <1>5, <2>2
    <3>2. CASE connectCount[k] = 1
      <4>1. subscribed' = subscribed \ Table.unsubscribe[k] /\ ~(connectCount'[k] > 0)
        BY <1>1, <1>5, <2>2, <3>1, <3>2
      <4> QED BY <4>1
    <3>3. CASE connectCount[k] # 1
      <4>1. subscribed' = subscribed
        BY <1>1, <1>5, <2>2, <3>1, <3>3
      <4>2. connectCount'[k] > 0 <=> connectCount[k] > 0
        BY <3>1, <3>3
      <4> QED BY <2>1, <4>1, <4>2
    <3> QED BY <3>2, <3>3
  <2>3. CASE k # n
    <3>1. Table.subscribe[k] \cap Table.unsubscribe[n] = {}
      BY <1>2, <1>3, <2>3, TableFacts
    <3>2. connectCount'[k] = connectCount[k]
      BY <1>1, <1>3, <1>4, <2>3
    <3>3. subscribed' \subseteq subscribed /\ subscribed \subseteq subscribed' \cup Table.unsubscribe[n]
      BY <1>1
    <3> QED BY <2>1, <3>1, <3>2, <3>3
  <2> QED BY <2>2, <2>3
<1>8. Balance'
  <2> SUFFICES ASSUME NEW k \in Counters, k \notin Table.raised
               PROVE  (Cardinality(ConnectedTo(k)) + Cardinality(PendingFor("disconnect", k))
                         <= connectCount[k] + Cardinality(PendingFor("connect", k)))'
    BY <1>2 DEF Balance
  <2>1. /\ PendingFor("connect", k)' = PendingFor("connect", k) \ {t}
        /\ PendingFor("disconnect", k)' = PendingFor("disconnect", k) \ {t}
        /\ t \in PendingFor("disconnect", k) <=> k = n
        /\ t \notin PendingFor("connect", k)
    BY <1>1, <1>2, CallMade DEF n
  <2>2. ConnectedTo(k)' = ConnectedTo(k)
    BY <1>1, <1>2 DEF ConnectedTo, Connected
  <2>3. Cardinality(ConnectedTo(k)) + Cardinality(PendingFor("disconnect", k))
          <= connectCount[k] + Cardinality(PendingFor("connect", k))
    BY DEF Inv, Balance
  <2>4. /\ connectCount'[k] = IF k = n THEN connectCount[k] - 1 ELSE connectCount[k]
        /\ connectCount[k] \in Int
    BY <1>1, <1>3, <1>4, <1>5
  <2>5. PendingFor("connect", k)' = PendingFor("connect", k)
    BY <2>1
  <2>6. Cardinality(PendingFor("disconnect", k)') =
          IF k = n THEN Cardinality(PendingFor("disconnect", k)) - 1
          ELSE Cardinality(PendingFor("disconnect", k))
    BY <1>2, <2>1, Finite, FS_RemoveElement
  <2> QED BY <1>2, <2>2, <2>3, <2>4, <2>5, <2>6, Finite
<1> QED BY <1>6, <1>7, <1>8 DEF Inv

LEMMA StutterKeepsInv ==
    ASSUME Inv, UNCHANGED vars
    PROVE  Inv'
<1>1. UNCHANGED <<class, connections, pending, connectCount, subscribed>>
  BY DEF vars
<1>2. Types' /\ Balance'
  BY <1>1 DEF Inv, Types, Balance, Call, ConnectedTo, PendingFor, Connected, Table, Signals, Counters
<1> QED BY <1>1, <1>2, SubscribedKeptByQt DEF Inv

LEMMA SpecInv == Spec => []Inv
<1>1. ASSUME Inv, [Next]_vars PROVE Inv'
  <2>1. ASSUME NEW t \in Threads,
               connectNotify(t) \/ disconnectNotify(t) \/ DisconnectAll(t)
        PROVE  Inv'
    BY <1>1, <2>1, NotifyConnectKeepsInv, NotifyDisconnectKeepsInv, DisconnectAllKeepsInv
  <2>2. ASSUME NEW t \in Threads, NEW r \in Receivers, NEW s \in Signals,
               Connect(t, r, s) \/ Disconnect(t, r, s)
        PROVE  Inv'
    BY <1>1, <2>2, ConnectKeepsInv, DisconnectKeepsInv
  <2> QED BY <1>1, <2>1, <2>2, StutterKeepsInv DEF Next
<1> QED BY <1>1, InitRelayInv, PTL DEF Spec

-----------------------------------------------------------------------------
\* The bus signals a class takes back are subscribed exactly while their
\* counter is positive.
THEOREM SubscriptionsFollowCounters == Spec => []SubscribedWhilePositive
<1>1. Inv => SubscribedWhilePositive
  BY DEF Inv
<1> QED BY <1>1, SpecInv, PTL

\* Once the notifications are made every connected signal, but the one whose
\* counter is only raised, has its bus signals subscribed.
THEOREM ConnectedIsDelivered == Spec => []SettledDelivered
<1>1. Inv => SettledDelivered
  <2> SUFFICES ASSUME Inv, Quiet, NEW p \in Connected, NEW k,
                      k = Table.counterOf[p[2]], k \notin Table.raised
               PROVE  Table.subscribe[k] \subseteq subscribed
    BY DEF SettledDelivered
  <2>1. Types /\ p \in Receivers \X Signals
    BY DEF Inv, Connected
  <2>2. k \in Counters
    BY <2>1, TableFacts
  <2>3. /\ PendingFor("connect", k) = {} /\ PendingFor("disconnect", k) = {}
    <3>1. NoCall.kind = "none"
      BY DEF NoCall
    <3> QED BY <3>1 DEF Quiet, PendingFor
  <2>4. ConnectedTo(k) # {}
    BY DEF ConnectedTo
  <2>5. Cardinality(ConnectedTo(k)) # 0 /\ Cardinality({}) = 0
    BY <2>1, <2>4, Finite, FS_EmptySet
  <2>6. connectCount[k] > 0
    <3>1. Cardinality(ConnectedTo(k)) + Cardinality(PendingFor("disconnect", k))
            <= connectCount[k] + Cardinality(PendingFor("connect", k))
      BY <2>2 DEF Inv, Balance
    <3>2. connectCount[k] \in Int /\ Cardinality(ConnectedTo(k)) \in Nat
      BY <2>1, <2>2, Finite DEF Types
    <3> QED BY <2>3, <2>5, <3>1, <3>2
  <2> QED BY <2>2, <2>6 DEF Inv, SubscribedWhilePositive
<1> QED BY <1>1, SpecInv, PTL

-----------------------------------------------------------------------------
(* As long as every call has removed one connection the counters are exact: *)
(* nothing is lost that a release would wait for.                           *)

\* The single connections that a counter is about: two to the same receiver
\* are told apart by their number.
Links(k) ==
    {x \in (Receivers \X Signals) \X {1, 2} :
        /\ x[2] <= connections[x[1][1]][x[1][2]]
        /\ Table.counterOf[x[1][2]] = k}

Exact ==
    ~bulk => \A k \in Counters \ Table.raised :
        connectCount[k] + Cardinality(PendingFor("connect", k))
            = Cardinality(Links(k)) + Cardinality(PendingFor("disconnect", k))

\* The single connections are finitely many.
LEMMA LinksFinite ==
    ASSUME Types, NEW k
    PROVE  IsFiniteSet(Links(k)) /\ Cardinality(Links(k)) \in Nat
<1>1. IsFiniteSet({1} \cup {2}) /\ {1} \cup {2} = {1, 2}
  BY FS_Singleton, FS_AddElement
<1>2. IsFiniteSet(Receivers \X Signals)
  BY RelayAssumption, TableFacts, FS_Product
<1>3. IsFiniteSet((Receivers \X Signals) \X {1, 2})
  BY <1>1, <1>2, FS_Product
<1>4. Links(k) \in SUBSET ((Receivers \X Signals) \X {1, 2})
  BY DEF Links
<1>5. IsFiniteSet(Links(k))
  BY <1>3, <1>4, FS_Subset
<1> QED BY <1>5, FS_CardinalityType

LEMMA InitExact == Init => Exact
<1> SUFFICES ASSUME Init, NEW k \in Counters
             PROVE  connectCount[k] + Cardinality(PendingFor("connect", k))
                      = Cardinality(Links(k)) + Cardinality(PendingFor("disconnect", k))
  BY DEF Exact
<1>1. Links(k) = {}
  BY DEF Init, Links
<1>2. \A kind \in {"connect", "disconnect"} : PendingFor(kind, k) = {}
  <2>1. NoCall.kind = "none"
    BY DEF NoCall
  <2> QED BY <2>1 DEF Init, PendingFor
<1>3. connectCount[k] = 0 /\ Cardinality({}) = 0
  BY FS_EmptySet DEF Init
<1> QED BY <1>1, <1>2, <1>3

\* A connection is one link more, and its notification is awaited.
LEMMA ConnectKeepsExact ==
    ASSUME Inv, Exact, NEW t \in Threads, NEW r \in Receivers, NEW s \in Signals,
           Connect(t, r, s)
    PROVE  Exact'
<1>1. /\ pending[t] = NoCall /\ connections[r][s] < 2
      /\ connections' = [connections EXCEPT ![r][s] = @ + 1]
      /\ pending' = [pending EXCEPT ![t] = [kind |-> "connect", signal |-> s]]
      /\ UNCHANGED <<class, bulk, connectCount, subscribed>>
  BY DEF Connect
<1>2. Types /\ Table' = Table /\ Signals' = Signals /\ Counters' = Counters
  BY <1>1 DEF Inv, Table, Signals, Counters
<1> SUFFICES ASSUME ~bulk, NEW k \in Counters, k \notin Table.raised
             PROVE  (connectCount[k] + Cardinality(PendingFor("connect", k))
                       = Cardinality(Links(k)) + Cardinality(PendingFor("disconnect", k)))'
  BY <1>1, <1>2 DEF Exact
<1>3. /\ t \notin PendingFor("connect", k)
      /\ PendingFor("disconnect", k)' = PendingFor("disconnect", k)
      /\ PendingFor("connect", k)' = IF k = Table.counterOf[s]
                                     THEN PendingFor("connect", k) \cup {t}
                                     ELSE PendingFor("connect", k)
  BY <1>1, <1>2, CallAdded, ZenonT(60)
<1>4. PICK n \in {1, 2} : n = connections[r][s] + 1
  BY <1>1, <1>2 DEF Types
<1> DEFINE new == <<<<r, s>>, n>>
<1>5. ASSUME NEW q \in Receivers, NEW u \in Signals, NEW i \in {1, 2}
      PROVE  i <= connections'[q][u] <=> i <= connections[q][u] \/ <<<<q, u>>, i>> = new
  <2>1. connections'[q][u] = IF q = r /\ u = s THEN n ELSE connections[q][u]
    BY <1>1, <1>2, <1>4 DEF Types
  <2>2. connections[q][u] \in 0..2 /\ connections[r][s] \in 0..2
    BY <1>2 DEF Types
  <2> QED BY <1>4, <2>1, <2>2
<1>6. Links(k)' = IF k = Table.counterOf[s] THEN Links(k) \cup {new} ELSE Links(k)
  BY <1>2, <1>5 DEF Links
<1>7. new \notin Links(k)
  BY <1>2, <1>4 DEF Links, Types
<1>8. connectCount[k] + Cardinality(PendingFor("connect", k))
        = Cardinality(Links(k)) + Cardinality(PendingFor("disconnect", k))
  BY DEF Exact
<1>9. connectCount'[k] = connectCount[k] /\ connectCount[k] \in Int
  BY <1>1, <1>2 DEF Types
<1>10. CASE k = Table.counterOf[s]
  <2>1. Cardinality(PendingFor("connect", k)') = Cardinality(PendingFor("connect", k)) + 1
    BY <1>2, <1>3, <1>10, Finite, FS_AddElement
  <2>2. Cardinality(Links(k)') = Cardinality(Links(k)) + 1
    BY <1>2, <1>6, <1>7, <1>10, LinksFinite, FS_AddElement
  <2>3. /\ Cardinality(PendingFor("connect", k)) \in Nat /\ Cardinality(Links(k)) \in Nat
        /\ Cardinality(PendingFor("disconnect", k)) \in Nat
    BY <1>2, Finite, LinksFinite
  <2> QED BY <1>3, <1>8, <1>9, <2>1, <2>2, <2>3
<1>11. CASE k # Table.counterOf[s]
  BY <1>3, <1>6, <1>8, <1>9, <1>11
<1> QED BY <1>10, <1>11

\* A disconnection of a single connection is one link less; another sets bulk.
LEMMA DisconnectKeepsExact ==
    ASSUME Inv, Exact, NEW t \in Threads, NEW r \in Receivers, NEW s \in Signals,
           Disconnect(t, r, s)
    PROVE  Exact'
<1>1. /\ pending[t] = NoCall /\ connections[r][s] > 0
      /\ connections' = [connections EXCEPT ![r][s] = 0]
      /\ pending' = [pending EXCEPT ![t] = [kind |-> "disconnect", signal |-> s]]
      /\ bulk' = (bulk \/ connections[r][s] > 1)
      /\ UNCHANGED <<class, connectCount, subscribed>>
  BY DEF Disconnect
<1>2. Types /\ Table' = Table /\ Signals' = Signals /\ Counters' = Counters
  BY <1>1 DEF Inv, Table, Signals, Counters
<1> SUFFICES ASSUME ~bulk', NEW k \in Counters, k \notin Table.raised
             PROVE  (connectCount[k] + Cardinality(PendingFor("connect", k))
                       = Cardinality(Links(k)) + Cardinality(PendingFor("disconnect", k)))'
  BY <1>1, <1>2 DEF Exact
<1>3. ~bulk /\ connections[r][s] = 1
  <2>1. ~bulk /\ ~(connections[r][s] > 1)
    BY <1>1, Zenon
  <2> QED BY <1>1, <1>2, <2>1 DEF Types
<1>4. /\ t \notin PendingFor("disconnect", k)
      /\ PendingFor("connect", k)' = PendingFor("connect", k)
      /\ PendingFor("disconnect", k)' = IF k = Table.counterOf[s]
                                        THEN PendingFor("disconnect", k) \cup {t}
                                        ELSE PendingFor("disconnect", k)
  BY <1>1, <1>2, CallAdded, ZenonT(60)
<1> DEFINE old == <<<<r, s>>, 1>>
<1>5. ASSUME NEW q \in Receivers, NEW u \in Signals, NEW i \in {1, 2}
      PROVE  i <= connections'[q][u] <=> i <= connections[q][u] /\ <<<<q, u>>, i>> # old
  <2>1. connections'[q][u] = IF q = r /\ u = s THEN 0 ELSE connections[q][u]
    BY <1>1, <1>2 DEF Types
  <2>2. connections[q][u] \in 0..2
    BY <1>2 DEF Types
  <2> QED BY <1>3, <2>1, <2>2
<1>6. Links(k)' = Links(k) \ {old}
  BY <1>2, <1>5 DEF Links
<1>7. old \in Links(k) <=> k = Table.counterOf[s]
  BY <1>3 DEF Links
<1>8. connectCount[k] + Cardinality(PendingFor("connect", k))
        = Cardinality(Links(k)) + Cardinality(PendingFor("disconnect", k))
  BY <1>3 DEF Exact
<1>9. connectCount'[k] = connectCount[k] /\ connectCount[k] \in Int
  BY <1>1, <1>2 DEF Types
<1>10. CASE k = Table.counterOf[s]
  <2>1. Cardinality(PendingFor("disconnect", k)') = Cardinality(PendingFor("disconnect", k)) + 1
    BY <1>2, <1>4, <1>10, Finite, FS_AddElement
  <2>2. Cardinality(Links(k)') = Cardinality(Links(k)) - 1
    <3>1. old \in Links(k) /\ Links(k)' = Links(k) \ {old}
      BY <1>6, <1>7, <1>10
    <3> HIDE DEF old
    <3> QED BY <1>2, <3>1, LinksFinite, FS_RemoveElement
  <2>3. /\ Cardinality(PendingFor("connect", k)) \in Nat /\ Cardinality(Links(k)) \in Nat
        /\ Cardinality(PendingFor("disconnect", k)) \in Nat
    BY <1>2, Finite, LinksFinite
  <2> QED BY <1>4, <1>8, <1>9, <2>1, <2>2, <2>3
<1>11. CASE k # Table.counterOf[s]
  <2>1. Links(k)' = Links(k)
    BY <1>6, <1>7, <1>11
  <2> QED BY <1>4, <1>8, <1>9, <1>11, <2>1
<1> QED BY <1>10, <1>11

\* A notification passes from those awaited to the counter.
LEMMA NotifyKeepsExact ==
    ASSUME Inv, Exact, NEW t \in Threads, connectNotify(t) \/ disconnectNotify(t)
    PROVE  Exact'
<1> DEFINE n == Table.counterOf[pending[t].signal]
<1>1. /\ pending[t].kind \in {"connect", "disconnect"}
      /\ pending' = [pending EXCEPT ![t] = NoCall]
      /\ connectCount' = IF pending[t].kind = "connect"
                         THEN [connectCount EXCEPT ![n] = @ + 1]
                         ELSE [connectCount EXCEPT ![n] = Lowered(n)]
      /\ UNCHANGED <<class, connections, bulk>>
  BY DEF connectNotify, disconnectNotify
<1>2. Types /\ Table' = Table /\ Signals' = Signals /\ Counters' = Counters
  BY <1>1 DEF Inv, Table, Signals, Counters
<1> SUFFICES ASSUME ~bulk, NEW k \in Counters, k \notin Table.raised
             PROVE  (connectCount[k] + Cardinality(PendingFor("connect", k))
                       = Cardinality(Links(k)) + Cardinality(PendingFor("disconnect", k)))'
  BY <1>1, <1>2 DEF Exact
<1>3. /\ PendingFor("connect", k)' = PendingFor("connect", k) \ {t}
      /\ PendingFor("disconnect", k)' = PendingFor("disconnect", k) \ {t}
      /\ t \in PendingFor("connect", k) <=> pending[t].kind = "connect" /\ k = n
      /\ t \in PendingFor("disconnect", k) <=> pending[t].kind = "disconnect" /\ k = n
  BY <1>1, <1>2, CallMade DEF n
<1>4. n \in Counters
  BY <1>1, <1>2, CallTypes
<1> HIDE DEF n
<1>5. Links(k)' = Links(k)
  BY <1>1, <1>2 DEF Links
<1>6. connectCount[k] + Cardinality(PendingFor("connect", k))
        = Cardinality(Links(k)) + Cardinality(PendingFor("disconnect", k))
  BY DEF Exact
<1>7. connectCount \in [Counters -> Int] /\ connectCount[k] \in Int
  BY <1>2 DEF Types
<1>8. Cardinality(PendingFor("connect", k)') =
        IF pending[t].kind = "connect" /\ k = n THEN Cardinality(PendingFor("connect", k)) - 1
        ELSE Cardinality(PendingFor("connect", k))
  BY <1>2, <1>3, Finite, FS_RemoveElement
<1>9. Cardinality(PendingFor("disconnect", k)') =
        IF pending[t].kind = "disconnect" /\ k = n
        THEN Cardinality(PendingFor("disconnect", k)) - 1
        ELSE Cardinality(PendingFor("disconnect", k))
  BY <1>2, <1>3, Finite, FS_RemoveElement
<1>10. /\ Cardinality(PendingFor("connect", k)) \in Nat /\ Cardinality(Links(k)) \in Nat
       /\ Cardinality(PendingFor("disconnect", k)) \in Nat
  BY <1>2, Finite, LinksFinite
<1>11. connectCount'[k] =
         IF k # n THEN connectCount[k]
         ELSE IF pending[t].kind = "connect" THEN connectCount[k] + 1 ELSE connectCount[k] - 1
  BY <1>1, <1>4, <1>7 DEF Lowered
<1> QED BY <1>1, <1>5, <1>6, <1>7, <1>8, <1>9, <1>10, <1>11

LEMMA SpecExact == Spec => []Exact
<1>1. ASSUME Inv, Exact, [Next]_vars PROVE Exact'
  <2>1. ASSUME NEW t \in Threads, connectNotify(t) \/ disconnectNotify(t)
        PROVE  Exact'
    BY <1>1, <2>1, NotifyKeepsExact
  <2>2. ASSUME NEW t \in Threads, DisconnectAll(t)
        PROVE  Exact'
    BY <2>2 DEF DisconnectAll, Exact
  <2>3. ASSUME NEW t \in Threads, NEW r \in Receivers, NEW s \in Signals,
               Connect(t, r, s) \/ Disconnect(t, r, s)
        PROVE  Exact'
    BY <1>1, <2>3, ConnectKeepsExact, DisconnectKeepsExact
  <2>4. CASE UNCHANGED vars
    BY <1>1, <2>4 DEF vars, Exact, Links, PendingFor, Table, Signals, Counters
  <2> QED BY <1>1, <2>1, <2>2, <2>3, <2>4 DEF Next
<1> QED BY <1>1, InitExact, SpecInv, PTL DEF Spec

\* Once the notifications are made, a counter whose connections have all been
\* removed one at a time has given back what its class takes back.
THEOREM RemovedIsReleased == Spec => []SettledReleased
<1>1. Inv /\ Exact => SettledReleased
  <2> SUFFICES ASSUME Inv, Exact, Quiet, ~bulk, NEW k \in Counters, k \notin Table.raised,
                      \A p \in Connected : Table.counterOf[p[2]] # k
               PROVE  Table.unsubscribe[k] \cap subscribed = {}
    BY DEF SettledReleased
  <2>1. Types
    BY DEF Inv
  <2>2. PendingFor("connect", k) = {} /\ PendingFor("disconnect", k) = {}
    <3>1. NoCall.kind = "none"
      BY DEF NoCall
    <3> QED BY <3>1 DEF Quiet, PendingFor
  <2>3. Links(k) = {}
    <3> SUFFICES ASSUME NEW x \in Links(k)
                 PROVE  FALSE
      OBVIOUS
    <3>1. PICK r \in Receivers, s \in Signals, i \in {1, 2} :
            x = <<<<r, s>>, i>> /\ i <= connections[r][s] /\ Table.counterOf[s] = k
      BY DEF Links
    <3>2. <<r, s>> \in Connected
      BY <2>1, <3>1 DEF Connected, Types
    <3> QED BY <3>1, <3>2
  <2>4. connectCount[k] \in Int /\ Cardinality({}) = 0
    BY <2>1, FS_EmptySet DEF Types
  <2>5. connectCount[k] = 0
    BY <2>2, <2>3, <2>4 DEF Exact
  <2> QED BY <2>5 DEF Inv, SubscribedWhilePositive
<1> QED BY <1>1, SpecInv, SpecExact, PTL
=============================================================================
