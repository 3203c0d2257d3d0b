------------------------------ MODULE SignalRelay ----------------------------
(***************************************************************************)
(* How the D-Bus classes of the library subscribe to bus signals only      *)
(* while somebody is connected to their own: connectNotify and             *)
(* disconnectNotify count the connections under a mutex.  Qt is external:  *)
(* it changes its connection list first and calls the notification after,  *)
(* from whichever thread made the call, once per call and not once per     *)
(* connection; disconnecting all signals at once names none of them.       *)
(***************************************************************************)
EXTENDS RelayTables, FiniteSets

CONSTANTS
    Classes,          \* tables of the classes, by name
    Threads,          \* threads of the application
    Receivers,        \* objects connected to the signals
    MaxConnections,   \* bound: connections at a time
    MaxCount          \* bound on a counter that is only raised

\* Every signal has a counter, a class takes back only what it has subscribed
\* to, and no two counters of a class share a bus signal.
WellFormed(table) ==
    LET counters == DOMAIN table.subscribe
    IN  /\ IsFiniteSet(DOMAIN table.counterOf)
        /\ table.counterOf \in [DOMAIN table.counterOf -> counters]
        /\ \A k \in counters : table.unsubscribe[k] \subseteq table.subscribe[k]
        /\ \A j, k \in counters :
              j # k => table.subscribe[j] \cap table.subscribe[k] = {}

ASSUME RelayAssumption ==
    /\ \A c \in DOMAIN Classes : WellFormed(Classes[c])
    /\ IsFiniteSet(Threads) /\ IsFiniteSet(Receivers)
    /\ MaxConnections \in Nat /\ MaxCount \in Nat

VARIABLES
    class,         \* the class of the object
    connections,   \* Qt: number of connections of each signal to each receiver
    pending,       \* Qt: the notification each thread is about to make
    bulk,          \* history: a call removed several connections at once
    connectCount,  \* connectCount[] of the private object
    subscribed     \* bus signals that reach the private object

vars == <<class, connections, pending, bulk, connectCount, subscribed>>

Table == Classes[class]
Signals == DOMAIN Table.counterOf
Counters == DOMAIN Table.subscribe
NoCall == [kind |-> "none", signal |-> "none"]

Init ==
    /\ class \in DOMAIN Classes
    /\ connections = [r \in Receivers |-> [s \in Signals |-> 0]]
    /\ pending = [t \in Threads |-> NoCall]
    /\ bulk = FALSE
    /\ connectCount = [k \in Counters |-> 0]
    /\ subscribed = {}

\* Pairs of a receiver and a signal with a connection between them.
Connected == {p \in Receivers \X Signals : connections[p[1]][p[2]] > 0}

-----------------------------------------------------------------------------
\* Qt.
Connect(t, r, s) ==
    /\ pending[t] = NoCall
    /\ Cardinality(Connected) < MaxConnections /\ connections[r][s] < 2
    /\ connections' = [connections EXCEPT ![r][s] = @ + 1]
    /\ pending' = [pending EXCEPT ![t] = [kind |-> "connect", signal |-> s]]
    /\ UNCHANGED <<class, bulk, connectCount, subscribed>>

\* All the connections of one signal to one receiver; no call without any.
Disconnect(t, r, s) ==
    /\ pending[t] = NoCall
    /\ connections[r][s] > 0
    /\ connections' = [connections EXCEPT ![r][s] = 0]
    /\ pending' = [pending EXCEPT ![t] = [kind |-> "disconnect", signal |-> s]]
    /\ bulk' = (bulk \/ connections[r][s] > 1)
    /\ UNCHANGED <<class, connectCount, subscribed>>

\* All signals at once: the notification names no signal, so no branch of
\* disconnectNotify is taken.
DisconnectAll(t) ==
    /\ pending[t] = NoCall
    /\ Connected # {}
    /\ connections' = [r \in Receivers |-> [s \in Signals |-> 0]]
    /\ bulk' = TRUE
    /\ UNCHANGED <<class, pending, connectCount, subscribed>>

-----------------------------------------------------------------------------
\* connectNotify, under connectMutex.
connectNotify(t) ==
    /\ pending[t].kind = "connect"
    /\ LET k == Table.counterOf[pending[t].signal]
       IN  /\ subscribed' = IF connectCount[k] = 0
                            THEN subscribed \cup Table.subscribe[k] ELSE subscribed
           /\ connectCount[k] < MaxCount
           /\ connectCount' = [connectCount EXCEPT ![k] = @ + 1]
    /\ pending' = [pending EXCEPT ![t] = NoCall]
    /\ UNCHANGED <<class, connections, bulk>>

\* Mutants: the counter is tested before it is lowered; every disconnection
\* unsubscribes.
Unsubscribed_TestedFirst(k, count) ==
    IF count = -1 THEN subscribed \ Table.unsubscribe[k] ELSE subscribed
Unsubscribed_Always(k, count) == subscribed \ Table.unsubscribe[k]

\* The counter of a signal after a disconnection.
Lowered(k) == IF k \in Table.raised THEN connectCount[k] + 1 ELSE connectCount[k] - 1

\* The subscriptions once the counter has got its new value.
Unsubscribed(k, count) ==
    IF count = 0 THEN subscribed \ Table.unsubscribe[k] ELSE subscribed

\* disconnectNotify, under connectMutex.
disconnectNotify(t) ==
    /\ pending[t].kind = "disconnect"
    /\ LET k == Table.counterOf[pending[t].signal]
       IN  /\ Lowered(k) <= MaxCount
           /\ connectCount' = [connectCount EXCEPT ![k] = Lowered(k)]
           /\ subscribed' = Unsubscribed(k, Lowered(k))
    /\ pending' = [pending EXCEPT ![t] = NoCall]
    /\ UNCHANGED <<class, connections, bulk>>

Next ==
    \E t \in Threads :
        \/ connectNotify(t) \/ disconnectNotify(t) \/ DisconnectAll(t)
        \/ \E r \in Receivers, s \in Signals : Connect(t, r, s) \/ Disconnect(t, r, s)

Spec == Init /\ [][Next]_vars

-----------------------------------------------------------------------------
\* A counter goes below zero by the disconnections that overtake connections
\* in other threads, and no further.
TypeOK ==
    /\ class \in DOMAIN Classes
    /\ connections \in [Receivers -> [Signals -> 0..2]]
    /\ pending \in [Threads ->
                     [kind : {"connect", "disconnect"}, signal : Signals] \cup {NoCall}]
    /\ bulk \in BOOLEAN
    /\ connectCount \in [Counters -> (1 - Cardinality(Threads)) .. MaxCount]
    /\ subscribed \subseteq UNION {Table.subscribe[k] : k \in Counters}

Quiet == \A t \in Threads : pending[t] = NoCall

\* The bus signals that the class takes back are subscribed exactly while their
\* counter is positive: the 0-to-1 and 1-to-0 tests of connectNotify and
\* disconnectNotify agree also when a disconnection overtakes a connection and
\* the counter goes below zero.  A counter that is only raised is left out.
SubscribedWhilePositive ==
    \A k \in Counters \ Table.raised :
        IF connectCount[k] > 0 THEN Table.subscribe[k] \subseteq subscribed
        ELSE Table.unsubscribe[k] \cap subscribed = {}

\* Once the notifications have been made, a signal that somebody is connected
\* to has all its bus signals subscribed: in whatever order the threads came
\* through the mutex, and however many connections a call removed.  It fails
\* for the counter that is only raised: a disconnection that overtakes the
\* first connection leaves it at one with nothing subscribed, for good.
SettledDelivered ==
    Quiet => \A p \in Connected :
        LET k == Table.counterOf[p[2]]
        IN  k \notin Table.raised => Table.subscribe[k] \subseteq subscribed

\* Once the notifications have been made, a counter whose connections have all
\* been removed one at a time leaves no subscription behind that the class
\* takes back at all, except the counter that is never lowered.
SettledReleased ==
    (Quiet /\ ~bulk) =>
        \A k \in Counters \ Table.raised :
            (\A p \in Connected : Table.counterOf[p[2]] # k)
                => Table.unsubscribe[k] \cap subscribed = {}
=============================================================================
