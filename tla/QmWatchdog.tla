------------------------------- MODULE QmWatchdog ----------------------------
(***************************************************************************)
(* One QmProcessWatchdog object and the watchdog service of DSME, which is *)
(* external: it pings a process that has registered, over the connection   *)
(* it registered with, and kills one that does not answer.  A message may  *)
(* fail to be sent.                                                        *)
(***************************************************************************)
EXTENDS Naturals

CONSTANT MaxConnections    \* bound on the connections that are opened

VARIABLES
    conn,            \* the connection, or NoConn
    made,            \* the number of connections made so far
    listening,       \* the connections whose notifier is there
    notified,        \* the connection of the notifier pointed to, or NoConn
    watched,         \* DSME watches the process, over this connection
    pinged,          \* connections with a ping that has not been read
    unanswered,      \* history: a ping was emitted and not yet answered
    neglected        \* history: DSME was not told, or start was called twice

watchdogVars ==
    <<conn, made, listening, notified, watched, pinged, unanswered, neglected>>

NoConn == 0

WatchdogInit ==
    /\ conn = NoConn /\ made = 0 /\ notified = NoConn /\ watched = NoConn
    /\ listening = {} /\ pinged = {}
    /\ unanswered = FALSE /\ neglected = FALSE

\* Connect, register, listen.  Without a connection, or after a registration
\* that fails, conn is NULL, also when there was a connection before.
start ==
    /\ made < MaxConnections
    /\ neglected' = (neglected \/ conn # NoConn)
    /\ \/ /\ conn' = made + 1
          /\ made' = made + 1
          /\ watched' = made + 1
          /\ notified' = made + 1
          /\ listening' = listening \cup {made + 1}
       \/ /\ conn' = NoConn
          /\ UNCHANGED <<made, watched, notified, listening>>
    /\ UNCHANGED <<pinged, unanswered>>

\* Mutant: the connection is closed first, and the message is lost.
Unregistered_Closed(sent) == watched

Unregistered(sent) == IF sent THEN NoConn ELSE watched

\* Stop listening, unregister, close; always true.  The destructor does it too.
stop ==
    /\ listening' = listening \ {notified}
    /\ notified' = NoConn
    /\ \/ /\ conn # NoConn
          /\ \E sent \in BOOLEAN :
                /\ watched' = Unregistered(sent)
                /\ neglected' = (neglected \/ ~sent)
          /\ pinged' = pinged \ {conn}
          /\ conn' = NoConn
       \/ /\ conn = NoConn
          /\ UNCHANGED <<conn, watched, pinged, neglected>>
    /\ UNCHANGED <<made, unanswered>>

\* Only with a connection is there somebody to send the answer to.
pong ==
    /\ conn # NoConn
    /\ unanswered' \in {unanswered, FALSE}
    /\ UNCHANGED <<conn, made, listening, notified, watched, pinged, neglected>>

\* A notifier fires.  The current connection is read, and only if the notifier
\* is its own; another one fires on and on.
readable(c) ==
    /\ c \in listening \cap pinged
    /\ c = conn
    /\ pinged' = pinged \ {c}
    /\ unanswered' = TRUE
    /\ UNCHANGED <<conn, made, listening, notified, watched, neglected>>

\* DSME pings the process it watches.
Ping ==
    /\ watched # NoConn
    /\ pinged' = pinged \cup {watched}
    /\ UNCHANGED <<conn, made, listening, notified, watched, unanswered, neglected>>

WatchdogNext ==
    \/ start
    \/ stop
    \/ pong
    \/ Ping
    \/ \E c \in 1..MaxConnections : readable(c)

WatchdogSpec == WatchdogInit /\ [][WatchdogNext]_watchdogVars

-----------------------------------------------------------------------------
\* A process that DSME watches can answer: it listens to the connection it
\* registered with and sends over it, so a ping is read and a pong arrives.  A
\* process that has stopped is not watched, whatever start and stop were called
\* before; but for a second start without stop, and a message that was lost.
WatchedCanAnswer ==
    watched # NoConn /\ ~neglected => conn = watched /\ watched \in listening
==============================================================================
