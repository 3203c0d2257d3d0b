------------------------------- MODULE QmSensor ------------------------------
(***************************************************************************)
(* The sessions and the running state of the eight sensor classes          *)
(* (accelerometer, ALS, compass, magnetometer, orientation, proximity,     *)
(* rotation, tap).  Several client objects ask the sensor daemon, sensord, *)
(* for sessions on one sensor; at most one of them gets the control        *)
(* session.  sensord is external: it may refuse any session, and it may be *)
(* stopped and started, which ends every session without telling anybody.  *)
(* A call of the library is one step; the replies of sensord other than    *)
(* the session itself are ignored by the code.  Left out are the texts of  *)
(* errors (setError), which every refused branch sets before it falls back.*)
(***************************************************************************)
EXTENDS Naturals

CONSTANTS
    Clients,         \* QmSensor objects
    Uninitialised    \* those whose sensorIfc starts with no value (QmTap)

ASSUME SensorAssumption == Uninitialised \subseteq Clients

VARIABLES
    alive,       \* the object exists
    session,     \* sessionType_
    ifc,         \* what sensorIfc points to: a channel of some type, or not
    running,     \* running_
    connected,   \* connections of the channel's data signal to the object
    up,          \* sensord is there
    remote       \* what sensord keeps for each object

objectVars == <<alive, session, ifc, running, connected>>
sessionVars == <<objectVars, up, remote>>

\* SessionType, in the order the enumeration has.
SessionTypes == 0..2
SessionTypeNone == 0
SessionTypeListen == 1
SessionTypeControl == 2

Null == 0            \* otherwise ifc is the type of the channel
Garbage == 3         \* a pointer nobody has assigned

NoSession == [type |-> SessionTypeNone, running |-> FALSE]

SessionInit ==
    /\ alive = [c \in Clients |-> TRUE]
    /\ session = [c \in Clients |-> SessionTypeNone]
    /\ ifc \in [Clients -> {Null, Garbage}]
    /\ \A c \in Clients : ifc[c] = Garbage => c \in Uninitialised
    /\ running = [c \in Clients |-> FALSE]
    /\ connected = [c \in Clients |-> 0]
    /\ up = TRUE
    /\ remote = [c \in Clients |-> NoSession]

-----------------------------------------------------------------------------
\* sensord grants a type if it wants to, control only to one client.
Grantable(c) ==
    {type \in SessionTypes :
        type = SessionTypeControl =>
            \A d \in Clients \ {c} : remote[d].type # SessionTypeControl}

\* start() and stop() of a channel reach sensord if it knows the session.
Commanded(c, on) ==
    [remote[c] EXCEPT !.running = IF remote[c].type = SessionTypeNone THEN FALSE ELSE on]

\* QmSensor::start: nothing if it is running; an error without a session;
\* otherwise the channel is started and its data signal connected.
startSensor(c) ==
    /\ alive[c]
    /\ IF running[c] \/ ifc[c] = Null THEN UNCHANGED <<running, connected, remote>>
       ELSE /\ ifc[c] # Garbage
            /\ running' = [running EXCEPT ![c] = TRUE]
            /\ connected' = [connected EXCEPT ![c] = @ + 1]
            /\ remote' = [remote EXCEPT ![c] = Commanded(c, TRUE)]
    /\ UNCHANGED <<alive, session, ifc, up>>

\* Mutant: the signals stay connected.
stopSensor_StaysConnected(c) ==
    /\ alive[c]
    /\ IF running[c]
       THEN /\ running' = [running EXCEPT ![c] = FALSE]
            /\ remote' = [remote EXCEPT ![c] = Commanded(c, FALSE)]
            /\ UNCHANGED connected
       ELSE UNCHANGED <<running, connected, remote>>
    /\ UNCHANGED <<alive, session, ifc, up>>

\* QmSensor::stop, and closeSession, which does nothing else.
stopSensor(c) ==
    /\ alive[c]
    /\ IF running[c]
       THEN /\ running' = [running EXCEPT ![c] = FALSE]
            /\ connected' = [connected EXCEPT ![c] = 0]
            /\ remote' = [remote EXCEPT ![c] = Commanded(c, FALSE)]
       ELSE UNCHANGED <<running, connected, remote>>
    /\ UNCHANGED <<alive, session, ifc, up>>

\* stop() as the first part of another call.
Stopped(c) ==
    /\ running' = [running EXCEPT ![c] = FALSE]
    /\ connected' = [connected EXCEPT ![c] = IF running[c] THEN 0 ELSE @]

\* requestSession when sensord cannot be reached: whatever type is asked for, a
\* session that was open before is kept, although stopped.
requestSession_NoManager(c) ==
    /\ alive[c] /\ ~up
    /\ Stopped(c)
    /\ remote' = [remote EXCEPT ![c] =
                    IF running[c] THEN Commanded(c, FALSE) ELSE @]
    /\ UNCHANGED <<alive, session, ifc, up>>

\* Mutants: the session type is the one asked for although the daemon gave a
\* lower one; a running object is not stopped before its channel is replaced.
Granted_AsAsked(c, type, got) ==
    /\ got <= type
    /\ session' = [session EXCEPT ![c] = type]
    /\ ifc' = [ifc EXCEPT ![c] = got]
    /\ remote' = [remote EXCEPT ![c] = [type |-> got, running |-> FALSE]]
    /\ Stopped(c)
Granted_NotStopped(c, type, got) ==
    /\ got <= type
    /\ session' = [session EXCEPT ![c] = got]
    /\ ifc' = [ifc EXCEPT ![c] = got]
    /\ remote' = [remote EXCEPT ![c] = [type |-> got, running |-> FALSE]]
    /\ connected' = [connected EXCEPT ![c] = 0]
    /\ UNCHANGED running

\* The outcome of the loop: a new channel of the type that was granted, none of
\* whose signals is connected, or none at all.
Granted(c, type, got) ==
    /\ got <= type
    /\ session' = [session EXCEPT ![c] = got]
    /\ ifc' = [ifc EXCEPT ![c] = got]
    /\ remote' = [remote EXCEPT ![c] = [type |-> got, running |-> FALSE]]
    /\ Stopped(c)

\* requestSession: stop, close the session there was, then try Control, Listen
\* and None in this order from the type that was asked for.
requestSession(c, type) ==
    /\ alive[c] /\ up
    /\ \/ /\ type # SessionTypeNone
          /\ \E got \in Grantable(c) : Granted(c, type, got)
       \/ /\ type = SessionTypeNone /\ session[c] # SessionTypeNone
          /\ Granted(c, type, SessionTypeNone)
       \/ /\ type = SessionTypeNone /\ session[c] = SessionTypeNone
          /\ UNCHANGED <<session, ifc, remote, running, connected>>
    /\ UNCHANGED <<alive, up>>

\* Mutant: the channel is not deleted.
destroy_KeepsChannel(c) ==
    /\ alive[c] /\ ifc[c] # Garbage
    /\ alive' = [alive EXCEPT ![c] = FALSE]
    /\ session' = [session EXCEPT ![c] = SessionTypeNone]
    /\ ifc' = [ifc EXCEPT ![c] = Null]
    /\ running' = [running EXCEPT ![c] = FALSE]
    /\ connected' = [connected EXCEPT ![c] = 0]
    /\ UNCHANGED remote
    /\ UNCHANGED up

\* The destructor closes the session: the channel is stopped and deleted.
destroy(c) ==
    /\ alive[c] /\ ifc[c] # Garbage
    /\ alive' = [alive EXCEPT ![c] = FALSE]
    /\ session' = [session EXCEPT ![c] = SessionTypeNone]
    /\ ifc' = [ifc EXCEPT ![c] = Null]
    /\ running' = [running EXCEPT ![c] = FALSE]
    /\ connected' = [connected EXCEPT ![c] = 0]
    /\ remote' = [remote EXCEPT ![c] = NoSession]
    /\ UNCHANGED up

\* start() or the destructor goes through a pointer that was never assigned.
Crash(c) ==
    /\ alive[c] /\ ifc[c] = Garbage
    /\ alive' = [alive EXCEPT ![c] = FALSE]
    /\ UNCHANGED <<session, ifc, running, connected, up, remote>>

\* sensord goes away and comes back; the library does not notice.
SensordStops ==
    /\ up
    /\ up' = FALSE
    /\ remote' = [c \in Clients |-> NoSession]
    /\ UNCHANGED objectVars

SensordStarts ==
    /\ ~up
    /\ up' = TRUE
    /\ UNCHANGED <<objectVars, remote>>

SessionNext ==
    \/ \E c \in Clients :
          \/ startSensor(c) \/ stopSensor(c) \/ destroy(c) \/ Crash(c)
          \/ requestSession_NoManager(c)
          \/ \E type \in SessionTypes :
                requestSession(c, type)
    \/ SensordStops \/ SensordStarts

SessionSpec == SessionInit /\ [][SessionNext]_sessionVars

-----------------------------------------------------------------------------
SessionTypeOK ==
    /\ alive \in [Clients -> BOOLEAN]
    /\ session \in [Clients -> SessionTypes]
    /\ ifc \in [Clients -> 0..3]
    /\ running \in [Clients -> BOOLEAN]
    /\ connected \in [Clients -> Nat]
    /\ up \in BOOLEAN
    /\ remote \in [Clients -> [type : SessionTypes, running : BOOLEAN]]

\* The session type an object reports is the type of the channel it holds, and
\* it runs only with a session: the getters of the subclasses test the type and
\* then go through the pointer.
SessionHasChannel ==
    \A c \in Clients :
        /\ ifc[c] = session[c] \/ (ifc[c] = Garbage /\ session[c] = SessionTypeNone)
        /\ running[c] => session[c] # SessionTypeNone

\* Each reading is delivered once while the object runs, and not at all when it
\* does not, whatever sequence of calls led there.
ReadingsOnce ==
    \A c \in Clients : connected[c] = IF running[c] THEN 1 ELSE 0

\* sensord measures for an object exactly while the object runs, unless it has
\* lost the object's session: nothing is left measuring behind a stopped
\* object, and no replaced channel is taken for a running one.
RunningIsMeasuring ==
    \A c \in Clients :
        /\ remote[c].running => running[c]
        /\ running[c] /\ remote[c].type # SessionTypeNone => remote[c].running

\* sensord never holds a session for an object that does not know of it: the
\* control session is not blocked by an object that has closed it, has been
\* refused it or is gone.
NoOrphanSession ==
    \A c \in Clients : remote[c].type \in {SessionTypeNone, session[c]}
=============================================================================
