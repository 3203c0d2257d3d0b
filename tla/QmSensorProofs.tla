---------------------------- MODULE QmSensorProofs ---------------------------
(***************************************************************************)
(* Proofs about QmSensor, for any set of objects: the four records of a    *)
(* session (the type an object reports, its channel, its connections and   *)
(* what sensord keeps) stay in step.  The safety properties of the module  *)
(* are inductive together; none of them is on its own.                     *)
(***************************************************************************)
EXTENDS QmSensor, TLAPS

\* The safety properties, of one object.
InStep(c) ==
    /\ ifc[c] = session[c] \/ (ifc[c] = Garbage /\ session[c] = SessionTypeNone)
    /\ running[c] => session[c] # SessionTypeNone
    /\ connected[c] = IF running[c] THEN 1 ELSE 0
    /\ remote[c].running => running[c]
    /\ running[c] /\ remote[c].type # SessionTypeNone => remote[c].running
    /\ remote[c].type \in {SessionTypeNone, session[c]}

Inv == SessionTypeOK /\ \A c \in Clients : InStep(c)

\* The initial state.
LEMMA InitInv == SessionInit => Inv
<1> SUFFICES ASSUME SessionInit PROVE Inv
  OBVIOUS
<1>1. SessionTypeOK
  BY DEF SessionInit, SessionTypeOK, SessionTypes, SessionTypeNone, Null, Garbage, NoSession
<1>2. \A c \in Clients : InStep(c)
  BY DEF SessionInit, InStep, SessionTypeNone, Null, Garbage, NoSession
<1> QED BY <1>1, <1>2 DEF Inv

\* A call to start or stop as sensord sees it.
LEMMA CommandedSession ==
    ASSUME SessionTypeOK, NEW c \in Clients, NEW on \in BOOLEAN
    PROVE  /\ Commanded(c, on) \in [type : SessionTypes, running : BOOLEAN]
           /\ Commanded(c, on).type = remote[c].type
           /\ Commanded(c, on).running = IF remote[c].type = SessionTypeNone
                                         THEN FALSE ELSE on
BY DEF SessionTypeOK, Commanded, SessionTypeNone

\* A step that changes what is kept for one object leaves the others in step.
LEMMA OneObject ==
    ASSUME Inv, SessionTypeOK', NEW c \in Clients, InStep(c)',
           \A d \in Clients \ {c} :
               /\ ifc'[d] = ifc[d] /\ session'[d] = session[d]
               /\ running'[d] = running[d] /\ connected'[d] = connected[d]
               /\ remote'[d] = remote[d]
    PROVE  Inv'
<1>1. ASSUME NEW d \in Clients, d # c PROVE InStep(d)'
  BY <1>1 DEF Inv, InStep
<1> QED BY <1>1 DEF Inv

\* The types of what is kept for one object.
LEMMA ObjectTypes ==
    ASSUME SessionTypeOK, NEW c \in Clients
    PROVE  /\ session[c] \in SessionTypes /\ ifc[c] \in 0..3
           /\ running[c] \in BOOLEAN /\ connected[c] \in Nat
           /\ remote[c] \in [type : SessionTypes, running : BOOLEAN]
           /\ remote[c].type \in SessionTypes /\ remote[c].running \in BOOLEAN
BY DEF SessionTypeOK

\* start() of an object.
LEMMA StartKeepsInv ==
    ASSUME Inv, NEW c \in Clients, startSensor(c) PROVE Inv'
<1>1. SessionTypeOK /\ InStep(c)
  BY DEF Inv
<1>2. CASE running[c] \/ ifc[c] = Null
  <2>1. UNCHANGED <<alive, session, ifc, running, connected, up, remote>>
    BY <1>2 DEF startSensor
  <2> QED BY <2>1 DEF Inv, SessionTypeOK, InStep
<1>3. CASE ~(running[c] \/ ifc[c] = Null)
  <2>1. /\ Commanded(c, TRUE) \in [type : SessionTypes, running : BOOLEAN]
        /\ Commanded(c, TRUE).type = remote[c].type
        /\ Commanded(c, TRUE).running = IF remote[c].type = SessionTypeNone
                                        THEN FALSE ELSE TRUE
    BY <1>1, CommandedSession
  <2>2. /\ ifc[c] # Garbage
        /\ running' = [running EXCEPT ![c] = TRUE]
        /\ connected' = [connected EXCEPT ![c] = @ + 1]
        /\ remote' = [remote EXCEPT ![c] = Commanded(c, TRUE)]
        /\ UNCHANGED <<alive, session, ifc, up>>
    BY <1>3 DEF startSensor
  <2>3. SessionTypeOK'
    <3>1. remote' \in [Clients -> [type : SessionTypes, running : BOOLEAN]]
      BY <1>1, <2>1, <2>2 DEF SessionTypeOK
    <3>2. connected' \in [Clients -> Nat] /\ running' \in [Clients -> BOOLEAN]
      BY <1>1, <2>2 DEF SessionTypeOK
    <3> QED BY <1>1, <2>2, <3>1, <3>2 DEF SessionTypeOK
  <2>4. InStep(c)'
    <3>1. /\ session'[c] = session[c] /\ ifc'[c] = ifc[c]
          /\ running'[c] = TRUE /\ connected'[c] = connected[c] + 1
          /\ remote'[c] = Commanded(c, TRUE)
      BY <1>1, <2>2 DEF SessionTypeOK
    <3>2. session[c] # SessionTypeNone /\ connected[c] = 0
      BY <1>1, <1>3, <2>2, ObjectTypes DEF InStep, Null, SessionTypeNone
    <3>3. connected'[c] = 1 /\ running'[c]
      BY <3>1, <3>2
    <3>4. /\ remote'[c].type = remote[c].type
          /\ remote'[c].type # SessionTypeNone => remote'[c].running
      BY <2>1, <3>1
    <3>5. /\ ifc[c] = session[c] \/ (ifc[c] = Garbage /\ session[c] = SessionTypeNone)
          /\ remote[c].type \in {SessionTypeNone, session[c]}
            BY <1>1 DEF InStep
    <3> QED BY <3>1, <3>2, <3>3, <3>4, <3>5, Zenon DEF InStep
  <2> QED BY <1>1, <2>2, <2>3, <2>4, OneObject DEF SessionTypeOK
<1> QED BY <1>2, <1>3

\* stop() of an object.
LEMMA StopKeepsInv ==
    ASSUME Inv, NEW c \in Clients, stopSensor(c) PROVE Inv'
<1>1. SessionTypeOK /\ InStep(c)
  BY DEF Inv
<1>2. CASE ~running[c]
  <2>1. UNCHANGED <<alive, session, ifc, running, connected, up, remote>>
    BY <1>2 DEF stopSensor
  <2> QED BY <2>1 DEF Inv, SessionTypeOK, InStep
<1>3. CASE running[c]
  <2>1. /\ Commanded(c, FALSE) \in [type : SessionTypes, running : BOOLEAN]
        /\ Commanded(c, FALSE).type = remote[c].type
        /\ Commanded(c, FALSE).running = FALSE
    BY <1>1, CommandedSession
  <2>2. /\ running' = [running EXCEPT ![c] = FALSE]
        /\ connected' = [connected EXCEPT ![c] = 0]
        /\ remote' = [remote EXCEPT ![c] = Commanded(c, FALSE)]
        /\ UNCHANGED <<alive, session, ifc, up>>
    BY <1>3 DEF stopSensor
  <2>3. SessionTypeOK'
    <3>1. remote' \in [Clients -> [type : SessionTypes, running : BOOLEAN]]
      BY <1>1, <2>1, <2>2 DEF SessionTypeOK
    <3>2. connected' \in [Clients -> Nat] /\ running' \in [Clients -> BOOLEAN]
      BY <1>1, <2>2 DEF SessionTypeOK
    <3> QED BY <1>1, <2>2, <3>1, <3>2 DEF SessionTypeOK
  <2>4. InStep(c)'
    <3>1. /\ session'[c] = session[c] /\ ifc'[c] = ifc[c]
          /\ connected'[c] = 0 /\ remote'[c] = Commanded(c, FALSE)
      BY <1>1, <2>2 DEF SessionTypeOK
    <3>2. ~running'[c]
      BY <1>1, <2>2 DEF SessionTypeOK
    <3>3. remote'[c].type = remote[c].type /\ ~remote'[c].running
      BY <2>1, <3>1
    <3>4. /\ ifc[c] = session[c] \/ (ifc[c] = Garbage /\ session[c] = SessionTypeNone)
          /\ remote[c].type \in {SessionTypeNone, session[c]}
            BY <1>1 DEF InStep
    <3> QED BY <3>1, <3>2, <3>3, <3>4, Zenon DEF InStep
  <2> QED BY <1>1, <2>2, <2>3, <2>4, OneObject DEF SessionTypeOK
<1> QED BY <1>2, <1>3

\* An object whose running flag has been cleared with its connections.
LEMMA StoppedObject ==
    ASSUME Inv, NEW c \in Clients, Stopped(c)
    PROVE  /\ running' \in [Clients -> BOOLEAN] /\ connected' \in [Clients -> Nat]
           /\ ~running'[c] /\ connected'[c] = 0
           /\ \A d \in Clients \ {c} :
                 running'[d] = running[d] /\ connected'[d] = connected[d]
<1>1. SessionTypeOK /\ connected[c] = IF running[c] THEN 1 ELSE 0
  BY DEF Inv, InStep
<1>2. /\ running' = [running EXCEPT ![c] = FALSE]
      /\ connected' = [connected EXCEPT ![c] = 0]
  <2>1. (IF running[c] THEN 0 ELSE connected[c]) = 0
    BY <1>1
  <2> QED BY <2>1 DEF Stopped
<1> QED BY <1>1, <1>2 DEF SessionTypeOK

\* The outcome of requestSession, whatever sensord grants.
LEMMA GrantedKeepsInv ==
    ASSUME Inv, NEW c \in Clients, NEW type \in SessionTypes, NEW got \in SessionTypes,
           Granted(c, type, got), UNCHANGED <<alive, up>>
    PROVE  Inv'
<1>1. SessionTypeOK /\ Stopped(c)
  BY DEF Inv, Granted
<1>2. /\ session' = [session EXCEPT ![c] = got]
      /\ ifc' = [ifc EXCEPT ![c] = got]
      /\ remote' = [remote EXCEPT ![c] = [type |-> got, running |-> FALSE]]
  BY DEF Granted
<1>3. /\ running' \in [Clients -> BOOLEAN] /\ connected' \in [Clients -> Nat]
      /\ ~running'[c] /\ connected'[c] = 0
      /\ \A d \in Clients \ {c} :
            running'[d] = running[d] /\ connected'[d] = connected[d]
  BY <1>1, StoppedObject
<1>4. SessionTypeOK'
  <2>1. session' \in [Clients -> SessionTypes] /\ ifc' \in [Clients -> 0..3]
    BY <1>1, <1>2 DEF SessionTypeOK, SessionTypes
  <2>2. remote' \in [Clients -> [type : SessionTypes, running : BOOLEAN]]
    BY <1>1, <1>2 DEF SessionTypeOK
  <2> QED BY <1>1, <1>2, <1>3, <2>1, <2>2 DEF SessionTypeOK
<1>5. InStep(c)'
  <2>1. /\ session'[c] = got /\ ifc'[c] = got
        /\ remote'[c].type = got
    BY <1>1, <1>2 DEF SessionTypeOK
  <2>2. ~remote'[c].running
    BY <1>1, <1>2 DEF SessionTypeOK
  <2> QED BY <1>3, <2>1, <2>2, Zenon DEF InStep
<1> QED BY <1>1, <1>2, <1>3, <1>4, <1>5, OneObject DEF SessionTypeOK

\* requestSession() of an object.
LEMMA RequestKeepsInv ==
    ASSUME Inv, NEW c \in Clients, NEW type \in SessionTypes, requestSession(c, type)
    PROVE  Inv'
<1>1. UNCHANGED <<alive, up>>
  BY DEF requestSession
<1>2. ASSUME NEW got \in Grantable(c), Granted(c, type, got) PROVE Inv'
  BY <1>1, <1>2, GrantedKeepsInv DEF Grantable
<1>3. CASE Granted(c, type, SessionTypeNone)
  <2>1. SessionTypeNone \in SessionTypes
    BY DEF SessionTypeNone, SessionTypes
  <2> QED BY <1>1, <1>3, <2>1, GrantedKeepsInv
<1>4. CASE UNCHANGED <<session, ifc, remote, running, connected>>
  BY <1>1, <1>4 DEF Inv, SessionTypeOK, InStep
<1> QED BY <1>2, <1>3, <1>4 DEF requestSession

\* requestSession() when sensord cannot be reached.
LEMMA NoManagerKeepsInv ==
    ASSUME Inv, NEW c \in Clients, requestSession_NoManager(c) PROVE Inv'
<1>1. SessionTypeOK /\ InStep(c) /\ Stopped(c)
  BY DEF Inv, requestSession_NoManager
<1>2. /\ remote' = [remote EXCEPT ![c] = IF running[c] THEN Commanded(c, FALSE) ELSE @]
      /\ UNCHANGED <<alive, session, ifc, up>>
  BY DEF requestSession_NoManager
<1>3. /\ running' \in [Clients -> BOOLEAN] /\ connected' \in [Clients -> Nat]
      /\ ~running'[c] /\ connected'[c] = 0
      /\ \A d \in Clients \ {c} :
            running'[d] = running[d] /\ connected'[d] = connected[d]
  BY <1>1, StoppedObject
<1>4. /\ Commanded(c, FALSE) \in [type : SessionTypes, running : BOOLEAN]
      /\ Commanded(c, FALSE).type = remote[c].type
      /\ Commanded(c, FALSE).running = FALSE
  BY <1>1, CommandedSession
<1>5. /\ remote' \in [Clients -> [type : SessionTypes, running : BOOLEAN]]
      /\ remote'[c].type = remote[c].type /\ ~remote'[c].running
  <2>1. CASE running[c]
    BY <1>1, <1>2, <1>4, <2>1 DEF SessionTypeOK
  <2>2. CASE ~running[c]
    <3>1. remote' = remote /\ ~remote[c].running
      BY <1>1, <1>2, <2>2 DEF SessionTypeOK, InStep
    <3> QED BY <1>1, <3>1 DEF SessionTypeOK
  <2> QED BY <2>1, <2>2
<1>6. SessionTypeOK'
  BY <1>1, <1>2, <1>3, <1>5 DEF SessionTypeOK
<1>7. InStep(c)'
  <2>1. session'[c] = session[c] /\ ifc'[c] = ifc[c]
    BY <1>2
  <2>2. /\ ifc[c] = session[c] \/ (ifc[c] = Garbage /\ session[c] = SessionTypeNone)
        /\ remote[c].type \in {SessionTypeNone, session[c]}
    BY <1>1 DEF InStep
  <2> QED BY <1>3, <1>5, <2>1, <2>2, Zenon DEF InStep
<1> QED BY <1>1, <1>2, <1>3, <1>6, <1>7, OneObject DEF SessionTypeOK

\* The destructor of an object.
LEMMA DestroyKeepsInv ==
    ASSUME Inv, NEW c \in Clients, destroy(c) PROVE Inv'
<1>1. SessionTypeOK
  BY DEF Inv
<1>2. SessionTypeOK'
  BY <1>1 DEF destroy, SessionTypeOK, SessionTypes, SessionTypeNone, Null, NoSession
<1>3. InStep(c)'
  BY <1>1 DEF destroy, SessionTypeOK, InStep, SessionTypeNone, Null, NoSession
<1> QED BY <1>1, <1>2, <1>3, OneObject DEF destroy, SessionTypeOK

\* A call through a channel that was never assigned.
LEMMA CrashKeepsInv ==
    ASSUME Inv, NEW c \in Clients, Crash(c) PROVE Inv'
BY DEF Crash, Inv, SessionTypeOK, InStep

\* sensord goes away or comes back.
LEMMA SensordKeepsInv ==
    ASSUME Inv, SensordStops \/ SensordStarts PROVE Inv'
<1>1. CASE SensordStops
  <2>1. SessionTypeOK /\ UNCHANGED objectVars /\ up' = FALSE
    BY <1>1 DEF SensordStops, Inv
  <2>2. /\ remote' \in [Clients -> [type : SessionTypes, running : BOOLEAN]]
        /\ \A c \in Clients : remote'[c].type = SessionTypeNone
        /\ \A c \in Clients : ~remote'[c].running
    BY <1>1 DEF SensordStops, NoSession, SessionTypes, SessionTypeNone
  <2>3. SessionTypeOK'
    BY <2>1, <2>2 DEF objectVars, SessionTypeOK
  <2>4. ASSUME NEW c \in Clients PROVE InStep(c)'
    <3>1. InStep(c)
      BY DEF Inv
    <3> QED BY <2>1, <2>2, <3>1 DEF objectVars, InStep
  <2> QED BY <2>3, <2>4 DEF Inv
<1>2. CASE SensordStarts
  BY <1>2 DEF SensordStarts, objectVars, Inv, SessionTypeOK, InStep
<1> QED BY <1>1, <1>2

-----------------------------------------------------------------------------
\* Every step preserves the invariant.
LEMMA NextInv == Inv /\ [SessionNext]_sessionVars => Inv'
<1> SUFFICES ASSUME Inv, [SessionNext]_sessionVars PROVE Inv'
  OBVIOUS
<1>1. CASE UNCHANGED sessionVars
  BY <1>1 DEF sessionVars, objectVars, Inv, SessionTypeOK, InStep
<1>2. CASE SessionNext
  <2>1. ASSUME NEW c \in Clients,
               startSensor(c) \/ stopSensor(c) \/ destroy(c) \/ Crash(c)
                 \/ requestSession_NoManager(c)
        PROVE  Inv'
    BY <2>1, StartKeepsInv, StopKeepsInv, DestroyKeepsInv, CrashKeepsInv,
       NoManagerKeepsInv
  <2>2. ASSUME NEW c \in Clients, NEW type \in SessionTypes, requestSession(c, type)
        PROVE  Inv'
    BY <2>2, RequestKeepsInv
  <2> QED BY <1>2, <2>1, <2>2, SensordKeepsInv DEF SessionNext
<1> QED BY <1>1, <1>2

\* The invariant holds of every behaviour.
LEMMA SpecInv == SessionSpec => []Inv
BY InitInv, NextInv, PTL DEF SessionSpec

\* The variables keep their types.
THEOREM TypeCorrect == SessionSpec => []SessionTypeOK
<1>1. Inv => SessionTypeOK
  BY DEF Inv
<1> QED BY <1>1, SpecInv, PTL

\* The type an object reports is the type of the channel it holds.
THEOREM ChannelOfSession == SessionSpec => []SessionHasChannel
<1>1. Inv => SessionHasChannel
  BY DEF Inv, InStep, SessionHasChannel
<1> QED BY <1>1, SpecInv, PTL

\* Every reading reaches a running object once, and no other.
THEOREM DeliveredOnce == SessionSpec => []ReadingsOnce
<1>1. Inv => ReadingsOnce
  BY DEF Inv, InStep, ReadingsOnce
<1> QED BY <1>1, SpecInv, PTL

\* sensord measures for an object exactly while it runs.
THEOREM MeasuresWhileRunning == SessionSpec => []RunningIsMeasuring
<1>1. Inv => RunningIsMeasuring
  BY DEF Inv, InStep, RunningIsMeasuring
<1> QED BY <1>1, SpecInv, PTL

\* sensord holds no session its object does not know of.
THEOREM SessionsGivenBack == SessionSpec => []NoOrphanSession
<1>1. Inv => NoOrphanSession
  BY DEF Inv, InStep, NoOrphanSession
<1> QED BY <1>1, SpecInv, PTL
=============================================================================
