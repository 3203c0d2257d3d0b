------------------------------- MODULE LibraryMC -----------------------------
(***************************************************************************)
(* The classes of the library that share no state with each other, checked *)
(* together: in a behaviour one part moves and the others rest in one of   *)
(* their initial states.                                                   *)
(***************************************************************************)
EXTENDS QmKeys, QmTime, TimeZone, QmHeartbeat, QmWatchdog, CurrentMeasurement,
        QmSensor, SensorReadings, ServiceRequests

VARIABLE part          \* the part that moves

Parts ==
    {"keys", "time", "zone", "heartbeat", "watchdog", "current", "session", "sensor",
     "requests"}

\* Both stages of the camera key, a volume key, the slider, and the two codes
\* that share the Stop key.
AllKinds == {"KEY_CAMERA", "KEY_CAMERA_FOCUS", "KEY_VOLUMEUP", "KEY_STOP",
             "KEY_STOPCD", "SW_KEYPAD_SLIDE"}

AllThresholds == <<10, 20>>

\* One request of each class, and two where a pair of messages may be split.
Limits == [c \in Classes |-> IF c = "batteryPsm" THEN 2 ELSE 1]

\* Angles on both sides of each boundary of the conversions.
Vectors(xs, ys, zs) == [x : xs, y : ys, z : zs]
Inputs ==
    [accelerometer |-> Vectors({-1, 0}, {0, 2}, {3}),
     compass |-> {0, 269, 270, 359},
     rotation |-> Vectors({-90, 0, 1, 180}, {-91, -90, 90, 180}, {-180, 89, 90}),
     orientation |-> DOMAIN PoseNames \cup {"Undefined"},
     als |-> {0, 1}, magnetometer |-> {0, 1}, proximity |-> {0, 1}, tap |-> {0, 1}]

-----------------------------------------------------------------------------
LibraryInit ==
    /\ part \in Parts
    /\ Init /\ (part # "keys" => closed = {})
    /\ TimeInit
    /\ ZoneInit /\ (part # "zone" => own = Unset)
    /\ HeartInit
    /\ WatchdogInit
    /\ CurrentInit
    /\ SessionInit /\ (part # "session" => \A c \in Clients : ifc[c] = Null)
    /\ ReadingInit /\ (part # "sensor" => sensor = "als")
    /\ RequestInit /\ (part # "requests" => class = "display" /\ service = "off")

LibraryNext ==
    /\ UNCHANGED part
    /\ \/ part = "keys" /\ Next /\ UNCHANGED <<timeVars, zoneVars, heartVars, watchdogVars,
            currentVars, sessionVars, readingVars, requestVars>>
       \/ part = "time" /\ TimeNext /\ UNCHANGED <<vars, zoneVars, heartVars, watchdogVars,
            currentVars, sessionVars, readingVars, requestVars>>
       \/ part = "zone" /\ ZoneNext /\ UNCHANGED <<vars, timeVars, heartVars, watchdogVars,
            currentVars, sessionVars, readingVars, requestVars>>
       \/ part = "heartbeat" /\ HeartNext /\ UNCHANGED <<vars, timeVars, zoneVars, watchdogVars,
            currentVars, sessionVars, readingVars, requestVars>>
       \/ part = "watchdog" /\ WatchdogNext /\ UNCHANGED <<vars, timeVars, zoneVars, heartVars,
            currentVars, sessionVars, readingVars, requestVars>>
       \/ part = "current" /\ CurrentNext /\ UNCHANGED <<vars, timeVars, zoneVars, heartVars,
            watchdogVars, sessionVars, readingVars, requestVars>>
       \/ part = "session" /\ SessionNext /\ UNCHANGED <<vars, timeVars, zoneVars, heartVars,
            watchdogVars, currentVars, readingVars, requestVars>>
       \/ part = "sensor" /\ ReadingNext /\ UNCHANGED <<vars, timeVars, zoneVars, heartVars,
            watchdogVars, currentVars, sessionVars, requestVars>>
       \/ part = "requests" /\ RequestNext /\ UNCHANGED <<vars, timeVars, zoneVars, heartVars,
            watchdogVars, currentVars, sessionVars, readingVars>>

LibrarySpec == LibraryInit /\ [][LibraryNext]_<<part, vars, timeVars, zoneVars, heartVars,
                   watchdogVars, currentVars, sessionVars, readingVars, requestVars>>
==============================================================================
