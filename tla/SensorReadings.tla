----------------------------- MODULE SensorReadings --------------------------
(***************************************************************************)
(* One object of one of the eight sensor classes and the readings it gives *)
(* to the application: by the signal, whose slot converts what the channel *)
(* tells, and by the getter, which asks the channel.  QmSensor has the     *)
(* sessions of several objects; here is what the classes add to it.  The   *)
(* sensor daemon and its channels are external: a plugin may not load, a   *)
(* session may be refused, and signals wait for the event loop.            *)
(***************************************************************************)
EXTENDS Integers, Sequences

CONSTANTS
    SensorClasses,     \* the classes
    Measurable,        \* for each class, what its channel may measure
    MaxMeasured        \* bound on the measurements

\* Degrees are within a circle, whichever way they are counted.
ASSUME ReadingAssumption ==
    \A c \in SensorClasses :
        /\ Measurable[c] # {}
        /\ c = "compass" => Measurable[c] \subseteq 0..359
        /\ c = "rotation" =>
              Measurable[c] \subseteq [x : -180..180, y : -180..180, z : -180..180]
        /\ c = "accelerometer" => Measurable[c] \subseteq [x : Int, y : Int, z : Int]

VARIABLES
    sensor,            \* the class
    initDone,          \* initDone_
    plugins,           \* the plugins the daemon has loaded
    channel,           \* sensorIfc
    sessionLevel,      \* the type of the session, 0, ListenLevel or 2
    delivering,        \* the object runs and the signals are connected
    measured,          \* what the channel measured, the newest last
    signals,           \* measurements on their way to the slot
    told,              \* the last reading signalled, <<>> if none
    fresh,             \* history: the newest measurement was signalled
    setting,           \* the declination or the threshold in use
    answer             \* what the last getter of it answered

readingVars == <<sensor, initDone, plugins, channel, sessionLevel, delivering, measured,
                 signals, told, fresh, setting, answer>>

ListenLevel == 1
ControlLevel == 2

\* The classes: the plugin of the daemon, what setupSignals looks at before it
\* goes through the pointer, and what the pointer is at first.
QmAccelerometer == [plugin |-> "accelerometersensor", checks |-> "level", sensorIfc |-> "NULL"]
QmALS == [plugin |-> "alssensor", checks |-> "channel", sensorIfc |-> "NULL"]
QmCompass == [plugin |-> "compasssensor", checks |-> "channel", sensorIfc |-> "NULL"]
QmMagnetometer == [plugin |-> "magnetometersensor", checks |-> "level", sensorIfc |-> "NULL"]
QmOrientation == [plugin |-> "orientationsensor", checks |-> "channel", sensorIfc |-> "NULL"]
QmProximity == [plugin |-> "proximitysensor", checks |-> "channel", sensorIfc |-> "NULL"]
QmRotation == [plugin |-> "rotationsensor", checks |-> "level", sensorIfc |-> "NULL"]
QmTap == [plugin |-> "tapsensor", checks |-> "channel", sensorIfc |-> "any"]

Private ==
    [accelerometer |-> QmAccelerometer, als |-> QmALS, compass |-> QmCompass,
     magnetometer |-> QmMagnetometer, orientation |-> QmOrientation,
     proximity |-> QmProximity, rotation |-> QmRotation, tap |-> QmTap]

Abs(a) == IF a < 0 THEN -a ELSE a

-----------------------------------------------------------------------------
\* The slots.  The axes of the daemon are not those of the library.
AccelerometerTold(m) == [x |-> -m.y, y |-> m.x, z |-> m.z]

\* Mutant: the quarter turn leaves the circle.
CompassTold_NotReduced(degrees) == degrees + 90

CompassTold(degrees) == (degrees + 90) % 360

RotationTold(m) ==
    [x |-> IF Abs(m.y) <= 90 THEN -m.y ELSE (IF m.y < 0 THEN 180 ELSE -180) + m.y,
     y |-> IF Abs(m.y) <= 90 THEN m.x ELSE (IF m.x > 0 THEN 1 ELSE -1) * (180 - Abs(m.x)),
     z |-> ((m.z + 180 + 90) % 360) - 180]

\* The slot and the getter of QmOrientation both convert.
PoseNames ==
    [LeftUp |-> "BottomUp", RightUp |-> "BottomDown", BottomUp |-> "RightUp",
     BottomDown |-> "LeftUp", FaceDown |-> "FaceDown", FaceUp |-> "FaceUp"]

poseDataToOrientation(pose) ==
    IF pose \in DOMAIN PoseNames THEN PoseNames[pose] ELSE "Undefined"

\* The others copy every field.
ReadingTold(c, m) ==
    CASE c = "accelerometer" -> AccelerometerTold(m)
      [] c = "compass" -> CompassTold(m)
      [] c = "rotation" -> RotationTold(m)
      [] c = "orientation" -> poseDataToOrientation(m)
      [] OTHER -> m

\* Mutant: the getter of QmOrientation does not convert either.
ReadingGot_AsMeasured(c, m) == m

\* The getters; those of QmCompass and QmRotation do not convert, and
\* QmAccelerometer and QmTap have none.
WithoutGetter == {"accelerometer", "tap"}
ReadingGot(c, m) == IF c = "orientation" THEN poseDataToOrientation(m) ELSE m

-----------------------------------------------------------------------------
ReadingInit ==
    /\ sensor \in SensorClasses
    /\ initDone = FALSE /\ plugins = {}
    /\ channel = Private[sensor].sensorIfc
    /\ sessionLevel = 0
    /\ delivering = FALSE
    /\ measured = <<CHOOSE m \in Measurable[sensor] : TRUE>>
    /\ signals = <<>> /\ told = <<>> /\ fresh = FALSE
    /\ setting = 0 /\ answer = 0

\* The first session loads the plugin; one that does not load is not loaded again.
init ==
    /\ initDone' = TRUE
    /\ plugins' \in IF initDone THEN {plugins} ELSE {plugins, plugins \cup {Private[sensor].plugin}}

\* requestSession: a channel of the type wanted or of a lower one, or none.
requestReadings(type) ==
    /\ init
    /\ sessionLevel' \in IF Private[sensor].plugin \in plugins' THEN 0..type ELSE {0}
    /\ channel' = IF sessionLevel' # 0 THEN "open"
                  ELSE IF type = 0 /\ sessionLevel = 0 THEN channel ELSE "NULL"
    /\ delivering' = FALSE
    /\ signals' = <<>> /\ fresh' = FALSE
    /\ UNCHANGED <<sensor, measured, told, setting, answer>>

\* What setupSignals finds before it connects or disconnects.
setupSignals ==
    IF Private[sensor].checks = "level" THEN sessionLevel >= ListenLevel ELSE channel # "NULL"

\* start; with a pointer of no known value it has no meaning.
startReadings ==
    /\ channel = "open"
    /\ setupSignals
    /\ delivering' = TRUE
    /\ UNCHANGED <<sensor, initDone, plugins, channel, sessionLevel, measured, signals, told,
                   fresh, setting, answer>>

\* stop; what is on its way finds no slot any more.
stopReadings ==
    /\ delivering /\ setupSignals
    /\ delivering' = FALSE
    /\ signals' = <<>> /\ fresh' = FALSE
    /\ UNCHANGED <<sensor, initDone, plugins, channel, sessionLevel, measured, told,
                   setting, answer>>

\* The sensor measures; reset() of a magnetometer makes it measure anew.
MeasuredReading ==
    /\ Len(measured) < MaxMeasured
    /\ \E m \in Measurable[sensor] :
        /\ measured' = Append(measured, m)
        /\ signals' = IF delivering THEN Append(signals, m) ELSE signals
    /\ fresh' = delivering
    /\ UNCHANGED <<sensor, initDone, plugins, channel, sessionLevel, delivering, told,
                   setting, answer>>

slotDataAvailable ==
    /\ signals # <<>>
    /\ told' = <<ReadingTold(sensor, Head(signals))>>
    /\ signals' = Tail(signals)
    /\ UNCHANGED <<sensor, initDone, plugins, channel, sessionLevel, delivering, measured,
                   fresh, setting, answer>>

HasSetting == {"compass", "orientation"}

\* setUseDeclination and setThreshold, which only the control session may call.
setSetting(v) ==
    /\ sensor \in HasSetting
    /\ sessionLevel >= ControlLevel
    /\ setting' = v
    /\ UNCHANGED <<sensor, initDone, plugins, channel, sessionLevel, delivering, measured,
                   signals, told, fresh, answer>>

\* useDeclination and threshold.  Without a session the one says FALSE, which
\* is 0 here, and the other -1.
getSetting ==
    /\ sensor \in HasSetting
    /\ answer' = IF sessionLevel >= ListenLevel THEN setting
                 ELSE IF sensor = "compass" THEN 0 ELSE -1
    /\ UNCHANGED <<sensor, initDone, plugins, channel, sessionLevel, delivering, measured,
                   signals, told, fresh, setting>>

ReadingNext ==
    \/ \E type \in 0..ControlLevel : requestReadings(type)
    \/ startReadings
    \/ stopReadings
    \/ MeasuredReading
    \/ slotDataAvailable
    \/ \E v \in {0, 1} : setSetting(v)
    \/ getSetting

ReadingSpec == ReadingInit /\ [][ReadingNext]_readingVars

-----------------------------------------------------------------------------
\* Once no signal is on its way, the application has been told the newest
\* measurement, in a reading that is the getter's, whatever was stopped and started
\* before: the headers give the fields of a reading one meaning, however it is had.
OneReading ==
    delivering /\ fresh /\ signals = <<>> /\ sensor \notin WithoutGetter =>
        told # <<>> /\ told[1] = ReadingGot(sensor, measured[Len(measured)])

\* This holds of the classes whose slot and getter both convert or both copy
\* (slotDataAvailable and the getters of QmALS, QmMagnetometer, QmOrientation and
\* QmProximity).
ReadingsAgree == sensor \notin {"compass", "rotation"} => OneReading

\* The angles told stay in their circles for every measurement at their edges, and
\* the rotation around the X axis in its half circle, as documented (the slots of
\* QmCompass and QmRotation).  Around the others it may be -180, which the document
\* leaves out.
AnglesInCircle ==
    told # <<>> =>
        /\ sensor = "compass" => told[1] \in 0..359
        /\ sensor = "rotation" =>
              told[1].x \in -90..90 /\ {told[1].y, told[1].z} \subseteq -180..180
==============================================================================
