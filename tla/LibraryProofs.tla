---------------------------- MODULE LibraryProofs ----------------------------
(***************************************************************************)
(* Proofs about the classes of the library, for any values of their        *)
(* bounds: the clock settings and the times of other zones, the heartbeat, *)
(* the watchdog, the measurement of the current, the key cache with its    *)
(* signals, the requests of the classes to their services, and the         *)
(* readings of the sensors.                                                *)
(***************************************************************************)
EXTENDS QmKeys, QmTime, TimeZone, QmHeartbeat, QmWatchdog, CurrentMeasurement,
        SensorReadings, ServiceRequests, KeyCacheProofs, SequenceTheorems,
        WellFoundedInduction

\* The records of settings of timed.
Settings == [nitz : BOOLEAN, cellular : BOOLEAN, manual : Zones \cup {NoZone},
             operator : Zones \cup {NoZone}]

-----------------------------------------------------------------------------
\* BME measures only for an open object, with the rate of its start, however often
\* start and stop are called; but for what a start that failed after BME had begun,
\* or a stop that BME did not get, has left behind.
THEOREM MeasuresAsAsked == CurrentSpec => []MeasuredAsAsked
<1>1. CurrentInit => MeasuredAsAsked
  BY DEF CurrentInit, MeasuredAsAsked
<1>2. MeasuredAsAsked /\ [CurrentNext]_currentVars => MeasuredAsAsked'
  <2> SUFFICES ASSUME MeasuredAsAsked, [CurrentNext]_currentVars
               PROVE  MeasuredAsAsked'
    OBVIOUS
  <2> USE DEF MeasuredAsAsked
  <2>1. ASSUME NEW rate \in Rates, startCurrentMeasurement(rate)
        PROVE  MeasuredAsAsked'
    <3>1. measuring = Off \/ abandoned
      BY <2>1 DEF startCurrentMeasurement, MayStart
    <3>2. PICK r \in request_measurements, mq_open \in BOOLEAN :
            /\ measuring' = IF r.began THEN rate ELSE measuring
            /\ measurements' = IF r.ok /\ mq_open THEN "open" ELSE "closed"
            /\ abandoned' = (~(r.ok /\ mq_open) /\ (abandoned \/ r.began))
      BY <2>1 DEF startCurrentMeasurement
    <3>3. r.ok \in BOOLEAN /\ r.began \in BOOLEAN /\ (r.ok => r.began)
      <4>1. CASE r = [ok |-> FALSE, began |-> FALSE]
        BY <4>1
      <4>2. CASE r = [ok |-> FALSE, began |-> TRUE]
        BY <4>2
      <4>3. CASE r = [ok |-> TRUE, began |-> TRUE]
        BY <4>3
      <4> QED BY <4>1, <4>2, <4>3 DEF request_measurements
    <3>4. CASE r.ok /\ mq_open
      BY <2>1, <3>2, <3>3, <3>4 DEF startCurrentMeasurement
    <3>5. CASE ~(r.ok /\ mq_open)
      BY <3>1, <3>2, <3>3, <3>5
    <3> QED BY <3>4, <3>5
  <2>2. CASE stopCurrentMeasurement
    <3>1. CASE measurements = "closed"
      BY <2>2, <3>1 DEF stopCurrentMeasurement
    <3>2. CASE measurements = "open"
      <4>1. measuring' = Off \/ abandoned'
        BY <2>2, <3>2, Zenon DEF stopCurrentMeasurement, StopTold
      <4> QED BY <4>1
    <3> QED BY <2>2, <3>1, <3>2 DEF stopCurrentMeasurement
  <2>3. CASE onMeasurement
    BY <2>3 DEF onMeasurement
  <2>4. CASE Measured
    BY <2>4 DEF Measured
  <2>5. CASE BmeRestarts
    BY <2>5 DEF BmeRestarts
  <2>6. CASE UNCHANGED currentVars
    BY <2>6 DEF currentVars
  <2> QED BY <2>1, <2>2, <2>3, <2>4, <2>5, <2>6 DEF CurrentNext
<1> QED BY <1>1, <1>2, PTL DEF CurrentSpec

-----------------------------------------------------------------------------
\* A process that DSME watches listens and can answer, through every order of
\* start and stop, connections that fail and registrations that are refused.
THEOREM WatchedProcessAnswers == WatchdogSpec => []WatchedCanAnswer
<1>1. WatchdogInit => WatchedCanAnswer
  BY DEF WatchdogInit, WatchedCanAnswer
<1>2. WatchedCanAnswer /\ [WatchdogNext]_watchdogVars => WatchedCanAnswer'
  <2> SUFFICES ASSUME WatchedCanAnswer, [WatchdogNext]_watchdogVars
               PROVE  WatchedCanAnswer'
    OBVIOUS
  <2> USE DEF WatchedCanAnswer
  <2>1. CASE start
    BY <2>1 DEF start
  <2>2. CASE stop
    BY <2>2 DEF stop, Unregistered
  <2>3. CASE pong
    BY <2>3 DEF pong
  <2>4. CASE Ping
    BY <2>4 DEF Ping
  <2>5. ASSUME NEW c \in 1..MaxConnections, readable(c)
        PROVE  WatchedCanAnswer'
    BY <2>5 DEF readable
  <2>6. CASE UNCHANGED watchdogVars
    BY <2>6 DEF watchdogVars
  <2> QED BY <2>1, <2>2, <2>3, <2>4, <2>5, <2>6 DEF WatchdogNext
<1> QED BY <1>1, <1>2, PTL DEF WatchdogSpec

-----------------------------------------------------------------------------
\* The notifier pointed to is the only one that can be enabled, unless open was
\* called again; and it is not while the object must be quiet.
HeartInv ==
    /\ QuietUntilWait
    /\ ~reopened => /\ enabled \subseteq {notifier} \ {NoHandle}
                    /\ quiet => enabled = {}

\* After IWokeUp, also one that fails, no heartbeat is signalled until the next
\* wait: the notifier is off, and close and open leave it so.
THEOREM QuietAfterWakeUp == HeartSpec => []QuietUntilWait
<1>1. HeartInit => HeartInv
  BY DEF HeartInit, HeartInv, QuietUntilWait
<1>2. HeartInv /\ [HeartNext]_heartVars => HeartInv'
  <2> SUFFICES ASSUME HeartInv, [HeartNext]_heartVars
               PROVE  HeartInv'
    OBVIOUS
  <2> USE DEF HeartInv, QuietUntilWait
  <2>1. ASSUME NEW signalNeeded \in BOOLEAN, open(signalNeeded)
        PROVE  HeartInv'
    <3>1. emitted' = 0 /\ UNCHANGED <<enabled, quiet>>
      BY <2>1 DEF open, Silently
    <3>2. ASSUME ~reopened'
          PROVE  ~reopened /\ notifier = NoHandle
      BY <2>1, <3>2, Zenon DEF open
    <3>3. ~reopened' => enabled = {}
      BY <3>2
    <3> QED BY <3>1, <3>2, <3>3
  <2>2. CASE close
    BY <2>2 DEF close, Silently
  <2>3. CASE waitForSignal
    BY <2>3 DEF waitForSignal, Silently, Listening
  <2>4. CASE waitForHeartbeat
    BY <2>4 DEF waitForHeartbeat, Silently, Listening
  <2>5. CASE IWokeUp
    BY <2>5 DEF IWokeUp, Silently, Listening
  <2>6. CASE Heartbeat
    BY <2>6 DEF Heartbeat, Silently
  <2>7. CASE socketReady
    BY <2>7 DEF socketReady
  <2>8. CASE UNCHANGED heartVars
    BY <2>8 DEF heartVars
  <2> QED BY <2>1, <2>2, <2>3, <2>4, <2>5, <2>6, <2>7, <2>8 DEF HeartNext
<1>3. HeartInv => QuietUntilWait
  BY DEF HeartInv
<1> QED BY <1>1, <1>2, <1>3, PTL DEF HeartSpec

-----------------------------------------------------------------------------
\* What is cached is known to timed; once the signals are connected it is at
\* least as new as what has been heard, and after a setter that returned true at
\* least as new as its settings.
TimeInv ==
    /\ timeline \in Seq(Settings) /\ timeline # <<>>
    /\ heard \in 0..Now
    /\ shared \in [users : SUBSET TimeObjects, initialized : BOOLEAN,
                   connected : BOOLEAN, info : 0..Now]
    /\ timeCall \in [op : {"none", "construct", "set"}, asked : 0..Now]
    /\ shared.connected /\ shared.info # 0 => shared.info >= heard
    /\ WrittenIsRead

\* What a request makes of settings are settings, and so are the settings that
\* the network changes.
LEMMA SettingsOfRequests ==
    ASSUME NEW s \in Settings, NEW t,
           \/ t \in Accepted(s)
           \/ t \in {[s EXCEPT !.operator = z] : z \in Zones}
    PROVE  t \in Settings
BY DEF Settings, Accepted, setTimezone, setAutoTimeZone, setAutoSystemTime, setTime

\* timed keeps what it had, and at most one more.
LEMMA TimedGrows ==
    ASSUME TimeInv, NEW s,
           \/ s \in Accepted(timeline[Now])
           \/ s \in {[timeline[Now] EXCEPT !.operator = z] : z \in Zones},
           Became(s)
    PROVE  /\ timeline' \in Seq(Settings) /\ timeline' # <<>>
           /\ Now \in Nat /\ Now' \in Nat /\ Now' >= Now
<1>1. timeline \in Seq(Settings) /\ Now \in 1..Len(timeline)
  BY DEF TimeInv, Now
<1>2. s \in Settings
  <2>1. timeline[Now] \in Settings
    BY <1>1
  <2> QED BY <2>1, SettingsOfRequests
<1>3. CASE timeline' = timeline
  BY <1>1, <1>3 DEF Now, TimeInv
<1>4. CASE timeline' = Append(timeline, s)
  BY <1>1, <1>2, <1>4 DEF Now
<1> QED BY <1>3, <1>4 DEF Became

LEMMA TimeInvariant == TimeSpec => []TimeInv
<1>1. TimeInit => TimeInv
  <2> SUFFICES ASSUME TimeInit PROVE TimeInv
    OBVIOUS
  <2>1. (CHOOSE z \in Zones : TRUE) \in Zones
    BY TimeAssumption
  <2>2. timeline \in Seq(Settings) /\ timeline # <<>> /\ Now = 1
    BY <2>1 DEF TimeInit, Settings, Now
  <2>3. shared = [users |-> {}, initialized |-> FALSE, connected |-> FALSE, info |-> 0]
    BY DEF TimeInit
  <2>4. timeCall = [op |-> "none", asked |-> 0] /\ heard = 0
    BY DEF TimeInit, Returned
  <2> QED BY <2>2, <2>3, <2>4 DEF TimeInv, WrittenIsRead
<1>2. TimeInv /\ [TimeNext]_timeVars => TimeInv'
  <2> SUFFICES ASSUME TimeInv, [TimeNext]_timeVars
               PROVE  TimeInv'
    OBVIOUS
  <2>0. Now \in Nat
    BY DEF TimeInv, Now
  <2> USE DEF TimeInv, WrittenIsRead, Idle, Returned
  <2>1. ASSUME NEW o \in TimeObjects, get_object(o)
        PROVE  TimeInv'
    <3> DEFINE s == [shared EXCEPT !.users = @ \cup {o}]
    <3>1. CASE shared.initialized
      BY <2>0, <2>1, <3>1 DEF get_object, Now
    <3>2. CASE ~shared.initialized
      <4>1. /\ Subscribed([s EXCEPT !.info = 0])
            /\ timeCall' = [op |-> "construct", asked |-> 0]
            /\ timeline' = timeline
        BY <2>1, <3>2 DEF get_object, initialize
      <4>2. /\ s.users \in SUBSET TimeObjects /\ s.initialized = FALSE
            /\ s.connected \in BOOLEAN
            /\ shared' \in {[s EXCEPT !.info = 0],
                           [[s EXCEPT !.info = 0] EXCEPT !.connected = TRUE]}
            /\ heard' \in {heard, Now}
        BY <3>2, <4>1 DEF Subscribed
      <4>3. shared' \in [users : SUBSET TimeObjects, initialized : BOOLEAN,
                        connected : BOOLEAN, info : {0}]
        BY <4>2
      <4>4. Now' = Now /\ heard' \in 0..Now
        BY <2>0, <4>1, <4>2 DEF Now
      <4> QED BY <2>0, <4>1, <4>3, <4>4
    <3> QED BY <3>1, <3>2
  <2>2. ASSUME NEW o \in TimeObjects, unref_object(o)
        PROVE  TimeInv'
    BY <2>0, <2>2 DEF unref_object, Now
  <2>3. ASSUME NEW o \in TimeObjects, wall_clock_settings_sync(o)
        PROVE  TimeInv'
    <3>1. UNCHANGED <<heard, shared>>
      BY <2>3 DEF wall_clock_settings_sync
    <3>2. CASE timeCall' = Returned(0) /\ timeline' = timeline
      BY <2>0, <3>1, <3>2 DEF Now
    <3>3. ASSUME NEW t \in Accepted(timeline[Now]), Became(t),
                 timeCall' = [op |-> "set", asked |-> Len(timeline')]
          PROVE  TimeInv'
      BY <2>0, <3>1, <3>3, TimedGrows DEF Now
    <3> QED BY <2>3, <3>2, <3>3 DEF wall_clock_settings_sync
  <2>4. CASE Initialised
    <3>1. /\ Read([shared EXCEPT !.initialized = TRUE])
          /\ timeCall' = [op |-> "none", asked |-> 0]
          /\ timeline' = timeline
      BY <2>4 DEF Initialised, initialize
    <3> DEFINE r == [shared EXCEPT !.initialized = TRUE]
    <3>2. /\ r \in [users : SUBSET TimeObjects, initialized : BOOLEAN,
                    connected : BOOLEAN, info : 0..Now]
          /\ r.connected = shared.connected /\ r.info = shared.info
      OBVIOUS
    <3>3. /\ Now' = Now /\ heard' = heard
          /\ shared' \in {r, [r EXCEPT !.info = Now]}
      BY <3>1 DEF Read, syncronize_timed_info, Now
    <3> HIDE DEF r
    <3>4. /\ shared' \in [users : SUBSET TimeObjects, initialized : BOOLEAN,
                          connected : BOOLEAN, info : 0..Now]
          /\ shared'.connected = shared.connected
          /\ shared'.info \in {shared.info, Now}
      BY <2>0, <3>2, <3>3
    <3> QED BY <2>0, <3>1, <3>3, <3>4
  <2>5. CASE Synchronised
    BY <2>0, <2>5 DEF Synchronised, syncronize_timed_info, Now
  <2>6. CASE timed_signal
    BY <2>0, <2>6 DEF timed_signal, Now
  <2>7. CASE Elsewhere
    <3>1. UNCHANGED <<heard, shared, timeCall>>
      BY <2>7 DEF Elsewhere
    <3>2. PICK t \in Accepted(timeline[Now])
                       \cup {[timeline[Now] EXCEPT !.operator = z] : z \in Zones} : Became(t)
      BY <2>7 DEF Elsewhere
    <3> QED BY <2>0, <3>1, <3>2, TimedGrows DEF Now
  <2>8. CASE UNCHANGED timeVars
    BY <2>8 DEF timeVars, Now
  <2> QED BY <2>1, <2>2, <2>3, <2>4, <2>5, <2>6, <2>7, <2>8 DEF TimeNext
<1> QED BY <1>1, <1>2, PTL DEF TimeSpec

\* A setter that returned true has the getters answer its settings or later ones,
\* for any number of objects, zones and changes made elsewhere.
THEOREM WritesAreRead == TimeSpec => []WrittenIsRead
<1>1. TimeInv => WrittenIsRead
  BY DEF TimeInv
<1> QED BY <1>1, TimeInvariant, PTL

\* When all signals are delivered the getters answer what timed has.
THEOREM SettingsAreCurrent == TimeSpec => []SettingsSettle
<1>1. TimeInv => SettingsSettle
  <2> SUFFICES ASSUME TimeInv, Idle, shared.connected, heard = Now, View # Unknown
               PROVE  View = Answers(timeline[Now])
    BY DEF SettingsSettle
  <2>1. shared.info # 0
    BY DEF View
  <2>2. shared.info = Now
    BY <2>1 DEF TimeInv, Now
  <2> QED BY <2>1, <2>2 DEF View
<1> QED BY <1>1, TimeInvariant, PTL

-----------------------------------------------------------------------------
\* Values that TZ and a request may have.
TzValues == ZoneNames \cup {Unset, Empty, Own}

ZoneCall ==
    [asked : Seq(TzValues), result : Seq(TzValues),
     stage : {"outside", "inside", "computed", "failed"},
     set : BOOLEAN, saved : TzValues]

\* What TZ may be when nobody has changed it, and while the zone w is computed.
AtHome == IF spoilt THEN TzValues ELSE {own, IF own = Empty THEN Unset ELSE own}
Shown(w) == IF w = Own THEN AtHome ELSE {w}

\* The call of a thread: it has as many results as zones were computed, and each
\* was computed with TZ showing the zone asked for.
Answered(z) ==
    /\ Len(z.result) <= Len(z.asked)
    /\ z.stage \in {"outside", "inside"} /\ z.asked # <<>> => Len(z.result) < Len(z.asked)
    /\ z.stage # "outside" => z.asked # <<>>
    /\ \A i \in 1..Len(z.result) : z.result[i] \in Shown(z.asked[i])

\* A thread that is inside knows what TZ was at home, and a thread about to
\* compute a zone has TZ show it.
Borrowed(z) ==
    /\ z.stage # "outside" => IF z.set THEN z.saved \in AtHome ELSE tz \in AtHome
    /\ z.stage = "inside" => tz \in Shown(z.asked[Len(z.result) + 1])

ZoneInv ==
    /\ own \in TzValues /\ tz \in TzValues /\ spoilt \in BOOLEAN
    /\ zoneCall \in [Threads -> ZoneCall]
    /\ \A t \in Threads : Answered(zoneCall[t]) /\ Borrowed(zoneCall[t])
    /\ \A t, u \in Inside : t = u
    /\ Inside = {} => tz \in AtHome

LEMMA AtHomeSaved == ASSUME ZoneInv, tz \in AtHome PROVE Saved \in AtHome
  BY DEF Saved, AtHome, TzValues

\* A restore that fails only adds to what TZ may be.
LEMMA HomeGrows ==
    ASSUME ZoneInv, own' = own, spoilt' \in BOOLEAN, spoilt => spoilt'
    PROVE  AtHome \subseteq AtHome' /\ \A w : Shown(w) \subseteq Shown(w)'
<1>1. TzValues' = TzValues
  BY DEF TzValues
<1>2. AtHome \subseteq AtHome'
  <2>1. CASE spoilt'
    BY <1>1, <2>1 DEF ZoneInv, AtHome, TzValues
  <2>2. CASE ~spoilt'
    BY <2>2 DEF ZoneInv, AtHome
  <2> QED BY <2>1, <2>2
<1> QED BY <1>2 DEF Shown

\* A step of one thread: the others rest outside, or nothing is borrowed by it.
LEMMA ZoneStep ==
    ASSUME ZoneInv, NEW t \in Threads, own' = own, tz' \in TzValues,
           spoilt' \in BOOLEAN, spoilt => spoilt',
           zoneCall' \in [Threads -> ZoneCall],
           \A u \in Threads \ {t} : zoneCall'[u] = zoneCall[u],
           Inside \subseteq {t} \/ (tz' = tz /\ Inside' = Inside),
           Answered(zoneCall[t])', Borrowed(zoneCall[t])',
           Inside' = {} => (tz \in AtHome)'
    PROVE  ZoneInv'
<1> AtHome \subseteq AtHome' /\ \A w : Shown(w) \subseteq Shown(w)'
  BY HomeGrows
<1>1. ASSUME NEW u \in Threads \ {t} PROVE (Answered(zoneCall[u]) /\ Borrowed(zoneCall[u]))'
  <2>1. zoneCall'[u] = zoneCall[u] /\ Answered(zoneCall[u]) /\ Borrowed(zoneCall[u])
    BY <1>1 DEF ZoneInv
  <2>2. Answered(zoneCall[u])'
    BY <2>1 DEF Answered
  <2>3. CASE tz' = tz
    BY <2>1, <2>2, <2>3 DEF Borrowed
  <2>4. CASE Inside \subseteq {t}
    <3>1. zoneCall[u].stage = "outside"
      BY <2>4, <1>1 DEF Inside
    <3> QED BY <2>1, <2>2, <3>1 DEF Borrowed
  <2> QED BY <2>3, <2>4
<1>2. \A u \in Threads : (Answered(zoneCall[u]) /\ Borrowed(zoneCall[u]))'
  BY <1>1
<1>3. \A u, w \in Inside' : u = w
  <2>1. CASE Inside' = Inside
    BY <2>1 DEF ZoneInv
  <2>2. CASE Inside \subseteq {t}
    BY <2>2 DEF Inside
  <2> QED BY <2>1, <2>2
<1> QED BY <1>2, <1>3 DEF ZoneInv, TzValues

LEMMA ZoneInitially == ZoneInit => ZoneInv
<1> SUFFICES ASSUME ZoneInit PROVE ZoneInv
  OBVIOUS
<1>1. NotCalling \in ZoneCall
  BY DEF NotCalling, ZoneCall, TzValues
<1>2. zoneCall \in [Threads -> ZoneCall] /\ \A t \in Threads : zoneCall[t] = NotCalling
  BY <1>1 DEF ZoneInit
<1>3. own \in TzValues /\ tz = own /\ spoilt = FALSE
  BY DEF ZoneInit, TzValues
<1>4. \A t \in Threads : Answered(zoneCall[t]) /\ Borrowed(zoneCall[t])
  BY <1>2 DEF Answered, Borrowed, NotCalling
<1>5. Inside = {}
  BY <1>2 DEF Inside, NotCalling
<1> QED BY <1>2, <1>3, <1>4, <1>5 DEF ZoneInv, AtHome

LEMMA ZonePreserved == ZoneInv /\ [ZoneNext]_zoneVars => ZoneInv'
<1> SUFFICES ASSUME ZoneInv, [ZoneNext]_zoneVars PROVE ZoneInv'
  OBVIOUS
<1>1. CASE UNCHANGED zoneVars
  BY <1>1 DEF zoneVars, ZoneInv, AtHome, Shown, Answered, Borrowed, Inside, TzValues, ZoneCall
<1>2. ASSUME NEW t \in Threads, Begin(t) PROVE ZoneInv'
  <2>1. PICK c \in Calls : zoneCall' = [zoneCall EXCEPT ![t] = [NotCalling EXCEPT !.asked = c]]
    BY <1>2 DEF Begin
  <2>2. c \in Seq(TzValues) /\ Len(c) > 0
    <3>1. CASE c = <<Own>>
      BY <3>1 DEF TzValues
    <3>2. ASSUME NEW x \in ZoneNames \cup {Unset}, c = <<x>> PROVE c \in Seq(TzValues) /\ Len(c) > 0
      BY <3>2 DEF TzValues
    <3>3. ASSUME NEW x \in ZoneNames \cup {Unset}, NEW y \in ZoneNames \cup {Unset}, c = <<x, y>>
          PROVE  c \in Seq(TzValues) /\ Len(c) > 0
      BY <3>3 DEF TzValues
    <3> QED BY <3>1, <3>2, <3>3 DEF Calls, localTime, remoteTime, getTimeDiff
  <2>3. /\ zoneCall'[t] = [asked |-> c, result |-> <<>>, stage |-> "outside", set |-> FALSE,
                           saved |-> Unset]
        /\ \A u \in Threads \ {t} : zoneCall'[u] = zoneCall[u]
    BY <2>1 DEF ZoneInv, NotCalling
  <2>4. zoneCall' \in [Threads -> ZoneCall]
    <3>1. NotCalling \in ZoneCall
      BY DEF NotCalling, ZoneCall, TzValues
    <3>2. [NotCalling EXCEPT !.asked = c] \in ZoneCall
      BY <2>2, <3>1, Zenon DEF ZoneCall
    <3> QED BY <2>1, <3>2 DEF ZoneInv
  <2>5. own' = own /\ tz' = tz /\ spoilt' = spoilt
    BY <1>2 DEF Begin
  <2>6. zoneCall[t].stage = "outside"
    BY <1>2 DEF Begin, ZoneInv, Answered, ZoneCall
  <2>7. Inside' = Inside
    BY <2>3, <2>6 DEF Inside
  <2>8. (Answered(zoneCall[t]) /\ Borrowed(zoneCall[t]))'
    BY <2>2, <2>3 DEF Answered, Borrowed
  <2>9. Inside' = {} => (tz \in AtHome)'
    BY <2>5, <2>7 DEF ZoneInv, AtHome
  <2> QED BY <2>3, <2>4, <2>5, <2>7, <2>8, <2>9, ZoneStep DEF ZoneInv
<1>3. ASSUME NEW t \in Threads, TzWrapper(t) PROVE ZoneInv'
  <2> USE DEF ZoneInv
  <2>1. Inside = {} /\ zoneCall[t].asked # <<>> /\ own' = own /\ spoilt' = spoilt
    BY <1>3 DEF TzWrapper, MayEnter
  <2>2. tz \in AtHome /\ zoneCall[t].stage = "outside"
    BY <2>1 DEF ZoneCall, Inside
  <2>3. Saved \in AtHome /\ Saved \in TzValues
    BY <2>2, AtHomeSaved DEF Saved, TzValues
  <2>4. Len(zoneCall[t].result) < Len(zoneCall[t].asked) /\ Wanted(t) \in TzValues
    BY <2>1, <2>2 DEF Answered, ZoneCall, Wanted
  <2>5. CASE /\ tz' = IF Wanted(t) = Own THEN tz ELSE Wanted(t)
             /\ zoneCall' = [zoneCall EXCEPT ![t].stage = "inside",
                                ![t].set = (Wanted(t) # Own), ![t].saved = Saved]
    <3> DEFINE s == (Wanted(t) # Own)
    <3>1. s \in BOOLEAN
      OBVIOUS
    <3>2. zoneCall' = [zoneCall EXCEPT ![t].stage = "inside", ![t].set = s, ![t].saved = Saved]
      BY <2>5
    <3> HIDE DEF s
    <3>3. /\ zoneCall'[t].asked = zoneCall[t].asked
          /\ zoneCall'[t].result = zoneCall[t].result
          /\ zoneCall'[t].stage = "inside"
          /\ zoneCall'[t].set = s
          /\ zoneCall'[t].saved = Saved
      BY <3>2, Zenon DEF ZoneCall
    <3>4. zoneCall' \in [Threads -> ZoneCall]
      BY <3>1, <3>2, <2>3, ZenonT(60) DEF ZoneCall
    <3>5. \A u \in Threads \ {t} : zoneCall'[u] = zoneCall[u]
      BY <3>2, Zenon
    <3>6. Answered(zoneCall[t])'
      BY <3>3, <2>1, <2>4 DEF Answered, Shown, AtHome
    <3>7. Borrowed(zoneCall[t])'
      <4>1. zoneCall'[t].asked[Len(zoneCall'[t].result) + 1] = Wanted(t)
        BY <3>3 DEF Wanted
      <4>2. CASE Wanted(t) = Own
        BY <4>1, <4>2, <3>3, <2>5, <2>1, <2>2 DEF Borrowed, s, Shown, AtHome
      <4>3. CASE Wanted(t) # Own
        BY <4>1, <4>3, <3>3, <2>5, <2>1, <2>3 DEF Borrowed, s, Shown, AtHome
      <4> QED BY <4>2, <4>3
    <3>8. tz' \in TzValues /\ t \in Inside'
      BY <2>4, <2>5, <3>3 DEF Inside
    <3> QED BY <2>1, <3>4, <3>5, <3>6, <3>7, <3>8, ZoneStep
  <2>6. CASE zoneCall' = [zoneCall EXCEPT ![t] = NotCalling] /\ tz' = tz
    <3>1. zoneCall' \in [Threads -> ZoneCall] /\ zoneCall'[t] = NotCalling
      BY <2>6 DEF ZoneCall, NotCalling, TzValues
    <3>2. \A u \in Threads \ {t} : zoneCall'[u] = zoneCall[u]
      BY <2>6
    <3>3. (Answered(zoneCall[t]) /\ Borrowed(zoneCall[t]))'
      BY <3>1 DEF Answered, Borrowed, NotCalling
    <3>4. (tz \in AtHome)'
      BY <2>1, <2>2, <2>6 DEF AtHome
    <3> QED BY <2>1, <2>6, <3>1, <3>2, <3>3, <3>4, ZoneStep
  <2> QED BY <1>3, <2>5, <2>6 DEF TzWrapper
<1>4. ASSUME NEW t \in Threads, Compute(t) PROVE ZoneInv'
  <2> USE DEF ZoneInv
  <2>1. zoneCall[t].stage = "inside" /\ own' = own /\ tz' = tz /\ spoilt' = spoilt
    BY <1>4 DEF Compute
  <2>2. Inside \subseteq {t}
    BY <2>1 DEF Inside
  <2> DEFINE w == zoneCall[t].asked[Len(zoneCall[t].result) + 1]
             r == Append(zoneCall[t].result, tz)
  <2>3. /\ tz \in Shown(w) /\ Len(zoneCall[t].result) < Len(zoneCall[t].asked)
        /\ IF zoneCall[t].set THEN zoneCall[t].saved \in AtHome ELSE tz \in AtHome
    BY <2>1 DEF Borrowed, Answered
  <2>4. CASE zoneCall' = [zoneCall EXCEPT ![t].result = Append(@, tz), ![t].stage = "computed"]
    <3>1. r \in Seq(TzValues)
      BY DEF ZoneCall
    <3>2. zoneCall' = [zoneCall EXCEPT ![t].result = r, ![t].stage = "computed"]
      BY <2>4
    <3>3. /\ Len(r) = Len(zoneCall[t].result) + 1
          /\ \A i \in 1..Len(zoneCall[t].result) : r[i] = zoneCall[t].result[i]
          /\ r[Len(r)] = tz
      BY DEF ZoneCall
    <3> HIDE DEF r
    <3>4. /\ zoneCall'[t].asked = zoneCall[t].asked
          /\ zoneCall'[t].result = r
          /\ zoneCall'[t].stage = "computed"
          /\ zoneCall'[t].set = zoneCall[t].set
          /\ zoneCall'[t].saved = zoneCall[t].saved
      BY <3>2, Zenon DEF ZoneCall
    <3>5. zoneCall' \in [Threads -> ZoneCall]
      BY <3>1, <3>2, Zenon DEF ZoneCall
    <3>6. \A u \in Threads \ {t} : zoneCall'[u] = zoneCall[u]
      BY <3>2, Zenon
    <3>7. \A i \in 1..Len(r) : r[i] \in Shown(zoneCall[t].asked[i])
      <4>1. \A i \in 1..Len(zoneCall[t].result) : zoneCall[t].result[i] \in Shown(zoneCall[t].asked[i])
        BY DEF Answered
      <4>2. Len(zoneCall[t].result) \in Nat
        BY DEF ZoneCall
      <4> QED BY <4>1, <4>2, <3>3, <2>3
    <3>8. Answered(zoneCall[t])'
      <4>1. Len(zoneCall[t].result) \in Nat /\ Len(zoneCall[t].asked) \in Nat
        BY DEF ZoneCall
      <4>2. Len(r) <= Len(zoneCall[t].asked)
        BY <3>3, <2>3, <4>1
      <4> QED BY <3>4, <3>7, <4>2, <2>1 DEF Answered, Shown, AtHome
    <3>9. Borrowed(zoneCall[t])'
      BY <3>4, <2>1, <2>3 DEF Borrowed, AtHome
    <3>10. t \in Inside'
      BY <3>4 DEF Inside
    <3> QED BY <2>1, <2>2, <3>5, <3>6, <3>8, <3>9, <3>10, ZoneStep
  <2>5. CASE zoneCall' = [zoneCall EXCEPT ![t].stage = "failed"]
    <3>1. /\ zoneCall'[t].asked = zoneCall[t].asked
          /\ zoneCall'[t].result = zoneCall[t].result
          /\ zoneCall'[t].stage = "failed"
          /\ zoneCall'[t].set = zoneCall[t].set
          /\ zoneCall'[t].saved = zoneCall[t].saved
      BY <2>5, ZenonT(60) DEF ZoneCall
    <3>2. zoneCall' \in [Threads -> ZoneCall]
      BY <2>5, ZenonT(60) DEF ZoneCall
    <3>3. \A u \in Threads \ {t} : zoneCall'[u] = zoneCall[u]
      BY <2>5, Zenon
    <3>4. (Answered(zoneCall[t]) /\ Borrowed(zoneCall[t]))'
      BY <3>1, <2>1, <2>3 DEF Answered, Borrowed, Shown, AtHome
    <3>5. t \in Inside'
      BY <3>1 DEF Inside
    <3> QED BY <2>1, <2>2, <3>2, <3>3, <3>4, <3>5, ZoneStep
  <2> QED BY <1>4, <2>4, <2>5 DEF Compute
<1>5. ASSUME NEW t \in Threads, TzWrapperDestroyed(t) PROVE ZoneInv'
  <2> USE DEF ZoneInv
  <2>1. /\ zoneCall[t].stage \in {"computed", "failed"} /\ own' = own
        /\ tz' \in IF zoneCall[t].set THEN {zoneCall[t].saved, tz} ELSE {tz}
        /\ spoilt' = (spoilt \/ (zoneCall[t].set /\ tz' # zoneCall[t].saved))
    BY <1>5 DEF TzWrapperDestroyed
  <2>2. Inside \subseteq {t}
    BY <2>1 DEF Inside
  <2>3. (tz \in AtHome)' /\ tz' \in TzValues /\ spoilt' \in BOOLEAN /\ (spoilt => spoilt')
    <3>1. TzValues' = TzValues /\ zoneCall[t].saved \in TzValues /\ zoneCall[t].set \in BOOLEAN
      BY DEF TzValues, ZoneCall
    <3>2. tz' \in TzValues /\ spoilt' \in BOOLEAN /\ (spoilt => spoilt')
      BY <2>1, <3>1
    <3>3. CASE spoilt'
      BY <3>1, <3>2, <3>3 DEF AtHome
    <3>4. CASE ~spoilt'
      <4>1. ~spoilt /\ tz' = IF zoneCall[t].set THEN zoneCall[t].saved ELSE tz
        BY <2>1, <3>1, <3>2, <3>4
      <4>2. tz' \in AtHome
        BY <2>1, <4>1 DEF Borrowed
      <4> QED BY <2>1, <3>2, <3>4, <4>1, <4>2 DEF AtHome
    <3> QED BY <3>2, <3>3, <3>4
  <2>4. PICK z : /\ zoneCall' = [zoneCall EXCEPT ![t] = z]
                 /\ \/ z = NotCalling
                    \/ /\ z = [zoneCall[t] EXCEPT !.stage = "outside"]
                       /\ zoneCall[t].stage # "failed"
                       /\ Len(zoneCall[t].result) # Len(zoneCall[t].asked)
    <3>1. zoneCall' = [zoneCall EXCEPT ![t] =
            IF zoneCall[t].stage = "failed" \/ Len(zoneCall[t].result) = Len(zoneCall[t].asked)
            THEN NotCalling ELSE [zoneCall[t] EXCEPT !.stage = "outside"]]
      BY <1>5 DEF TzWrapperDestroyed
    <3> QED BY <3>1
  <2>5. zoneCall[t] \in ZoneCall /\ Answered(zoneCall[t])
    OBVIOUS
  <2>6. z \in ZoneCall /\ z.stage = "outside"
    <3>1. NotCalling \in ZoneCall /\ NotCalling.stage = "outside"
      BY DEF ZoneCall, NotCalling, TzValues
    <3>2. CASE z = [zoneCall[t] EXCEPT !.stage = "outside"]
      BY <2>5, <3>2, Zenon DEF ZoneCall
    <3> QED BY <2>4, <3>1, <3>2
  <2>7. zoneCall' \in [Threads -> ZoneCall] /\ zoneCall'[t] = z
        /\ \A u \in Threads \ {t} : zoneCall'[u] = zoneCall[u]
    BY <2>4, <2>6
  <2>8. Answered(zoneCall[t])'
    <3>1. CASE z = NotCalling
      BY <2>7, <3>1 DEF Answered, NotCalling
    <3>2. CASE /\ z = [zoneCall[t] EXCEPT !.stage = "outside"]
               /\ zoneCall[t].stage # "failed"
               /\ Len(zoneCall[t].result) # Len(zoneCall[t].asked)
      <4>1. z.asked = zoneCall[t].asked /\ z.result = zoneCall[t].result
        BY <3>2, <2>5 DEF ZoneCall
      <4>2. Len(zoneCall[t].result) \in Nat /\ Len(zoneCall[t].asked) \in Nat
        BY <2>5 DEF ZoneCall
      <4>3. Len(z.result) < Len(z.asked)
        BY <4>1, <4>2, <3>2, <2>5 DEF Answered
      <4>4. \A w : Shown(w) \subseteq Shown(w)'
        BY <2>1, <2>3, HomeGrows
      <4> QED BY <2>1, <2>5, <2>6, <2>7, <4>1, <4>3, <4>4 DEF Answered
    <3> QED BY <2>4, <3>1, <3>2
  <2>9. Borrowed(zoneCall[t])'
    BY <2>6, <2>7 DEF Borrowed
  <2> QED BY <2>1, <2>2, <2>3, <2>7, <2>8, <2>9, ZoneStep
<1> QED BY <1>1, <1>2, <1>3, <1>4, <1>5 DEF ZoneNext

LEMMA ZoneInvariant == ZoneSpec => []ZoneInv
BY ZoneInitially, ZonePreserved, PTL DEF ZoneSpec

\* Times of named zones are computed in the zones asked for, for any number of
\* threads, zones and calls and whatever restores of TZ fail; until one fails, times
\* for NULL are the application's own and TZ is what it was when nobody computes.
THEOREM ZonesAreTheCallers == ZoneSpec => []ZoneIsTheCallers
<1>1. ZoneInv => ZoneIsTheCallers
  BY DEF ZoneInv, ZoneIsTheCallers, Answered, Shown, AtHome
<1> QED BY <1>1, ZoneInvariant, PTL

-----------------------------------------------------------------------------
\* What a QmKeys object remembers of the contacts: the focus contact is down
\* only if it is closed; for a regular camera key it is down if it is closed, and
\* then the key has been heard of.
Focused ==
    /\ cache.cameraFocusDown => "KEY_CAMERA_FOCUS" \in closed
    /\ regular =>
        /\ TwoStage(closed)
        /\ "KEY_CAMERA_FOCUS" \in closed =>
              cache.cameraFocusDown /\ cache.keyMap["Camera"] # NotCached

KeysInv ==
    /\ closed \subseteq Contacts /\ regular \in BOOLEAN
    /\ cache \in Cache
    /\ Focused /\ CameraCacheAgrees /\ NoPhantomPress /\ DeprecatedViewAgrees

\* The deprecated signals keep saying what the accessors return.
LEMMA SignalsFollow ==
    ASSUME cache \in Cache, DeprecatedViewAgrees, NEW v \in 0..2,
           NEW code \in SupportedKeyCodes \cup {"SW_KEYPAD_SLIDE"},
           Receive([code |-> code, value |-> v])
    PROVE  DeprecatedViewAgrees'
<1> DEFINE ev == [code |-> code, value |-> v]
           a == Announced(cache, ev)
<1>1. ev.code = code /\ ev.value = v
  OBVIOUS
<1>2. /\ cache' = readyRead(cache, ev)
      /\ moved' = [ch \in Channels |-> IF ch \in DOMAIN a THEN a[ch] ELSE moved[ch]]
  BY DEF Receive
<1> HIDE DEF ev
<1>3. {"cameraLauncher", "volumeUp", "volumeDown", "keyboardSlider"} = Channels
  BY DEF Channels
<1>4. CASE code = "KEY_CAMERA"
  <2>1. a = [cameraLauncher |-> IF v # 0 THEN "Through"
                                ELSE IF cache.cameraFocusDown THEN "Down" ELSE "Up"]
    BY <1>1, <1>4 DEF Announced, KeyOfEvent, codeToKey, KeyOfCode
  <2>2. /\ cache'.keyMap["Camera"] = IF v = 0 THEN CameraReleased(cache) ELSE "KeyDown"
        /\ \A k \in Keys \ {"Camera"} : cache'.keyMap[k] = cache.keyMap[k]
    BY <1>2, <1>4, CameraRead DEF ev
  <2>3. /\ moved'["cameraLauncher"] = IF v # 0 THEN "Through"
                                      ELSE IF cache.cameraFocusDown THEN "Down" ELSE "Up"
        /\ \A ch \in Channels \ {"cameraLauncher"} : moved'[ch] = moved[ch]
    BY <1>2, <1>3, <2>1
  <2> HIDE DEF a
  <2> QED BY <2>2, <2>3, <1>3, KeysKnown
          DEF DeprecatedViewAgrees, value, NotCached, CameraReleased, getCameraLauncherPosition
<1>5. CASE code = "KEY_CAMERA_FOCUS"
  <2>1. /\ cache'.keyMap["Camera"] =
              IF v = 0 THEN "KeyUp"
              ELSE IF value(cache, "Camera") = "KeyUp" THEN "KeyHalfDown"
              ELSE cache.keyMap["Camera"]
        /\ \A k \in Keys \ {"Camera"} : cache'.keyMap[k] = cache.keyMap[k]
    BY <1>2, <1>5, FocusRead DEF ev
  <2>2. KeyOfEvent(code) = "Camera"
    BY <1>5 DEF KeyOfEvent
  <2>3. a = IF v = 0 THEN [cameraLauncher |-> "Up"]
            ELSE IF value(cache, "Camera") = "KeyUp" THEN [cameraLauncher |-> "Down"]
            ELSE <<>>
    BY <1>1, <1>5, <2>2 DEF Announced
  <2>4. \A ch \in Channels : ch \notin DOMAIN <<>>
    BY DEF Channels
  <2>5. /\ moved'["cameraLauncher"] =
              IF v = 0 THEN "Up" ELSE IF value(cache, "Camera") = "KeyUp" THEN "Down"
              ELSE moved["cameraLauncher"]
        /\ \A ch \in Channels \ {"cameraLauncher"} : moved'[ch] = moved[ch]
    <3>1. CASE v = 0
      BY <1>2, <1>3, <2>3, <3>1
    <3>2. CASE v # 0 /\ value(cache, "Camera") = "KeyUp"
      BY <1>2, <1>3, <2>3, <3>2
    <3>3. CASE v # 0 /\ value(cache, "Camera") # "KeyUp"
      BY <1>2, <1>3, <2>3, <2>4, <3>3
    <3> QED BY <3>1, <3>2, <3>3
  <2> HIDE DEF a
  <2> QED BY <2>1, <2>5, <1>3, KeysKnown
          DEF DeprecatedViewAgrees, value, NotCached, getCameraLauncherPosition
<1>6. CASE code \notin {"KEY_CAMERA", "KEY_CAMERA_FOCUS"}
  <2> DEFINE key == KeyOfEvent(code)
  <2>1. /\ key # "Camera"
        /\ key \in Keys => cache'.keyMap[key] =
              IF v = 2 /\ key \in {"VolumeUp", "VolumeDown"} THEN cache.keyMap[key]
              ELSE UpOrDown(v)
        /\ \A k \in Keys \ {key} : cache'.keyMap[k] = cache.keyMap[k]
    BY <1>2, <1>6, OtherRead DEF ev
  <2> HIDE DEF key
  <2>2. a = CASE key = "VolumeUp" /\ v # 2 -> [volumeUp |-> BoolName(v = 1)]
              [] key = "VolumeDown" /\ v # 2 -> [volumeDown |-> BoolName(v = 1)]
              [] key = "KeyboardSlider" ->
                    [keyboardSlider |-> IF v = 0 THEN "KeyboardSliderOut"
                                        ELSE "KeyboardSliderIn"]
              [] OTHER -> <<>>
    BY <1>1, <1>6 DEF Announced, key
  <2>3. \A ch \in Channels : ch \notin DOMAIN <<>>
    BY DEF Channels
  <2>4. CASE key = "VolumeUp" /\ v # 2
    <3>1. /\ moved'["volumeUp"] = BoolName(v = 1)
          /\ \A ch \in Channels \ {"volumeUp"} : moved'[ch] = moved[ch]
      BY <1>2, <1>3, <2>2, <2>4
    <3>2. BoolName(v = 1) = BoolName(isVolumeDown(UpOrDown(v)))
      BY <2>4 DEF BoolName, isVolumeDown, UpOrDown
    <3> QED BY <2>1, <2>4, <3>1, <3>2, <1>3, KeysKnown
            DEF DeprecatedViewAgrees, value, NotCached, UpOrDown
  <2>5. CASE key = "VolumeDown" /\ v # 2
    <3>1. /\ moved'["volumeDown"] = BoolName(v = 1)
          /\ \A ch \in Channels \ {"volumeDown"} : moved'[ch] = moved[ch]
      BY <1>2, <1>3, <2>2, <2>5
    <3>2. BoolName(v = 1) = BoolName(isVolumeDown(UpOrDown(v)))
      BY <2>5 DEF BoolName, isVolumeDown, UpOrDown
    <3> QED BY <2>1, <2>5, <3>1, <3>2, <1>3, KeysKnown
            DEF DeprecatedViewAgrees, value, NotCached, UpOrDown
  <2>6. CASE key = "KeyboardSlider"
    <3>1. /\ moved'["keyboardSlider"] =
                IF v = 0 THEN "KeyboardSliderOut" ELSE "KeyboardSliderIn"
          /\ \A ch \in Channels \ {"keyboardSlider"} : moved'[ch] = moved[ch]
      BY <1>2, <1>3, <2>2, <2>6
    <3> QED BY <2>1, <2>6, <3>1, <1>3, KeysKnown
            DEF DeprecatedViewAgrees, value, NotCached, UpOrDown, getSliderPosition
  <2>7. CASE key # "KeyboardSlider" /\ ~(key \in {"VolumeUp", "VolumeDown"} /\ v # 2)
    <3>1. \A ch \in Channels : moved'[ch] = moved[ch]
      BY <1>2, <2>2, <2>3, <2>7
    <3> QED BY <2>1, <2>7, <3>1, <1>3, KeysKnown DEF DeprecatedViewAgrees, value
  <2> QED BY <2>4, <2>5, <2>6, <2>7
<1> QED BY <1>4, <1>5, <1>6

\* An event of value v of a contact: the cache after it keeps the invariant,
\* given that the contact is closed unless v is 0, and that no other one moved.
LEMMA Heard ==
    ASSUME KeysInv, NEW v \in 0..2, NEW code \in Contacts,
           Receive([code |-> code, value |-> v]),
           v = 0 => code \in closed /\ closed' = closed \ {code},
           v = 1 => code \notin closed /\ closed' = closed \cup {code},
           v = 2 => code \in closed /\ closed' = closed,
           regular' = (regular /\ TwoStage(closed'))
    PROVE  KeysInv'
<1> DEFINE ev == [code |-> code, value |-> v]
<1>0. cache' = readyRead(cache, ev)
  BY DEF Receive
<1>1. code \in SupportedKeyCodes \cup {"SW_KEYPAD_SLIDE"}
  BY QmKeysAssumption
<1>2. DeprecatedViewAgrees'
  BY <1>1, SignalsFollow DEF KeysInv
<1>3. closed' \subseteq Contacts /\ regular' \in BOOLEAN
  BY DEF KeysInv
<1>4. /\ v = 0 => code \notin closed'
      /\ v # 0 => code \in closed'
      /\ v # 1 => code \in closed
      /\ \A c : c # code => (c \in closed' <=> c \in closed)
  OBVIOUS
<1>5. cache' \in Cache /\ Focused' /\ CameraCacheAgrees' /\ NoPhantomPress'
  <2>0. KeyOfEvent("KEY_CAMERA") = "Camera" /\ KeyOfEvent("KEY_CAMERA_FOCUS") = "Camera"
    BY DEF KeyOfEvent, codeToKey, KeyOfCode
  <2>1. CASE code = "KEY_CAMERA"
    <3>1. /\ cache' \in Cache
          /\ cache'.keyMap["Camera"] = IF v = 0 THEN CameraReleased(cache) ELSE "KeyDown"
          /\ \A k \in Keys \ {"Camera"} : cache'.keyMap[k] = cache.keyMap[k]
          /\ cache'.cameraFocusDown = cache.cameraFocusDown
      BY <1>0, <2>1, CameraRead DEF KeysInv
    <3>2. ("KEY_CAMERA_FOCUS" \in closed') = ("KEY_CAMERA_FOCUS" \in closed)
      BY <1>4, <2>1
    <3>3. cache'.keyMap["Camera"] # NotCached
      BY <3>1 DEF CameraReleased, NotCached
    <3>4. Focused'
      BY <3>1, <3>2, <3>3, Zenon DEF KeysInv, Focused
    <3>5. CameraCacheAgrees'
      BY <1>4, <2>1, <3>1, <3>2
         DEF CameraCacheAgrees, KeysInv, Focused, CameraReleased, CameraState, Level, TwoStage
    <3>6. NoPhantomPress'
      <4>1. ASSUME NEW k \in Keys \ {"Camera"}, cache'.keyMap[k] = "KeyDown"
            PROVE  \E c \in closed' : KeyOfEvent(c) = k
        BY <1>4, <2>0, <2>1, <3>1, <4>1 DEF KeysInv, NoPhantomPress
      <4>2. /\ cache'.keyMap["Camera"] = "KeyDown" => "KEY_CAMERA" \in closed'
            /\ cache'.keyMap["Camera"] = "KeyHalfDown" => "KEY_CAMERA_FOCUS" \in closed'
        BY <1>4, <2>1, <3>1, <3>2 DEF KeysInv, Focused, CameraReleased
      <4> QED BY <4>1, <4>2 DEF NoPhantomPress
    <3> QED BY <3>1, <3>4, <3>5, <3>6
  <2>2. CASE code = "KEY_CAMERA_FOCUS"
    <3>1. /\ cache' \in Cache
          /\ cache'.keyMap["Camera"] =
                IF v = 0 THEN "KeyUp"
                ELSE IF value(cache, "Camera") = "KeyUp" THEN "KeyHalfDown"
                ELSE cache.keyMap["Camera"]
          /\ \A k \in Keys \ {"Camera"} : cache'.keyMap[k] = cache.keyMap[k]
          /\ cache'.cameraFocusDown = (v # 0)
      BY <1>0, <2>2, FocusRead DEF KeysInv
    <3>2. ("KEY_CAMERA" \in closed') = ("KEY_CAMERA" \in closed)
      BY <1>4, <2>2
    <3>3. cache'.keyMap["Camera"] # NotCached
      BY <3>1 DEF value, NotCached
    <3>4. Focused'
      BY <1>4, <2>2, <3>1, <3>3 DEF KeysInv, Focused
    <3>5. CameraCacheAgrees'
      <4> SUFFICES ASSUME regular'
                   PROVE  cache'.keyMap["Camera"] =
                            CameraState(Level("KEY_CAMERA_FOCUS"), Level("KEY_CAMERA"))'
        BY DEF CameraCacheAgrees
      <4> DEFINE K == cache.keyMap["Camera"]
      <4>1. regular /\ TwoStage(closed) /\ TwoStage(closed')
        BY Zenon DEF KeysInv, Focused
      <4>2. /\ "KEY_CAMERA_FOCUS" \in closed => K # NotCached
            /\ K # NotCached =>
                  K = CameraState(Level("KEY_CAMERA_FOCUS"), Level("KEY_CAMERA"))
        BY <4>1 DEF KeysInv, Focused, CameraCacheAgrees
      <4>3. CASE v = 0
        BY <1>4, <2>2, <3>1, <3>2, <4>1, <4>3 DEF CameraState, Level, TwoStage
      <4>4. CASE v = 1
        <5>1. "KEY_CAMERA_FOCUS" \notin closed /\ "KEY_CAMERA" \notin closed
          BY <2>2, <4>1, <4>4 DEF TwoStage
        <5>2. value(cache, "Camera") = "KeyUp"
          BY <4>2, <5>1 DEF value, CameraState, Level
        <5> QED BY <1>4, <2>2, <3>1, <3>2, <4>4, <5>1, <5>2 DEF CameraState, Level
      <4>5. CASE v = 2
        <5>1. "KEY_CAMERA_FOCUS" \in closed /\ closed' = closed
          BY <2>2, <4>5
        <5>2. K # NotCached /\ K \in {"KeyDown", "KeyHalfDown"}
          BY <4>2, <5>1 DEF CameraState, Level
        <5> QED BY <3>1, <4>2, <4>5, <5>1, <5>2 DEF value, Level
      <4> QED BY <4>3, <4>4, <4>5
    <3>6. NoPhantomPress'
      <4>1. ASSUME NEW k \in Keys \ {"Camera"}, cache'.keyMap[k] = "KeyDown"
            PROVE  \E c \in closed' : KeyOfEvent(c) = k
        BY <1>4, <2>0, <2>2, <3>1, <4>1 DEF KeysInv, NoPhantomPress
      <4>2. /\ cache'.keyMap["Camera"] = "KeyDown" => "KEY_CAMERA" \in closed'
            /\ cache'.keyMap["Camera"] = "KeyHalfDown" => "KEY_CAMERA_FOCUS" \in closed'
        BY <1>4, <2>2, <3>1, <3>2 DEF KeysInv, NoPhantomPress
      <4> QED BY <4>1, <4>2 DEF NoPhantomPress
    <3> QED BY <3>1, <3>4, <3>5, <3>6
  <2>3. CASE code \notin {"KEY_CAMERA", "KEY_CAMERA_FOCUS"}
    <3> DEFINE key == KeyOfEvent(code)
    <3>1. /\ cache' \in Cache
          /\ key # "Camera"
          /\ key \in Keys => cache'.keyMap[key] =
                IF v = 2 /\ key \in {"VolumeUp", "VolumeDown"} THEN cache.keyMap[key]
                ELSE UpOrDown(v)
          /\ \A k \in Keys \ {key} : cache'.keyMap[k] = cache.keyMap[k]
          /\ cache'.cameraFocusDown = cache.cameraFocusDown
      BY <1>0, <1>1, <2>3, OtherRead DEF KeysInv
    <3>2. /\ ("KEY_CAMERA" \in closed') = ("KEY_CAMERA" \in closed)
          /\ ("KEY_CAMERA_FOCUS" \in closed') = ("KEY_CAMERA_FOCUS" \in closed)
          /\ cache'.keyMap["Camera"] = cache.keyMap["Camera"]
      BY <1>4, <2>3, <3>1, KeysKnown
    <3>3. Focused'
      BY <3>1, <3>2, Zenon DEF KeysInv, Focused, TwoStage
    <3>4. CameraCacheAgrees'
      BY <3>2 DEF KeysInv, CameraCacheAgrees, CameraState, Level
    <3>5. NoPhantomPress'
      <4>1. ASSUME NEW k \in Keys \ {"Camera"}, cache'.keyMap[k] = "KeyDown"
            PROVE  \E c \in closed' : KeyOfEvent(c) = k
        <5>1. CASE k = key
          BY <1>4, <3>1, <4>1, <5>1 DEF UpOrDown
        <5>2. CASE k # key
          BY <1>4, <3>1, <4>1, <5>2 DEF KeysInv, NoPhantomPress
        <5> QED BY <5>1, <5>2
      <4> QED BY <3>2, <4>1, Zenon DEF KeysInv, NoPhantomPress
    <3> QED BY <3>1, <3>3, <3>4, <3>5
  <2> QED BY <2>1, <2>2, <2>3
<1> QED BY <1>2, <1>3, <1>5 DEF KeysInv

LEMMA KeysInvariant == Spec => []KeysInv
<1>1. Init => KeysInv
  <2> SUFFICES ASSUME Init PROVE KeysInv
    OBVIOUS
  <2>1. cache = EmptyCache /\ EmptyCache \in Cache /\ EmptyCache.cameraFocusDown = FALSE
        /\ \A k \in Keys : EmptyCache.keyMap[k] = NotCached
    BY DEF Init, EmptyCache, Cache
  <2>2. regular => "KEY_CAMERA" \notin closed /\ "KEY_CAMERA_FOCUS" \notin closed
    BY DEF Init
  <2>3. Focused
    BY <2>1, <2>2 DEF Focused, TwoStage
  <2>4. CameraCacheAgrees /\ NoPhantomPress
    BY <2>1, KeysKnown DEF CameraCacheAgrees, NoPhantomPress, NotCached
  <2>5. DeprecatedViewAgrees
    BY DEF Init, DeprecatedViewAgrees, Channels
  <2> QED BY <2>1, <2>3, <2>4, <2>5 DEF Init, KeysInv
<1>2. KeysInv /\ [Next]_vars => KeysInv'
  <2> SUFFICES ASSUME KeysInv, [Next]_vars PROVE KeysInv'
    OBVIOUS
  <2>1. CASE UNCHANGED vars
    BY <2>1 DEF vars, KeysInv, Focused, TwoStage, CameraCacheAgrees, Level, NoPhantomPress,
                DeprecatedViewAgrees
  <2>2. ASSUME NEW code \in Contacts, CloseContact(code) PROVE KeysInv'
    BY <2>2, Heard DEF CloseContact
  <2>3. ASSUME NEW code \in Contacts, OpenContact(code) PROVE KeysInv'
    BY <2>3, Heard DEF OpenContact
  <2>4. ASSUME NEW code \in Contacts, Repeat(code) PROVE KeysInv'
    <3>1. regular' = (regular /\ TwoStage(closed'))
      BY <2>4 DEF Repeat, KeysInv, Focused
    <3> QED BY <2>4, <3>1, Heard DEF Repeat
  <2> QED BY <2>1, <2>2, <2>3, <2>4 DEF Next
<1> QED BY <1>1, <1>2, PTL DEF Spec

\* The cached state of a camera key that is regular is what the daemon would be
\* asked for, for any set of contacts.
THEOREM CameraCacheIsRight == Spec => []CameraCacheAgrees
<1>1. KeysInv => CameraCacheAgrees
  BY DEF KeysInv
<1> QED BY <1>1, KeysInvariant, PTL

\* No key is cached as pressed when none of its contacts is closed.
THEOREM NoKeyIsInvented == Spec => []NoPhantomPress
<1>1. KeysInv => NoPhantomPress
  BY DEF KeysInv
<1> QED BY <1>1, KeysInvariant, PTL

\* The deprecated signals of the keys and their accessors agree.
THEOREM SignalsAgree == Spec => []DeprecatedViewAgrees
<1>1. KeysInv => DeprecatedViewAgrees
  BY DEF KeysInv
<1> QED BY <1>1, KeysInvariant, PTL

-----------------------------------------------------------------------------
(* The requests of the classes to their services: what a setter sends, what *)
(* the service makes of it, and what the getter reads back.                 *)

\* The service remains in one of its states when it takes w, and reads back r if it
\* heeds w.
MakesItSo(c, r, valid, w) ==
    \A s \in States(c) : \A t \in Do(c, s, w) :
        /\ t \in States(c)
        /\ valid /\ Heeded(c, s, w) => Get(c, TRUE, t, TRUE, t) = r

\* A setter of the class refuses a request, or sends one message that makes it so.
Sets(c) ==
    \A r \in Requests(c), valid \in BOOLEAN :
        Sent(c, r, valid) # <<>> =>
            \E w : Sent(c, r, valid) = <<w>> /\ MakesItSo(c, r, valid, w)

LEMMA DisplaySets == Sets("display")
BY DEF Sets, MakesItSo, Requests, Sent, States, Do, Get, DisplaySet, DisplayGet, Named,
       DisplayRequests, DisplayStates

LEMMA BrightnessSets == Sets("brightness")
BY MceAssumption
   DEF Sets, MakesItSo, Requests, Sent, States, Do, Get, setDisplayBrightnessValue,
       getMaxDisplayBrightnessValue, getDisplayBrightnessValue, Number

LEMMA TimeoutsSet == Sets("blankTimeout") /\ Sets("dimTimeout")
<1>1. Sets("blankTimeout")
  BY MceAssumption
     DEF Sets, MakesItSo, Requests, Sent, States, Do, Get, setDisplayBlankTimeout,
         getDisplayBlankTimeout, Number
<1>2. Sets("dimTimeout")
  BY MceAssumption
     DEF Sets, MakesItSo, Requests, Sent, States, Do, Get, setDisplayDimTimeout,
         getDisplayDimTimeout, Number
<1> QED BY <1>1, <1>2

LEMMA BlankingSets == Sets("blanking")
BY DEF Sets, MakesItSo, Requests, Sent, States, Do, Get, setBlankingWhenCharging,
       getBlankingWhenCharging, Number

LEMMA ModeSets == Sets("mode")
<1> SUFFICES ASSUME NEW r \in ModeRequests, NEW valid \in BOOLEAN, setMode(r) # <<>>
             PROVE  \E w : Sent("mode", r, valid) = <<w>> /\ MakesItSo("mode", r, valid, w)
  BY DEF Sets, Requests, Sent
<1>1. CASE r = "Normal"
  <2>1. setMode(r) = <<1>>
    BY <1>1 DEF setMode, Named
  <2>2. ASSUME NEW s \in States("mode")
        PROVE  ModeDo(s, 1) \in States("mode") /\ getMode(TRUE, ModeDo(s, 1)) = r
    BY <1>1 DEF States, ModeDo, getMode, radioStateToDeviceMode
  <2>3. MakesItSo("mode", r, valid, 1)
    BY <2>2 DEF MakesItSo, Do, Get
  <2> QED BY <2>1, <2>3 DEF Sent
<1>2. CASE r = "Flight"
  <2>1. setMode(r) = <<0>>
    BY <1>2 DEF setMode, Named
  <2>2. ASSUME NEW s \in States("mode")
        PROVE  ModeDo(s, 0) \in States("mode") /\ getMode(TRUE, ModeDo(s, 0)) = r
    BY <1>2 DEF States, ModeDo, getMode, radioStateToDeviceMode
  <2>3. MakesItSo("mode", r, valid, 0)
    BY <2>2 DEF MakesItSo, Do, Get
  <2> QED BY <2>1, <2>3 DEF Sent
<1>3. CASE r = "Error"
  BY <1>3 DEF setMode, Named
<1> QED BY <1>1, <1>2, <1>3 DEF ModeRequests

LEMMA PSMSets == Sets("psm")
<1> SUFFICES ASSUME NEW r \in PSMRequests, NEW valid \in BOOLEAN, setPSMState(r) # <<>>
             PROVE  \E w : Sent("psm", r, valid) = <<w>> /\ MakesItSo("psm", r, valid, w)
  BY DEF Sets, Requests, Sent
<1>1. PICK w \in BOOLEAN : setPSMState(r) = <<w>> /\ getPSMState(TRUE, w) = r
  <2>1. CASE r = "PSMStateOn"
    <3>1. setPSMState(r) = <<TRUE>>
      BY <2>1 DEF setPSMState, Named
    <3>2. getPSMState(TRUE, TRUE) = r
      BY <2>1 DEF getPSMState, psmStateToModeEnum
    <3> QED BY <3>1, <3>2
  <2>2. CASE r = "PSMStateOff"
    <3>1. setPSMState(r) = <<FALSE>>
      BY <2>2 DEF setPSMState, Named
    <3>2. getPSMState(TRUE, FALSE) = r
      BY <2>2 DEF getPSMState, psmStateToModeEnum
    <3> QED BY <3>1, <3>2
  <2>3. CASE r = "PSMError"
    BY <2>3 DEF setPSMState, Named
  <2> QED BY <2>1, <2>2, <2>3 DEF PSMRequests
<1>2. MakesItSo("psm", r, valid, w)
  BY <1>1 DEF MakesItSo, States, Do, PSMDo, Heeded
<1> QED BY <1>1, <1>2 DEF Sent

LEMMA TkLockSets == Sets("tklock")
<1> SUFFICES ASSUME NEW r \in LockRequests, NEW valid \in BOOLEAN
             PROVE  /\ Sent("tklock", r, valid) = <<stateToString(r)>>
                    /\ MakesItSo("tklock", r, valid, stateToString(r))
  BY DEF Sets, Requests
<1>1. \A s \in LockStates : \A w : TkLockDo(s, w) \in LockStates
  BY DEF TkLockDo
<1>2. ASSUME NEW s \in LockStates, Heeded("tklock", s, stateToString(r))
      PROVE  stringToState(TkLockDo(s, stateToString(r))) = r
  <2>1. CASE r = "Locked"
    <3>1. stateToString(r) = "locked" /\ stringToState("locked") = r
      BY <2>1 DEF stateToString, stringToState, Named
    <3> QED BY <3>1 DEF TkLockDo, LockStates
  <2>2. CASE r = "Unlocked"
    <3>1. stateToString(r) = "unlocked" /\ stringToState("unlocked") = r
      BY <2>2 DEF stateToString, stringToState, Named
    <3> QED BY <3>1 DEF TkLockDo, LockStates
  <2>3. CASE r = "Unknown"
    <3>1. stateToString(r) = "other"
      BY <2>3 DEF stateToString, Named
    <3> QED BY <1>2, <3>1 DEF Heeded, LockStates
  <2> QED BY <2>1, <2>2, <2>3 DEF LockRequests
<1>3. MakesItSo("tklock", r, valid, stateToString(r))
  BY <1>1, <1>2 DEF MakesItSo, States, Do, Get, TkLockGet
<1> QED BY <1>3 DEF Sent, TkLockSet

LEMMA DeviceLockSets == Sets("devicelock")
BY DEF Sets, MakesItSo, Requests, Sent, States, Do, Get, DeviceLockSet, DeviceLockGet,
       stateFromState, stateToState, DeviceLockNames, DeviceLockDo, LockRequests, Heeded

LEMMA CallSets == Sets("call")
<1> SUFFICES ASSUME NEW r \in CallRequests, NEW valid \in BOOLEAN, CallSet(r) # <<>>
             PROVE  \E w : Sent("call", r, valid) = <<w>> /\ MakesItSo("call", r, valid, w)
  BY DEF Sets, Requests, Sent
<1>1. PICK x \in {"None", "Active", "Service"}, y \in {"Normal", "Emergency"} : r = <<x, y>>
  BY DEF CallRequests, CallSet
<1>2. PICK n \in DOMAIN CallNames :
        n = (CHOOSE m \in DOMAIN CallNames : CallNames[m] = x) /\ CallNames[n] = x
  BY DEF CallNames
<1>3. PICK k \in DOMAIN TypeNames :
        k = (CHOOSE m \in DOMAIN TypeNames : TypeNames[m] = y) /\ TypeNames[k] = y
  BY DEF TypeNames
<1>4. CallSet(r) = <<<<n, k>>>>
  BY <1>1, <1>2, <1>3 DEF CallSet
<1>5. <<n, k>> \in CallStates
  BY DEF CallStates, CallNames, TypeNames
<1>6. <<getState(TRUE, <<n, k>>), getType(TRUE, <<n, k>>)>> = r
  BY <1>1, <1>2, <1>3 DEF getState, getType, Named
<1>7. MakesItSo("call", r, valid, <<n, k>>)
  <2>1. PICK w : w = <<n, k>>
    OBVIOUS
  <2>2. \A s \in CallStates : CallDo(s, w) \in CallStates
    BY <1>5, <2>1 DEF CallDo
  <2>3. ASSUME NEW s \in CallStates, Heeded("call", s, w)
        PROVE  <<getState(TRUE, CallDo(s, w)), getType(TRUE, CallDo(s, w))>> = r
    <3>1. CallDo(s, w) = w
      BY <2>3 DEF Heeded
    <3> QED BY <1>6, <2>1, <3>1
  <2>4. MakesItSo("call", r, valid, w)
    BY <2>2, <2>3 DEF MakesItSo, States, Do, Get
  <2> QED BY <2>1, <2>4
<1> QED BY <1>4, <1>7 DEF Sent

LEMMA CABCSets == Sets("cabc")
BY DEF Sets, MakesItSo, Requests, Sent, States, Do, Get, CABCSet, CABCGet, CABCModes,
       CABCRequests, Named

\* The string of a mode that can be asked for stands for that mode only.
LEMMA ModeNamed ==
    ASSUME NEW r \in Requestable \cup {"Ask"}
    PROVE  /\ modeToString(r) \in DOMAIN USBNames \ USBEvents
           /\ stringToMode(modeToString(r)) = r
<1>1. \E s \in DOMAIN USBNames : USBNames[s] = r
  BY DEF USBNames, Requestable
<1>2. modeToString(r) \in DOMAIN USBNames /\ USBNames[modeToString(r)] = r
  BY <1>1 DEF modeToString
<1>3. modeToString(r) \notin USBEvents
  BY <1>2 DEF USBNames, Requestable, USBEvents
<1> QED BY <1>2, <1>3 DEF stringToMode, Named

LEMMA USBSets == Sets("usb") /\ Sets("usbDefault")
<1>1. ASSUME NEW r \in Requests("usb"), NEW valid \in BOOLEAN, Sent("usb", r, valid) # <<>>
      PROVE  \E w : Sent("usb", r, valid) = <<w>> /\ MakesItSo("usb", r, valid, w)
  <2>1. Sent("usb", r, valid) = USBSet(r)
    BY DEF Sent
  <2>2. r \in Requestable /\ USBSet(r) = <<modeToString(r)>>
    BY <1>1, <2>1 DEF USBSet
  <2>3. MakesItSo("usb", r, valid, modeToString(r))
    BY <2>2, ModeNamed DEF MakesItSo, States, Do, Get, USBGet
  <2> QED BY <2>1, <2>2, <2>3
<1>2. ASSUME NEW r \in Requests("usbDefault"), NEW valid \in BOOLEAN,
             Sent("usbDefault", r, valid) # <<>>
      PROVE  \E w : /\ Sent("usbDefault", r, valid) = <<w>>
                    /\ MakesItSo("usbDefault", r, valid, w)
  <2>1. Sent("usbDefault", r, valid) = IF valid THEN setDefaultMode(r) ELSE <<>>
    BY DEF Sent
  <2>2. r \in Requestable \cup {"Ask"} /\ Sent("usbDefault", r, valid) = <<modeToString(r)>>
    BY <1>2, <2>1 DEF setDefaultMode
  <2>3. MakesItSo("usbDefault", r, valid, modeToString(r))
    BY <2>2, ModeNamed DEF MakesItSo, States, Do, Get, getDefaultMode
  <2> QED BY <2>2, <2>3
<1> QED BY <1>1, <1>2 DEF Sets

LEMMA SystemSets == Sets("system")
BY DEF Sets, MakesItSo, Requests, Sent, States, Do, SystemSet, SystemDo, SystemEvents,
       Named, Heeded

\* Every class but the threshold of power saving, which takes two messages.
LEMMA OneMessageSets == ASSUME NEW c \in ClassNames \ {"batteryPsm"} PROVE Sets(c)
<1>1. Sets("activity") /\ Sets("usbModes") /\ Sets("thermal")
  BY DEF Sets, Requests
<1> QED BY <1>1, DisplaySets, BrightnessSets, TimeoutsSet, BlankingSets, ModeSets, PSMSets,
           TkLockSets, DeviceLockSets, CallSets, CABCSets, USBSets, SystemSets
        DEF ClassNames

-----------------------------------------------------------------------------
\* A set of naturals that is not empty has a least element.
LEMMA LeastNatural ==
    ASSUME NEW T, T \subseteq Nat, T # {}
    PROVE  \E n \in T : \A m \in T : n <= m
<1>1. IsWellFoundedOn(OpToRel(<, Nat), Nat)
  BY NatLessThanWellFounded
<1>2. \A m, n \in Nat : m < n => <<m, n>> \in OpToRel(<, Nat)
  BY DEF OpToRel
<1>3. PICK n \in T : \A m \in T : <<m, n>> \notin OpToRel(<, Nat)
  BY <1>1, WFMin
<1>4. \A m \in T : m \in Nat /\ ~(m < n)
  BY <1>2, <1>3
<1>5. n \in Nat /\ \A m \in T : n <= m
  BY <1>4
<1> QED BY <1>5

InList == {Thresholds[i] : i \in DOMAIN Thresholds}

LEMMA ListOfThresholds ==
    /\ Len(Thresholds) \in Nat \ {0} /\ DOMAIN Thresholds = 1..Len(Thresholds)
    /\ \A i \in 1..Len(Thresholds) : Thresholds[i] \in 1..100
<1>1. Len(Thresholds) \in Nat \ {0} /\ DOMAIN Thresholds = 1..Len(Thresholds)
  BY MceAssumption, EmptySeq, LenProperties
<1> QED BY <1>1, MceAssumption, ElementOfSeq

\* The threshold set for a request is always one of the list, sorted or not.
LEMMA ThresholdInList == ASSUME NEW p \in Int PROVE ThresholdFor(p) \in InList
<1> DEFINE fits == {i \in DOMAIN Thresholds : p <= Thresholds[i] \/ i = Len(Thresholds)}
<1>1. Len(Thresholds) \in Nat \ {0} /\ DOMAIN Thresholds = 1..Len(Thresholds)
  BY ListOfThresholds
<1>2. \A i \in 1..Len(Thresholds) : Thresholds[i] \in 1..100
  BY ListOfThresholds
<1>3. Len(Thresholds) \in fits
  BY <1>1
<1>4. PICK n \in fits : \A m \in fits : n <= m
  <2>1. fits \subseteq Nat
    BY <1>1
  <2> HIDE DEF fits
  <2> QED BY <1>3, <2>1, LeastNatural
<1>5. \A j \in 1..(n - 1) : p > Thresholds[j]
  <2> SUFFICES ASSUME NEW j \in 1..(n - 1) PROVE p > Thresholds[j]
    OBVIOUS
  <2>1. n \in 1..Len(Thresholds) /\ j \in DOMAIN Thresholds /\ ~(n <= j)
    BY <1>1, <1>4
  <2>2. ~(p <= Thresholds[j])
    BY <1>4, <2>1
  <2>3. PICK h \in 1..100 : h = Thresholds[j]
    BY <1>1, <1>2, <2>1
  <2> QED BY <2>2, <2>3
<1>6. \E i \in DOMAIN Thresholds :
        /\ p <= Thresholds[i] \/ i = Len(Thresholds)
        /\ \A j \in 1..(i - 1) : p > Thresholds[j]
  BY <1>4, <1>5
<1> QED BY <1>6 DEF ThresholdFor, InList

LEMMA OneAndOne == ASSUME NEW a, NEW b PROVE <<a>> \o <<b>> = <<a, b>>
<1>1. /\ <<a>> \in Seq({a, b}) /\ Len(<<a>>) = 1 /\ <<a>>[1] = a
      /\ <<b>> \in Seq({a, b}) /\ Len(<<b>>) = 1 /\ <<b>>[1] = b
      /\ <<a, b>> \in Seq({a, b}) /\ Len(<<a, b>>) = 2
      /\ <<a, b>>[1] = a /\ <<a, b>>[2] = b
  OBVIOUS
<1>2. PICK both : both = <<a>> \o <<b>>
  OBVIOUS
<1>3. /\ both \in Seq({a, b}) /\ Len(both) = 2
      /\ both[1] = a /\ both[2] = b
  BY <1>1, <1>2, ConcatProperties
<1>4. PICK two : two = <<a, b>>
  OBVIOUS
<1>5. \A i \in 1..2 : both[i] = two[i]
  BY <1>1, <1>3, <1>4
<1> QED BY <1>1, <1>2, <1>3, <1>4, <1>5, SeqEqual

\* The requests for a threshold: power saving is switched, and before that the
\* threshold set if there is one to set and the list is known.
LEMMA PowerSent ==
    ASSUME NEW r \in Requests("batteryPsm"), NEW valid \in BOOLEAN,
           Sent("batteryPsm", r, valid) # <<>>
    PROVE  /\ r \in 0..100
           /\ Sent("batteryPsm", r, valid) =
                IF r > 0 /\ valid THEN <<[threshold |-> ThresholdFor(r)], [enabled |-> TRUE]>>
                ELSE <<[enabled |-> r > 0]>>
<1>1. r \in Int
  <2>1. PICK h \in 1..100 : h = Thresholds[1]
    BY ListOfThresholds
  <2>2. Requests("batteryPsm") = {-1, 0, 1, 100, 101} \cup {h + 1}
    BY <2>1 DEF Requests
  <2> QED BY <2>2
<1>2. Sent("batteryPsm", r, valid) = setPSMBatteryMode(r, valid)
  BY DEF Sent
<1>3. r \in 0..100
  BY <1>1, <1>2 DEF setPSMBatteryMode
<1>4. CASE r > 0 /\ valid
  <2>1. setPSMBatteryMode(r, valid) =
          <<[threshold |-> ThresholdFor(r)]>> \o <<[enabled |-> r > 0]>>
    BY <1>3, <1>4 DEF setPSMBatteryMode
  <2>2. [enabled |-> r > 0] = [enabled |-> TRUE]
    BY <1>4
  <2>3. \A a, b : <<a>> \o <<b>> = <<a, b>>
    BY OneAndOne
  <2>4. setPSMBatteryMode(r, valid) = <<[threshold |-> ThresholdFor(r)], [enabled |-> TRUE]>>
    BY <2>1, <2>2, <2>3, Zenon
  <2> QED BY <1>2, <1>3, <1>4, <2>4
<1>5. CASE ~(r > 0 /\ valid)
  <2>1. setPSMBatteryMode(r, valid) = <<>> \o <<[enabled |-> r > 0]>>
    <3>1. ~(r < 0 \/ r > 100)
      BY <1>3
    <3> QED BY <1>5, <3>1, Zenon DEF setPSMBatteryMode
  <2> QED BY <1>2, <1>3, <1>5, <2>1
<1> QED BY <1>4, <1>5

\* One of the two settings changes, the other remains.
LEMMA PowerDone ==
    ASSUME NEW s \in BatteryPSM
    PROVE  /\ s.enabled \in BOOLEAN /\ s.threshold \in InList
           /\ \A v : BatteryPSMDo(s, [threshold |-> v]) = [enabled |-> s.enabled, threshold |-> v]
           /\ \A b : BatteryPSMDo(s, [enabled |-> b]) = [enabled |-> b, threshold |-> s.threshold]
BY DEF BatteryPSMDo, BatteryPSM, InList

-----------------------------------------------------------------------------
\* The messages a class may have on their way: a query, or the i-th message of
\* a request.
CallOf(c, r, valid, i) ==
    [query |-> FALSE, message |-> Sent(c, r, valid)[i],
     request |-> r, listed |-> valid, first |-> i = 1, last |-> i = Len(Sent(c, r, valid))]

CallsOf(c, r, valid) == {CallOf(c, r, valid, i) : i \in DOMAIN Sent(c, r, valid)}

AnyCall(c) ==
    {[query |-> TRUE]} \cup
    (UNION {CallsOf(c, x[1], x[2]) : x \in Requests(c) \X BOOLEAN})

Audible(c) == States(c) \cup (IF c = "usb" THEN USBEvents ELSE {})

RequestTypes ==
    /\ class \in ClassNames
    /\ service \in States(class)
    /\ outbox \in [Apps -> Seq(AnyCall(class))]
    /\ inbox \in Seq(Audible(class))
    /\ reading # <<>> => class \in TwoQueries

\* What a request makes of the service when its last message is taken, and when
\* there is one to come.
AskedInv ==
    asked = <<>> \/ \E r \in Requests(class) :
        \/ /\ asked = <<r, TRUE, TRUE>>
           /\ Get(class, TRUE, service, TRUE, service) =
                IF class = "batteryPsm" /\ r > 0 THEN ThresholdFor(r) ELSE r
        \/ /\ asked = <<r, FALSE, TRUE>>
           /\ class = "batteryPsm" /\ r > 0 /\ service.threshold = ThresholdFor(r)
        \/ \E all \in BOOLEAN : asked = <<r, all, FALSE>>

\* A message sets the threshold to one that was asked for; one that enables power
\* saving comes after such a message, or finds such a threshold.
SetsTo(m, v) == ~m.query /\ m.message = [threshold |-> v]
Enables(m) == ~m.query /\ m.message = [enabled |-> TRUE]

Prudent(calls, t, T) ==
    \A i \in 1..Len(calls) :
        /\ \A v : SetsTo(calls[i], v) => v \in T
        /\ Enables(calls[i]) =>
              t \in T \/ \E j \in 1..(i - 1) : \E v : SetsTo(calls[j], v)

PowerInv ==
    class = "batteryPsm" =>
        /\ thresholds \subseteq InList
        /\ service.enabled => service.threshold \in thresholds
        /\ \A a \in Apps : Prudent(outbox[a], service.threshold, thresholds)

\* The newest state on its way is the state of the service; when none is, the
\* reader believes it, and has half a reading of it.
News(c, s) == ~(c = "usb" /\ s \in USBEvents)

Following ==
    class \notin Silent =>
        /\ \A i \in 1..Len(inbox) :
              News(class, inbox[i]) /\ (\A j \in (i + 1)..Len(inbox) : ~News(class, inbox[j]))
                  => inbox[i] = service
        /\ (\A i \in 1..Len(inbox) : ~News(class, inbox[i])) =>
              /\ view # <<>> => Told(class, service) = {} \/ view[1] \in Told(class, service)
              /\ reading # <<>> => reading[1].state = service

\* The signal of a class tells what its getter answers.
LEMMA ToldIsGot ==
    ASSUME NEW c \in ClassNames, c \notin Silent, c # "system", NEW s \in States(c)
    PROVE  Told(c, s) = {Get(c, TRUE, s, TRUE, s)}
<1>1. CASE c = "display"
  BY <1>1 DEF Told, Get, States, DisplayStates, DisplayTold, DisplayGet, Named, KnownOnly
<1>2. CASE c = "mode"
  BY <1>2 DEF Told, Get, deviceModeChangedSlot, getMode
<1>3. CASE c = "psm"
  BY <1>3 DEF Told, Get, devicePSMChangedSlot, getPSMState
<1>4. CASE c = "tklock"
  BY <1>4 DEF Told, Get, touchAndKeyboardStateChanged, TkLockGet
<1>5. CASE c = "call"
  BY <1>5 DEF Told, Get, callStateChanged, getState, getType
<1>6. CASE c = "activity"
  BY <1>6 DEF Told, Get, States, slotActivityChanged, ActivityGet
<1>7. CASE c = "usb"
  BY <1>7 DEF Told, Get, States, USBTold, USBGet, USBNames, USBEvents
<1>8. CASE c = "usbModes"
  BY <1>8 DEF Told, Get, supportedModesChanged, getSupportedModes
<1>9. CASE c = "thermal"
  BY <1>9 DEF Told, Get, thermalStateChanged, ThermalGet
<1>10. CASE c = "devicelock"
  BY <1>10 DEF Told, Get, deviceStateChanged, DeviceLockGet
<1> QED BY <1>1, <1>2, <1>3, <1>4, <1>5, <1>6, <1>7, <1>8, <1>9, <1>10
        DEF ClassNames, Silent

\* A request is one or two messages, or refused.
LEMMA SentLength ==
    ASSUME NEW c \in ClassNames, NEW r \in Requests(c), NEW valid \in BOOLEAN
    PROVE  /\ Len(Sent(c, r, valid)) \in 0..2
           /\ DOMAIN Sent(c, r, valid) = 1..Len(Sent(c, r, valid))
<1>1. Len(<<>>) = 0 /\ DOMAIN <<>> = 1..0
  OBVIOUS
<1>2. \A w : Len(<<w>>) = 1 /\ DOMAIN <<w>> = 1..1
  OBVIOUS
<1>3. \A w, x : Len(<<w, x>>) = 2 /\ DOMAIN <<w, x>> = 1..2
  OBVIOUS
<1>4. CASE Sent(c, r, valid) = <<>>
  BY <1>1, <1>4
<1>5. CASE Sent(c, r, valid) # <<>> /\ c # "batteryPsm"
  <2>1. \E w : Sent(c, r, valid) = <<w>>
    BY <1>5, OneMessageSets DEF Sets
  <2> QED BY <1>2, <2>1
<1>6. CASE Sent(c, r, valid) # <<>> /\ c = "batteryPsm"
  <2>1. \/ \E w : Sent(c, r, valid) = <<w>>
        \/ \E w, x : Sent(c, r, valid) = <<w, x>>
    BY <1>6, PowerSent
  <2> QED BY <1>2, <1>3, <2>1
<1> QED BY <1>4, <1>5, <1>6

\* The messages of a request, as a sequence.
LEMMA CallsSent ==
    ASSUME NEW c \in ClassNames, NEW r \in Requests(c), NEW valid \in BOOLEAN, NEW new,
           new = [i \in DOMAIN Sent(c, r, valid) |-> CallOf(c, r, valid, i)]
    PROVE  /\ new \in Seq(AnyCall(c)) /\ Len(new) = Len(Sent(c, r, valid))
           /\ \A i \in 1..Len(new) : new[i] = CallOf(c, r, valid, i)
<1>1. PICK n \in 0..2 : n = Len(Sent(c, r, valid)) /\ DOMAIN Sent(c, r, valid) = 1..n
  BY SentLength
<1>2. \A i \in 1..n : CallOf(c, r, valid, i) \in AnyCall(c)
  <2> SUFFICES ASSUME NEW i \in 1..n PROVE CallOf(c, r, valid, i) \in AnyCall(c)
    OBVIOUS
  <2>1. CallOf(c, r, valid, i) \in CallsOf(c, r, valid)
    BY <1>1 DEF CallsOf
  <2>2. <<r, valid>> \in Requests(c) \X BOOLEAN
    OBVIOUS
  <2> QED BY <2>1, <2>2 DEF AnyCall
<1>3. new \in [1..n -> AnyCall(c)]
  BY <1>1, <1>2
<1>4. new \in Seq(AnyCall(c)) /\ Len(new) = n
  BY <1>3
<1> QED BY <1>1, <1>3, <1>4

\* A message of a request, taken apart.
LEMMA CallParts ==
    ASSUME NEW c, NEW r, NEW valid \in BOOLEAN, NEW i, NEW m, m = CallOf(c, r, valid, i)
    PROVE  /\ ~m.query /\ m.message = Sent(c, r, valid)[i]
           /\ m.request = r /\ m.listed = valid
           /\ m.first = (i = 1) /\ m.last = (i = Len(Sent(c, r, valid)))
BY DEF CallOf

-----------------------------------------------------------------------------
\* The service takes the first message an application has on its way: a query, of
\* which the state is unchanged, or a message of a request.
LEMMA Taken ==
    ASSUME RequestTypes, NEW a \in Apps, Take(a)
    PROVE  /\ outbox[a] # <<>> /\ outbox' = [outbox EXCEPT ![a] = Tail(@)]
           /\ UNCHANGED <<class, view, reading, thresholds>>
           /\ \/ /\ Head(outbox[a]).query /\ UNCHANGED <<service, asked>>
                 /\ inbox' \in {inbox, Append(inbox, service)}
              \/ \E r \in Requests(class), valid \in BOOLEAN :
                    \E i \in 1..Len(Sent(class, r, valid)) :
                       /\ Head(outbox[a]) = CallOf(class, r, valid, i)
                       /\ Sent(class, r, valid) # <<>>
                       /\ service' \in Do(class, service, Sent(class, r, valid)[i])
                       /\ Signalled(service')
                       /\ asked' = IF Heeded(class, service, Sent(class, r, valid)[i])
                                   THEN Followed(Head(outbox[a])) ELSE <<>>
<1>1. /\ outbox[a] # <<>> /\ outbox' = [outbox EXCEPT ![a] = Tail(@)]
      /\ UNCHANGED <<class, view, reading, thresholds>>
  BY DEF Take
<1>2. PICK m : m = Head(outbox[a])
  OBVIOUS
<1>3. m \in AnyCall(class)
  <2>1. outbox[a] \in Seq(AnyCall(class))
    BY DEF RequestTypes
  <2> QED BY <1>1, <1>2, <2>1, HeadTailProperties
<1>4. CASE m = [query |-> TRUE]
  <2>1. m.query
    BY <1>4
  <2> QED BY <1>1, <1>2, <2>1, Zenon DEF Take
<1>5. CASE m # [query |-> TRUE]
  <2>1. PICK r \in Requests(class), valid \in BOOLEAN : m \in CallsOf(class, r, valid)
    BY <1>3, <1>5 DEF AnyCall
  <2>2. PICK i \in DOMAIN Sent(class, r, valid) : m = CallOf(class, r, valid, i)
    BY <2>1 DEF CallsOf
  <2>3. class \in ClassNames
    BY DEF RequestTypes
  <2>4. i \in 1..Len(Sent(class, r, valid)) /\ Sent(class, r, valid) # <<>>
    <3>1. Len(<<>>) = 0
      OBVIOUS
    <3> QED BY <2>3, <3>1, SentLength
  <2>5. ~m.query /\ m.message = Sent(class, r, valid)[i]
    BY <2>2 DEF CallOf
  <2>6. /\ service' \in Do(class, service, m.message) /\ Signalled(service')
        /\ asked' = IF Heeded(class, service, m.message) THEN Followed(m) ELSE <<>>
    BY <1>2, <2>5, Zenon DEF Take
  <2> QED BY <1>1, <1>2, <2>2, <2>4, <2>5, <2>6
<1> QED BY <1>4, <1>5

\* A message of a class of one message is that message, and makes it so.
LEMMA OneMessageTaken ==
    ASSUME NEW c \in ClassNames \ {"batteryPsm"}, NEW r \in Requests(c),
           NEW valid \in BOOLEAN, NEW i \in 1..Len(Sent(c, r, valid)),
           Sent(c, r, valid) # <<>>
    PROVE  /\ i = 1 /\ Len(Sent(c, r, valid)) = 1
           /\ MakesItSo(c, r, valid, Sent(c, r, valid)[i])
<1>1. PICK w : Sent(c, r, valid) = <<w>> /\ MakesItSo(c, r, valid, w)
  BY OneMessageSets DEF Sets
<1>2. Len(<<w>>) = 1 /\ <<w>>[1] = w
  OBVIOUS
<1> QED BY <1>1, <1>2

\* The three messages of a request for a threshold.
LEMMA PowerMessage ==
    ASSUME NEW r \in Requests("batteryPsm"), NEW valid \in BOOLEAN,
           NEW i \in 1..Len(Sent("batteryPsm", r, valid)),
           Sent("batteryPsm", r, valid) # <<>>
    PROVE  /\ r \in 0..100
           /\ \/ /\ r > 0 /\ valid /\ i = 1 /\ Len(Sent("batteryPsm", r, valid)) = 2
                 /\ Sent("batteryPsm", r, valid)[i] = [threshold |-> ThresholdFor(r)]
              \/ /\ r > 0 /\ valid /\ i = 2 /\ Len(Sent("batteryPsm", r, valid)) = 2
                 /\ Sent("batteryPsm", r, valid)[i] = [enabled |-> TRUE]
              \/ /\ r = 0 /\ i = 1 /\ Len(Sent("batteryPsm", r, valid)) = 1
                 /\ Sent("batteryPsm", r, valid)[i] = [enabled |-> FALSE]
              \/ /\ r > 0 /\ ~valid /\ i = 1 /\ Len(Sent("batteryPsm", r, valid)) = 1
                 /\ Sent("batteryPsm", r, valid)[i] = [enabled |-> TRUE]
<1>1. r \in 0..100
  BY PowerSent
<1>2. CASE r > 0 /\ valid
  <2>1. PICK w, x : /\ w = [threshold |-> ThresholdFor(r)] /\ x = [enabled |-> TRUE]
                    /\ Sent("batteryPsm", r, valid) = <<w, x>>
    BY <1>2, PowerSent
  <2>2. Len(<<w, x>>) = 2 /\ <<w, x>>[1] = w /\ <<w, x>>[2] = x
    OBVIOUS
  <2>3. Len(Sent("batteryPsm", r, valid)) = 2
    BY <2>1, <2>2
  <2>4. i = 1 \/ i = 2
    <3>1. i \in 1..2
      BY <2>3, Zenon
    <3> QED BY <3>1
  <2> QED BY <1>1, <1>2, <2>1, <2>2, <2>3, <2>4
<1>3. CASE ~(r > 0 /\ valid)
  <2>1. PICK w : w = [enabled |-> r > 0] /\ Sent("batteryPsm", r, valid) = <<w>>
    BY <1>3, PowerSent
  <2>2. Len(<<w>>) = 1 /\ <<w>>[1] = w
    OBVIOUS
  <2>3. Len(Sent("batteryPsm", r, valid)) = 1
    BY <2>1, <2>2
  <2>4. i = 1
    <3>1. i \in 1..1
      BY <2>3, Zenon
    <3> QED BY <3>1
  <2>5. CASE r = 0
    <3>1. [enabled |-> r > 0] = [enabled |-> FALSE]
      <4>1. (r > 0) = FALSE
        BY <2>5
      <4> QED BY <4>1, Zenon
    <3>2. w = [enabled |-> FALSE]
      BY <2>1, <3>1, Zenon
    <3> QED BY <1>1, <2>1, <2>2, <2>3, <2>4, <2>5, <3>2
  <2>6. CASE r # 0
    <3>1. r > 0
      BY <1>1, <2>6
    <3>2. [enabled |-> r > 0] = [enabled |-> TRUE]
      BY <3>1
    <3>3. w = [enabled |-> TRUE] /\ ~valid
      BY <1>3, <2>1, <3>1, <3>2, Zenon
    <3> QED BY <1>1, <2>1, <2>2, <2>3, <2>4, <3>1, <3>3
  <2> QED BY <2>5, <2>6
<1> QED BY <1>2, <1>3

LEMMA PowerStates == States("batteryPsm") = BatteryPSM
BY DEF States

\* The service stays in one of its states.
LEMMA PowerKept ==
    ASSUME NEW s \in BatteryPSM, NEW r \in Requests("batteryPsm"), NEW valid \in BOOLEAN,
           NEW i \in 1..Len(Sent("batteryPsm", r, valid)),
           Sent("batteryPsm", r, valid) # <<>>
    PROVE  BatteryPSMDo(s, Sent("batteryPsm", r, valid)[i]) \in BatteryPSM
<1>1. s.enabled \in BOOLEAN /\ s.threshold \in InList
  BY PowerDone
<1>2. r \in Int
  <2>1. r \in 0..100
    BY PowerSent, Zenon
  <2> QED BY <2>1
<1>3. ThresholdFor(r) \in InList
  BY <1>2, ThresholdInList
<1>4. \A b \in BOOLEAN, t \in InList : [enabled |-> b, threshold |-> t] \in BatteryPSM
  BY DEF BatteryPSM, InList
<1>5. PICK w : w = Sent("batteryPsm", r, valid)[i]
  OBVIOUS
<1>6. w \in {[threshold |-> ThresholdFor(r)], [enabled |-> TRUE], [enabled |-> FALSE]}
  BY <1>5, PowerMessage, ZenonT(60)
<1>7. BatteryPSMDo(s, w) \in
        {[enabled |-> s.enabled, threshold |-> ThresholdFor(r)],
         [enabled |-> TRUE, threshold |-> s.threshold],
         [enabled |-> FALSE, threshold |-> s.threshold]}
  BY <1>6, PowerDone, Zenon
<1>8. BatteryPSMDo(s, w) \in BatteryPSM
  BY <1>1, <1>3, <1>4, <1>7
<1> QED BY <1>5, <1>8, Zenon

LEMMA ServiceKept ==
    ASSUME NEW c \in ClassNames, NEW s \in States(c), NEW r \in Requests(c),
           NEW valid \in BOOLEAN, NEW i \in 1..Len(Sent(c, r, valid)),
           Sent(c, r, valid) # <<>>
    PROVE  Do(c, s, Sent(c, r, valid)[i]) \subseteq States(c)
<1>1. CASE c # "batteryPsm"
  BY <1>1, OneMessageTaken DEF MakesItSo
<1>2. CASE c = "batteryPsm"
  <2>1. Do(c, s, Sent(c, r, valid)[i]) = {BatteryPSMDo(s, Sent(c, r, valid)[i])}
    BY <1>2 DEF Do
  <2> QED BY <1>2, <2>1, PowerStates, PowerKept
<1> QED BY <1>1, <1>2

LEMMA RequestTypesInitially == RequestInit => RequestTypes
<1> SUFFICES ASSUME RequestInit PROVE RequestTypes
  OBVIOUS
<1>1. \A S : <<>> \in Seq(S)
  BY EmptySeq
<1> QED BY <1>1, ServiceAssumption DEF RequestInit, RequestTypes

LEMMA SignalledTypes ==
    ASSUME RequestTypes, NEW s \in States(class), Signalled(s)
    PROVE  inbox' \in Seq(Audible(class))
<1>1. s \in Audible(class) /\ inbox \in Seq(Audible(class))
  BY DEF Audible, RequestTypes
<1>2. inbox' = inbox \/ inbox' = Append(inbox, s)
  BY Zenon DEF Signalled
<1> QED BY <1>1, <1>2, AppendProperties

LEMMA RequestTypesKept ==
    ASSUME RequestTypes, [RequestNext]_requestVars
    PROVE  RequestTypes'
<1>1. ASSUME NEW a \in Apps, Request(a) PROVE RequestTypes'
  <2>1. PICK r, valid, new :
          /\ r \in Requests(class) /\ valid \in BOOLEAN
          /\ new = [i \in DOMAIN Sent(class, r, valid) |-> CallOf(class, r, valid, i)]
          /\ outbox' = [outbox EXCEPT ![a] = @ \o new]
          /\ UNCHANGED <<class, service, inbox, reading>>
    BY <1>1 DEF Request, CallOf
  <2>2. new \in Seq(AnyCall(class))
    BY <2>1, CallsSent DEF RequestTypes
  <2>3. outbox[a] \in Seq(AnyCall(class)) /\ outbox \in [Apps -> Seq(AnyCall(class))]
    BY DEF RequestTypes
  <2>4. outbox[a] \o new \in Seq(AnyCall(class))
    BY <2>2, <2>3, ConcatProperties
  <2>5. outbox' \in [Apps -> Seq(AnyCall(class))]
    BY <2>1, <2>3, <2>4
  <2> QED BY <2>1, <2>5 DEF RequestTypes
<1>2. ASSUME NEW a \in Apps, Take(a) PROVE RequestTypes'
  <2>1. /\ outbox[a] # <<>> /\ outbox' = [outbox EXCEPT ![a] = Tail(@)]
        /\ UNCHANGED <<class, reading>>
    BY <1>2, Taken
  <2>2. outbox[a] \in Seq(AnyCall(class)) /\ outbox \in [Apps -> Seq(AnyCall(class))]
    BY DEF RequestTypes
  <2>3. Tail(outbox[a]) \in Seq(AnyCall(class))
    BY <2>1, <2>2, HeadTailProperties
  <2>4. outbox' \in [Apps -> Seq(AnyCall(class))]
    BY <2>1, <2>2, <2>3
  <2>5. service' \in States(class) /\ inbox' \in Seq(Audible(class))
    <3>1. CASE service' = service /\ inbox' \in {inbox, Append(inbox, service)}
      <4>1. service \in Audible(class) /\ inbox \in Seq(Audible(class))
        BY DEF Audible, RequestTypes
      <4> QED BY <3>1, <4>1, AppendProperties, SMTT(40) DEF RequestTypes
    <3>2. CASE \E r \in Requests(class), valid \in BOOLEAN :
                  \E i \in 1..Len(Sent(class, r, valid)) :
                     /\ Sent(class, r, valid) # <<>>
                     /\ service' \in Do(class, service, Sent(class, r, valid)[i])
                     /\ Signalled(service')
      <4>1. service' \in States(class) /\ Signalled(service')
        BY <3>2, ServiceKept DEF RequestTypes
      <4> QED BY <4>1, SignalledTypes
    <3> QED BY <1>2, <3>1, <3>2, Taken
  <2> QED BY <2>1, <2>4, <2>5 DEF RequestTypes
<1>3. ASSUME getStateAsync PROVE RequestTypes'
  <2>1. [query |-> TRUE] \in AnyCall(class) /\ Reader \in Apps
    BY ServiceAssumption DEF AnyCall
  <2>2. outbox[Reader] \in Seq(AnyCall(class)) /\ outbox \in [Apps -> Seq(AnyCall(class))]
    BY <2>1 DEF RequestTypes
  <2>3. Append(outbox[Reader], [query |-> TRUE]) \in Seq(AnyCall(class))
    BY <2>1, <2>2, AppendProperties
  <2>4. outbox' \in [Apps -> Seq(AnyCall(class))]
    BY <1>3, <2>2, <2>3 DEF getStateAsync
  <2> QED BY <1>3, <2>4 DEF getStateAsync, RequestTypes
<1>4. ASSUME Move PROVE RequestTypes'
  <2>1. /\ service' \in States(class) /\ Signalled(service')
        /\ UNCHANGED <<class, outbox, reading>>
    BY <1>4 DEF Move
  <2>2. inbox' \in Seq(Audible(class))
    BY <2>1, SignalledTypes
  <2> QED BY <2>1, <2>2 DEF RequestTypes
<1>5. ASSUME Notice PROVE RequestTypes'
  <2>1. PICK s \in USBEvents : inbox' = Append(inbox, s)
    BY <1>5 DEF Notice
  <2>2. s \in Audible(class) /\ inbox \in Seq(Audible(class))
    BY <1>5 DEF Notice, Audible, RequestTypes
  <2>3. inbox' \in Seq(Audible(class))
    BY <2>1, <2>2, AppendProperties
  <2> QED BY <1>5, <2>3 DEF Notice, RequestTypes
<1>6. ASSUME Hear PROVE RequestTypes'
  <2>1. inbox # <<>> /\ inbox' = Tail(inbox) /\ inbox \in Seq(Audible(class))
    BY <1>6 DEF Hear, RequestTypes
  <2>2. inbox' \in Seq(Audible(class))
    BY <2>1, HeadTailProperties
  <2> QED BY <1>6, <2>2 DEF Hear, RequestTypes
<1>7. ASSUME Query \/ SecondQuery \/ UNCHANGED requestVars PROVE RequestTypes'
  BY <1>7 DEF Query, SecondQuery, requestVars, RequestTypes
<1> QED BY <1>1, <1>2, <1>3, <1>4, <1>5, <1>6, <1>7 DEF RequestNext

-----------------------------------------------------------------------------
\* What was asked for last is what the service was made.
LEMMA AskedKept ==
    ASSUME RequestTypes, AskedInv, [RequestNext]_requestVars
    PROVE  AskedInv'
<1>1. ASSUME UNCHANGED <<class, service, asked>> PROVE AskedInv'
  BY <1>1 DEF AskedInv
<1>2. ASSUME class' = class, asked' = <<>> PROVE AskedInv'
  BY <1>2 DEF AskedInv
<1>3. ASSUME NEW a \in Apps, Take(a) PROVE AskedInv'
  <2>1. class' = class /\ class \in ClassNames /\ service \in States(class)
    BY <1>3, Taken DEF RequestTypes
  <2>2. CASE UNCHANGED <<service, asked>>
    BY <1>1, <2>1, <2>2
  <2>3. CASE \E r \in Requests(class), valid \in BOOLEAN :
                \E i \in 1..Len(Sent(class, r, valid)) :
                   /\ Head(outbox[a]) = CallOf(class, r, valid, i)
                   /\ Sent(class, r, valid) # <<>>
                   /\ service' \in Do(class, service, Sent(class, r, valid)[i])
                   /\ asked' = IF Heeded(class, service, Sent(class, r, valid)[i])
                               THEN Followed(Head(outbox[a])) ELSE <<>>
    <3>1. PICK r \in Requests(class), valid \in BOOLEAN :
             \E i \in 1..Len(Sent(class, r, valid)) :
                /\ Head(outbox[a]) = CallOf(class, r, valid, i)
                /\ Sent(class, r, valid) # <<>>
                /\ service' \in Do(class, service, Sent(class, r, valid)[i])
                /\ asked' = IF Heeded(class, service, Sent(class, r, valid)[i])
                            THEN Followed(Head(outbox[a])) ELSE <<>>
      BY <2>3
    <3>2. PICK i \in 1..Len(Sent(class, r, valid)) :
                /\ Head(outbox[a]) = CallOf(class, r, valid, i)
                /\ Sent(class, r, valid) # <<>>
                /\ service' \in Do(class, service, Sent(class, r, valid)[i])
                /\ asked' = IF Heeded(class, service, Sent(class, r, valid)[i])
                            THEN Followed(Head(outbox[a])) ELSE <<>>
      BY <3>1
    <3>3. PICK m : m = Head(outbox[a])
      OBVIOUS
    <3>4. /\ m.request = r /\ m.listed = valid
          /\ m.first = (i = 1)
          /\ m.last = (i = Len(Sent(class, r, valid)))
      BY <3>2, <3>3 DEF CallOf
    <3>5. CASE asked' = <<>>
      BY <1>2, <2>1, <3>5
    <3>6. CASE ~valid /\ asked' # <<>>
      <4>1. asked' = <<r, m.last, FALSE>>
        BY <3>2, <3>3, <3>4, <3>6, Zenon DEF Followed
      <4>2. m.last \in BOOLEAN
        BY <3>4
      <4> QED BY <2>1, <3>1, <4>1, <4>2, Zenon DEF AskedInv
    <3>7. CASE valid /\ asked' # <<>>
      <4>1. Heeded(class, service, Sent(class, r, valid)[i])
        BY <3>2, <3>7
      <4>2. asked' = IF m.first \/ asked = <<r, FALSE, TRUE>> THEN <<r, m.last, TRUE>> ELSE <<>>
        BY <3>2, <3>3, <3>4, <3>7, <4>1, Zenon DEF Followed
      <4>3. CASE class # "batteryPsm"
        <5>1. /\ i = 1 /\ Len(Sent(class, r, valid)) = 1
              /\ MakesItSo(class, r, valid, Sent(class, r, valid)[i])
          BY <2>1, <3>2, <4>3, OneMessageTaken
        <5>2. m.last = TRUE
          BY <3>4, <5>1
        <5>3. asked' = <<r, TRUE, TRUE>>
          BY <3>4, <4>2, <5>1, <5>2, Zenon
        <5>4. Get(class, TRUE, service', TRUE, service') = r
          BY <2>1, <3>2, <3>7, <4>1, <5>1, Zenon DEF MakesItSo
        <5> QED BY <2>1, <4>3, <5>3, <5>4, Zenon DEF AskedInv
      <4>4. CASE class = "batteryPsm"
        <5>1. /\ r \in 0..100 /\ r \in Requests("batteryPsm") /\ service \in BatteryPSM
              /\ i \in 1..Len(Sent("batteryPsm", r, valid))
              /\ Sent("batteryPsm", r, valid) # <<>>
              /\ service' = BatteryPSMDo(service, Sent("batteryPsm", r, valid)[i])
              /\ m.last = (i = Len(Sent("batteryPsm", r, valid)))
          <6>1. Do(class, service, Sent(class, r, valid)[i]) =
                  {BatteryPSMDo(service, Sent("batteryPsm", r, valid)[i])}
            BY <4>4 DEF Do
          <6> QED BY <2>1, <3>1, <3>2, <3>4, <4>4, <6>1, PowerStates, PowerSent
        <5>2. \/ /\ r > 0 /\ i = 1 /\ Len(Sent("batteryPsm", r, valid)) = 2
                 /\ Sent("batteryPsm", r, valid)[i] = [threshold |-> ThresholdFor(r)]
              \/ /\ r > 0 /\ i = 2 /\ Len(Sent("batteryPsm", r, valid)) = 2
                 /\ Sent("batteryPsm", r, valid)[i] = [enabled |-> TRUE]
              \/ /\ r = 0 /\ i = 1 /\ Len(Sent("batteryPsm", r, valid)) = 1
                 /\ Sent("batteryPsm", r, valid)[i] = [enabled |-> FALSE]
          BY <3>7, <5>1, PowerMessage, Zenon
        <5>3. CASE r > 0 /\ i = 1
          <6>1. /\ Len(Sent("batteryPsm", r, valid)) = 2
                /\ Sent("batteryPsm", r, valid)[i] = [threshold |-> ThresholdFor(r)]
            BY <5>2, <5>3
          <6>2. m.last = FALSE
            <7>1. (i = 2) = FALSE
              BY <5>3
            <7> QED BY <5>1, <6>1, <7>1, Zenon
          <6>3. asked' = <<r, FALSE, TRUE>>
            BY <3>4, <4>2, <5>3, <6>2, Zenon
          <6>4. service' = [enabled |-> service.enabled, threshold |-> ThresholdFor(r)]
            BY <5>1, <6>1, PowerDone, Zenon
          <6>5. service'.threshold = ThresholdFor(r)
            BY <6>4
          <6> QED BY <2>1, <3>1, <4>4, <5>3, <6>3, <6>5, Zenon DEF AskedInv
        <5>4. CASE r > 0 /\ i = 2
          <6>1. /\ Len(Sent("batteryPsm", r, valid)) = 2
                /\ Sent("batteryPsm", r, valid)[i] = [enabled |-> TRUE]
            BY <5>2, <5>4
          <6>2. m.last = TRUE /\ ~m.first
            <7>1. (i = 2) = TRUE /\ (i = 1) = FALSE
              BY <5>4
            <7> QED BY <3>4, <5>1, <6>1, <7>1, Zenon
          <6>3. CASE asked = <<r, FALSE, TRUE>>
            <7>1. asked' = <<r, TRUE, TRUE>>
              BY <4>2, <6>2, <6>3, Zenon
            <7>2. service.threshold = ThresholdFor(r)
              BY <6>3 DEF AskedInv
            <7>3. service' = [enabled |-> TRUE, threshold |-> service.threshold]
              BY <5>1, <6>1, PowerDone, Zenon
            <7>4. Get("batteryPsm", TRUE, service', TRUE, service') = ThresholdFor(r)
              <8>1. service'.enabled /\ service'.threshold = ThresholdFor(r)
                BY <7>2, <7>3
              <8> QED BY <8>1 DEF Get, getPSMBatteryMode, Number
            <7> QED BY <2>1, <3>1, <4>4, <5>4, <7>1, <7>4, Zenon DEF AskedInv
          <6>4. CASE asked # <<r, FALSE, TRUE>>
            <7>1. asked' = <<>>
              BY <4>2, <6>2, <6>4, Zenon
            <7> QED BY <1>2, <2>1, <7>1
          <6> QED BY <6>3, <6>4
        <5>5. CASE r = 0
          <6>1. /\ i = 1 /\ Len(Sent("batteryPsm", r, valid)) = 1
                /\ Sent("batteryPsm", r, valid)[i] = [enabled |-> FALSE]
            BY <5>2, <5>5
          <6>2. m.last = TRUE
            BY <5>1, <6>1
          <6>3. asked' = <<r, TRUE, TRUE>>
            BY <3>4, <4>2, <6>1, <6>2, Zenon
          <6>4. service' = [enabled |-> FALSE, threshold |-> service.threshold]
            <7>1. PICK b : b = FALSE
              OBVIOUS
            <7>2. service' = BatteryPSMDo(service, [enabled |-> b])
              BY <5>1, <6>1, <7>1, Zenon
            <7>3. service' = [enabled |-> b, threshold |-> service.threshold]
              BY <5>1, <7>2, PowerDone, Zenon
            <7> QED BY <7>1, <7>3, Zenon
          <6>5. Get("batteryPsm", TRUE, service', TRUE, service') = r
            <7>1. ~service'.enabled
              BY <6>4
            <7> QED BY <5>5, <7>1 DEF Get, getPSMBatteryMode
          <6>6. ~(r > 0)
            BY <5>5
          <6> QED BY <2>1, <3>1, <4>4, <6>3, <6>5, <6>6, Zenon DEF AskedInv
        <5> QED BY <5>1, <5>2, <5>3, <5>4, <5>5
      <4> QED BY <4>3, <4>4
    <3> QED BY <3>5, <3>6, <3>7
  <2> QED BY <1>3, <2>2, <2>3, Taken
<1>4. ASSUME NEW a \in Apps, Request(a) PROVE AskedInv'
  BY <1>1, <1>4 DEF Request
<1>5. ASSUME getStateAsync PROVE AskedInv'
  BY <1>1, <1>5 DEF getStateAsync
<1>6. ASSUME Move PROVE AskedInv'
  BY <1>2, <1>6 DEF Move
<1>7. ASSUME Notice \/ Query \/ SecondQuery \/ Hear \/ UNCHANGED requestVars PROVE AskedInv'
  BY <1>1, <1>7 DEF Notice, Query, SecondQuery, Hear, requestVars
<1> QED BY <1>3, <1>4, <1>5, <1>6, <1>7 DEF RequestNext

-----------------------------------------------------------------------------
\* The inbox, seen from its end: what is appended is the newest.
LEMMA NewsTypes ==
    ASSUME RequestTypes
    PROVE  /\ Len(inbox) \in Nat /\ inbox \in Seq(Audible(class))
           /\ \A s \in States(class) : News(class, s) /\ s \in Audible(class)
           /\ Len(<<>>) = 0
<1>1. \A s \in States("usb") : s \notin USBEvents
  BY DEF States
<1> QED BY <1>1, LenProperties DEF RequestTypes, News, Audible

LEMMA InboxUnchanged ==
    ASSUME Following, UNCHANGED <<class, service, inbox, view, reading>>
    PROVE  Following'
BY DEF Following

\* A state joins the inbox: it is the newest, and there is news.
LEMMA StateAppended ==
    ASSUME RequestTypes, class' = class, service' \in States(class),
           inbox' = Append(inbox, service')
    PROVE  Following'
<1>1. PICK n \in Nat : n = Len(inbox)
  BY NewsTypes
<1>2. service' \in Audible(class) /\ News(class, service') /\ inbox \in Seq(Audible(class))
  BY NewsTypes
<1>3. Len(inbox') = n + 1 /\ inbox'[n + 1] = service'
  BY <1>1, <1>2, AppendProperties
<1>4. News(class, inbox'[n + 1]) /\ n + 1 \in 1..Len(inbox')
  BY <1>2, <1>3
<1>5. ASSUME NEW i \in 1..Len(inbox'), \A j \in (i + 1)..Len(inbox') : ~News(class, inbox'[j])
      PROVE  inbox'[i] = service'
  <2>1. i = n + 1
    <3>1. i \in 1..(n + 1)
      BY <1>3
    <3>2. CASE i \in 1..n
      <4>1. n + 1 \in (i + 1)..(n + 1)
        BY <3>2
      <4> QED BY <1>3, <1>4, <1>5, <4>1
    <3> QED BY <3>1, <3>2
  <2> QED BY <1>3, <2>1
<1> QED BY <1>4, <1>5 DEF Following

\* The state of the service is signalled if it has changed.
LEMMA SignalledFollows ==
    ASSUME RequestTypes, Following, service' \in States(class), Signalled(service'),
           UNCHANGED <<class, view, reading>>
    PROVE  Following'
<1>1. CASE class \in Silent
  BY <1>1 DEF Following
<1>2. CASE class \notin Silent /\ service' = service
  <2>1. inbox' = inbox
    BY <1>2 DEF Signalled
  <2> QED BY <1>2, <2>1, InboxUnchanged
<1>3. CASE class \notin Silent /\ service' # service
  <2>1. inbox' = Append(inbox, service')
    BY <1>3, Zenon DEF Signalled
  <2> QED BY <2>1, StateAppended
<1> QED BY <1>1, <1>2, <1>3

\* The reader believes what a getter has answered.
LEMMA GotIsBelieved ==
    ASSUME RequestTypes, class \notin Silent, class # "system"
    PROVE  Get(class, TRUE, service, TRUE, service) \in Told(class, service)
BY ToldIsGot DEF RequestTypes

LEMMA FollowingKept ==
    ASSUME RequestTypes, Following, [RequestNext]_requestVars
    PROVE  Following'
<1>1. ASSUME NEW a \in Apps, Take(a) PROVE Following'
  <2>1. UNCHANGED <<class, view, reading>> /\ service \in States(class)
    BY <1>1, Taken DEF RequestTypes
  <2>2. CASE service' = service /\ inbox' \in {inbox, Append(inbox, service)}
    <3>1. CASE inbox' = inbox
      BY <2>1, <2>2, <3>1, InboxUnchanged
    <3>2. CASE inbox' = Append(inbox, service')
      BY <2>1, <2>2, <3>2, StateAppended
    <3> QED BY <2>2, <3>1, <3>2
  <2>3. CASE \E r \in Requests(class), valid \in BOOLEAN :
                \E i \in 1..Len(Sent(class, r, valid)) :
                   /\ Sent(class, r, valid) # <<>>
                   /\ service' \in Do(class, service, Sent(class, r, valid)[i])
                   /\ Signalled(service')
    <3>1. service' \in States(class) /\ Signalled(service')
      BY <2>3, ServiceKept DEF RequestTypes
    <3> QED BY <2>1, <3>1, SignalledFollows
  <2> QED BY <1>1, <2>2, <2>3, Taken
<1>2. ASSUME Move PROVE Following'
  <2>1. /\ service' \in States(class) /\ Signalled(service')
        /\ UNCHANGED <<class, view, reading>>
    BY <1>2 DEF Move
  <2> QED BY <2>1, SignalledFollows
<1>3. ASSUME Notice PROVE Following'
  <2>1. PICK s : s \in USBEvents /\ inbox' = Append(inbox, s)
    BY <1>3 DEF Notice
  <2>2. class = "usb" /\ UNCHANGED <<class, service, view, reading>>
    BY <1>3 DEF Notice
  <2>3. PICK n \in Nat : n = Len(inbox)
    BY NewsTypes
  <2>4. s \in Audible(class) /\ inbox \in Seq(Audible(class))
    BY <2>1, <2>2, NewsTypes DEF Audible
  <2>5. /\ Len(inbox') = n + 1 /\ inbox'[n + 1] = s
        /\ \A i \in 1..n : inbox'[i] = inbox[i]
    BY <2>1, <2>3, <2>4, AppendProperties
  <2>6. ~News(class, s)
    BY <2>1, <2>2 DEF News
  <2> SUFFICES ASSUME class \notin Silent
               PROVE  Following'
    BY <2>2 DEF Following
  <2>7. ASSUME NEW i \in 1..Len(inbox'), News(class, inbox'[i]),
               \A j \in (i + 1)..Len(inbox') : ~News(class, inbox'[j])
        PROVE  inbox'[i] = service'
    <3>1. i \in 1..n
      BY <2>5, <2>6, <2>7
    <3>2. News(class, inbox[i]) /\ inbox'[i] = inbox[i]
      BY <2>5, <2>7, <3>1
    <3>3. \A j \in (i + 1)..n : j \in (i + 1)..(n + 1) /\ j \in 1..n
      BY <3>1
    <3>4. \A j \in (i + 1)..n : ~News(class, inbox[j])
      BY <2>5, <2>7, <3>3
    <3> QED BY <2>2, <2>3, <3>1, <3>2, <3>4 DEF Following
  <2>8. ASSUME \A i \in 1..Len(inbox') : ~News(class, inbox'[i])
        PROVE  \A i \in 1..Len(inbox) : ~News(class, inbox[i])
    <3>1. \A i \in 1..n : i \in 1..(n + 1)
      OBVIOUS
    <3> QED BY <2>3, <2>5, <2>8, <3>1
  <2>9. ASSUME \A i \in 1..Len(inbox') : ~News(class, inbox'[i])
        PROVE  /\ view' # <<>> => Told(class, service) = {} \/ view'[1] \in Told(class, service)
               /\ reading' # <<>> => reading'[1].state = service
    BY <2>2, <2>8, <2>9 DEF Following
  <2> QED BY <2>2, <2>6, <2>7, <2>9 DEF Following
<1>4. ASSUME Query PROVE Following'
  <2>1. class # "system" /\ UNCHANGED <<class, service, inbox>>
    BY <1>4 DEF Query
  <2>2. CASE class \in TwoQueries
    <3>1. \E valid \in BOOLEAN : reading' = <<[valid |-> valid, state |-> service]>> /\ view' = view
      BY <1>4, <2>2 DEF Query
    <3>2. reading'[1].state = service
      BY <3>1
    <3> QED BY <2>1, <3>1, <3>2 DEF Following
  <2>3. CASE class \notin TwoQueries
    <3>1. /\ view' = <<Get(class, TRUE, service, TRUE, service)>> \/ view' = <<>>
          /\ reading' = reading
      BY <1>4, <2>3 DEF Query
    <3>2. class \notin Silent => view' = <<>> \/ view'[1] \in Told(class, service)
      <4>1. \A v : <<v>>[1] = v
        OBVIOUS
      <4> QED BY <2>1, <3>1, <4>1, GotIsBelieved
    <3> QED BY <2>1, <3>1, <3>2 DEF Following
  <2> QED BY <2>2, <2>3
<1>5. ASSUME SecondQuery PROVE Following'
  <2>1. /\ reading # <<>> /\ reading' = <<>> /\ UNCHANGED <<class, service, inbox>>
        /\ view' = <<Get(class, TRUE, reading[1].state, TRUE, service)>> \/ view' = <<>>
    BY <1>5 DEF SecondQuery
  <2> SUFFICES ASSUME class \notin Silent
               PROVE  Following'
    BY <2>1 DEF Following
  <2>2. ASSUME \A i \in 1..Len(inbox) : ~News(class, inbox[i]), view' # <<>>
        PROVE  Told(class, service) = {} \/ view'[1] \in Told(class, service)
    <3>1. reading[1].state = service
      BY <2>1, <2>2 DEF Following
    <3>2. view' = <<Get(class, TRUE, service, TRUE, service)>>
      BY <2>1, <2>2, <3>1, Zenon
    <3>3. \A v : <<v>>[1] = v
      OBVIOUS
    <3>4. class # "system"
      BY <2>1 DEF RequestTypes, TwoQueries
    <3> QED BY <3>2, <3>3, <3>4, GotIsBelieved
  <2> QED BY <2>1, <2>2 DEF Following
<1>6. ASSUME Hear PROVE Following'
  <2>1. /\ inbox # <<>> /\ inbox' = Tail(inbox) /\ reading = <<>>
        /\ UNCHANGED <<class, service, reading>>
    BY <1>6 DEF Hear
  <2> SUFFICES ASSUME class \notin Silent
               PROVE  Following'
    BY <2>1 DEF Following
  <2>2. PICK n \in Nat : Len(inbox) = n + 1
    <3>1. Len(inbox) \in Nat \ {0}
      BY <2>1, NewsTypes, EmptySeq
    <3>2. Len(inbox) - 1 \in Nat
      BY <3>1
    <3> QED BY <3>1, <3>2
  <2>3. Len(inbox') = n /\ \A i \in 1..n : inbox'[i] = inbox[i + 1]
    BY <2>1, <2>2, NewsTypes, HeadTailProperties
  <2>4. Head(inbox) = inbox[1]
    BY <2>1
  <2>5. ASSUME NEW i \in 1..Len(inbox'), News(class, inbox'[i]),
               \A j \in (i + 1)..Len(inbox') : ~News(class, inbox'[j])
        PROVE  inbox'[i] = service'
    <3>1. i + 1 \in 1..(n + 1) /\ News(class, inbox[i + 1]) /\ inbox'[i] = inbox[i + 1]
      BY <2>3, <2>5
    <3>2. ASSUME NEW j \in (i + 2)..(n + 1) PROVE ~News(class, inbox[j])
      <4>1. PICK k \in (i + 1)..n : j = k + 1 /\ k \in 1..n
        <5>1. i \in 1..n
          BY <2>3, <2>5
        <5>2. j - 1 \in (i + 1)..n /\ j = (j - 1) + 1 /\ j - 1 \in 1..n
          BY <5>1
        <5> QED BY <5>2
      <4> QED BY <2>3, <2>5, <4>1
    <3>3. (i + 1) + 1 = i + 2
      BY <3>1
    <3> QED BY <2>1, <2>2, <3>1, <3>2, <3>3 DEF Following
  <2>6. ASSUME \A i \in 1..Len(inbox') : ~News(class, inbox'[i])
        PROVE  view' # <<>> => Told(class, service) = {} \/ view'[1] \in Told(class, service)
    <3>1. ASSUME NEW j \in 2..(n + 1) PROVE ~News(class, inbox[j])
      <4>1. PICK k \in 1..n : j = k + 1
        <5>1. j - 1 \in 1..n /\ j = (j - 1) + 1
          OBVIOUS
        <5> QED BY <5>1
      <4> QED BY <2>3, <2>6, <4>1
    <3>2. CASE News(class, inbox[1])
      <4>1. inbox[1] = service
        <5>1. 1 \in 1..(n + 1) /\ 1 + 1 = 2
          BY <2>2
        <5> QED BY <2>2, <3>1, <3>2, <5>1 DEF Following
      <4>2. PICK h : h = Head(inbox)
        OBVIOUS
      <4>3. h = service /\ ~(class = "usb" /\ h \in USBEvents)
        BY <2>4, <3>2, <4>1, <4>2 DEF News
      <4>4. view' = IF Told(class, h) = {} THEN view ELSE <<CHOOSE t \in Told(class, h) : TRUE>>
        BY <1>6, <4>2, <4>3 DEF Hear
      <4>5. CASE Told(class, h) = {}
        BY <2>1, <4>3, <4>5
      <4>6. CASE Told(class, h) # {}
        <5>1. PICK t \in Told(class, h) : view' = <<t>>
          BY <4>4, <4>6
        <5> QED BY <4>3, <5>1
      <4> QED BY <4>5, <4>6
    <3>3. CASE ~News(class, inbox[1])
      <4>1. view' = view
        BY <1>6, <2>4, <3>3 DEF Hear, News
      <4>2. \A i \in 1..(n + 1) : ~News(class, inbox[i])
        BY <3>1, <3>3
      <4> QED BY <2>2, <4>1, <4>2 DEF Following
    <3> QED BY <3>2, <3>3
  <2> QED BY <2>1, <2>5, <2>6 DEF Following
<1>7. ASSUME NEW a \in Apps, Request(a) \/ getStateAsync \/ UNCHANGED requestVars
      PROVE  Following'
  <2>1. UNCHANGED <<class, service, inbox, view, reading>>
    BY <1>7 DEF Request, getStateAsync, requestVars
  <2> QED BY <2>1, InboxUnchanged
<1> QED BY <1>1, <1>2, <1>3, <1>4, <1>5, <1>6, <1>7, ServiceAssumption DEF RequestNext

-----------------------------------------------------------------------------
\* More may have been asked for.
LEMMA PrudentMore ==
    ASSUME NEW calls, NEW t, NEW T, NEW U, T \subseteq U, Prudent(calls, t, T)
    PROVE  Prudent(calls, t, U)
BY DEF Prudent

\* Messages are added behind others.
LEMMA PrudentBehind ==
    ASSUME NEW S, NEW old \in Seq(S), NEW new \in Seq(S), NEW t, NEW T,
           Prudent(old, t, T), Prudent(new, t, T)
    PROVE  Prudent(old \o new, t, T)
<1>1. PICK n \in Nat, k \in Nat : n = Len(old) /\ k = Len(new)
  BY LenProperties
<1>2. PICK both : both = old \o new
  OBVIOUS
<1>3. /\ Len(both) = n + k
      /\ \A i \in 1..(n + k) : both[i] = IF i <= n THEN old[i] ELSE new[i - n]
  <2>1. /\ Len(both) = Len(old) + Len(new)
        /\ \A i \in 1..(Len(old) + Len(new)) :
              both[i] = IF i <= Len(old) THEN old[i] ELSE new[i - Len(old)]
    BY <1>2, ConcatProperties
  <2> QED BY <1>1, <2>1
<1>4. \A i \in 1..n : both[i] = old[i]
  BY <1>3
<1>5. \A i \in 1..k : both[n + i] = new[i]
  <2> SUFFICES ASSUME NEW i \in 1..k PROVE both[n + i] = new[i]
    OBVIOUS
  <2>1. PICK h \in 1..(n + k) : h = n + i /\ ~(h <= n) /\ h - n = i
    OBVIOUS
  <2> QED BY <1>3, <2>1
<1> SUFFICES ASSUME NEW i \in 1..(n + k)
             PROVE  /\ \A v : SetsTo(both[i], v) => v \in T
                    /\ Enables(both[i]) =>
                          t \in T \/ \E j \in 1..(i - 1) : \E v : SetsTo(both[j], v)
  BY <1>2, <1>3 DEF Prudent
<1>6. CASE i <= n
  <2>1. i \in 1..n /\ \A j \in 1..(i - 1) : j \in 1..n
    BY <1>6
  <2> QED BY <1>1, <1>4, <2>1 DEF Prudent
<1>7. CASE ~(i <= n)
  <2>1. PICK h \in 1..k : i = n + h
    <3>1. i - n \in 1..k /\ i = n + (i - n)
      BY <1>7
    <3> QED BY <3>1
  <2>2. both[i] = new[h]
    BY <1>5, <2>1
  <2>3. ASSUME Enables(new[h]), t \notin T
        PROVE  \E j \in 1..(i - 1) : \E v : SetsTo(both[j], v)
    <3>1. PICK j \in 1..(h - 1) : \E v : SetsTo(new[j], v)
      BY <1>1, <2>3 DEF Prudent
    <3>2. PICK g \in 1..(i - 1) : g = n + j /\ j \in 1..k
      <4>1. n + j \in 1..(i - 1) /\ j \in 1..k
        BY <2>1
      <4> QED BY <4>1
    <3> QED BY <1>5, <3>1, <3>2
  <2> QED BY <1>1, <2>2, <2>3 DEF Prudent
<1> QED BY <1>6, <1>7

\* The first message is taken, and the threshold is what it set or as it was.
LEMMA PrudentRest ==
    ASSUME NEW S, NEW calls \in Seq(S), calls # <<>>, NEW t, NEW u, NEW T,
           Prudent(calls, t, T),
           u \in T \/ (u = t /\ \A v : ~SetsTo(Head(calls), v))
    PROVE  Prudent(Tail(calls), u, T)
<1>1. PICK n \in Nat : Len(calls) = n + 1
  <2>1. Len(calls) \in Nat \ {0}
    BY EmptySeq
  <2>2. Len(calls) - 1 \in Nat
    BY <2>1
  <2> QED BY <2>1, <2>2
<1>2. PICK rest : rest = Tail(calls)
  OBVIOUS
<1>3. Len(rest) = n /\ \A i \in 1..n : rest[i] = calls[i + 1]
  BY <1>1, <1>2, HeadTailProperties
<1>4. Head(calls) = calls[1]
  OBVIOUS
<1> SUFFICES ASSUME NEW i \in 1..n
             PROVE  /\ \A v : SetsTo(rest[i], v) => v \in T
                    /\ Enables(rest[i]) =>
                          u \in T \/ \E j \in 1..(i - 1) : \E v : SetsTo(rest[j], v)
  BY <1>2, <1>3 DEF Prudent
<1>5. PICK h \in 1..(n + 1) : h = i + 1 /\ h - 1 = i /\ rest[i] = calls[h]
  <2>1. i + 1 \in 1..(n + 1) /\ (i + 1) - 1 = i
    OBVIOUS
  <2> QED BY <1>3, <2>1
<1>6. ASSUME Enables(calls[h]), u \notin T
      PROVE  \E j \in 1..(i - 1) : \E v : SetsTo(rest[j], v)
  <2>1. PICK j \in 1..i : \E v : SetsTo(calls[j], v)
    BY <1>1, <1>5, <1>6 DEF Prudent
  <2>2. j # 1
    BY <1>4, <1>6, <2>1
  <2>3. PICK g \in 1..(i - 1) : j = g + 1 /\ g \in 1..n
    <3>1. j - 1 \in 1..(i - 1) /\ j = (j - 1) + 1 /\ j - 1 \in 1..n
      BY <2>2
    <3> QED BY <3>1
  <2> QED BY <1>3, <2>1, <2>3
<1> QED BY <1>1, <1>5, <1>6 DEF Prudent

\* What the kinds of messages do, and do not.
LEMMA PowerKinds ==
    ASSUME NEW m, ~m.query
    PROVE  /\ \A v : m.message = [threshold |-> v] =>
                 /\ \A x : SetsTo(m, x) <=> x = v
                 /\ ~Enables(m)
           /\ m.message = [enabled |-> TRUE] => (\A x : ~SetsTo(m, x))
           /\ m.message = [enabled |-> FALSE] => (\A x : ~SetsTo(m, x)) /\ ~Enables(m)
<1>1. \A v, x : [threshold |-> v] = [threshold |-> x] <=> v = x
  OBVIOUS
<1>2. \A v, b : [threshold |-> v] # [enabled |-> b]
  OBVIOUS
<1>3. [enabled |-> TRUE] # [enabled |-> FALSE]
  OBVIOUS
<1> QED BY <1>1, <1>2, <1>3, ZenonT(60) DEF SetsTo, Enables

\* The messages of a request, when what it asks for is remembered.
LEMMA PrudentNew ==
    ASSUME NEW r \in Requests("batteryPsm"), NEW valid \in BOOLEAN,
           Sent("batteryPsm", r, valid) # <<>>, NEW new,
           Len(new) = Len(Sent("batteryPsm", r, valid)),
           \A i \in 1..Len(new) : new[i] = CallOf("batteryPsm", r, valid, i),
           NEW t, NEW T,
           r # 0 => IF valid THEN ThresholdFor(r) \in T ELSE t \in T
    PROVE  Prudent(new, t, T)
<1> SUFFICES ASSUME NEW i \in 1..Len(new)
             PROVE  /\ \A v : SetsTo(new[i], v) => v \in T
                    /\ Enables(new[i]) =>
                          t \in T \/ \E j \in 1..(i - 1) : \E v : SetsTo(new[j], v)
  BY DEF Prudent
<1>1. PICK m : m = new[i]
  OBVIOUS
<1>2. ~m.query /\ m.message = Sent("batteryPsm", r, valid)[i]
  <2>1. m = CallOf("batteryPsm", r, valid, i)
    BY <1>1, Zenon
  <2> QED BY <2>1 DEF CallOf
<1>3. PICK w : w = Sent("batteryPsm", r, valid)[i]
  OBVIOUS
<1>4. /\ r \in 0..100
      /\ \/ /\ r > 0 /\ valid /\ w = [threshold |-> ThresholdFor(r)]
         \/ /\ r > 0 /\ valid /\ i = 2 /\ w = [enabled |-> TRUE]
         \/ w = [enabled |-> FALSE]
         \/ r > 0 /\ ~valid /\ w = [enabled |-> TRUE]
  BY <1>3, PowerMessage, ZenonT(60)
<1>5. \A v : r > 0 /\ valid /\ w = [threshold |-> v] /\ v = ThresholdFor(r) => v \in T
  BY <1>4
<1>6. CASE r > 0 /\ valid /\ w = [threshold |-> ThresholdFor(r)]
  <2>1. ThresholdFor(r) \in T
    BY <1>5, <1>6
  <2>2. (\A x : SetsTo(m, x) <=> x = ThresholdFor(r)) /\ ~Enables(m)
    BY <1>2, <1>3, <1>6, PowerKinds, Zenon
  <2> QED BY <1>1, <2>1, <2>2
<1>7. CASE r > 0 /\ valid /\ i = 2 /\ w = [enabled |-> TRUE]
  <2>1. \A x : ~SetsTo(m, x)
    BY <1>2, <1>3, <1>7, PowerKinds, Zenon
  <2>2. PICK f : f = new[1]
    OBVIOUS
  <2>3. 1 \in 1..Len(new) /\ 1 \in 1..(i - 1)
    <3>1. PICK n \in 0..2 : n = Len(new)
      BY SentLength DEF ClassNames
    <3>2. i \in 1..n /\ i = 2
      BY <1>7, <3>1, Zenon
    <3>3. 1 \in 1..n /\ 1 \in 1..(i - 1)
      BY <3>2
    <3> QED BY <3>1, <3>3, Zenon
  <2>4. ~f.query /\ f.message = Sent("batteryPsm", r, valid)[1]
    <3>1. f = CallOf("batteryPsm", r, valid, 1)
      BY <2>2, <2>3, Zenon
    <3> QED BY <3>1 DEF CallOf
  <2>5. PICK x : x = Sent("batteryPsm", r, valid)[1]
    OBVIOUS
  <2>6. 1 \in 1..Len(Sent("batteryPsm", r, valid))
    BY <2>3
  <2>7. \/ x = [threshold |-> ThresholdFor(r)]
        \/ 1 = 2 \/ r = 0 \/ ~valid
    BY <2>5, <2>6, PowerMessage, Zenon
  <2>8. x = [threshold |-> ThresholdFor(r)]
    <3>1. ~(1 = 2) /\ ~(r = 0)
      BY <1>7
    <3> QED BY <1>7, <2>7, <3>1, Zenon
  <2>9. SetsTo(f, ThresholdFor(r))
    BY <2>4, <2>5, <2>8, PowerKinds, Zenon
  <2> QED BY <1>1, <2>1, <2>2, <2>3, <2>9
<1>8. CASE w = [enabled |-> FALSE]
  <2>1. (\A x : ~SetsTo(m, x)) /\ ~Enables(m)
    BY <1>2, <1>3, <1>8, PowerKinds, Zenon
  <2> QED BY <1>1, <2>1
<1>9. CASE r > 0 /\ ~valid /\ w = [enabled |-> TRUE]
  <2>1. t \in T
    BY <1>4, <1>9
  <2>2. \A x : ~SetsTo(m, x)
    BY <1>2, <1>3, <1>9, PowerKinds, Zenon
  <2> QED BY <1>1, <2>1, <2>2
<1> QED BY <1>4, <1>6, <1>7, <1>8, <1>9, Zenon

\* A request adds its messages behind those on their way.
LEMMA RequestKeepsPower ==
    ASSUME RequestTypes, PowerInv, NEW a \in Apps, Request(a)
    PROVE  PowerInv'
<1>1. class' = class /\ service' = service
  BY DEF Request
<1> SUFFICES ASSUME class = "batteryPsm" PROVE PowerInv'
  BY <1>1 DEF PowerInv
<1>2. PICK r \in Requests(class), valid \in BOOLEAN :
        /\ outbox' = [outbox EXCEPT ![a] = @ \o
               [i \in DOMAIN Sent(class, r, valid) |-> CallOf(class, r, valid, i)]]
        /\ thresholds' =
             IF class # "batteryPsm" \/ Sent(class, r, valid) = <<>> \/ r = 0 THEN thresholds
             ELSE IF valid THEN thresholds \cup {ThresholdFor(r)}
             ELSE {Thresholds[i] : i \in DOMAIN Thresholds}
  BY DEF Request, CallOf
<1>3. PICK new : new = [i \in DOMAIN Sent(class, r, valid) |-> CallOf(class, r, valid, i)]
  OBVIOUS
<1>4. /\ new \in Seq(AnyCall(class)) /\ Len(new) = Len(Sent(class, r, valid))
      /\ \A i \in 1..Len(new) : new[i] = CallOf(class, r, valid, i)
  BY <1>3, CallsSent DEF RequestTypes
<1>5. service.threshold \in InList /\ outbox \in [Apps -> Seq(AnyCall(class))]
  BY PowerStates, PowerDone DEF RequestTypes
<1>6. PICK t, T : t = service.threshold /\ T = thresholds'
  OBVIOUS
<1>7. /\ thresholds \subseteq InList
      /\ service.enabled => t \in thresholds
      /\ \A b \in Apps : Prudent(outbox[b], t, thresholds)
  BY <1>6 DEF PowerInv
<1>8. PICK sent : sent = Sent(class, r, valid)
  OBVIOUS
<1>9. /\ thresholds \subseteq T /\ T \subseteq InList
      /\ sent # <<>> /\ r # 0 => IF valid THEN ThresholdFor(r) \in T ELSE t \in T
  <2>1. CASE sent = <<>> \/ r = 0
    <3>1. T = thresholds
      BY <1>2, <1>6, <1>8, <2>1, Zenon
    <3>2. thresholds \subseteq T /\ T \subseteq InList
      BY <1>7, <3>1
    <3> QED BY <2>1, <3>2, Zenon
  <2>2. CASE sent # <<>> /\ r # 0 /\ valid
    <3>1. r \in 0..100
      BY <1>8, <2>2, PowerSent, Zenon
    <3>2. ThresholdFor(r) \in InList
      BY <3>1, ThresholdInList
    <3>3. T = thresholds \cup {ThresholdFor(r)}
      BY <1>2, <1>6, <1>8, <2>2, Zenon
    <3>4. thresholds \subseteq T /\ T \subseteq InList /\ ThresholdFor(r) \in T
      BY <1>7, <3>2, <3>3
    <3> QED BY <2>2, <3>4, Zenon
  <2>3. CASE sent # <<>> /\ r # 0 /\ ~valid
    <3>1. T = InList
      BY <1>2, <1>6, <1>8, <2>3, Zenon DEF InList
    <3>2. thresholds \subseteq T /\ T \subseteq InList /\ t \in T
      BY <1>5, <1>6, <1>7, <3>1
    <3> QED BY <2>3, <3>2, Zenon
  <2> QED BY <2>1, <2>2, <2>3, Zenon
<1>10. Prudent(new, t, T)
  <2>1. CASE sent = <<>>
    <3>1. Len(new) = 0
      BY <1>4, <1>8, <2>1
    <3> QED BY <3>1 DEF Prudent
  <2>2. CASE sent # <<>>
    BY <1>4, <1>8, <1>9, <2>2, PrudentNew, Zenon
  <2> QED BY <2>1, <2>2
<1>11. \A b \in Apps : Prudent(outbox[b], t, T)
  BY <1>7, <1>9, PrudentMore
<1>12. outbox[a] \in Seq(AnyCall(class))
  BY <1>5
<1>13. Prudent(outbox[a] \o new, t, T)
  BY <1>4, <1>10, <1>11, <1>12, PrudentBehind
<1>14. \A b \in Apps : outbox'[b] = IF b = a THEN outbox[a] \o new ELSE outbox[b]
  BY <1>2, <1>3, <1>5
<1>15. \A b \in Apps : Prudent(outbox'[b], t, T)
  BY <1>11, <1>13, <1>14
<1> QED BY <1>1, <1>6, <1>7, <1>9, <1>15 DEF PowerInv

\* The service takes a message: what it sets has been asked for, and so has what
\* it finds when it is enabled.
LEMMA TakeKeepsPower ==
    ASSUME RequestTypes, PowerInv, NEW a \in Apps, Take(a)
    PROVE  PowerInv'
<1>1. /\ outbox[a] # <<>> /\ outbox' = [outbox EXCEPT ![a] = Tail(@)]
      /\ class' = class /\ thresholds' = thresholds
  BY Taken
<1> SUFFICES ASSUME class = "batteryPsm" PROVE PowerInv'
  BY <1>1 DEF PowerInv
<1>2. /\ outbox \in [Apps -> Seq(AnyCall(class))] /\ service \in BatteryPSM
  BY PowerStates DEF RequestTypes
<1>3. PICK m, t, e, u, T : /\ m = Head(outbox[a]) /\ t = service.threshold
                           /\ e = service.enabled /\ u = service'.threshold /\ T = thresholds
  OBVIOUS
<1>4. /\ T \subseteq InList
      /\ e => t \in T
      /\ \A b \in Apps : Prudent(outbox[b], t, T)
  BY <1>3 DEF PowerInv
<1>5. /\ \A v : SetsTo(m, v) => v \in T
      /\ Enables(m) => t \in T
  <2>1. 1 \in 1..Len(outbox[a]) /\ m = outbox[a][1]
    <3>1. Len(outbox[a]) \in Nat \ {0}
      BY <1>1, <1>2, EmptySeq
    <3> QED BY <1>1, <1>2, <1>3, <3>1
  <2>2. \A j \in 1..(1 - 1) : FALSE
    OBVIOUS
  <2> QED BY <1>4, <2>1, <2>2 DEF Prudent
<1>6. /\ service'.enabled => u \in T
      /\ u \in T \/ (u = t /\ \A v : ~SetsTo(m, v))
  <2>1. CASE m.query /\ service' = service
    <3>1. \A v : ~SetsTo(m, v)
      BY <2>1 DEF SetsTo
    <3>2. service'.enabled = e /\ u = t
      BY <1>3, <2>1
    <3> QED BY <1>4, <3>1, <3>2, Zenon
  <2>2. CASE \E r \in Requests(class), valid \in BOOLEAN :
                \E i \in 1..Len(Sent(class, r, valid)) :
                   /\ m = CallOf(class, r, valid, i)
                   /\ Sent(class, r, valid) # <<>>
                   /\ service' \in Do(class, service, Sent(class, r, valid)[i])
    <3>1. PICK r \in Requests(class), valid \in BOOLEAN :
             \E i \in 1..Len(Sent(class, r, valid)) :
                   /\ m = CallOf(class, r, valid, i)
                   /\ Sent(class, r, valid) # <<>>
                   /\ service' \in Do(class, service, Sent(class, r, valid)[i])
      BY <2>2, Zenon
    <3>2. PICK i \in 1..Len(Sent(class, r, valid)) :
                   /\ m = CallOf(class, r, valid, i)
                   /\ Sent(class, r, valid) # <<>>
                   /\ service' \in Do(class, service, Sent(class, r, valid)[i])
      BY <3>1, Zenon
    <3>3. PICK w : w = Sent(class, r, valid)[i]
      OBVIOUS
    <3>4. ~m.query /\ m.message = w
      <4>1. m = CallOf(class, r, valid, i)
        BY <3>2, Zenon
      <4> QED BY <3>3, <4>1 DEF CallOf
    <3>5. service' = BatteryPSMDo(service, w)
      <4>1. service' \in Do(class, service, w)
        BY <3>2, <3>3, Zenon
      <4> QED BY <4>1 DEF Do
    <3>6. w \in {[threshold |-> ThresholdFor(r)], [enabled |-> TRUE], [enabled |-> FALSE]}
      BY <3>2, <3>3, PowerMessage, ZenonT(60)
    <3>7. CASE w = [threshold |-> ThresholdFor(r)]
      <4>1. PICK v : v = ThresholdFor(r)
        OBVIOUS
      <4>2. SetsTo(m, v)
        BY <3>4, <3>7, <4>1, PowerKinds, Zenon
      <4>3. service' = [enabled |-> e, threshold |-> v]
        BY <1>2, <1>3, <3>5, <3>7, <4>1, PowerDone, Zenon
      <4>4. u = v
        BY <1>3, <4>3
      <4> QED BY <1>5, <4>2, <4>4
    <3>8. CASE w = [enabled |-> TRUE]
      <4>1. Enables(m) /\ \A v : ~SetsTo(m, v)
        BY <3>4, <3>8, PowerKinds, Zenon DEF Enables
      <4>2. service' = [enabled |-> TRUE, threshold |-> t]
        BY <1>2, <1>3, <3>5, <3>8, PowerDone, Zenon
      <4>3. u = t
        BY <1>3, <4>2
      <4> QED BY <1>5, <4>1, <4>3
    <3>9. CASE w = [enabled |-> FALSE]
      <4>1. \A v : ~SetsTo(m, v)
        BY <3>4, <3>9, PowerKinds, Zenon
      <4>2. service' = [enabled |-> FALSE, threshold |-> t]
        BY <1>2, <1>3, <3>5, <3>9, PowerDone, Zenon
      <4>3. u = t /\ ~service'.enabled
        BY <1>3, <4>2
      <4> QED BY <4>1, <4>3
    <3> QED BY <3>6, <3>7, <3>8, <3>9, Zenon
  <2>3. \/ m.query /\ service' = service
        \/ \E r \in Requests(class), valid \in BOOLEAN :
                \E i \in 1..Len(Sent(class, r, valid)) :
                   /\ m = CallOf(class, r, valid, i)
                   /\ Sent(class, r, valid) # <<>>
                   /\ service' \in Do(class, service, Sent(class, r, valid)[i])
    BY <1>3, Taken, ZenonT(60)
  <2> QED BY <2>1, <2>2, <2>3, Zenon
<1>7. \A b \in Apps : Prudent(outbox[b], u, T)
  BY <1>4, <1>6 DEF Prudent
<1>8. Prudent(Tail(outbox[a]), u, T)
  <2>1. outbox[a] \in Seq(AnyCall(class)) /\ Prudent(outbox[a], t, T)
    BY <1>2, <1>4
  <2> QED BY <1>1, <1>3, <1>6, <2>1, PrudentRest
<1>9. ASSUME NEW b \in Apps PROVE Prudent(outbox'[b], u, T)
  <2>1. outbox'[b] = IF b = a THEN Tail(outbox[a]) ELSE outbox[b]
    BY <1>1, <1>2
  <2> QED BY <1>7, <1>8, <2>1
<1> QED BY <1>1, <1>3, <1>4, <1>6, <1>9 DEF PowerInv

\* Power saving is never enabled with a threshold nobody has asked for.
LEMMA PowerInitially == RequestInit => PowerInv
<1> SUFFICES ASSUME RequestInit, class = "batteryPsm" PROVE PowerInv
  BY DEF PowerInv
<1>1. service \in BatteryPSM /\ service.enabled \in BOOLEAN /\ service.threshold \in InList
  BY PowerStates, PowerDone DEF RequestInit
<1>2. thresholds = IF service.enabled THEN {service.threshold} ELSE {}
  BY DEF RequestInit
<1>3. /\ thresholds \subseteq InList
      /\ service.enabled => service.threshold \in thresholds
  BY <1>1, <1>2
<1>4. ASSUME NEW a \in Apps PROVE Prudent(outbox[a], service.threshold, thresholds)
  <2>1. outbox[a] = <<>>
    BY DEF RequestInit
  <2>2. Len(outbox[a]) = 0
    BY <2>1
  <2> QED BY <2>2 DEF Prudent
<1> QED BY <1>3, <1>4, Zenon DEF PowerInv

LEMMA PowerInvKept ==
    ASSUME RequestTypes, PowerInv, [RequestNext]_requestVars
    PROVE  PowerInv'
<1>1. ASSUME getStateAsync PROVE PowerInv'
  <2>1. class # "batteryPsm" /\ class' = class
    BY <1>1 DEF getStateAsync
  <2> QED BY <2>1 DEF PowerInv
<1>2. ASSUME Move PROVE PowerInv'
  <2>1. class' = class /\ outbox' = outbox /\ service' \in States(class)
    BY <1>2 DEF Move
  <2> SUFFICES ASSUME class = "batteryPsm" PROVE PowerInv'
    BY <2>1 DEF PowerInv
  <2>2. service'.threshold \in InList
    BY <2>1, PowerStates, PowerDone
  <2>3. thresholds' = thresholds \cup {service'.threshold}
    BY <1>2 DEF Move
  <2>4. \A a \in Apps : Prudent(outbox[a], service'.threshold, thresholds')
    BY <2>3 DEF PowerInv, Prudent
  <2> QED BY <2>1, <2>2, <2>3, <2>4 DEF PowerInv
<1>3. ASSUME Notice \/ Query \/ SecondQuery \/ Hear \/ UNCHANGED requestVars PROVE PowerInv'
  <2>1. UNCHANGED <<class, service, outbox, thresholds>>
    BY <1>3 DEF Notice, Query, SecondQuery, Hear, requestVars
  <2> QED BY <2>1 DEF PowerInv
<1> QED BY <1>1, <1>2, <1>3, RequestKeepsPower, TakeKeepsPower DEF RequestNext

-----------------------------------------------------------------------------
RequestInv == RequestTypes /\ AskedInv /\ Following /\ PowerInv

LEMMA RequestInvHolds == RequestSpec => []RequestInv
<1>1. RequestInit => RequestInv
  <2> SUFFICES ASSUME RequestInit PROVE AskedInv /\ Following
    BY RequestTypesInitially, PowerInitially DEF RequestInv
  <2>1. asked = <<>> /\ inbox = <<>> /\ view = <<>> /\ reading = <<>> /\ Len(<<>>) = 0
    BY DEF RequestInit
  <2> QED BY <2>1 DEF AskedInv, Following
<1>2. RequestInv /\ [RequestNext]_requestVars => RequestInv'
  BY RequestTypesKept, AskedKept, FollowingKept, PowerInvKept DEF RequestInv
<1> QED BY <1>1, <1>2, PTL DEF RequestSpec

\* What the last request asked for, if its service heeds it and its query succeeded,
\* is what the getter reads: the setters and the getters of the classes convert in
\* opposite ways, for whatever list of thresholds and of timeouts the services have,
\* however many applications there are and whatever of theirs is on its way.
THEOREM WhatIsSetIsRead == RequestSpec => []ReadBack
<1>1. RequestInv => ReadBack
  <2> SUFFICES ASSUME RequestInv, asked # <<>>, asked[2], asked[3] PROVE ReadsAsAsked
    BY DEF ReadBack
  <2>1. PICK r \in Requests(class) :
          \/ /\ asked = <<r, TRUE, TRUE>>
             /\ Get(class, TRUE, service, TRUE, service) =
                  IF class = "batteryPsm" /\ r > 0 THEN ThresholdFor(r) ELSE r
          \/ asked = <<r, FALSE, TRUE>>
          \/ \E all \in BOOLEAN : asked = <<r, all, FALSE>>
    BY DEF RequestInv, AskedInv
  <2>2. /\ <<r, FALSE, TRUE>>[2] = FALSE /\ <<r, TRUE, TRUE>>[1] = r
        /\ \A all : <<r, all, FALSE>>[3] = FALSE
    OBVIOUS
  <2> QED BY <2>1, <2>2, Zenon DEF ReadsAsAsked
<1> QED BY <1>1, RequestInvHolds, PTL

\* Whoever connects to the signal of a class before asking for the state, and asks
\* as often as it likes, ends up with the state of the service once nothing is on
\* its way: the newest signal is never of an older state than the reply it follows.
THEOREM ViewsAreCurrent == RequestSpec => []ViewsSettle
<1>1. RequestInv => ViewsSettle
  <2> SUFFICES ASSUME RequestInv, class \notin Silent, view # <<>>, inbox = <<>>
               PROVE  LET truth == IF class = "system" THEN Told(class, service)
                                   ELSE {Get(class, TRUE, service, TRUE, service)}
                      IN truth = {} \/ view[1] \in truth
    BY DEF ViewsSettle
  <2>1. Len(inbox) = 0
    OBVIOUS
  <2>2. Told(class, service) = {} \/ view[1] \in Told(class, service)
    BY <2>1 DEF RequestInv, Following
  <2>3. class # "system" => Told(class, service) = {Get(class, TRUE, service, TRUE, service)}
    BY ToldIsGot DEF RequestInv, RequestTypes
  <2> QED BY <2>2, <2>3
<1> QED BY <1>1, RequestInvHolds, PTL

\* In whatever order the two messages of the requests of any number of applications
\* arrive, power saving is never enabled with a threshold that nobody asked for.
THEOREM ThresholdIsAskedFor == RequestSpec => []ThresholdWasAsked
<1>1. RequestInv => ThresholdWasAsked
  BY DEF RequestInv, PowerInv, ThresholdWasAsked
<1> QED BY <1>1, RequestInvHolds, PTL

-----------------------------------------------------------------------------
(* The readings of the sensors, as signals tell them and as getters do.     *)

LEMMA Reduced == ASSUME NEW n \in Int PROVE n % 360 \in 0..359
OBVIOUS

LEMMA RotationToldInCircle ==
    ASSUME NEW m \in [x : -180..180, y : -180..180, z : -180..180],
           NEW s, s = RotationTold(m)
    PROVE  s.x \in -90..90 /\ {s.y, s.z} \subseteq -180..180
<1>1. PICK x \in -180..180, y \in -180..180, z \in -180..180 :
        m.x = x /\ m.y = y /\ m.z = z
  <2>1. m.x \in -180..180 /\ m.y \in -180..180 /\ m.z \in -180..180
    OBVIOUS
  <2> QED BY <2>1, Zenon
<1>2. /\ s.x = IF Abs(y) <= 90 THEN -y ELSE (IF y < 0 THEN 180 ELSE -180) + y
      /\ s.y = IF Abs(y) <= 90 THEN x ELSE (IF x > 0 THEN 1 ELSE -1) * (180 - Abs(x))
      /\ s.z = ((z + 180 + 90) % 360) - 180
  BY <1>1 DEF RotationTold
<1>3. s.z \in -180..180
  <2>1. PICK n \in Int : n = z + 180 + 90
    OBVIOUS
  <2>2. PICK r \in 0..359 : r = n % 360
    BY Reduced
  <2>3. s.z = r - 180
    BY <1>2, <2>1, <2>2
  <2> QED BY <2>3
<1>4. s.x \in -90..90
  <2>1. CASE Abs(y) <= 90
    BY <1>2, <2>1 DEF Abs
  <2>2. CASE ~(Abs(y) <= 90) /\ y < 0
    BY <1>2, <2>2 DEF Abs
  <2>3. CASE ~(Abs(y) <= 90) /\ ~(y < 0)
    BY <1>2, <2>3 DEF Abs
  <2> QED BY <2>1, <2>2, <2>3
<1>5. s.y \in -180..180
  <2>1. CASE Abs(y) <= 90
    BY <1>2, <2>1
  <2>2. CASE ~(Abs(y) <= 90) /\ x > 0
    BY <1>2, <2>2 DEF Abs
  <2>3. CASE ~(Abs(y) <= 90) /\ ~(x > 0)
    <3>1. Abs(x) = -x
      BY <2>3 DEF Abs
    <3> QED BY <1>2, <2>3, <3>1
  <2> QED BY <2>1, <2>2, <2>3
<1> QED BY <1>3, <1>4, <1>5

\* What was measured last is the last on its way, or has been told, unless it was
\* measured when no slot listened.
ReadingInv ==
    /\ sensor \in SensorClasses /\ delivering \in BOOLEAN
    /\ measured \in Seq(Measurable[sensor]) /\ measured # <<>>
    /\ signals \in Seq(Measurable[sensor])
    /\ fresh =>
          IF signals = <<>>
          THEN told = <<ReadingTold(sensor, measured[Len(measured)])>>
          ELSE signals[Len(signals)] = measured[Len(measured)]

LEMMA ReadingInvariant == ReadingSpec => []ReadingInv
<1>1. ReadingInit => ReadingInv
  <2> SUFFICES ASSUME ReadingInit PROVE ReadingInv
    OBVIOUS
  <2>1. sensor \in SensorClasses
    BY DEF ReadingInit
  <2>2. PICK m \in Measurable[sensor] : measured = <<m>>
    BY <2>1, ReadingAssumption DEF ReadingInit
  <2>3. measured \in Seq(Measurable[sensor]) /\ measured # <<>>
    <3>1. PICK S : S = Measurable[sensor]
      OBVIOUS
    <3>2. m \in S
      BY <3>1
    <3>3. <<m>> \in Seq(S) /\ <<m>> # <<>>
      BY <3>2
    <3> QED BY <2>2, <3>1, <3>3
  <2>4. <<>> \in Seq(Measurable[sensor])
    BY EmptySeq
  <2> QED BY <2>1, <2>3, <2>4 DEF ReadingInit, ReadingInv
<1>2. ASSUME ReadingInv, [ReadingNext]_readingVars
      PROVE  ReadingInv'
  <2>1. ASSUME NEW type \in 0..ControlLevel, requestReadings(type) PROVE ReadingInv'
    <3>1. <<>> \in Seq(Measurable[sensor])
      BY EmptySeq
    <3> QED BY <1>2, <2>1, <3>1 DEF requestReadings, ReadingInv
  <2>2. ASSUME startReadings PROVE ReadingInv'
    BY <1>2, <2>2 DEF startReadings, ReadingInv
  <2>3. ASSUME stopReadings PROVE ReadingInv'
    <3>1. <<>> \in Seq(Measurable[sensor])
      BY EmptySeq
    <3> QED BY <1>2, <2>3, <3>1 DEF stopReadings, ReadingInv
  <2>4. ASSUME MeasuredReading PROVE ReadingInv'
    <3>1. PICK m \in Measurable[sensor] :
            /\ measured' = Append(measured, m)
            /\ signals' = IF delivering THEN Append(signals, m) ELSE signals
      BY <2>4 DEF MeasuredReading
    <3>2. fresh' = delivering /\ UNCHANGED <<sensor, delivering, told>>
      BY <2>4 DEF MeasuredReading
    <3>3. \A s \in Seq(Measurable[sensor]) :
            /\ Append(s, m) \in Seq(Measurable[sensor]) /\ Append(s, m) # <<>>
            /\ Append(s, m)[Len(Append(s, m))] = m
      <4> SUFFICES ASSUME NEW s \in Seq(Measurable[sensor])
                   PROVE  /\ Append(s, m) \in Seq(Measurable[sensor]) /\ Append(s, m) # <<>>
                          /\ Append(s, m)[Len(Append(s, m))] = m
        OBVIOUS
      <4>1. PICK t : t = Append(s, m)
        OBVIOUS
      <4>2. /\ t \in Seq(Measurable[sensor]) /\ t # <<>>
            /\ Len(t) = Len(s) + 1 /\ t[Len(s) + 1] = m
        BY <4>1, AppendProperties
      <4> QED BY <4>1, <4>2
    <3>4. measured \in Seq(Measurable[sensor]) /\ signals \in Seq(Measurable[sensor])
      BY <1>2 DEF ReadingInv
    <3>5. CASE delivering
      <4>1. measured' = Append(measured, m) /\ signals' = Append(signals, m)
        BY <3>1, <3>5
      <4> QED BY <1>2, <3>2, <3>3, <3>4, <4>1 DEF ReadingInv
    <3>6. CASE ~delivering
      BY <1>2, <3>1, <3>2, <3>3, <3>4, <3>6 DEF ReadingInv
    <3> QED BY <3>5, <3>6
  <2>5. ASSUME slotDataAvailable PROVE ReadingInv'
    <3>1. /\ signals # <<>> /\ signals' = Tail(signals)
          /\ told' = <<ReadingTold(sensor, Head(signals))>>
          /\ UNCHANGED <<sensor, delivering, measured, fresh>>
      BY <2>5 DEF slotDataAvailable
    <3>2. signals \in Seq(Measurable[sensor])
      BY <1>2 DEF ReadingInv
    <3>3. PICK n \in Nat : Len(signals) = n + 1
      <4>1. Len(signals) \in Nat \ {0}
        BY <3>1, <3>2, EmptySeq
      <4>2. PICK l \in Nat \ {0} : l = Len(signals)
        BY <4>1
      <4>3. l - 1 \in Nat /\ l = (l - 1) + 1
        OBVIOUS
      <4> QED BY <4>2, <4>3
    <3>4. /\ signals' \in Seq(Measurable[sensor]) /\ Len(signals') = n
          /\ \A i \in 1..n : signals'[i] = signals[i + 1]
      BY <3>1, <3>2, <3>3, HeadTailProperties
    <3>5. Head(signals) = signals[1]
      BY <3>1, <3>2
    <3>6. CASE n = 0
      <4>1. signals' = <<>> /\ Len(signals) = 1
        BY <3>3, <3>4, <3>6, EmptySeq
      <4> QED BY <1>2, <3>1, <3>4, <3>5, <4>1 DEF ReadingInv
    <3>7. CASE n # 0
      <4>1. signals' # <<>>
        BY <3>4, <3>7
      <4>2. n \in 1..n
        BY <3>7
      <4>3. signals'[Len(signals')] = signals[Len(signals)]
        BY <3>3, <3>4, <4>2
      <4> QED BY <1>2, <3>1, <3>4, <4>1, <4>3 DEF ReadingInv
    <3> QED BY <3>6, <3>7
  <2>6. ASSUME (\E v \in {0, 1} : setSetting(v)) \/ getSetting \/ UNCHANGED readingVars
        PROVE  ReadingInv'
    <3>1. UNCHANGED <<sensor, delivering, measured, signals, told, fresh>>
      BY <2>6 DEF setSetting, getSetting, readingVars
    <3> QED BY <1>2, <3>1 DEF ReadingInv
  <2> QED BY <1>2, <2>1, <2>2, <2>3, <2>4, <2>5, <2>6 DEF ReadingNext
<1> QED BY <1>1, <1>2, PTL DEF ReadingSpec

\* Whatever a sensor whose slot and getter convert alike measures and however often
\* it is stopped and started, what the application was told last is what the getter
\* of the class answers.
THEOREM SignalsAgreeWithGetters == ReadingSpec => []ReadingsAgree
<1>1. ReadingInv => ReadingsAgree
  <2> SUFFICES ASSUME ReadingInv, fresh, signals = <<>>,
                      sensor \notin {"compass", "rotation", "accelerometer"}
               PROVE  told # <<>> /\ told[1] = ReadingGot(sensor, measured[Len(measured)])
    BY DEF ReadingsAgree, OneReading, WithoutGetter
  <2>1. told = <<ReadingTold(sensor, measured[Len(measured)])>>
    BY DEF ReadingInv
  <2>2. told # <<>> /\ told[1] = ReadingTold(sensor, measured[Len(measured)])
    BY <2>1
  <2> QED BY <2>2 DEF ReadingTold, ReadingGot
<1> QED BY <1>1, ReadingInvariant, PTL

\* What the application was told was measured.
ToldInv == told # <<>> => \E m \in Measurable[sensor] : told = <<ReadingTold(sensor, m)>>

\* Whatever angles are measured, those told stay in their circles, and the rotation
\* around the X axis in its half circle.
THEOREM AnglesStayInCircle == ReadingSpec => []AnglesInCircle
<1>1. ReadingInit => ToldInv
  BY DEF ReadingInit, ToldInv
<1>2. ASSUME ReadingInv, ToldInv, [ReadingNext]_readingVars PROVE ToldInv'
  <2>1. CASE UNCHANGED <<sensor, told>>
    BY <1>2, <2>1 DEF ToldInv
  <2>2. CASE slotDataAvailable
    <3>1. signals \in Seq(Measurable[sensor]) /\ signals # <<>>
      BY <1>2, <2>2 DEF slotDataAvailable, ReadingInv
    <3>2. Head(signals) \in Measurable[sensor]
      BY <3>1, HeadTailProperties
    <3> QED BY <2>2, <3>2 DEF slotDataAvailable, ToldInv
  <2>3. UNCHANGED <<sensor, told>> \/ slotDataAvailable
    BY <1>2 DEF ReadingNext, requestReadings, startReadings, stopReadings, MeasuredReading,
                setSetting, getSetting, readingVars
  <2> QED BY <2>1, <2>2, <2>3
<1>3. ReadingInv /\ ToldInv => AnglesInCircle
  <2> SUFFICES ASSUME ReadingInv, NEW m \in Measurable[sensor], told = <<ReadingTold(sensor, m)>>
               PROVE  AnglesInCircle
    BY DEF ToldInv, AnglesInCircle
  <2>1. told[1] = ReadingTold(sensor, m) /\ sensor \in SensorClasses
    BY DEF ReadingInv
  <2>2. CASE sensor = "compass"
    <3>1. m \in 0..359
      BY <2>1, <2>2, ReadingAssumption
    <3>2. PICK n \in Int : n = m + 90
      BY <3>1
    <3>3. told[1] = n % 360
      BY <2>1, <2>2, <3>2 DEF ReadingTold, CompassTold
    <3> QED BY <2>2, <3>2, <3>3, Reduced DEF AnglesInCircle
  <2>3. CASE sensor = "rotation"
    <3>1. m \in [x : -180..180, y : -180..180, z : -180..180]
      BY <2>1, <2>3, ReadingAssumption
    <3>2. PICK s : s = RotationTold(m)
      OBVIOUS
    <3>3. s.x \in -90..90 /\ {s.y, s.z} \subseteq -180..180
      BY <3>1, <3>2, RotationToldInCircle, SMT
    <3>4. told[1] = s
      BY <2>1, <2>3, <3>2 DEF ReadingTold
    <3> QED BY <2>3, <3>3, <3>4, Zenon DEF AnglesInCircle
  <2> QED BY <2>2, <2>3 DEF AnglesInCircle
<1> QED BY <1>1, <1>2, <1>3, ReadingInvariant, PTL DEF ReadingSpec
==============================================================================
