-------------------------------- MODULE QmTime -------------------------------
(***************************************************************************)
(* The clock settings as the QmTime objects of one application see them.   *)
(* The objects share one private object, which caches the information of   *)
(* the time daemon, timed; timed is external and tells everybody of every  *)
(* change.  A reply to a blocking call reaches the application before the  *)
(* signals that wait for its event loop.  All settings timed has had are   *)
(* kept in a sequence, and what somebody has seen of them is a position in *)
(* it.  The objects are used from one thread.                              *)
(***************************************************************************)
EXTENDS Naturals, Sequences

CONSTANTS
    TimeObjects,     \* the QmTime objects of the application
    Zones,           \* names of time zones
    MaxSettings      \* bound on the number of settings timed has

CONSTANT NoZone      \* the empty string

ASSUME TimeAssumption == Zones # {} /\ NoZone \notin Zones

VARIABLES
    timeline,        \* the settings timed has had, the newest last
    heard,           \* the last of them whose signal has been delivered
    shared,          \* the private object
    timeCall         \* the call in progress, or what the last one returned

timeVars == <<timeline, heard, shared, timeCall>>

Now == Len(timeline)

\* timed has made the settings s: a change to what they were is told.
Became(s) == timeline' = IF s = timeline[Now] THEN timeline ELSE Append(timeline, s)

-----------------------------------------------------------------------------
\* Requests, as the settings that timed makes of its settings s.
setTimezone(tz, s) == [s EXCEPT !.cellular = FALSE, !.manual = tz]
setAutoTimeZone(on, s) == [s EXCEPT !.cellular = on]
setAutoSystemTime(on, s) == [s EXCEPT !.nitz = on]
setTime(s) == [s EXCEPT !.nitz = FALSE]

\* A setter refuses the empty zone and the status "unknown" without a call.
Accepted(s) ==
    {setTimezone(tz, s) : tz \in Zones}
        \cup {setAutoTimeZone(on, s) : on \in BOOLEAN}
        \cup {setAutoSystemTime(on, s) : on \in BOOLEAN}
        \cup {setTime(s)}

\* What the getters make of the cached settings.
getTimezone(s) == IF s.cellular /\ s.operator # NoZone THEN s.operator ELSE s.manual
autoTimeZone(s) == IF s.cellular THEN "AutoTimeZoneOn" ELSE "AutoTimeZoneOff"
autoSystemTime(s) == IF s.nitz THEN "AutoSystemTimeOn" ELSE "AutoSystemTimeOff"
getAutoTimezone(s) == s.operator

Answers(s) ==
    [zone |-> getTimezone(s), zoneStatus |-> autoTimeZone(s),
     timeStatus |-> autoSystemTime(s), operatorZone |-> getAutoTimezone(s)]

\* Without valid information every getter says that it knows nothing.
Unknown ==
    [zone |-> NoZone, zoneStatus |-> "AutoTimeZoneUnknown",
     timeStatus |-> "AutoSystemTimeUnknown", operatorZone |-> NoZone]

-----------------------------------------------------------------------------
Returned(asked) == [op |-> "none", asked |-> asked]
Idle == timeCall.op = "none"

TimeInit ==
    /\ timeline = <<[nitz |-> TRUE, cellular |-> TRUE,
                     manual |-> CHOOSE z \in Zones : TRUE, operator |-> NoZone]>>
    /\ heard = 0
    /\ shared = [users |-> {}, initialized |-> FALSE, connected |-> FALSE, info |-> 0]
    /\ timeCall = Returned(0)

\* The signal of timed is subscribed to, or that fails; nobody tries again.
Subscribed(s) ==
    \/ /\ shared' = [s EXCEPT !.connected = TRUE]
       /\ heard' = Now
    \/ /\ shared' = s
       /\ UNCHANGED heard

\* The information is asked for and, if the reply is one, cached.
syncronize_timed_info(s, valid) == IF valid THEN [s EXCEPT !.info = Now] ELSE s

Read(s) ==
    /\ \E valid \in BOOLEAN : shared' = syncronize_timed_info(s, valid)
    /\ UNCHANGED heard

\* Mutant: the information is asked for before the signal is subscribed to.
initialize_ReadsFirst(half, s) ==
    IF half = 1 THEN Read([s EXCEPT !.info = 0]) ELSE Subscribed(s)

\* The two halves of initialize, between which timed moves on.
initialize(half, s) ==
    IF half = 1 THEN Subscribed([s EXCEPT !.info = 0]) ELSE Read(s)

\* The constructor of QmTime.  The first object initialises the shared one.
get_object(o) ==
    /\ Idle
    /\ o \notin shared.users
    /\ LET s == [shared EXCEPT !.users = @ \cup {o}]
       IN IF s.initialized
          THEN /\ shared' = s
               /\ timeCall' = Returned(0)
               /\ UNCHANGED heard
          ELSE /\ initialize(1, s)
               /\ timeCall' = [op |-> "construct", asked |-> 0]
    /\ UNCHANGED timeline

Initialised ==
    /\ timeCall.op = "construct"
    /\ initialize(2, [shared EXCEPT !.initialized = TRUE])
    /\ timeCall' = Returned(0)
    /\ UNCHANGED timeline

\* The destructor.  The policy is KeepConnected and no code changes it: the
\* shared object stays initialised when its last user goes.
unref_object(o) ==
    /\ Idle
    /\ o \in shared.users
    /\ shared' = [shared EXCEPT !.users = @ \ {o}]
    /\ timeCall' = Returned(0)
    /\ UNCHANGED <<timeline, heard>>

\* First half of a setter: timed takes the settings, or refuses them, and
\* then the setter returns false.
wall_clock_settings_sync(o) ==
    /\ Idle
    /\ o \in shared.users
    /\ Now < MaxSettings
    /\ \/ \E s \in Accepted(timeline[Now]) :
            /\ Became(s)
            /\ timeCall' = [op |-> "set", asked |-> Len(timeline')]
       \/ /\ timeCall' = Returned(0)
          /\ UNCHANGED timeline
    /\ UNCHANGED <<heard, shared>>

\* Mutant: the policy WaitForSignal, under which nothing is read back.
Synchronised_WaitForSignal ==
    /\ timeCall.op = "set"
    /\ timeCall' = Returned(timeCall.asked)
    /\ UNCHANGED <<timeline, heard, shared>>

\* Second half of a setter, which returns whether the information could be read.
Synchronised ==
    /\ timeCall.op = "set"
    /\ \E valid \in BOOLEAN :
        /\ shared' = syncronize_timed_info(shared, valid)
        /\ timeCall' = Returned(IF valid THEN timeCall.asked ELSE 0)
    /\ UNCHANGED <<timeline, heard>>

\* A signal is delivered; its settings are cached and the objects are told.
timed_signal ==
    /\ Idle
    /\ shared.connected
    /\ heard < Now
    /\ heard' = heard + 1
    /\ shared' = [shared EXCEPT !.info = heard + 1]
    /\ timeCall' = Returned(0)
    /\ UNCHANGED timeline

\* Another application, or the network, changes something, at any time.
Elsewhere ==
    /\ Now < MaxSettings
    /\ \E s \in Accepted(timeline[Now])
                  \cup {[timeline[Now] EXCEPT !.operator = z] : z \in Zones} : Became(s)
    /\ UNCHANGED <<heard, shared, timeCall>>

TimeNext ==
    \/ \E o \in TimeObjects :
        get_object(o) \/ unref_object(o) \/ wall_clock_settings_sync(o)
    \/ Initialised
    \/ Synchronised
    \/ timed_signal
    \/ Elsewhere

TimeSpec == TimeInit /\ [][TimeNext]_timeVars

-----------------------------------------------------------------------------
View == IF shared.info = 0 THEN Unknown ELSE Answers(timeline[shared.info])

\* Once every signal has been delivered, the getters of every object answer
\* what timed has, unless nothing could be read yet: no change falls between
\* the subscription and the first reading, or between a setting and reading it
\* back (initialize, syncronize_timed_info, timed_signal).
SettingsSettle ==
    Idle /\ shared.connected /\ heard = Now /\ View # Unknown =>
        View = Answers(timeline[Now])

\* When a setter returns true, the getters already answer the settings it made
\* or later ones, whether their signals have come or not (setTimezone and its
\* sisters under the policy SynchronizeOnWrite).
WrittenIsRead ==
    Idle /\ timeCall.asked # 0 => shared.info >= timeCall.asked
==============================================================================
