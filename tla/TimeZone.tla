------------------------------- MODULE TimeZone ------------------------------
(***************************************************************************)
(* Times of other zones.  QmTime computes them by changing the variable TZ *)
(* of the process for a moment: a TzWrapper object takes a mutex, sets TZ, *)
(* and puts the old value back when it is destroyed.  Threads of the       *)
(* application do so at the same time.                                     *)
(***************************************************************************)
EXTENDS Naturals, Sequences

CONSTANTS
    Threads,         \* threads of the application
    ZoneNames,       \* zones they ask for
    Unset, Empty,    \* TZ is not set; is set to the empty string
    Own              \* NULL: the zone is not to be changed

VARIABLES
    own,             \* history: TZ as the application has set it
    spoilt,          \* history: a destructor has failed to put TZ back
    tz,              \* TZ of the process
    zoneCall         \* per thread, its call

zoneVars == <<own, spoilt, tz, zoneCall>>

\* localTime asks for its own zone, remoteTime for one and getTimeDiff for two,
\* one after the other; an empty name unsets TZ.
localTime == <<Own>>
remoteTime(zone) == <<zone>>
getTimeDiff(zone1, zone2) == <<zone1, zone2>>

Calls ==
    {localTime} \cup {remoteTime(z) : z \in ZoneNames \cup {Unset}}
        \cup {getTimeDiff(z1, z2) : z1, z2 \in ZoneNames \cup {Unset}}

\* set and saved are set_timezone and saved_tz of the TzWrapper; result is what
\* TZ was when the times were computed.
NotCalling ==
    [asked |-> <<>>, result |-> <<>>, stage |-> "outside", set |-> FALSE, saved |-> Unset]

ZoneInit ==
    /\ own \in ZoneNames \cup {Unset, Empty}
    /\ tz = own /\ spoilt = FALSE
    /\ zoneCall = [t \in Threads |-> NotCalling]

Begin(t) ==
    /\ zoneCall[t].asked = <<>>
    /\ \E c \in Calls : zoneCall' = [zoneCall EXCEPT ![t] = [NotCalling EXCEPT !.asked = c]]
    /\ UNCHANGED <<own, spoilt, tz>>

Wanted(t) == zoneCall[t].asked[Len(zoneCall[t].result) + 1]

\* An empty value is saved like an unset one.
Saved == IF tz = Empty THEN Unset ELSE tz

Inside == {t \in Threads : zoneCall[t].stage # "outside"}

\* Mutant: the mutex is taken only to change the zone.
MayEnter_UnlessOwn(t) == Wanted(t) = Own \/ Inside = {}

MayEnter(t) == Inside = {}

\* The constructor of TzWrapper.  set_tz_env may fail: then the object is not
\* valid, remote_time and its caller return false, and nothing is restored.
TzWrapper(t) ==
    /\ zoneCall[t].asked # <<>>
    /\ t \notin Inside
    /\ MayEnter(t)
    /\ \/ /\ tz' = IF Wanted(t) = Own THEN tz ELSE Wanted(t)
          /\ zoneCall' = [zoneCall EXCEPT ![t].stage = "inside",
                                ![t].set = (Wanted(t) # Own), ![t].saved = Saved]
       \/ /\ Wanted(t) # Own
          /\ zoneCall' = [zoneCall EXCEPT ![t] = NotCalling]
          /\ UNCHANGED tz
    /\ UNCHANGED <<own, spoilt>>

\* localtime_r, which reads TZ; it fails for years that it cannot represent.
Compute(t) ==
    /\ zoneCall[t].stage = "inside"
    /\ zoneCall' \in
        {[zoneCall EXCEPT ![t].result = Append(@, tz), ![t].stage = "computed"],
         [zoneCall EXCEPT ![t].stage = "failed"]}
    /\ UNCHANGED <<own, spoilt, tz>>

\* The destructor of TzWrapper.  Its set_tz_env may fail too, which only leaves a
\* line in the log: TZ stays as it is and the mutex is released.  A call ends
\* when a zone fails or all are done.
TzWrapperDestroyed(t) ==
    /\ zoneCall[t].stage \in {"computed", "failed"}
    /\ tz' \in IF zoneCall[t].set THEN {zoneCall[t].saved, tz} ELSE {tz}
    /\ spoilt' = (spoilt \/ (zoneCall[t].set /\ tz' # zoneCall[t].saved))
    /\ zoneCall' = [zoneCall EXCEPT ![t] =
            IF @.stage = "failed" \/ Len(@.result) = Len(@.asked)
            THEN NotCalling
            ELSE [@ EXCEPT !.stage = "outside"]]
    /\ UNCHANGED own

ZoneNext ==
    \E t \in Threads : Begin(t) \/ TzWrapper(t) \/ Compute(t) \/ TzWrapperDestroyed(t)

ZoneSpec == ZoneInit /\ [][ZoneNext]_zoneVars

-----------------------------------------------------------------------------
\* A time of a named zone is computed in that zone, whatever the other threads
\* compute meanwhile and whichever settings and restores of TZ failed before
\* (TzWrapper, remote_time).  A time for NULL is computed in the application's own
\* zone, and TZ is that zone when nobody is inside, but for an empty value, which
\* is lost, and until a destructor has failed to put TZ back: from then on no
\* later call repairs it.
ZoneIsTheCallers ==
    LET Home == {own, IF own = Empty THEN Unset ELSE own} IN
    /\ \A t \in Threads : \A i \in 1..Len(zoneCall[t].result) :
        IF zoneCall[t].asked[i] = Own
        THEN spoilt \/ zoneCall[t].result[i] \in Home
        ELSE zoneCall[t].result[i] = zoneCall[t].asked[i]
    /\ Inside = {} => spoilt \/ tz \in Home
==============================================================================
