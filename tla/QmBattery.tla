------------------------------- MODULE QmBattery -----------------------------
(***************************************************************************)
(* One QmBattery object and BME, the battery management daemon it asks.    *)
(* The object keeps the last statistics it read (valid until an event or   *)
(* five seconds later), follows restarts of BME in the coulomb counter,    *)
(* turns the events of BME into signals, and holds back the signals of a   *)
(* 100 mA USB charger for four seconds because a 500 mA one first shows up *)
(* as such.  BME is external: its state changes at any moment and each     *)
(* change is announced by an event; when it stops the query connection     *)
(* breaks and no event arrives any more.                                   *)
(*                                                                         *)
(* The battery level, the battery state and the charging time, which the   *)
(* code compares alike, are one attribute, level.                          *)
(***************************************************************************)
EXTENDS Integers, Sequences

CONSTANTS
    MaxChanges,   \* bound: changes of BME's state, and restarts
    MaxEvents     \* bound: unread events

ASSUME BatteryAssumption == MaxChanges \in Nat /\ MaxEvents \in Nat

VARIABLES
    bme,         \* BME: [charger, charging, level, cc]
    up,          \* BME runs
    total,       \* history: current that has flowed since the object was made
    changes,     \* number of changes of BME so far
    events,      \* unread events, each the set of what it announces
    eventsLive,  \* the event connection has not been lost
    cache,       \* the query side of the object, see Cache
    savedLevel,  \* saved_stat_
    timer,       \* the four-second timer is active
    delayed,     \* usb100ma_emit_delayed
    announced,   \* history: the last value each signal carried
    skipped,     \* history: a level event was dropped since the last one read
    lastRead     \* history: the last cumulative current returned

bmeVars == <<bme, up, total, changes>>
eventVars == <<events, eventsLive>>
signalVars == <<savedLevel, timer, delayed, announced, skipped>>
vars == <<bmeVars, eventVars, cache, signalVars, lastRead>>

Chargers == {"None", "USB_100mA", "USB_500mA"}
Stat == [charger : Chargers, charging : BOOLEAN, level : 0..1, cc : Nat]

\* stat_ and is_data_actual_; the query connection; whether the restart count
\* of the connection differs from the one seen last; the counter offset.
Cache == [stat : Stat, actual : BOOLEAN, conn : {"closed", "open", "broken"},
          reset : BOOLEAN, offset : Int]

-----------------------------------------------------------------------------
\* EmIpc::query: a broken connection gives EIO, which is counted, and one more
\* try after reopening; the query fails only while BME is away.
Reconnected(c) ==
    [c EXCEPT !.conn = IF up THEN "open" ELSE "closed",
              !.reset = @ \/ c.conn = "broken"]

\* Mutant: the offset of an earlier restart is overwritten.
Adjusted_Overwritten(c) ==
    IF c.reset THEN [c EXCEPT !.offset = c.stat.cc - bme.cc, !.reset = FALSE] ELSE c

\* The counter of a restarted BME starts again: the offset hides it.
Adjusted(c) ==
    IF c.reset THEN [c EXCEPT !.offset = @ + (c.stat.cc - bme.cc), !.reset = FALSE] ELSE c

\* queryStat_: nothing while the cached statistics are valid.
queryStat(c) ==
    IF c.actual THEN c
    ELSE LET r == Reconnected(c)
         IN  IF up THEN [Adjusted(r) EXCEPT !.stat = bme, !.actual = TRUE] ELSE r

Init ==
    /\ bme \in [charger : {"None"}, charging : {FALSE}, level : {0}, cc : 0..1]
    /\ up = TRUE /\ total = 0 /\ changes = 0
    /\ events = <<>> /\ eventsLive = TRUE
    /\ cache = queryStat([stat |-> [bme EXCEPT !.cc = 0], actual |-> FALSE,
                          conn |-> "closed", reset |-> TRUE, offset |-> 0])
    /\ savedLevel = bme.level
    /\ timer = FALSE /\ delayed = FALSE
    /\ announced = [charger |-> bme.charger, charging |-> bme.charging, level |-> bme.level]
    /\ skipped = FALSE
    /\ lastRead = 0

-----------------------------------------------------------------------------
\* BME.
CountChange == changes < MaxChanges /\ changes' = changes + 1

\* What an event says of the difference between two states of BME.
Mask(old, new) ==
    (IF old.charger # new.charger THEN {"CHARGER"} ELSE {})
      \cup (IF old.charging # new.charging THEN {"CHARGE"} ELSE {})
      \cup (IF old.level # new.level THEN {"BATMON"} ELSE {})

BmeChanges ==
    /\ up /\ CountChange
    /\ \E charger \in Chargers, charging \in BOOLEAN, level \in 0..1 :
          bme' = [bme EXCEPT !.charger = charger, !.charging = charging, !.level = level]
    /\ Mask(bme, bme') # {}
    /\ IF eventsLive THEN /\ Len(events) < MaxEvents
                          /\ events' = Append(events, Mask(bme, bme'))
                     ELSE UNCHANGED events
    /\ UNCHANGED <<up, total, eventsLive, cache, signalVars, lastRead>>

CurrentFlows ==
    /\ up /\ CountChange
    /\ bme' = [bme EXCEPT !.cc = @ + 1]
    /\ total' = total + 1
    /\ UNCHANGED <<up, eventVars, cache, signalVars, lastRead>>

BmeStops ==
    /\ up
    /\ up' = FALSE
    /\ eventsLive' = FALSE
    /\ cache' = [cache EXCEPT !.conn = IF @ = "open" THEN "broken" ELSE @]
    /\ UNCHANGED <<bme, total, changes, events, signalVars, lastRead>>

BmeStarts ==
    /\ ~up /\ CountChange
    /\ up' = TRUE
    /\ bme' = [bme EXCEPT !.cc = 0]
    /\ UNCHANGED <<total, eventVars, cache, signalVars, lastRead>>

-----------------------------------------------------------------------------
\* Getters.  Five seconds after the last query the statistics are out of date.
CacheExpires ==
    /\ cache.actual
    /\ cache' = [cache EXCEPT !.actual = FALSE]
    /\ UNCHANGED <<bmeVars, eventVars, signalVars, lastRead>>

getCumulativeBatteryCurrent ==
    /\ cache' = queryStat(cache)
    /\ lastRead' = cache'.stat.cc + cache'.offset
    /\ UNCHANGED <<bmeVars, eventVars, signalVars>>

\* getRemainingTime asks BME over the same connection, if it is open.
getRemainingTime ==
    /\ cache' = IF cache.conn = "closed" THEN cache ELSE Reconnected(cache)
    /\ UNCHANGED <<bmeVars, eventVars, signalVars, lastRead>>

-----------------------------------------------------------------------------
\* Mutant: the charging state that was held back is forgotten.
ChargerRead_DelayForgotten(s) ==
    IF s.cache.stat.charger = "USB_100mA" THEN [s EXCEPT !.timer = TRUE]
    ELSE [s EXCEPT !.timer = FALSE, !.delayed = FALSE,
                   !.announced.charger = s.cache.stat.charger]

\* onEmEvent, BMEVENT_CHARGER: a 100 mA charger (re)starts the timer, any other
\* is announced, with the charging state that was held back.
ChargerRead(s) ==
    IF s.cache.stat.charger = "USB_100mA" THEN [s EXCEPT !.timer = TRUE]
    ELSE [s EXCEPT !.timer = FALSE, !.delayed = FALSE,
                   !.announced.charger = s.cache.stat.charger,
                   !.announced.charging = IF s.delayed THEN s.cache.stat.charging ELSE @]

OnCharger(s, mask) ==
    IF "CHARGER" \in mask
    THEN ChargerRead([s EXCEPT !.cache = queryStat(@)]) ELSE s

\* BMEVENT_CHARGE: held back while the timer is active, and then nothing else
\* of the event is looked at.
HeldBack(s, mask) == "CHARGE" \in mask /\ s.timer

OnCharge(s, mask) ==
    IF "CHARGE" \notin mask THEN s
    ELSE LET c == queryStat(s.cache)
         IN  [s EXCEPT !.cache = c, !.announced.charging = c.stat.charging]

\* Mutant: the statistics are saved before they are compared.
OnBatmon_SavedFirst(s, mask) ==
    IF "BATMON" \notin mask THEN s
    ELSE LET c == queryStat(s.cache)
         IN  [s EXCEPT !.cache = c, !.savedLevel = c.stat.level, !.skipped = FALSE]

\* BMEVENT_BATMON: what differs from the saved statistics is announced.
OnBatmon(s, mask) ==
    IF "BATMON" \notin mask THEN s
    ELSE LET c == queryStat(s.cache)
         IN  [s EXCEPT !.cache = c, !.savedLevel = c.stat.level, !.skipped = FALSE,
                       !.announced.level = IF s.savedLevel # c.stat.level
                                           THEN c.stat.level ELSE @]

\* What the handler of one event does with all of this; the statistics are out
\* of date as soon as an event arrives.
Handled(mask) ==
    LET s == OnCharger([cache |-> [cache EXCEPT !.actual = FALSE],
                        savedLevel |-> savedLevel, timer |-> timer, delayed |-> delayed,
                        announced |-> announced, skipped |-> skipped], mask)
    IN  IF HeldBack(s, mask)
        THEN [s EXCEPT !.delayed = TRUE, !.skipped = @ \/ "BATMON" \in mask]
        ELSE OnBatmon(OnCharge(s, mask), mask)

onEmEvent ==
    /\ events # <<>>
    /\ events' = Tail(events)
    /\ \E s \in {Handled(Head(events))} :
          /\ cache' = s.cache /\ savedLevel' = s.savedLevel
          /\ timer' = s.timer /\ delayed' = s.delayed
          /\ announced' = s.announced /\ skipped' = s.skipped
    /\ UNCHANGED <<bmeVars, eventsLive, lastRead>>

\* Mutant: the timer is stopped and nothing is sent.
waitForUSB500mA_Silent ==
    /\ timer
    /\ timer' = FALSE
    /\ UNCHANGED <<bmeVars, eventVars, cache, savedLevel, delayed, announced, skipped, lastRead>>

\* The timer expires: both signals that were held back are sent; the note that
\* a charging state was held back stays.
waitForUSB500mA ==
    /\ timer
    /\ timer' = FALSE
    /\ \E c \in {queryStat(cache)} :
          /\ cache' = c
          /\ announced' = [announced EXCEPT !.charger = c.stat.charger,
                                            !.charging = c.stat.charging]
    /\ UNCHANGED <<bmeVars, eventVars, savedLevel, delayed, skipped, lastRead>>

Next ==
    \/ BmeChanges \/ CurrentFlows \/ BmeStops \/ BmeStarts
    \/ CacheExpires \/ getCumulativeBatteryCurrent \/ getRemainingTime
    \/ onEmEvent \/ waitForUSB500mA

\* The event loop of the application runs the notifier and the timer.
Spec == Init /\ [][Next]_vars /\ WF_vars(onEmEvent) /\ WF_vars(waitForUSB500mA)

-----------------------------------------------------------------------------
TypeOK ==
    /\ bme \in Stat /\ cache \in Cache
    /\ up \in BOOLEAN /\ eventsLive \in BOOLEAN /\ timer \in BOOLEAN
    /\ delayed \in BOOLEAN /\ skipped \in BOOLEAN
    /\ total \in Nat /\ changes \in 0..MaxChanges
    /\ events \in Seq(SUBSET {"CHARGER", "CHARGE", "BATMON"})
    /\ savedLevel \in 0..1
    /\ announced \in [charger : Chargers, charging : BOOLEAN, level : 0..1]
    /\ lastRead \in Int

Settled == eventsLive /\ events = <<>> /\ ~timer

\* Once the events are read and nothing is held back the application knows the
\* charger and the charging state: the delay of the 100 mA charger, in any order
\* of the events around it, loses neither.
ChargerSettled ==
    Settled => /\ announced.charger = bme.charger
               /\ announced.charging = bme.charging

\* Likewise the battery level, unless its event came together with a charging
\* event that was held back: then it is dropped, and the level stays unknown
\* until it changes again.
LevelSettled ==
    (eventsLive /\ events = <<>> /\ ~skipped) => announced.level = bme.level

\* Every charger that stays connected is announced sooner or later.
ChargerHeard ==
    \A t \in Chargers :
        (bme.charger = t /\ eventsLive)
            ~> (announced.charger = t \/ bme.charger # t \/ ~eventsLive)

\* The documentation of getCumulativeBatteryCurrent: a bigger value means that
\* the battery has discharged.  While it does, no value returned is smaller than
\* the one before or tells of more than what has flowed, across restarts of BME,
\* whichever call notices them, and cached values; until BME restarts a value
\* that is not cached is exact.
CounterHonest ==
    [][ /\ lastRead' >= lastRead
        /\ lastRead' <= total
        /\ eventsLive /\ cache'.actual /\ ~cache.actual => lastRead' = total ]_lastRead
=============================================================================
