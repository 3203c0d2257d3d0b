--------------------------- MODULE QmBatteryProofs ---------------------------
(***************************************************************************)
(* Proofs about the battery: the cumulative current, the charger and the   *)
(* level that the application hears of.                                    *)
(***************************************************************************)
EXTENDS QmBattery, TLAPS

\* Attributes BME tells of by events, and the unread events about one of them.
Pending(what) == \E i \in 1..Len(events) : what \in events[i]

\* The cumulative current as the cached statistics have it.
Cumulative(c) == c.stat.cc + c.offset

\* A restart of BME that the counter offset does not contain yet.
Unnoticed(c) == c.reset \/ c.conn = "broken"

\* The query connection is open only while BME runs.  It stays open as long as
\* events arrive; once it is not, a restart is noticed before the counter counts.
Connected(c) ==
    /\ c.conn = "open" => up
    /\ c.conn = "closed" => c.reset
    /\ eventsLive => c.conn = "open" /\ ~c.reset

\* The cached counter is between the last one returned and what has flowed, and
\* stays there when BME's own counter is read, which is ahead by no more than has
\* flowed since, and by exactly that unless BME was restarted.
Counted(c) ==
    /\ lastRead <= Cumulative(c)
    /\ Cumulative(c) <= total
    /\ ~Unnoticed(c) => c.stat.cc <= bme.cc /\ bme.cc + c.offset <= total
    /\ eventsLive => bme.cc + c.offset = total

CacheInv(c) == c \in Cache /\ Connected(c) /\ Counted(c)

\* What is cached is BME's state, but for what an unread event tells of.
FreshInv ==
    eventsLive /\ cache.actual =>
        /\ cache.stat.charger = bme.charger \/ Pending("CHARGER")
        /\ cache.stat.charging = bme.charging \/ Pending("CHARGE")
        /\ cache.stat.level = bme.level \/ Pending("BATMON")

\* What has not been announced is in an unread event, held back by the timer, or,
\* of the level, dropped.
AnnouncedInv ==
    eventsLive =>
        /\ announced.charger = bme.charger \/ Pending("CHARGER") \/ timer
        /\ announced.charging = bme.charging \/ Pending("CHARGE") \/ (timer /\ delayed)
        /\ announced.level = bme.level \/ Pending("BATMON") \/ skipped

\* The saved statistics are what was announced.
SavedInv == savedLevel = announced.level

BatteryInv ==
    /\ TypeOK
    /\ CacheInv(cache)
    /\ FreshInv
    /\ AnnouncedInv
    /\ SavedInv

-----------------------------------------------------------------------------
\* What a query of statistics that are out of date brings, and what it leaves.
LEMMA QueryResult ==
    ASSUME NEW c \in Cache, bme \in Stat, up \in BOOLEAN
    PROVE  /\ queryStat(c) \in Cache
           /\ c.actual => queryStat(c) = c
           /\ ~c.actual /\ up =>
                /\ queryStat(c).stat = bme /\ queryStat(c).actual
                /\ queryStat(c).conn = "open" /\ ~queryStat(c).reset
                /\ queryStat(c).offset =
                    IF Unnoticed(c) THEN c.offset + (c.stat.cc - bme.cc) ELSE c.offset
           /\ ~c.actual /\ ~up =>
                /\ queryStat(c).stat = c.stat /\ ~queryStat(c).actual
                /\ queryStat(c).conn = "closed" /\ queryStat(c).reset = Unnoticed(c)
                /\ queryStat(c).offset = c.offset
<1> DEFINE r == Reconnected(c)
<1>1. /\ r \in Cache /\ r.stat = c.stat /\ r.actual = c.actual /\ r.offset = c.offset
      /\ r.conn = IF up THEN "open" ELSE "closed"
      /\ r.reset = Unnoticed(c)
  BY DEF Reconnected, Unnoticed, Cache
<1> HIDE DEF r
<1>2. /\ Adjusted(r) \in Cache /\ Adjusted(r).conn = r.conn /\ ~Adjusted(r).reset
      /\ Adjusted(r).offset = IF r.reset THEN r.offset + (r.stat.cc - bme.cc) ELSE r.offset
  <2> DEFINE o == r.offset + (r.stat.cc - bme.cc)
  <2>1. o \in Int
    <3>1. r.stat.cc \in Int /\ bme.cc \in Int /\ r.offset \in Int
      BY <1>1 DEF Cache, Stat
    <3> QED BY <3>1
  <2>2. CASE r.reset
    <3>1. Adjusted(r) = [r EXCEPT !.offset = o, !.reset = FALSE]
      BY <2>2 DEF Adjusted
    <3> HIDE DEF o
    <3>2. /\ Adjusted(r) \in Cache /\ Adjusted(r).conn = r.conn
          /\ ~Adjusted(r).reset /\ Adjusted(r).offset = o
      BY <1>1, <2>1, <3>1 DEF Cache
    <3> QED BY <2>2, <3>2 DEF o
  <2>3. CASE ~r.reset
    BY <1>1, <2>3 DEF Adjusted, Cache
  <2> QED BY <2>2, <2>3
<1>3. queryStat(c) = IF c.actual THEN c
                     ELSE IF up THEN [Adjusted(r) EXCEPT !.stat = bme, !.actual = TRUE] ELSE r
  BY DEF queryStat, r
<1> DEFINE a == Adjusted(r)
<1> HIDE DEF a
<1>4. CASE ~c.actual /\ up
  <2>1. queryStat(c) = [a EXCEPT !.stat = bme, !.actual = TRUE]
    BY <1>3, <1>4 DEF a
  <2>2. /\ a \in Cache /\ a.conn = "open" /\ ~a.reset
        /\ a.offset = IF Unnoticed(c) THEN c.offset + (c.stat.cc - bme.cc) ELSE c.offset
    BY <1>1, <1>2, <1>4 DEF a
  <2> QED BY <1>4, <2>1, <2>2 DEF Cache
<1>5. CASE ~c.actual /\ ~up
  BY <1>1, <1>3, <1>5
<1>6. CASE c.actual
  BY <1>3, <1>6
<1> QED BY <1>4, <1>5, <1>6 DEF Cache

\* A query keeps the invariant of the cache; while events arrive it succeeds.
LEMMA QueryKeepsCache ==
    ASSUME bme \in Stat, up \in BOOLEAN, total \in Nat, lastRead \in Int, NEW c, CacheInv(c)
    PROVE  /\ CacheInv(queryStat(c))
           /\ eventsLive => queryStat(c).actual /\ (~c.actual => queryStat(c).stat = bme)
<1>1. /\ c.stat.cc \in Nat /\ c.offset \in Int /\ bme.cc \in Nat
      /\ c.actual \in BOOLEAN /\ c.reset \in BOOLEAN
      /\ c.conn \in {"closed", "open", "broken"} /\ c \in Cache
  BY DEF CacheInv, Cache, Stat
<1> USE DEF CacheInv, Connected, Counted, Cumulative, Unnoticed
<1>2. CASE c.actual
  BY <1>1, <1>2, QueryResult
<1>3. CASE ~c.actual /\ up
  BY <1>1, <1>3, QueryResult
<1>4. CASE ~c.actual /\ ~up
  BY <1>1, <1>4, QueryResult
<1> QED BY <1>1, <1>2, <1>3, <1>4

-----------------------------------------------------------------------------
\* The record that the handler of an event works on, and what holds of it after
\* each part of the handler: whatever has been queried is BME's state.
Handler ==
    [cache : Cache, savedLevel : 0..1, timer : BOOLEAN, delayed : BOOLEAN,
     announced : [charger : Chargers, charging : BOOLEAN, level : 0..1],
     skipped : BOOLEAN]

HandlerInv(s) ==
    /\ s \in Handler /\ CacheInv(s.cache)
    /\ eventsLive /\ s.cache.actual => s.cache.stat = bme
    /\ s.savedLevel = s.announced.level

ChargerKnown(s) == s.announced.charger = bme.charger \/ s.timer
ChargingKnown(s) == s.announced.charging = bme.charging \/ (s.timer /\ s.delayed)
LevelKnown(s) == s.announced.level = bme.level \/ s.skipped

\* A query within the handler.
LEMMA HandlerQuery ==
    ASSUME TypeOK, NEW s, HandlerInv(s)
    PROVE  /\ CacheInv(queryStat(s.cache))
           /\ eventsLive => queryStat(s.cache).actual /\ queryStat(s.cache).stat = bme
<1>1. bme \in Stat /\ up \in BOOLEAN /\ total \in Nat /\ lastRead \in Int
  BY DEF TypeOK
<1>2. s.cache \in Cache /\ s.cache.actual \in BOOLEAN
  BY DEF HandlerInv, Handler, Cache
<1> QED BY <1>1, <1>2, QueryKeepsCache, QueryResult DEF HandlerInv

\* A charger that is read is announced or starts the timer, and what was known of
\* the charging state stays known.
LEMMA ChargerReadKnown ==
    ASSUME TypeOK, NEW s, HandlerInv(s), eventsLive => s.cache.stat = bme
    PROVE  /\ HandlerInv(ChargerRead(s))
           /\ eventsLive => ChargerKnown(ChargerRead(s))
           /\ eventsLive /\ ChargingKnown(s) => ChargingKnown(ChargerRead(s))
           /\ ChargerRead(s).announced.level = s.announced.level
           /\ ChargerRead(s).skipped = s.skipped
           /\ ChargerRead(s).cache = s.cache
<1>1. s \in Handler /\ s.cache.stat \in Stat
  BY DEF HandlerInv, Handler, Cache
<1>2. CASE s.cache.stat.charger = "USB_100mA"
  BY <1>1, <1>2 DEF ChargerRead, HandlerInv, Handler, ChargerKnown, ChargingKnown
<1>3. CASE s.cache.stat.charger # "USB_100mA"
  <2> DEFINE charger == s.cache.stat.charger
             charging == IF s.delayed THEN s.cache.stat.charging ELSE s.announced.charging
             t == ChargerRead(s)
  <2>1. t = [s EXCEPT !.timer = FALSE, !.delayed = FALSE, !.announced.charger = charger,
                      !.announced.charging = charging]
    BY <1>3 DEF ChargerRead
  <2>2. charger \in Chargers /\ charging \in BOOLEAN
    BY <1>1 DEF Stat, Handler
  <2> HIDE DEF t, charger, charging
  <2>3. /\ t \in Handler /\ t.cache = s.cache /\ t.skipped = s.skipped
        /\ t.savedLevel = s.savedLevel /\ t.announced.level = s.announced.level
        /\ t.announced.charger = charger /\ t.announced.charging = charging
    BY <1>1, <2>1, <2>2 DEF Handler
  <2>4. eventsLive => charger = bme.charger
    BY DEF charger
  <2>5. eventsLive /\ ChargingKnown(s) => charging = bme.charging
    BY DEF charging, ChargingKnown
  <2>6. HandlerInv(t)
    BY <2>3 DEF HandlerInv
  <2> QED BY <2>3, <2>4, <2>5, <2>6 DEF ChargerKnown, ChargingKnown, t
<1> QED BY <1>2, <1>3

\* The three parts of the handler: what an event tells of is known after its
\* part, and what was known before stays known.
LEMMA ChargerPart ==
    ASSUME TypeOK, NEW mask, NEW s, HandlerInv(s)
    PROVE  LET t == OnCharger(s, mask)
           IN  /\ HandlerInv(t)
               /\ eventsLive /\ (ChargerKnown(s) \/ "CHARGER" \in mask) => ChargerKnown(t)
               /\ eventsLive /\ ChargingKnown(s) => ChargingKnown(t)
               /\ eventsLive /\ LevelKnown(s) => LevelKnown(t)
<1>1. CASE "CHARGER" \in mask
  <2> DEFINE q == [s EXCEPT !.cache = queryStat(@)]
  <2>1. /\ q \in Handler /\ q.cache = queryStat(s.cache) /\ q.savedLevel = s.savedLevel
        /\ q.announced = s.announced /\ q.timer = s.timer /\ q.delayed = s.delayed
        /\ q.skipped = s.skipped
    BY HandlerQuery DEF HandlerInv, Handler, CacheInv
  <2>2. HandlerInv(q) /\ (eventsLive => q.cache.stat = bme)
    BY <2>1, HandlerQuery DEF HandlerInv
  <2>3. OnCharger(s, mask) = ChargerRead(q)
    BY <1>1 DEF OnCharger
  <2>4. (ChargingKnown(s) => ChargingKnown(q)) /\ (LevelKnown(s) => LevelKnown(q))
    BY <2>1 DEF ChargingKnown, LevelKnown
  <2> HIDE DEF q
  <2> QED BY <2>2, <2>3, <2>4, ChargerReadKnown DEF LevelKnown
<1>2. CASE "CHARGER" \notin mask
  BY <1>2 DEF OnCharger
<1> QED BY <1>1, <1>2

LEMMA ChargePart ==
    ASSUME TypeOK, NEW mask, NEW s, HandlerInv(s)
    PROVE  LET t == OnCharge(s, mask)
           IN  /\ HandlerInv(t)
               /\ ChargerKnown(s) => ChargerKnown(t)
               /\ eventsLive /\ (ChargingKnown(s) \/ "CHARGE" \in mask) => ChargingKnown(t)
               /\ LevelKnown(s) => LevelKnown(t)
<1>1. CASE "CHARGE" \in mask
  <2> DEFINE c == queryStat(s.cache)
             t == OnCharge(s, mask)
  <2>1. t = [s EXCEPT !.cache = c, !.announced.charging = c.stat.charging]
    BY <1>1 DEF OnCharge
  <2>2. c \in Cache /\ c.stat.charging \in BOOLEAN
    BY HandlerQuery DEF CacheInv, Cache, Stat
  <2> HIDE DEF c, t
  <2>3. /\ t \in Handler /\ t.cache = c /\ t.savedLevel = s.savedLevel
        /\ t.timer = s.timer /\ t.delayed = s.delayed /\ t.skipped = s.skipped
        /\ t.announced.charger = s.announced.charger
        /\ t.announced.charging = c.stat.charging
        /\ t.announced.level = s.announced.level
    BY <2>1, <2>2 DEF HandlerInv, Handler
  <2>4. CacheInv(c) /\ (eventsLive => c.stat = bme)
    BY HandlerQuery DEF c
  <2>5. HandlerInv(t)
    BY <2>3, <2>4 DEF HandlerInv
  <2> QED BY <2>3, <2>4, <2>5 DEF ChargerKnown, ChargingKnown, LevelKnown, t
<1>2. CASE "CHARGE" \notin mask
  BY <1>2 DEF OnCharge
<1> QED BY <1>1, <1>2

LEMMA BatmonPart ==
    ASSUME TypeOK, NEW mask, NEW s, HandlerInv(s)
    PROVE  LET t == OnBatmon(s, mask)
           IN  /\ HandlerInv(t)
               /\ ChargerKnown(s) => ChargerKnown(t)
               /\ ChargingKnown(s) => ChargingKnown(t)
               /\ eventsLive /\ (LevelKnown(s) \/ "BATMON" \in mask) => LevelKnown(t)
<1>1. CASE "BATMON" \in mask
  <2> DEFINE c == queryStat(s.cache)
             t == OnBatmon(s, mask)
             level == IF s.savedLevel # c.stat.level THEN c.stat.level ELSE s.announced.level
  <2>1. t = [s EXCEPT !.cache = c, !.savedLevel = c.stat.level, !.skipped = FALSE,
                      !.announced.level = level]
    BY <1>1 DEF OnBatmon
  <2>2. c \in Cache /\ c.stat.level \in 0..1
    BY HandlerQuery DEF CacheInv, Cache, Stat
  <2>3. level = c.stat.level
    BY DEF HandlerInv
  <2> HIDE DEF c, t, level
  <2>4. /\ t \in Handler /\ t.cache = c /\ t.savedLevel = c.stat.level
        /\ t.timer = s.timer /\ t.delayed = s.delayed
        /\ t.announced.charger = s.announced.charger
        /\ t.announced.charging = s.announced.charging
        /\ t.announced.level = c.stat.level
    BY <2>1, <2>2, <2>3 DEF HandlerInv, Handler
  <2>5. CacheInv(c) /\ (eventsLive => c.stat = bme)
    BY HandlerQuery DEF c
  <2>6. HandlerInv(t)
    BY <2>4, <2>5 DEF HandlerInv
  <2> QED BY <2>4, <2>5, <2>6 DEF ChargerKnown, ChargingKnown, LevelKnown, t
<1>2. CASE "BATMON" \notin mask
  BY <1>2 DEF OnBatmon
<1> QED BY <1>1, <1>2

\* The whole handler of one event: what it tells of is known, or held back, and
\* what was known stays known.
LEMMA HandledKnown ==
    ASSUME TypeOK, CacheInv(cache), SavedInv, NEW mask
    PROVE  LET t == Handled(mask)
           IN  /\ HandlerInv(t)
               /\ eventsLive =>
                    /\ announced.charger = bme.charger \/ timer \/ "CHARGER" \in mask
                        => ChargerKnown(t)
                    /\ announced.charging = bme.charging \/ (timer /\ delayed)
                            \/ "CHARGE" \in mask
                        => ChargingKnown(t)
                    /\ announced.level = bme.level \/ skipped \/ "BATMON" \in mask
                        => LevelKnown(t)
<1> DEFINE c == [cache EXCEPT !.actual = FALSE]
           s == [cache |-> c, savedLevel |-> savedLevel, timer |-> timer,
                 delayed |-> delayed, announced |-> announced, skipped |-> skipped]
           t == OnCharger(s, mask)
<1>1. CacheInv(c) /\ ~c.actual
  BY DEF CacheInv, Cache, Connected, Counted, Cumulative, Unnoticed
<1>2. HandlerInv(s)
  BY <1>1 DEF HandlerInv, Handler, TypeOK, SavedInv, CacheInv
<1>3. Handled(mask) = IF HeldBack(t, mask)
                      THEN [t EXCEPT !.delayed = TRUE,
                                     !.skipped = t.skipped \/ "BATMON" \in mask]
                      ELSE OnBatmon(OnCharge(t, mask), mask)
  BY DEF Handled
<1>4. /\ HandlerInv(t)
      /\ eventsLive =>
            /\ announced.charger = bme.charger \/ timer \/ "CHARGER" \in mask
                => ChargerKnown(t)
            /\ announced.charging = bme.charging \/ (timer /\ delayed) => ChargingKnown(t)
            /\ announced.level = bme.level \/ skipped => LevelKnown(t)
  <2> HIDE DEF c
  <2>1. /\ ChargerKnown(s) <=> announced.charger = bme.charger \/ timer
        /\ ChargingKnown(s) <=> announced.charging = bme.charging \/ (timer /\ delayed)
        /\ LevelKnown(s) <=> announced.level = bme.level \/ skipped
    BY DEF ChargerKnown, ChargingKnown, LevelKnown
  <2> HIDE DEF s
  <2> QED BY <1>2, <2>1, ChargerPart
<1> HIDE DEF c, s, t
<1>5. CASE HeldBack(t, mask)
  <2> DEFINE h == Handled(mask)
  <2>1. h = [t EXCEPT !.delayed = TRUE, !.skipped = t.skipped \/ "BATMON" \in mask]
    BY <1>3, <1>5
  <2>2. t.timer /\ t \in Handler /\ t.skipped \in BOOLEAN
    BY <1>4, <1>5 DEF HeldBack, HandlerInv, Handler
  <2> HIDE DEF h
  <2>3. /\ h \in Handler /\ h.cache = t.cache /\ h.savedLevel = t.savedLevel
        /\ h.announced = t.announced /\ h.timer = t.timer /\ h.delayed
        /\ h.skipped <=> t.skipped \/ "BATMON" \in mask
    BY <2>1, <2>2 DEF Handler
  <2>4. HandlerInv(h)
    BY <1>4, <2>3 DEF HandlerInv
  <2> QED BY <1>4, <2>2, <2>3, <2>4 DEF ChargerKnown, ChargingKnown, LevelKnown, h
<1>6. CASE ~HeldBack(t, mask)
  BY <1>3, <1>4, <1>6, ChargePart, BatmonPart
<1> QED BY <1>5, <1>6

-----------------------------------------------------------------------------
\* An event that BME adds, and one that is read.
LEMMA PendingAppend ==
    ASSUME NEW mask, NEW what, events \in Seq(SUBSET {"CHARGER", "CHARGE", "BATMON"}),
           mask \in SUBSET {"CHARGER", "CHARGE", "BATMON"}, events' = Append(events, mask)
    PROVE  Pending(what)' <=> Pending(what) \/ what \in mask
<1>1. /\ Len(events') = Len(events) + 1 /\ Len(events) \in Nat
      /\ \A i \in 1..Len(events) : events'[i] = events[i]
      /\ events'[Len(events) + 1] = mask
  OBVIOUS
<1>2. ASSUME Pending(what)' PROVE Pending(what) \/ what \in mask
  BY <1>1, <1>2 DEF Pending
<1>3. ASSUME Pending(what) PROVE Pending(what)'
  BY <1>1, <1>3 DEF Pending
<1>4. ASSUME what \in mask PROVE Pending(what)'
  <2>1. Len(events) + 1 \in 1..Len(events') /\ what \in events'[Len(events) + 1]
    BY <1>1, <1>4
  <2> QED BY <2>1 DEF Pending
<1> QED BY <1>2, <1>3, <1>4

LEMMA PendingTail ==
    ASSUME NEW what, events \in Seq(SUBSET {"CHARGER", "CHARGE", "BATMON"}), events # <<>>,
           events' = Tail(events)
    PROVE  Pending(what) => Pending(what)' \/ what \in Head(events)
<1> SUFFICES ASSUME NEW i \in 1..Len(events), what \in events[i]
             PROVE  Pending(what)' \/ what \in Head(events)
  BY DEF Pending
<1>1. CASE i = 1
  BY <1>1
<1>2. CASE i # 1
  <2>1. i - 1 \in 1..Len(events') /\ events'[i - 1] = events[i]
    BY <1>2
  <2> QED BY <2>1 DEF Pending
<1> QED BY <1>1, <1>2

-----------------------------------------------------------------------------
\* A query outside the handler of events.
LEMMA QueryStep ==
    ASSUME BatteryInv, NEW c, c = queryStat(cache)
    PROVE  /\ CacheInv(c)
           /\ eventsLive =>
                /\ c.actual
                /\ c.stat.charger = bme.charger \/ Pending("CHARGER")
                /\ c.stat.charging = bme.charging \/ Pending("CHARGE")
                /\ c.stat.level = bme.level \/ Pending("BATMON")
<1>1. bme \in Stat /\ up \in BOOLEAN /\ total \in Nat /\ lastRead \in Int /\ cache \in Cache
  BY DEF BatteryInv, TypeOK
<1>2. CacheInv(c) /\ (eventsLive => c.actual /\ (~cache.actual => c.stat = bme))
  BY <1>1, QueryKeepsCache DEF BatteryInv
<1>3. cache.actual => c = cache
  BY <1>1, QueryResult
<1> QED BY <1>2, <1>3 DEF BatteryInv, FreshInv

LEMMA BatteryInit == Init => BatteryInv
<1> SUFFICES ASSUME Init PROVE BatteryInv
  OBVIOUS
<1> DEFINE zero == [bme EXCEPT !.cc = 0]
           c == [stat |-> zero, actual |-> FALSE, conn |-> "closed",
                 reset |-> TRUE, offset |-> 0]
<1>1. /\ bme \in [charger : {"None"}, charging : {FALSE}, level : {0}, cc : 0..1]
      /\ up = TRUE /\ total = 0 /\ lastRead = 0 /\ cache = queryStat(c)
      /\ announced = [charger |-> bme.charger, charging |-> bme.charging,
                      level |-> bme.level]
      /\ savedLevel = bme.level
      /\ events = <<>> /\ eventsLive = TRUE /\ timer = FALSE /\ delayed = FALSE
      /\ skipped = FALSE /\ changes = 0
  BY DEF Init
<1>2. /\ bme.charger \in Chargers /\ bme.charging \in BOOLEAN /\ bme.level \in 0..1
      /\ bme.cc \in Nat
      /\ bme = [charger |-> bme.charger, charging |-> bme.charging,
                level |-> bme.level, cc |-> bme.cc]
  <2>1. /\ bme.charger = "None" /\ bme.charging = FALSE /\ bme.level = 0 /\ bme.cc \in 0..1
        /\ bme = [charger |-> bme.charger, charging |-> bme.charging,
                  level |-> bme.level, cc |-> bme.cc]
    BY <1>1
  <2>2. bme.charger \in Chargers /\ bme.charging \in BOOLEAN
    BY <2>1, Zenon DEF Chargers
  <2>3. bme.level \in 0..1 /\ bme.cc \in Nat
    BY <2>1
  <2> QED BY <2>1, <2>2, <2>3
<1>3. bme \in Stat
  BY <1>2 DEF Stat
<1>4. zero \in Stat /\ zero.cc = 0
  BY <1>3 DEF Stat
<1> HIDE DEF zero
<1>5. c \in Cache /\ c.stat.cc = 0 /\ ~c.actual /\ c.reset /\ c.offset = 0
  BY <1>4 DEF Cache
<1> HIDE DEF c
<1>6. /\ cache \in Cache /\ cache.stat = bme /\ cache.actual /\ cache.conn = "open"
      /\ ~cache.reset /\ cache.offset = 0 - bme.cc
  <2>1. up /\ up \in BOOLEAN
    BY <1>1, Zenon
  <2>2. cache.offset = c.offset + (c.stat.cc - bme.cc) /\ cache \in Cache
        /\ cache.stat = bme /\ cache.actual /\ cache.conn = "open" /\ ~cache.reset
    BY <1>1, <1>3, <1>5, <2>1, QueryResult, Zenon DEF Unnoticed
  <2> QED BY <1>2, <1>5, <2>2
<1>7. CacheInv(cache)
  BY <1>1, <1>2, <1>6 DEF CacheInv, Connected, Counted, Cumulative, Unnoticed
<1>8. /\ announced \in [charger : Chargers, charging : BOOLEAN, level : 0..1]
      /\ announced.charger = bme.charger /\ announced.charging = bme.charging
      /\ announced.level = bme.level
  BY <1>1, <1>2
<1>9. TypeOK
  <2>1. events \in Seq(SUBSET {"CHARGER", "CHARGE", "BATMON"}) /\ changes \in 0..MaxChanges
    BY <1>1, BatteryAssumption
  <2> HIDE DEF Init
  <2>2. total \in Nat /\ lastRead \in Int /\ savedLevel \in 0..1
    BY <1>1, <1>2
  <2>3. /\ up \in BOOLEAN /\ eventsLive \in BOOLEAN /\ timer \in BOOLEAN
        /\ delayed \in BOOLEAN /\ skipped \in BOOLEAN
    BY <1>1, Zenon
  <2> QED BY <1>3, <1>6, <1>8, <2>1, <2>2, <2>3 DEF TypeOK
<1> QED BY <1>1, <1>6, <1>7, <1>8, <1>9 DEF BatteryInv, FreshInv, AnnouncedInv, SavedInv

LEMMA BatteryStep == BatteryInv /\ [Next]_vars => BatteryInv'
<1> SUFFICES ASSUME BatteryInv, [Next]_vars
             PROVE  BatteryInv'
  OBVIOUS
<1> USE DEF BatteryInv
<1>0. /\ bme \in Stat /\ cache \in Cache /\ up \in BOOLEAN /\ eventsLive \in BOOLEAN
      /\ total \in Nat /\ lastRead \in Int
      /\ events \in Seq(SUBSET {"CHARGER", "CHARGE", "BATMON"})
      /\ bme.cc \in Nat /\ cache.stat.cc \in Nat /\ cache.offset \in Int
      /\ cache.reset \in BOOLEAN /\ cache.actual \in BOOLEAN
      /\ cache.conn \in {"closed", "open", "broken"}
  BY DEF TypeOK, Stat, Cache
<1>1. CASE BmeChanges
  <2>1. /\ changes' = changes + 1 /\ changes < MaxChanges
        /\ UNCHANGED <<up, total, eventsLive, cache, savedLevel, timer, delayed,
                       announced, skipped, lastRead>>
    BY <1>1 DEF BmeChanges, CountChange, signalVars
  <2>2. bme' \in Stat /\ bme'.cc = bme.cc
    <3>1. PICK charger \in Chargers, charging \in BOOLEAN, level \in 0..1 :
            bme' = [bme EXCEPT !.charger = charger, !.charging = charging, !.level = level]
      BY <1>1 DEF BmeChanges
    <3> QED BY <1>0, <3>1 DEF Stat
  <2> DEFINE mask == Mask(bme, bme')
  <2>3. /\ mask \in SUBSET {"CHARGER", "CHARGE", "BATMON"}
        /\ bme'.charger # bme.charger => "CHARGER" \in mask
        /\ bme'.charging # bme.charging => "CHARGE" \in mask
        /\ bme'.level # bme.level => "BATMON" \in mask
    BY DEF Mask
  <2>4. IF eventsLive THEN events' = Append(events, mask) ELSE events' = events
    BY <1>1 DEF BmeChanges
  <2> HIDE DEF mask
  <2>5. events' \in Seq(SUBSET {"CHARGER", "CHARGE", "BATMON"})
    <3>1. CASE eventsLive
      <4>1. events' = Append(events, mask)
        BY <2>4, <3>1
      <4> QED BY <1>0, <2>3, <4>1
    <3>2. CASE ~eventsLive
      BY <1>0, <2>4, <3>2
    <3> QED BY <3>1, <3>2
  <2>6. eventsLive => \A what : Pending(what)' <=> Pending(what) \/ what \in mask
    BY <1>0, <2>3, <2>4, PendingAppend
  <2>7. TypeOK'
    BY <2>1, <2>2, <2>5, BatteryAssumption DEF TypeOK
  <2>8. CacheInv(cache)'
    BY <2>1, <2>2 DEF CacheInv, Connected, Counted, Cumulative, Unnoticed
  <2>9. FreshInv'
    BY <2>1, <2>3, <2>6 DEF FreshInv
  <2>10. AnnouncedInv'
    BY <2>1, <2>3, <2>6 DEF AnnouncedInv
  <2> QED BY <2>1, <2>7, <2>8, <2>9, <2>10 DEF SavedInv
<1>2. CASE CurrentFlows
  <2>1. /\ changes' = changes + 1 /\ changes < MaxChanges /\ total' = total + 1
        /\ bme' = [bme EXCEPT !.cc = bme.cc + 1]
        /\ UNCHANGED <<up, events, eventsLive, cache, savedLevel, timer, delayed,
                       announced, skipped, lastRead>>
    BY <1>2 DEF CurrentFlows, CountChange, eventVars, signalVars
  <2>2. /\ bme' \in Stat /\ bme'.cc = bme.cc + 1 /\ bme'.charger = bme.charger
        /\ bme'.charging = bme.charging /\ bme'.level = bme.level
    BY <1>0, <2>1 DEF Stat
  <2>3. TypeOK'
    BY <2>1, <2>2, BatteryAssumption DEF TypeOK
  <2>4. CacheInv(cache)'
    BY <1>0, <2>1, <2>2 DEF CacheInv, Connected, Counted, Cumulative, Unnoticed
  <2> QED BY <2>1, <2>2, <2>3, <2>4 DEF FreshInv, AnnouncedInv, SavedInv, Pending
<1>3. CASE BmeStops
  <2>1. /\ up /\ up' = FALSE /\ eventsLive' = FALSE
        /\ cache' = [cache EXCEPT !.conn = IF cache.conn = "open" THEN "broken" ELSE cache.conn]
        /\ UNCHANGED <<bme, total, changes, events, savedLevel, timer, delayed,
                       announced, skipped, lastRead>>
    BY <1>3 DEF BmeStops, signalVars
  <2>2. /\ cache' \in Cache /\ cache'.stat = cache.stat /\ cache'.reset = cache.reset
        /\ cache'.conn = IF cache.conn = "open" THEN "broken" ELSE cache.conn
        /\ cache'.offset = cache.offset
    BY <1>0, <2>1 DEF Cache
  <2>3. TypeOK'
    BY <2>1, <2>2 DEF TypeOK
  <2>4. CacheInv(cache)'
    BY <1>0, <2>1, <2>2 DEF CacheInv, Connected, Counted, Cumulative, Unnoticed
  <2> QED BY <2>1, <2>3, <2>4 DEF FreshInv, AnnouncedInv, SavedInv
<1>4. CASE BmeStarts
  <2>1. /\ ~up /\ up' = TRUE /\ changes' = changes + 1 /\ changes < MaxChanges
        /\ bme' = [bme EXCEPT !.cc = 0]
        /\ UNCHANGED <<total, events, eventsLive, cache, savedLevel, timer, delayed,
                       announced, skipped, lastRead>>
    BY <1>4 DEF BmeStarts, CountChange, eventVars, signalVars
  <2>2. bme' \in Stat
    BY <1>0, <2>1 DEF Stat
  <2>3. ~eventsLive /\ Unnoticed(cache)
    BY <1>0, <2>1 DEF CacheInv, Connected, Unnoticed
  <2>4. TypeOK'
    BY <2>1, <2>2, BatteryAssumption DEF TypeOK
  <2>5. CacheInv(cache)'
    BY <1>0, <2>1, <2>3 DEF CacheInv, Connected, Counted, Cumulative, Unnoticed
  <2> QED BY <2>1, <2>3, <2>4, <2>5 DEF FreshInv, AnnouncedInv, SavedInv
<1>5. CASE CacheExpires
  <2>1. /\ cache' = [cache EXCEPT !.actual = FALSE]
        /\ UNCHANGED <<bme, up, total, changes, events, eventsLive, savedLevel, timer,
                       delayed, announced, skipped, lastRead>>
    BY <1>5 DEF CacheExpires, bmeVars, eventVars, signalVars
  <2>2. /\ cache' \in Cache /\ ~cache'.actual /\ cache'.stat = cache.stat
        /\ cache'.conn = cache.conn /\ cache'.reset = cache.reset
        /\ cache'.offset = cache.offset
    BY <1>0, <2>1 DEF Cache
  <2>3. TypeOK' /\ CacheInv(cache)'
    BY <2>1, <2>2 DEF TypeOK, CacheInv, Connected, Counted, Cumulative, Unnoticed
  <2> QED BY <2>1, <2>2, <2>3 DEF FreshInv, AnnouncedInv, SavedInv, Pending
<1>6. CASE getCumulativeBatteryCurrent
  <2>1. /\ cache' = queryStat(cache) /\ lastRead' = cache'.stat.cc + cache'.offset
        /\ UNCHANGED <<bme, up, total, changes, events, eventsLive, savedLevel, timer,
                       delayed, announced, skipped>>
    BY <1>6 DEF getCumulativeBatteryCurrent, bmeVars, eventVars, signalVars
  <2>2. /\ CacheInv(cache')
        /\ eventsLive =>
            /\ cache'.stat.charger = bme.charger \/ Pending("CHARGER")
            /\ cache'.stat.charging = bme.charging \/ Pending("CHARGE")
            /\ cache'.stat.level = bme.level \/ Pending("BATMON")
    BY <2>1, QueryStep
  <2>3. cache'.stat.cc \in Nat /\ cache'.offset \in Int /\ cache' \in Cache
    BY <2>2 DEF CacheInv, Cache, Stat
  <2>4. TypeOK'
    BY <2>1, <2>3 DEF TypeOK
  <2>5. CacheInv(cache)'
    BY <2>1, <2>2, <2>3 DEF CacheInv, Connected, Counted, Cumulative, Unnoticed
  <2> QED BY <2>1, <2>2, <2>4, <2>5 DEF FreshInv, AnnouncedInv, SavedInv, Pending
<1>7. CASE getRemainingTime
  <2>1. /\ cache' = IF cache.conn = "closed" THEN cache ELSE Reconnected(cache)
        /\ UNCHANGED <<bme, up, total, changes, events, eventsLive, savedLevel, timer,
                       delayed, announced, skipped, lastRead>>
    BY <1>7 DEF getRemainingTime, bmeVars, eventVars, signalVars
  <2>2. /\ cache' \in Cache /\ cache'.stat = cache.stat /\ cache'.actual = cache.actual
        /\ cache'.offset = cache.offset
        /\ cache.conn # "closed" => /\ cache'.conn = IF up THEN "open" ELSE "closed"
                                    /\ cache'.reset = Unnoticed(cache)
        /\ cache.conn = "closed" => cache' = cache
    BY <1>0, <2>1 DEF Reconnected, Unnoticed, Cache
  <2>3. CacheInv(cache)'
    <3>1. CASE cache.conn = "closed"
      BY <2>1, <2>2, <3>1 DEF CacheInv, Connected, Counted, Cumulative, Unnoticed
    <3>2. CASE cache.conn # "closed"
      BY <1>0, <2>1, <2>2, <3>2 DEF CacheInv, Connected, Counted, Cumulative, Unnoticed
    <3> QED BY <3>1, <3>2
  <2>4. TypeOK'
    BY <2>1, <2>2 DEF TypeOK
  <2> QED BY <2>1, <2>2, <2>3, <2>4 DEF FreshInv, AnnouncedInv, SavedInv, Pending
<1>8. CASE onEmEvent
  <2> DEFINE t == Handled(Head(events))
  <2>1. /\ events # <<>> /\ events' = Tail(events)
        /\ cache' = t.cache /\ savedLevel' = t.savedLevel
        /\ timer' = t.timer /\ delayed' = t.delayed
        /\ announced' = t.announced /\ skipped' = t.skipped
        /\ UNCHANGED <<bme, up, total, changes, eventsLive, lastRead>>
    BY <1>8 DEF onEmEvent, bmeVars
  <2>2. TypeOK /\ CacheInv(cache) /\ SavedInv
    OBVIOUS
  <2>3. /\ HandlerInv(t)
        /\ eventsLive =>
            /\ announced.charger = bme.charger \/ timer \/ "CHARGER" \in Head(events)
                => ChargerKnown(t)
            /\ announced.charging = bme.charging \/ (timer /\ delayed)
                    \/ "CHARGE" \in Head(events)
                => ChargingKnown(t)
            /\ announced.level = bme.level \/ skipped \/ "BATMON" \in Head(events)
                => LevelKnown(t)
    BY <2>2, HandledKnown
  <2> HIDE DEF t
  <2>4. \A what : Pending(what) => Pending(what)' \/ what \in Head(events)
    BY <1>0, <2>1, PendingTail
  <2>5. t \in Handler /\ CacheInv(t.cache)
    BY <2>3 DEF HandlerInv
  <2>6. TypeOK'
    <3>1. events' \in Seq(SUBSET {"CHARGER", "CHARGE", "BATMON"})
      BY <1>0, <2>1
    <3> QED BY <2>1, <2>5, <3>1 DEF TypeOK, Handler
  <2>7. CacheInv(cache)'
    BY <2>1, <2>5 DEF CacheInv, Connected, Counted, Cumulative, Unnoticed
  <2>8. FreshInv'
    BY <2>1, <2>3 DEF FreshInv, HandlerInv
  <2>9. AnnouncedInv'
    BY <2>1, <2>3, <2>4 DEF AnnouncedInv, ChargerKnown, ChargingKnown, LevelKnown
  <2> QED BY <2>1, <2>3, <2>6, <2>7, <2>8, <2>9 DEF SavedInv, HandlerInv
<1>9. CASE waitForUSB500mA
  <2> DEFINE c == queryStat(cache)
  <2>1. /\ timer' = FALSE /\ cache' = c
        /\ announced' = [announced EXCEPT !.charger = c.stat.charger,
                                          !.charging = c.stat.charging]
        /\ UNCHANGED <<bme, up, total, changes, events, eventsLive, savedLevel, delayed,
                       skipped, lastRead>>
    BY <1>9 DEF waitForUSB500mA, bmeVars, eventVars
  <2>2. /\ CacheInv(c)
        /\ eventsLive =>
            /\ c.stat.charger = bme.charger \/ Pending("CHARGER")
            /\ c.stat.charging = bme.charging \/ Pending("CHARGE")
            /\ c.stat.level = bme.level \/ Pending("BATMON")
    BY QueryStep
  <2> HIDE DEF c
  <2>3. c \in Cache /\ c.stat \in Stat
    BY <2>2 DEF CacheInv, Cache
  <2>4. /\ announced' \in [charger : Chargers, charging : BOOLEAN, level : 0..1]
        /\ announced'.charger = c.stat.charger /\ announced'.charging = c.stat.charging
        /\ announced'.level = announced.level
    BY <2>1, <2>3 DEF TypeOK, Stat
  <2>5. TypeOK'
    BY <2>1, <2>3, <2>4 DEF TypeOK
  <2>6. CacheInv(cache)'
    BY <2>1, <2>2 DEF CacheInv, Connected, Counted, Cumulative, Unnoticed
  <2> QED BY <2>1, <2>2, <2>4, <2>5, <2>6 DEF FreshInv, AnnouncedInv, SavedInv, Pending
<1>10. CASE UNCHANGED vars
  BY <1>10 DEF vars, bmeVars, eventVars, signalVars, TypeOK, CacheInv, Connected, Counted,
     Cumulative, Unnoticed, FreshInv, AnnouncedInv, SavedInv, Pending
<1> QED BY <1>1, <1>2, <1>3, <1>4, <1>5, <1>6, <1>7, <1>8, <1>9, <1>10 DEF Next

LEMMA BatteryInvariant == Spec => []BatteryInv
BY BatteryInit, BatteryStep, PTL DEF Spec

\* The types of everything the object and BME keep, for any bounds.
THEOREM TypeCorrect == Spec => []TypeOK
<1>1. BatteryInv => TypeOK
  BY DEF BatteryInv
<1> QED BY <1>1, BatteryInvariant, PTL

\* The application knows the charger and the charging state when all events are
\* read and the timer does not run (onEmEvent, waitForUSB500mA).
THEOREM ChargerIsKnown == Spec => []ChargerSettled
<1>1. BatteryInv => ChargerSettled
  BY DEF BatteryInv, AnnouncedInv, ChargerSettled, Settled, Pending
<1> QED BY <1>1, BatteryInvariant, PTL

\* The application knows the level when all events are read, unless the event of
\* the level was dropped (onEmEvent).
THEOREM LevelIsKnown == Spec => []LevelSettled
<1>1. BatteryInv => LevelSettled
  BY DEF BatteryInv, AnnouncedInv, LevelSettled, Pending
<1> QED BY <1>1, BatteryInvariant, PTL

\* The cumulative current never falls while the battery discharges, tells of no
\* more than has flowed, and is exact until BME restarts, however often it does
\* and whichever call notices it (queryStat_, getCumulativeBatteryCurrent).
THEOREM CounterIsHonest == Spec => CounterHonest
<1>1. BatteryInv /\ [Next]_vars =>
        [ /\ lastRead' >= lastRead
          /\ lastRead' <= total
          /\ eventsLive /\ cache'.actual /\ ~cache.actual => lastRead' = total ]_lastRead
  <2> SUFFICES ASSUME BatteryInv, [Next]_vars, lastRead' # lastRead
               PROVE  /\ lastRead' >= lastRead
                      /\ lastRead' <= total
                      /\ eventsLive /\ cache'.actual /\ ~cache.actual => lastRead' = total
    OBVIOUS
  <2>1. getCumulativeBatteryCurrent
    BY DEF Next, vars, BmeChanges, CurrentFlows, BmeStops, BmeStarts, CacheExpires,
       getRemainingTime, onEmEvent, waitForUSB500mA
  <2>2. cache' = queryStat(cache) /\ lastRead' = Cumulative(cache')
    BY <2>1 DEF getCumulativeBatteryCurrent, Cumulative
  <2>3. /\ bme \in Stat /\ up \in BOOLEAN /\ total \in Nat /\ lastRead \in Int
        /\ CacheInv(cache)
    BY DEF BatteryInv, TypeOK
  <2>4. /\ CacheInv(cache')
        /\ eventsLive /\ ~cache.actual => cache'.stat = bme
    BY <2>2, <2>3, QueryKeepsCache
  <2> QED BY <2>2, <2>4 DEF CacheInv, Counted, Cumulative
<1> QED BY <1>1, BatteryInvariant, PTL DEF Spec, CounterHonest
==============================================================================
