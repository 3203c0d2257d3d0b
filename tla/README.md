# qmsystem: a verification project

qmsystem is the Qt library through which Nemo/MeeGo applications reach device
services (`src/system`), together with `qmkeyd`, a small daemon that reads the
input devices and tells the library about hardware keys (`src/keyd`).  This
directory holds TLA+ models of that code, the TLC runs that check them, and
proofs checked by TLAPS.

Run a model with `tlc -config X.cfg M`, a proof with `tlapm M.tla`.

## 1. The system

### 1.1 Components

| component | state | operations | talks to | modelled in |
|---|---|---|---|---|
| `KeyTranslator` (keyd) | state machine of a long-press key, timer | `handleEvent`, `longPressTimeout` | called by `QmKeyd`, emits events to it | `KeyTranslation`, `KeyTranslator`, `KeyPress` |
| `QmKeyd` (keyd) | client sockets, user count, device descriptors, notifiers, translators | `newConnection`, `disconnected`, `clientSocketReadyRead`, `handleKeyEvent`, `openHandles`, `closeHandles` | kernel input devices, `QmKeys` over a local socket | `QmKeyd` |
| headset detection (keyd) | inotify queue, name and descriptor of the headset | `detectBT`, `isHeadset`, `closeBT`, `removeInotifyWatch` | kernel | `BtDetect` |
| `QmKeys` | `keyMap` (last state of each key), socket | `readyRead`, `getKeyState`, `getKeyValue`, deprecated accessors | `qmkeyd` | `KeyCache`, `QmKeys`, `KeySystem` |
| `QmSensor` and eight sensor classes | session type, channel pointer, running flag, connections, loaded plugin | `requestSession`, `start`, `stop`, `closeSession`, destructor; slots and getters of readings, settings | sensord | `QmSensor`, `SensorReadings` |
| `QmBattery` | cached statistics and their timer, saved statistics, coulomb offset, charger delay timer; the object of the current measurement | getters, `queryStat_`, `onEmEvent`, `waitForUSB500mA`; `startCurrentMeasurement`, `stopCurrentMeasurement`, `onMeasurement` | BME | `QmBattery`, `CurrentMeasurement` |
| D-Bus signal relays of eight classes | one counter per bus signal, under a mutex | `connectNotify`, `disconnectNotify` | Qt (from any thread), D-Bus | `RelayTables`, `SignalRelay` |
| `QmTime` | one shared object per process: users, cached settings of timed, whether the signal is connected | constructor, destructor, setters that read back, getters, signal | timed | `QmTime` |
| `QmTime`, times of other zones | the variable `TZ` of the process, a mutex | `localTime`, `remoteTime`, `getTimeDiff`, each through a `TzWrapper` | every thread of the process | `TimeZone` |
| `QmDisplayState`, `QmDeviceMode`, `QmLocks`, `QmCallState`, `QmCABC`, `QmActivity` | none | queries, requests, slots | MCE | `MceServices`, `ServiceRequests` |
| `QmUSBMode`, `QmThermal`, `QmLocks` (device lock), `QmSystemState` | none | queries, requests, slots | usb_moded, thermal manager, device lock, DSME | `OtherServices`, `ServiceRequests` |
| `QmIPCInterface` | a bus connection | a call with or without waiting for the reply | D-Bus | `ServiceRequests` |
| `QmHeartbeat` | handle, notifier, connections of the private signal | `open`, `wait`, `IWokeUp`, `close`, `socketReady` | iphbd | `QmHeartbeat` |
| `QmWatchdog` | connection to DSME, notifier | `start`, `stop`, `pong`, `readable` | DSME | `QmWatchdog` |
| `QmLED`, `QmSystemInformation` | none | pass a value on | bus services, files | not modelled |

### 1.2 How they interact

* An application holds `QmKeys` objects.  Each connects to `qmkeyd` by a local
  socket when it is constructed.  The daemon opens the devices for its first
  client, closes them after its last, and broadcasts every key event to every
  client.  `getKeyValue` opens a second, short-lived connection, writes one
  event to it as a query and waits at most a second for the reply; since that
  connection is a client like any other, broadcasts reach it too.
* The daemon is one thread; its handlers run to completion, one at a time, in
  any order the kernel and the sockets make ready.
* The library classes run in the thread of the application.  `connectNotify`
  and `disconnectNotify` run in whichever thread connects a signal, **after**
  Qt has made or removed the connection and without a lock that spans both.
* All calls of one application to a service go over one bus connection, in
  order.  A blocking call returns as soon as its reply is there; signals that
  came before it wait for the event loop.
* sensord, BME, timed and the bus services restart on their own schedule.

### 1.3 Where it is hard

* *Keys.* One event may wait for the next one or for a timer; the device may be
  closed in between.  A broadcast and a reply share a connection, and look
  the same if they are about the same key.  A cache follows events, and the first event it sees may be the second half of a press.
* *Headset.* Every inotify event is old when it is handled; names are reused.
* *Sensors.* Three records of one fact (the flag, the connections of the
  channel, what sensord measures) under calls in any order; sensord may refuse.
* *Battery.* A timer delays one event and holds others back, and what is
  announced depends on a saved copy of a cache any getter may refresh.  BME
  restarts its coulomb counter.
* *Relays.* Counting by notifications that may overtake one another.
* *Clock settings.* A setting is written in one call and read back in another,
  the first reading follows the subscription, and timed changes in between; the
  signal of the change then comes after the reply that already shows it.
* *Zones.* `TZ` belongs to the process, the question to a thread; setting it may
  fail, and so may putting it back.
* *Requests.* One setter sends two messages after a query, two getters ask
  twice, and another application does the same; each call may fail by itself.
* *Heartbeat, watchdog, current.* The other side holds a registration of its
  own: it must end when the object's does, on every path of `open`, `close`,
  `start` and `stop`, failed ones included.
* *Readings.* Signal and getter each convert what the daemon measured, or do not;
  angles meet at the half turn.

The full list, with a line of code each, is under `hazards` in `PROJECT.json`.

### 1.4 What makes each component correct

* Translator: told keys form complete presses; a long release is never told
  without its press; a press is resolved in the end; a timer never runs for
  nothing.
* Daemon: the user count is the number of clients, handles are open exactly
  while there are any, every query is read unless a device never pauses.
* Headset: when the events are read, the headset in use is alive, and is the
  one created last.
* Key cache: it says what the key does, or did when it was last heard of.  What
  `getKeyState` says after a query should be a state the key had during the call;
  for a key of one device it is that, or one of an event the daemon had still to
  read (section 4).
* Sensors: readings arrive once while running and not otherwise; nothing
  measures, and no session is held, for an object that does not know of it.
* Battery: the application ends up knowing charger, charging state and level;
  the cumulative current never jumps back at a restart of BME.
* Relays: a connected signal is subscribed on the bus, an unconnected one is not.
* Clock settings: a setter that returned true is visible to the getters, and
  when the signals are in, the getters say what timed has.
* Zones: a time is computed in the zone its caller asked for.  `TZ` is back to what
  it was when nobody computes, and a time for no zone in particular is the
  application's, until putting `TZ` back has failed once.
* Requests: what was asked for last reads back, if the query before it succeeded
  and the service heeds it; a reader that asks once and then
  follows the signals ends up with the state of the service; power saving is
  enabled with no threshold but one that was asked for.
* Heartbeat: none is signalled between waking up and the next wait.  Watchdog: a
  watched process can answer.  Current: BME measures only while it was asked to,
  unless a start failed halfway or a stop did not reach it.
* Readings: one measurement is one reading, by signal or getter (not so for compass
  and rotation, section 4); angles stay in their circles.

## 2. The modules

**`InputEvents`** – key codes, the library's keys, and the conversions
`codeToKey`, `keyToEvent`, `isKeySupported` as functions on small sets of names.

**`KeyTranslation`** – the handlers of `KeyTranslator` as operators from a
translator to the next one and the events it emits.  **`KeyTranslator`** runs
one translator against a key that is pressed, repeated and released, where
events may be missed while the daemon has the device closed.  `sent` is the
history of emitted events.  **`KeyPress`** is the abstract specification: a
stream of short presses (down and up together) and long presses (down, later
up), without timer or pending state; the translator implements it with
`longHeld` mapped to the state `LONG_PRESS_DETECTED`.

**`BtDetect`** – the kernel creates and deletes nodes, each producing an inotify
event; `detectBT` handles one event per step against the nodes as they are
*then*.  `gen` numbers the devices behind one name: the code sees the name only,
the properties see the device.

**`QmKeyd`** – the whole daemon: sockets as queues in both directions, the user
count, descriptors with unread kernel events, translators with their timers,
the headset (it EXTENDS `BtDetect`), restarts.  One action per slot.  `peer` is
the client's view of its connection and `pending` the connections the daemon has
not accepted yet.  `busy` is the device whose read loop is running: until the loop
finds nothing more no other handler runs.  `KeyBits` is the bitmap `isKeyPressed`
looks at: that of the keys also for the number of a switch, and uninitialised for
a device that has gone.  The translators are the ones of `KeyTranslation`.

**`KeyCache`** – `readyRead` event by event as an operator from cache to cache,
with `getKeyState` and the deprecated accessors as functions of the cache.
**`QmKeys`** runs it against key contacts that close and open in any order and
may be closed already when the object is created.

**`KeySystem`** – listeners and query connections on top of `QmKeyd`: a
`QmKeys` object reads broadcasts into its `KeyCache`; `Ask`, `WriteQuery`,
`ReadResponse` and `GiveUp` are the steps of `getKeyValue` between which the
daemon runs; `Says` is what `getKeyState` makes of its value.  Two histories
accompany a call: `seen`, the positions of the key since it began, and `unread`,
those in events the daemon had still to read then.  Every step of it is a step of the daemon or of a client of the
daemon, and `SystemImplementsDaemon` proves that it implements `QmKeyd`.

**`QmSensor`** – any number of objects on one sensor, sensord granting or
refusing sessions, sensord stopping and starting.  `ifc = Garbage` is the
uninitialised pointer of `QmTap`.

**`QmBattery`** – the statistics as three small fields, BME with restarts and a
coulomb counter, the event mask, the four-second delay of the 100 mA charger,
the cached reads and their expiry.  `heard` is what the application was told.

**`RelayTables`** – for each class which bus signals a Qt signal subscribes to
and unsubscribes from, which counters it raises and which it lowers.
**`SignalRelay`** – one state machine over such a table: threads connect and
disconnect, and their notifications run later, in any order.

**`QmTime`** – any number of objects on one shared private object.  The settings
timed has had form a sequence, `timeline`; what has been signalled (`heard`) and
what is cached (`shared.info`) are positions in it.  The constructor of the first
object is two steps, `get_object` and `Initialised`, and so is a setter,
`wall_clock_settings_sync` and `Synchronised`: timed moves on between them.

**`TimeZone`** – threads inside and outside a `TzWrapper`; `result` remembers
what `TZ` was at each `localtime_r`.  Constructor and destructor may each fail to
change `TZ`; `spoilt` remembers that a destructor has.

**`QmHeartbeat`**, **`QmWatchdog`**, **`CurrentMeasurement`** – one object each
and the service it registers with.  Handles and connections are numbered, so an
object that is opened twice without being closed loses its first handle here as
it does in the code.  Each call to the service may fail.  In `CurrentMeasurement` a query that fails may
have reached BME all the same; `abandoned` remembers that BME measures for nobody.

**`MceServices`**, **`OtherServices`** – for each class what a getter makes of a
reply, what its slot makes of a signal and which messages a setter sends, as
operators; strings of the services are names, an unknown one is `"other"`.  What a
service does with a message is external: MCE changes calls only from and to none
(`src/tests/callstate/callstate.cpp:86`), and forcing power saving writes a setting
which the state that getter and signal report may follow or not.
**`ServiceRequests`** – one state machine over those tables: applications with
messages under way, the service, and a reader that follows its state.  A message
carries its request and whether the query before it succeeded; `Heeded` says of a
message whether the service makes its state what it says.

**`SensorReadings`** – one object of each sensor class: loading the plugin,
sessions, what `setupSignals` checks, the slots, the getters and the settings.  The
slots convert as the code does, and so do the getters, which for compass and
rotation is not at all.

**`LibraryMC`** puts the parts that share no state into one state space: in a
behaviour one part moves and the others rest in one of their initial states.
**`KeydPartsMC`** does so with the translator and the headset detection.

Names of operators are names of functions of the source wherever possible;
operators named `F_Something` next to `F` are mutated forms kept to show that a
property notices the mistake, and are used by no specification.

## 3. The runs

| run | what it checks | bounds and why they are enough |
|---|---|---|
| `keyd_parts` | translator: pairing of presses, long releases, timer, resolution of every press, refinement of `KeyPress`; headset: the one in use is alive and the latest, liveness of the detection | six emitted events: three short presses or three long ones, every pair of successive presses included; a state depends on one press. Two names, two devices per name, four unread events: a name reused while its first events are unread, and two headsets competing |
| `keyd_handles` | user count and handles | two clients (symmetric), one accessory that can be unplugged, two events buffered each way |
| `keyd_headset` | handles returned, queries read, under fairness, with the headset detection running inside the daemon | two clients, one name with two devices, two unread events of a device (so that its read loop can go on and hold the daemon), one event on its way to a client |
| `system` | caches follow keys; the answer of a query was true during the call or in an event unread then | one listener that may stay connected throughout, one query connection, one key with auto-repeat; buffers of two: a broadcast in front of the reply |
| `system_other_events` | *violation*: the answer of a query belongs to its key | two keys |
| `system_stuck_key` | *violation*: a key cached as down is held | the accessory's translated keys |
| `system_slider` | *violation*: an answer is a state the key had during the call | the slider only |
| `battery` | what the application hears, coulomb counter | three changes of BME, two unread events |
| `relay` | subscriptions against connections | two threads, two receivers, three connections; all eight classes, a counter at most four |
| `library` | eighteen invariants of the parts of `LibraryMC` | see below |
| `compass_reading` | *violation*: one measurement, one reading | one measurement |
| `heartbeat_twice` | *violation*: one heartbeat, one signal | three handles; open, close, open is enough |

The `library` run is the sum of its parts, not their product, so each part has
room: six key codes, one of each kind the code treats apart and the two that
share a key; two `QmTime` objects, two zones and four settings, so that one change
falls into the constructor, one between a setter and its reading back, and one
behind it; two threads that each compute one or two zones; three handles and
three connections, which a lost one needs two of; three measurements of each
sensor, at angles on both sides of every boundary of the conversions; two objects on
one sensor, one of them a `QmTap`, since the control session is the only resource they
compete for; eighteen
query-and-request interfaces of ten classes with two applications, one change
the service makes of its own, and one request, or two where a setter sends a pair
of messages that the other application's pair may split.

The bounds are guards, by preference of environment actions (a key pressed, a
node created, a connection made, a setting changed).  Two bind the code:
`MaxOutbox` holds a broadcast, and a further query of a client, back until that
client has read (never a reply), and `MaxCount`
ends the growth of the counter that is only raised; the counts of handles,
connections and requests end calls of the application.  Runs with such bounds
may stop and do not check deadlock.  `battery` and `heartbeat_twice` do not stop and
check it.

**Fairness.**  It is given to what an event loop does: a timer that is active
expires, a descriptor or socket that is readable is read, a lost connection is
noticed.  Weak fairness says that for a single component.  In `QmKeyd` the handlers
take turns, and a handler that is ready is disabled while the read loop of a device
runs; there the handlers for a client and `handleKeyEvent` have strong fairness,
since every round of Qt's event loop serves every descriptor that is ready.  A
client that is alive reads its socket (weak fairness of `ReadSocket`).  Nothing is
assumed of the environment: keys, kernel, clients and services may stop at any time.
The read loop itself (`qmkeyd.cpp:417`) has no bound: a device that always has the
next event ready keeps the daemon from all of its clients.  `QueriesRead` and
`HandlesReleased` therefore have the premise `LoopsEnd`, that the daemon leaves its
read loops again and again; without it they fail.  A `SafeSpec` is the same
specification without fairness, for runs that check only safety.

## 4. What the runs found

* `system_other_events`: `getKeyValue` (`qmkeys.cpp:180-198`) reads events until
  none is left and returns the value of the last one, even if it belongs to
  another key and the reply has not come.  A broadcast that is quicker than the
  reply is taken for the answer.
* `system_stuck_key`: when the last client leaves under a held accessory key
  (`qmkeyd.cpp:315`), the devices are closed and the long-press timer runs on.
  A client that connects before it expires is sent the long press, and no
  release if the key was released in between.
* `heartbeat_twice`: `QmHeartbeat::open` connects the private `wakeUp` to the
  public one (`qmheartbeat.cpp:142`) on every success and `close` disconnects
  nothing, so an object that was closed and opened again signals each heartbeat
  twice.
* `system_slider`: `isKeyPressed` (`qmkeyd.cpp:361-368`) is given a number without
  its type and looks among the keys.  The number of the slider's switch is that of
  `KEY_9` there, so the query for `KeyboardSlider` never reads the switch.
* `compass_reading`: the signal of `QmCompass` turns the axes of sensord into those of
  the library (`qmcompass_p.h:119`), its getter does not (`qmcompass.cpp:58`), though a
  reading has one documented meaning.  So it is with `QmRotation`
  (`qmrotation_p.h:114-134`, `qmrotation.cpp:55`).

The property of `system_slider`, `AnswersAreOfTheCall`, fails for three more reasons,
on other instances of `KeySystemMC`:

* an event of the very key that is asked for cannot be told from the reply
  (`qmkeys.cpp:190`).  If it happened before the call and the daemon reads it after it
  has accepted the connection, an old state is returned (`OneKey` with a listener; a
  `QmKeys` object is one itself, so this is the normal case);
* an auto-repeat is such an event too, and `getKeyState` (`qmkeys.cpp:157-161`) makes
  `KeyInvalid` of it while the key is held (`OneKey`);
* the bitmap of a device that was unplugged under an open descriptor is uninitialised
  memory but for its first byte (`qmkeyd.cpp:364`).

`AnswersAreCurrent` is what remains true beside them.

Other deviations are in the models as they are in the code, and the properties
are restricted accordingly, with the reason in the comment of the property:
`qmusbmode.cpp:181` raises a counter where it should lower it;
`qmlocks.cpp:114` unsubscribes on the wrong bus; a blanket disconnect
notifies no counter at all; the running flag of a sensor survives a restart of
sensord; BME's event connection is not reopened; `QMap::value` makes the repeat
of a volume key held since before the object existed announce a release;
a start whose queue fails to open after BME has begun (`qmbattery.cpp:320`), or a
stop that BME does not get (`qmbattery.cpp:336`), leaves BME measuring although
`stopCurrentMeasurement` returns true; if the query of the possible thresholds fails
(`qmdevicemode.cpp:296`), `setPSMBatteryMode` enables power saving at whatever
threshold there is and returns true; `setPSMState` writes a setting
(`qmdevicemode.cpp:253`) while getter and signal report a state;
`stopCurrentMeasurement` without a start follows a null
pointer; a sensor plugin that fails to load is never tried again; `TZ` stays changed
if putting it back fails (`qmtime.cpp:88`), and no later call repairs it; an
asynchronous lock query that fails is answered by nothing; an empty `TZ` comes
back as an unset one.

Some documents and the code disagree without a behaviour that a run could show:
`qmtime.h:147` names another default policy than the constructor sets, and
`qmtime.h:100` another than `qmtime.h:134`; the setters of both policies and
`synchronize` are declared and defined nowhere; `qmlocks.h:112` says that
`getStateAsync` returns the state, which only its signal carries; the rotation
around the y and z axes reaches -180, below the range of `qmrotation.h:60-61`.

## 5. The proofs

Constants are arbitrary: any two different keys, any bound on the events, any
set of clients.

**`KeyTranslatorProofs`.**  `TypeCorrect`, `TimerWaits`, `LongReleases`,
`CompletePresses` and `Refinement`.  The inductive invariant adds to the checked
ones how the *end* of the history depends on the state (`Announced`,
`PairedAt`): in `LONG_PRESS_DETECTED` the last event told is the long press,
otherwise nothing is left open.  Without it the pairing of the next event cannot
be shown.  `Refinement` shows that the initial state maps to the initial state
of `KeyPress` and that every step, with and without missed events, is one of its
steps or leaves its variables alone.  Assumed are `KeysDiffer` (two different
supported codes) and `MaxSentOK`.

**`QmSensorProofs`.**  The four safety properties of the sessions and their type
invariant.  The invariant `InStep` relates, for one object, the pointer, the
session type, the flag, the connections and what sensord holds; every action
changes one object, so the proof of a step looks at that object and at any
other.  The only
assumption is `SensorAssumption`: the objects with an uninitialised pointer are
some of the objects.

**`BtDetectProofs`.**  `TypeCorrect`, `HeadsetAlive`, `HeadsetLatest`.  What is
checked speaks of an empty queue only; the invariant says what a queue that is
not empty still promises: the device in use is alive or its deletion is in the
queue (`DeletionPending`), and the latest headset is in use or its creation is
in the queue with nothing behind it that could undo it (`LatestPending`).  The
second part does not survive a restart of the daemon, which starts with an empty
queue; it is kept apart for that reason.  Assumed: `BtAssumption`.

**`QmKeydProofs`.**  `UsersAreCounted`, `HandlesGivenBack` and
`HeadsetAliveInDaemon`, of the daemon as a whole with restarts.  The count needs
that an accepted or pending socket still has its client, or one that has just
gone (`Counted`): otherwise one identity could be accepted twice.  The headset
part reuses the step lemma of `BtDetectProofs` and adds the restart.  Assumed:
`KeydAssumption`, which asks for finitely many clients.

The second half of the module is about the key system.  `SystemImplementsDaemon`
(`SysSpec => SafeSpec`) carries the three theorems above over to it.
`SolitaryKeysFollowed` says of one key what `CachesFollow` says of all.  The
invariant (`Agrees`) looks at three places in a row: the unread events of the
device, the unread broadcasts of the listener, its cache.  The last place that
has an event of the key says where the key is; only if none has may the cache be
asked.  What is needed of the key is named `Solitary`: it is on one device that
stays plugged in, no other code stands for it, and no translator takes or emits
it.  None of these can be dropped.  A shared key is the hazard at
`qmkeys.cpp:69`; an accessory that is unplugged, or a translator that outlives its
client, leaves a cache behind as the run `system_stuck_key` shows.
`AnswersCurrent` is about `getKeyValue`, whatever clients are connected, come and
go.  Whatever is on its way to the query connection, or still unread in a device,
shows a position that the key has had since the call began or that was in an unread
event when it began (`Watching`, `Window`); nothing older can reach the answer,
because the device is open before the query is read.  It assumes `Steady`, that no
device can be unplugged and no headset come, without which the
answer may come from uninitialised memory, and speaks of `Plain` codes, which one device has and no translator emits,
without the slider (`system_slider`).  `answers[q].matched` leaves out the answers
for another key of `system_other_events`.  The window is wider than the call and an
auto-repeat says nothing of the key, as section 4 explains.

**`KeyCacheProofs`.**  Lemmas on `KeyCache`: which key an event is about and what
the cache holds after it.  `QmKeydProofs` and `LibraryProofs` use them.

**`QmBatteryProofs`.**  `TypeCorrect`, `ChargerIsKnown`, `LevelIsKnown` and
`CounterIsHonest`.  What the run checks of the announcements is not inductive
alone: `AnnouncedInv` says that what has not been announced is told by an unread
event or held back by the timer (or dropped, in the case of the level), and
`FreshInv` the same of what is cached, since a handler announces the cache.
`CounterIsHonest` is an action property; its invariant (`Counted`) puts the cached
counter between what was returned last and what has flowed, and also what would be
cached if BME were asked now.  `Connected` says why a restart is always noticed
first: once the connection is lost, the flag `reset` is set before a new counter
is read.  Assumed: `BatteryAssumption` (the bounds are naturals).

**`SignalRelayProofs`.**  `SubscriptionsFollowCounters`,
`ConnectedIsDelivered` and `RemovedIsReleased`, for any finite sets of threads and
receivers and any well-formed tables.  `Balance` says that a counter lags behind
the connections by the pending notifications and is never lower than that; it is
an inequality because a call that removes several connections at once notifies
only once.  As long as no call has done so it is an equation between numbers of
single connections (`Exact`), which gives the release.  Assumed: `RelayAssumption`, which TLC evaluates for the eight tables.

**`LibraryProofs`.**  `WritesAreRead` and `SettingsAreCurrent` about `QmTime`,
`QuietAfterWakeUp` about `QmHeartbeat`, `WatchedProcessAnswers` about
`QmWatchdog`, `MeasuresAsAsked` about the current measurement, each for the part
by itself and without its bounds.  For the clock the checked properties are not
inductive: `TimeInv` adds that what is cached is at least as new as what has been
heard, which is what subscribing before reading gives, and its types.  For the
heartbeat `HeartInv` adds that a quiet object has no enabled notifier at all, not
only the one of its present handle.  The other two are inductive as they stand;
`MeasuresAsAsked` excepts by name what the code leaves measuring
(section 4).
Assumed: `TimeAssumption` (there is a zone, and the empty string is none).

`ZonesAreTheCallers` is about `TimeZone`: at most one thread is inside, and what
it has saved is the application's own `TZ`, or unset where that is empty
(`ZoneInv`), so this is what it puts back, if it can.  Once that has failed
(`spoilt`) home may be anything, but a named zone is still set by the call itself,
so the first half of the property survives every failure.  `CameraCacheIsRight`,
`NoKeyIsInvented` and `SignalsAgree` are about `QmKeys`.  `Focused` adds what the
object remembers of the camera key: its focus flag is set only while that contact
is closed, and for a key whose stages come in order exactly then.  Assumed: `QmKeysAssumption` (the contacts
are among the codes the daemon passes on).

`WhatIsSetIsRead`, `ViewsAreCurrent` and `ThresholdIsAskedFor` are about
`ServiceRequests`, for any number of applications and requests.  The first has
the premise that the query before the messages succeeded and that the service heeds
them: forced power saving, whose setting and state are two things, is not claimed,
and a call only from or to none.  It rests
on one lemma for each class (`Sets`): a setter sends nothing or one message, and
whatever state the service is in, that message takes it to one the getter converts
back.  The two messages of a threshold are treated apart; that their search of the
list ends in the list, sorted or not, needs the least natural of a set
(`LeastNatural`).  For the second, `Following` says that the newest state on its
way is the one of the service, and if there is none the view is.  For the third,
`Prudent` says of each queue that a message that enables power saving has one
before it that sets a threshold, or finds one that was asked for; it survives
whatever is added behind and taken in front, in any order of the queues.  Assumed:
`MceAssumption` (the list of thresholds is not empty and in percent, timeouts and
brightness are naturals) and `ServiceAssumption` (the reader is an application,
the classes are those modelled).

`SignalsAgreeWithGetters` and `AnglesStayInCircle` are about `SensorReadings`.  The
first says that signal and getter give equal readings in the four classes in which
both convert or both copy; it needs an invariant that what was measured last is the
last signal on its way or the one that was told.  The second is the arithmetic of
the slots of compass and rotation for every angle.  Assumed: `ReadingAssumption`
(each sensor can measure something; degrees are within a circle).

The theorems `TypeCorrect` state the types of the variables, which the other
proofs use and no run repeats.

**Only model-checked.**  Liveness (`PressResolved`, `HeadsetFound`,
`HandlesReleased`, `QueriesRead`, `ChargerHeard`) and what `WF` and `ENABLED` are needed for is
beyond the prover.  Every safety property of a run is a theorem; those of the key
system under the hypotheses named above, and outside of these the runs with a
violation show that they fail.

## 6. Not modelled

Logging, wording and D-Bus marshalling; the conversions of single statistics of
the battery; `failStart` and the start-up errors that end the daemon; passing an
interval or standby override through to sensord; the stub of the battery class;
vendored build support and the tests.  `QmLED` and `QmSystemInformation` keep
nothing and pass one value on.  Of classes that are modelled otherwise these are
left out: `getRunState`, `getBootReason` and `getPowerOnTimeInSeconds` of
`QmSystemState`, which translate a file, an entry of the system information and
the reply to a call; `mountStatus` of `QmUSBMode`, which asks the file system;
the pause of blanking, a message that no getter of the library reflects.

`QmTime` is modelled for objects used from one thread: its private object takes
no lock, and nothing in its documents promises more.  Its policies have no setter
and stay what the constructor makes them.  `Elsewhere`, `Move`, `Ping` and
`BmeRestarts` are the freedom of services whose code is not here; they do what the
library's use of them allows.

## 7. Plan

Order of the work; all but the last step are done.

1. `KeyTranslation`, `KeyTranslator`, `KeyPress` and their proofs.
2. `BtDetect`, `QmKeyd` and their proofs.
3. `KeyCache`, `QmKeys`, `KeySystem` (composes `QmKeyd` and `KeyCache`).
4. `QmSensor` and its proofs.
5. `QmBattery`.
6. `RelayTables`, `SignalRelay` and its proofs.
7. `QmTime` and `TimeZone`.
8. `QmHeartbeat`, `QmWatchdog`, `CurrentMeasurement`, and their proofs.
9. `MceServices`, `OtherServices`, `ServiceRequests`.
10. `SensorReadings`; `LibraryMC` runs steps 7 to 10, `QmKeys` and `QmSensor`.
11. `QmBatteryProofs`, `KeyCacheProofs`; the key system, the relays' release, the
    zones, `QmKeys`, the requests and the readings added to the proofs.
12. Still worth writing: that the safety part of `QmKeyd` is type correct for any
    constants and stays so under its clients; an abstract key state that
    `KeySystem` implements, from which `CachesFollowKeys` and `AnswersAreCurrent`
    would both follow; `HeadsetLatest` between two restarts of the daemon;
    `PressResolved` on the way of its safety half, that nothing but the timer or
    a second event can decide a pending press.
