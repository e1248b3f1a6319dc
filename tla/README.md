# Verification of domotica-engine

TLA+ models of the home automation engine in `src/`, the TLC configurations
that check them on small instances, and TLAPS proofs of what holds for every
instance. `PROJECT.json` is the machine-readable side: components, runs,
mutants, the source lines of every definition, hazards, findings, theorems.

    tlc -workers 2 -config <X>.cfg <Module>      # the runs below
    tlapm <Module>Proofs.tla                     # the proofs below

Paths in this file are relative to `src/src/` unless they say otherwise.

## 1. The system

`domotica-engine` is one C process around an event loop (libeu). Rule files
declare devices ("OUTPUT lamp FSR14 0xEEEEEE11") and rules ("IF button PRESS /
AND night SET / DO lamp SET"). Something happens (a telegram on the Eltako bus,
a timer, the minute of a schedule, a command on a socket), a device raises an
event, the engine walks the rule list, and the actions of the rules that match
call the devices' exec callbacks, which may raise events themselves. Everything
runs on the loop's thread but for one: the thread that reads DHT22 sensors.

| Component | State | Operations | Talks to |
|---|---|---|---|
| Rule engine: `engine.c rule.c rule_list.c action.c condition.c event.c` | the rule list; while it runs, the C call stack | `engine_trigger_event`: walk the list, check conditions, execute actions | devices, through `device_set`, `device_check`; re-entered through `device_trigger_event` |
| Device registry: `device.c device_list.c` | device types, devices | register, create, find, set, check, trigger, store, restore | every device type |
| BOOL, FSR14, GPO: `bool.c eltako_fsr14.c gpio.c` | a level | exec, check, parse, store, restore | engine, bus, GPIO files |
| FUD14 dimmer: `eltako_fud14.c` | `dim_value`, `dim_direction` (both `uint8_t`) | SET, UNSET, TOGGLE, DIM | engine, bus |
| TIMER: `timer.c` | the handle of the armed timer | SET, UNSET, timeout | loop, engine |
| FTS14EM push button: `eltako_fts14em.c` | `press_time` | press and release telegrams | engine |
| SCHEDULE: `schedule.c utils_time.c` | entries, condition, one timer for all | each minute: look up, raise, change the condition | loop, engine, rule parser |
| FSB14 blind: `eltako_fsb14.c` | condition, last action, lock, timer handle | UP, DOWN, STOP, toggles, LOCK, UNLOCK, timer | loop, engine, bus |
| Eltako bus: `eltako.c` | send queue, time of the last telegram | send, periodic retry, receive | serial port, Eltako devices |
| Velux: `velux_klf200.c utils_cmd.c` | wish, target, changed, the one device in progress | exec, worker, script's end; all of it lost at a restart | loop, `popen` |
| State store: `store.c` | a JSON file | restore, save, restore at start; save every 300 s | devices |
| Rule parser: `rule_parser.c line_parser.c` | static schedule, rule and flag | a pass for declarations, a pass for rules | devices, rule list, schedules |
| DHT22: `dht22.c dht22_worker.c utils_sched.c utils_gpio.c` | readings, shared by thread and loop | thread: read, compare, publish; loop: raise, log | engine, logs, SQLite |
| Device logs: `device_logs.c` | per sensor and type a ring of 288 entries | add, reply with the last day | remote |
| Remote: `remote.c domctl.c` | two listening sockets, one stream per connection | accept, read a line and answer (DO, STATE, LOGS), close | engine, bus, logs |
| Sunrise: `sunriset.c utils_sunriset.c` | a timer per event of the day, four conditions | compute at parsing and at midnight, raise, forget the timer | loop, engine |
| Sun position: `soltracker.c` | per window, whether the sun is in it | each minute: compare, raise on a change | loop, engine, through rules Velux |
| HTTP: `yamaha_mc.c utils_http.c` | - | one blocking request per action | - |
| Frame: `main.c technologies.c arguments.c` | - | start, configuration test, termination | all |

### What is hard about it

- **Re-entrance.** A dispatch nests in the exec callback of an action of an
  outer dispatch. Rules see devices that rules further out are still changing,
  the depth is whatever the rule files make it, and a timer callback or a
  button goes on with its own fields after the rules have run (`timer.c:63`,
  `eltako_fsb14.c:61`, `schedule.c:213`).
- **Timers.** Handles kept, destroyed and overwritten; timers served late by a
  busy loop; a reversed motion whose old timer must not end the new one.
- **Clocks.** The bus measures its gap, a schedule its minutes and the sensors
  their moments with the wall clock, which may be set. The minute of a schedule
  is local time, which also jumps by an hour when summer time begins or ends.
- **Asynchronous scripts.** The wish of a Velux blind changes while a script
  for an older one runs, scripts fail, scripts cannot be started.
- **Restarts.** A start restores, saves, and restores again; the file is
  rewritten in place; nothing is saved at the end; `-t` runs the same code
  beside an engine that runs. Levels come back without an event; armed timers,
  output levels, the direction of a dimmer and wishes for blinds do not.
- **The day.** Where the sun is, is remembered only by which timers are left
  (`sunriset.c:144`); midnight comes an hour late or early after a change of the
  clock; a twilight may not occur, or fall past midnight.
- **Streams without frames.** Whatever a read of a socket returns is one command
  (`remote.c:120`), whether it holds several lines or the tail of one.
- **Files.** The parser carries its unfinished block from file to file, in the
  order of `readdir`.
- **A thread** that shares two floats with the loop without a lock.
- **Widths.** `uint8_t` dim levels, unsigned clock differences.

### What makes each part correct

- Engine: under layered rules every dispatch ends, its depth is bounded and no
  rule acts on an event that is no longer true; devices that rules tie together
  agree whenever the loop is at rest.
- Timers: the handle is set exactly while one timer is armed.
- Dimmer: dimming keeps the light on and stops with the button.
- Engine and file together: what rules keep in agreement agrees after restarts
  as well, except where a level came back without its timer or its event.
- Schedule: between two jumps of local time each minute is looked up once and
  the condition is that of the entry in force; a start finds it; one that a start
  finds wrong, or a jump leaves stale, is corrected in the end.
- Blind: an end position is reported only there; a motion ends; the handle is
  the only timer.
- Bus: reliable, in order, spaced, stalled no longer than the loop is.
- Velux: one script at a time; a device settles only where it was last wished;
  every wish is carried out; a blind that has settled has followed the sun.
- Sunrise: each event is raised once a day; the conditions are those of the time
  of day; a rule for a rise or a set still sees what it ends; no day is missed.
- Remote: a client's commands are carried out at most once and in its order; what
  `domctl` was told is done, and leaves on the bus in the end.
- Store: what was saved is restored, through any number of failed starts.
- Parser: what runs is what the text says; what a test accepts starts.
- Sensors: no corrupt or unmeasured reading in the logs; the last day is whole;
  a silent sensor does not keep the thread from the others.

## 2. Modules

Modules follow the components; a `MC` module gives the constants of a run: for
the engine, a rule file, in which an `ASSUME` says that each pattern of `House`
occurs. A
`Proofs` module extends the module it proves about. Definitions marked "Mutant"
are the plausible errors each property is shown to detect; no specification
uses them.

| Module | Models | State, and how it maps |
|---|---|---|
| `DeviceTypes` | type infos and exec/check callbacks of the switchable types | operators only: supported actions, the level after an action, the event raised, what a condition reads |
| `Engine` | the engine, its dispatch, with BOOL, FSR14, GPO, FUD14, TIMER, FTS14EM, SCHEDULE devices | `val`, `dir`: the C fields; `held`, `armed`: `tmr->timer` and the timers of the loop; `stack`: the C call stack, one frame per `engine_trigger_event`; `script`: what the running loop callback does after the dispatch it started |
| `EngineRanked` | the same under a layered rule file | `Rank` assigns each device a layer |
| `Restart` | `EngineRanked` with its state file: save, stop at any point, start | `file`: the levels in the file; `silent`: devices whose level was restored and has raised no event since |
| `House` | patterns of rules and what their author may count on, for any rule file | no state; operators over `Rules` and `Commands`: `Follows`, `RulesOut`, `RepeatsWith`, `DimsByInterval`, each with a property of the devices it ties together |
| `Fsb14` | one blind, its actuator and its timers | `condition`, `last`, `locked`, `timer` are the fields of `device_fsb14_t`; `live`, `left`, `firing` the loop; `told`, `run`, `pos` the actuator and the blind; `reactions`, `options` what the rule files do |
| `EltakoBus` | the send queue | `queue`, `due` from `eltako.c`; `age` is `now - eltako_send_last` by the wall clock, `since` the same in truth while nobody sets the clock; `due` is negative when the loop is late; `steady`: the clock was not set in between |
| `ReliableFifo` | what a sender on the bus relies on | messages given and taken |
| `Remote` | `EltakoBus` behind the control socket, with `domctl` and other clients | `conn`, `inbox`: each client's connection and the lines in it; `asked`: commands written |
| `Velux` | the Velux devices, the worker, the script, restarts | fields of the device; `busy` is `velux_klf200_device_in_progress`; `script`, `window` the outside |
| `Soltracker` | `Velux` behind the sun trackers and the rules that tie them | `in_sun` the field; `visiting` the place in the round; `orders` the actions of the rules; `sun` the outside; `astray` what the property excepts |
| `Sunriset` | one SUNRISET device and the day | `times`, `timers`, `rised`, `midnight`: the C fields and timers; `raising` the event in dispatch; `since`, `raised` history |
| `Schedule` | one SCHEDULE device, the minute timer and local time | `entries`, `condition`; `wait` the timer, negative when it is late; `checked` the minute looked up last; `pending` an event in dispatch; `steady`, `synced` history: what has happened since local time last jumped |
| `Startup` | `main`, `technologies_init`, the two passes of the parser | `phase`; `file`, `pos` the reading position; `devices`, `finished`, `rules` what is built; `schedule`, `rule`, `skipping` the static variables |
| `Store` | `store_init`, the save timer, the file, a test beside the engine | `pc` and `level` per process; `file`; `saved`, `sound`, `odd` remember what the properties compare with |
| `Dht22` | the worker thread, the moments, the logs | `pc`, `at`, `first`, `silent`, `raised` the thread; `temp`, `hum` the shared readings; `due`, `todo`, `stamp` the loop; `temps`, `hums` the rings |

How a handler becomes actions: a loop callback that raises no event is one
action. One that does is a sequence of atomic steps, because rules run in
between: in `Engine` the walk itself is spelled out (`PassRule`, `EnterRule`,
`RunAction`, `LeaveRule`, `Return`, `Continue`); elsewhere the
dispatch is an interval (`firing`, `pending`, `raising`, `orders`) in which
reactions may run. A
callback of the loop starts only at rest, since the loop is one thread; only in
`Dht22` do two threads interleave, at the grain of one write of a float.

Environment that is not in the repository is modelled from its use and marked
external: the timers of the loop, the clock, the actuator of a blind, the Velux
script, the order of `readdir`.

Composition follows the calls. `Engine` covers several components at once because
they interact within one C call stack. `Restart` extends it with the state file,
`House` says over both what rules of a given shape achieve,
`Soltracker` extends `Velux` with what drives it, and `Remote` extends
`EltakoBus` with what feeds it; each keeps every action of the module below and
adds its own, and for the last two a theorem says so (section 4). `Store` spells
out the steps of a save and of a start that `Restart` takes as one action each.
`Startup` produces what `Engine` takes as constants (`Devices`, `Kind`, `Rules`).

## 3. Runs

| Run | Module, configuration | Bounds | What it shows |
|---|---|---|---|
| house | `MCHouse` | eight devices of seven types, eleven rules of which one re-arms the timer it reacts to, three remote commands; presses, timeouts, ticks, saves and restarts at any time; dim levels 0, 1, 4, 7 | timer handles; depth as ranked; no stale event; every dispatch ends; lamp, fan, timer and pilot light agree at rest, after a restart as far as the file lets them; "away" means dark; dimming stops with the button and never switches off; the lamp goes out |
| fsb14 | `MCFsb14`, `Fsb14.cfg` | run time 3, travel 2, three timers alive, reactions UP, DOWN, STOP or none, option 1 or none | belief from the last telegram under all rule files; true end positions, one timer under quiet ones; only a lock or a reaction strands a motion; motions end |
| fsb14_locked | `MCFsb14`, `Fsb14Locked.cfg` | no reactions | **finding**: an ignored command is not without effect |
| remote_bus | `MCRemote`, `Remote.cfg` | one `domctl` user and one script, two commands each, two lines to a read, gap 2, period 1, retry timer up to two ticks late, clock set by -2 or +4 at any time | commands once and in order; what `domctl` was told is queued, and leaves; spacing, no stall, FIFO refinement |
| sun_blinds | `MCSoltracker`, `Soltracker.cfg` | two blinds, two windows, the sun in one, both or none; all actions by hand, failing scripts, restarts | one script; settles truly; blinds follow the sun; wishes end |
| sunriset | `MCSunriset`, `Sunriset.cfg` | days of six slots, two noons, all nested arcs from polar night to midnight sun, midnights a slot early or late, restarts | conditions by the time of day; every event once; rules see the old condition; days go on |
| schedule | `MCSchedule` | all files of at most two entries, days of four minutes of four ticks, timers up to two ticks late, jumps of local time from anywhere to anywhere, restarts | minutes in order, condition in force, starts, recovery |
| schedule_midnight | `MCSchedule`, `ScheduleMidnight.cfg` | the same | **finding**: an entry for 00:00 is never found at a start |
| startup | `MCStartup` | directories of a file of up to two of ten blocks and one of a single block; unreadable files; with and without the bus in the build and `-t` | devices and rules are those of the text; verdict; schedules started |
| store | `Store`, `Store.cfg` | two switches of two levels, a blind, engine and test, any number of crashes | switches survive; blinds survive by parity |
| store_blind | `Store`, `StoreBlind.cfg` | the same | **finding**: a blind is restored the wrong way round |
| dht22 | `Dht22` | two sensors, two tries, interval of three ticks, two entries, thirteen ticks of the clock | the last day is whole, no fall back to zero, no corrupt reading, the thread passes silent sensors |

Why the bounds are enough. *house*: nested dispatches reach the depth the ranks
allow, every type and every action occurs, and every button, timer, command and
restart is possible at every rest, a restart also inside a dispatch; full is no
multiple of the dim interval, as in the code, so the way down wraps. *fsb14*: run
time longer than travel, so that an early and a late timer differ; three timers
are one more than live at once without a defect, and `Move` simply waits for a
free one. *remote_bus*: three lines in a socket that gives two to a read lose
one, cut one or leave one; four telegrams put three in the queue; -2 wraps the
clock difference, 4 jumps over the gap; a lateness of two ticks lets more than
one expiry be missed. The counters stop at `Horizon`, beyond
which no guard distinguishes. *sun_blinds*: two blinds are what it takes for one
to wait behind the other's script, three positions for the trackers to change
their minds separately. *sunriset*: six slots hold a rise and a set of two
distinct twilights on both sides of noon; two noons put a set past midnight.
*schedule*: two entries give equal minutes, wrong order and midnight; a lateness
of two ticks is exactly the rounding limit; jumps have no bound. *startup*: two
blocks and a second file are needed for anything that outlives a block or a file. *store*: state is a
small product and unbounded in time. *dht22*: thirteen ticks are four moments,
twice what the logs hold. `MaxClock` bounds the clock, `MaxAsked` the commands of a
client and `MaxMessages` the telegrams, `Timers` the timers alive; nothing else
is bounded.

`CHECK_DEADLOCK FALSE` where the system stops: a start that ended (`Startup`),
a thread that ended and a clock at its bound (`Dht22`).

### Fairness

- `Engine`, `Restart`: a callback runs to its end (`WF` of `EngineStep`). A timer
  the loop holds fires, is destroyed or is replaced: so a TIMER that is not idle
  again and again is armed again and again. Nothing is assumed of people, of
  saves or of restarts; `LampGoesOut` names what may keep a lamp burning.
- `Fsb14`: time passes, a due timer fires, its callback returns. Commands: none.
- `Remote`: every connection with something to read is read, time passes, the
  retry timer is served, no later than `Late`. Clients: none. `CommandsLeave` also says that the clock
  is not set for ever.
- `Soltracker`: a round and its rules run to their end (`WF`), as do scripts. The
  worker and the end of a script are callbacks that are enabled only between
  rounds and come back after each, hence `SF`. The sun and hands: none. A script
  that could not be started is the exception `WishesEnd` names.
- `Sunriset`: time passes, a due timer fires, its callback returns. Restarts:
  none; `DaysGoOn` names the engine that is restarted for ever.
- `Schedule`: time passes, a running loop serves its timer and ends a dispatch.
  Starts, stops and jumps: none; `Recovers` names the local time that jumps for
  ever and the engine that is stopped.
- `Dht22`: the thread runs; each wait inside a read is counted, so reads end.

### Findings

1. `eltako_fsb14.c:117`: the timer of a motion is destroyed before the lock is
   looked at. A command that is logged "LOCKED! ignoring action" leaves the
   blind RISING or DESCENDING for ever, its UP or DOWN event never raised.
2. `schedule.c:85`: `entry_ts > sched_ts_max` with `sched_ts_max` starting at 0
   can never choose an entry for 00:00, although the default it competes with
   is meant for times "in front of first entry".
3. `eltako_fsb14.c:220`: `strcmp` is taken for a match, so every restore turns
   a blind around. A complete start restores twice with a save in between and
   comes out right; one that is cut off after its save, or a `-t`, does not.

## 4. Proofs

Everything below is checked by TLAPS to the last leaf, for every value of the
constants that satisfies the named assumptions.

| Theorem | Says | Argument |
|---|---|---|
| `EngineProofs!TypeCorrect`, `TimersTracked` | types, `TimerHandles` for every rule file and any number of restarts | one invariant, `EngineInv`: `armed` stays in 0..1 only because handles are tracked, so the two go together; frames that run actions point at their rule |
| `EngineProofs!DepthBounded`, `EventsFresh` | `BoundedDepth`, `NoStaleEvent` for layered rule files, with restarts | `RankInv`: going up the stack ranks fall strictly, and rank plus position is bounded; an action touches an echoing device only below all ranks on the stack, so no frame's event is made untrue; loop callbacks raise only events of non-echoing devices |
| `EngineProofs!DispatchesEnd` | `WorkShrinks` for layered rule files | from `RankInv`: a dispatch is alone on its layer; a step moves the innermost one on or ends it, and what it may start is on a lower layer. The order (how far the walk has come, layers compared from the top, the script before them) has no infinite descent, as rules, actions and layers are finitely many |
| `EngineProofs!ExclusionsHold` | `NeverBoth` for every rule file | `WalkInv`: the conditions of a rule just entered still hold. `ExcludeInv`: while both are on, the unconditional rule that switches one off is ahead of a frame of the other (`Ahead`, `Bound`), and the walk passes over no such rule; so the stack is not empty. The file never holds both |
| `EngineProofs!RepetitionStops` | `RepeatsStop` for every rule file | `RepeatInv`: while the timer is armed the press is remembered, or is about to be by the script that raised it; a release forgets it only after the rule that destroys the timer, which until then is ahead |
| `EngineProofs!LightKept` | `DimKeepsLight` for every rule file and every interval that does not divide the full level | `DimInv`: on the way down a level differs from full by a multiple of the interval, so it never meets zero, and below zero the byte wraps to a level the clamp takes to full |
| `EngineProofs!FollowersFollow` | `FollowersAgree` for layered rule files | `FollowInv`: follower and followed agree unless a frame of the one has the rule for the other ahead, or the follower is a timer that has fired and is yet to switch the other off. An action on the follower is one of a true event (`RankInv`) of a device that is no longer silent (`Loud`). Stored pairs agree in the file, as it is written at rest |
| `Fsb14Proofs!BlindTypes`, `BeliefSound` | types, `PositionFromTelegram` for all reactions, options and run times | `BeliefInv` adds what `last` says of the telegram, from which the timer callback concludes |
| `Fsb14Proofs!TimerNotLost` | `OneTimer` | inductive with the types |
| `Fsb14Proofs!EndPositionsTrue` | `EndReached` | `QuietInv`: under quiet rules the actuator's run time equals what is left of the timer, and position plus run time covers the way (`InStep`); motors of settled blinds are off (`Settled`) |
| `Fsb14Proofs!StrandedByLock` | `StuckOnlyByLock` for all run times, reactions and options | an action property of any step: one case per action of `Next`, and per branch of `Exec` (`StuckStep`) |
| `EltakoBusProofs!BusTypes` | types | - |
| `EltakoBusProofs!BusIsFifo` | the bus implements `ReliableFifo` | step by step: a send gives and may take, a retry may take, time and clock stutter |
| `EltakoBusProofs!GapKept`, `QueueMoves` | `Spacing`, `NoStall` | `SteadyInv`: both clocks agree while nobody sets one, and a waiting queue was last refused less than a period and the lateness of the timer ago; for every lateness |
| `EltakoBusProofs!RemoteDrivesBus` | behind the socket the bus keeps its own specification, and with it the three properties above | every step of `Remote` is a step of `EltakoBus` or leaves its variables alone |
| `EltakoBusProofs!CommandsObeyed` | `Obeyed`, for any number of clients, any size of a read | `RemoteInv`: what was given comes before what waits in the socket (`InboxInOrder`), and a `domctl` has at most one line under way (`OneLine`) |
| `ScheduleProofs!MinutesInOrder`, `ConditionTrue` | `Consecutive`, `ConditionInForce`, both assuming `Timely` (never early, late by no more than the rounding limit) | `ClockInv` ties timer, local time and the minute looked up, unless local time has jumped since (`InStep`); `ForceInv` the event in dispatch to the entry in force; the first entry of a minute exists by well-ordering |
| `ScheduleProofs!StartIsInForce` | `StartsInForce`, for every entry list | the search is a function defined by recursion on the number of entries; that it exists (`LoopExists`) and that after each entry it holds the latest before now (`FoundSoFar`) are shown by their least counterexample |
| `SunProofs!OneScript`, `SettlesTrulyHolds` | `InProgress`, `SettlesTruly`, over restarts | inductive with the types; the action property follows from it |
| `SunProofs!HouseImplementsVelux` | trackers, rules and hands drive the blinds by steps of `Velux` only | step by step |
| `SunProofs!FollowsSun` | `BlindsFollowSun`, for any windows and blinds | `TrackInv`: orders agree with what their tracker found (`OrdersAgree`); a blind that is not astray has the wish its tracker last gave, unless that order is still to be carried out; a settled one is where it was wished |
| `SunProofs!SunTypeCorrect`, `EventsRaisedOnce` | types, `RaisedOnce`, for every day and latitude | `SunInv`: the timers left are exactly the events of today still to come, up to the one in dispatch |
| `SunProofs!DaytimeBySun`, `RulesRunBefore` | `SunriseInDaytime`, `RulesSeeBefore` | from that, what `CurrentState` reads off the timers |
| `StoreProofs!StoreTypes`, `SwitchesKept`, `BlindsByParity` | types, `SwitchesSurvive`, `BlindsSurvive` | `StoreInv`: whatever a sound file would restore matches the last save up to the parity of starts, and so does what a start holds in memory; two restores cancel (`RoundTrip`) |
| `Dht22Proofs!SensorTypes`, `CorruptKeptOut` | types, `NeverCorrupt` | a published answer is a true one (`Found`), for a corrupt answer agrees with no other |
| `Dht22Proofs!MeasuredForGood` | `StaysMeasured` | `OrderInv`: a humidity is published after its temperature, the logs contain only what was published, newest entries are measured before older ones, and the temperatures are one step ahead exactly between the two log calls |
| `Dht22Proofs!DayIsWhole` | `LastDay`, for every interval, ring and number of sensors | `DateInv`: a log dated `d` has one entry for each moment before `d` up to its room, and a log the moment in progress has not reached is dated one interval before the others |
| `StartupProofs!StartupTypes`, `LoadsText`, `SchedulesEnded`, `VerdictIsRight` | types, `LoadedAsWritten`, `SchedulesStarted`, `Verdict`, for every directory | `LoadInv`: what a pass has made of the places it has passed, when the text read so far is looked at as a whole; the statics (`schedule`, `rule`, `skipping`) are set exactly while the block, or the rule, they stand for is open. Places are numbered in the order of the files, in one way only (`Enumerations`), and a number more is added with each place (`NumberNext`) |

Assumptions on constants are the named `ASSUME`s of the modules; each is
evaluated by TLC in the runs. `RankAssumption` (layered rules) is the only
strong one, and it is what a rule file without self-triggering rules satisfies;
`DepthBounded`, `EventsFresh`, `DispatchesEnd` and `FollowersFollow` need it,
the other theorems about the engine do not.

Only model-checked:

- liveness: `LampGoesOut`, `MotionEnds`, `CommandsLeave`, `WishesEnd`,
  `DaysGoOn`, `Recovers`, `WorkerGoesOn` (temporal reasoning with fairness and
  `ENABLED` is beyond the prover). That dispatches end is proved as the order
  in which they shrink; that this makes them end under fairness is not.

Type invariants are proved, and therefore not checked again in runs.

## 5. Abstractions and limits

- `Restart` takes a save and a start as one action each; what a crash inside them
  leaves behind is in `Store`. `Fsb14` starts from a process without a file.
- `ScheduleTick` in `Engine` stands for one schedule at a time; the code walks
  all schedules within one callback. Schedule entries raise SET and UNSET.
- An FSB14 telegram reaches its actuator at once; the bus is its own module. The
  run time fits its byte. A blind at rest is moved by nobody else.
- `EltakoBus`: frames, checksums, the serial port and its errors are left out.
  The retry timer is one callback of the loop, and others run scripts
  (`eltako.c:69`), wait for HTTP or SQLite and dispatch rules: it is served up to
  `Late` ticks late. `NoStall` bounds the wait by the gap, the period and that
  lateness; a loop that blocks for ever stalls the queue with it. Whether the loop
  counts the next period from the expiry or from the service is left open.
- A serial port that cannot be opened makes `eltako_open_serial_connection`
  return -1 for a `bool` (`eltako.c:195`), which is true. The branch that logs
  "Failed to connect to eltako series 14!" is unreachable, the bus counts as
  initialised, and telegrams go to a descriptor that is none.
- `Remote`: a line of more than a read is a line that was cut; how `line_parse`
  takes the pieces apart is reduced to "the first line, or none". `domctl` is
  taken to send commands for the bus only.
- `Velux`: percent values are two; conditions are not modelled, for the
  type's mask makes them unreachable. An `exec` of STOP does nothing, as coded.
  The end of file of a script is taken to come with a hang-up, so the branch of
  `utils_cmd.c:77`, which would never tell the device, is not modelled.
  A script that runs while the engine is stopped is taken to end before the
  next one is started.
- `Soltracker`: a position is an azimuth and an altitude out of a set; the rules
  are one DOWN and one UP for each blind. A window across north sees one side of
  it only, as coded. The SUN_POSITION event is not in the type's mask and the
  condition callback is always false: neither is modelled.
- `Sunriset`: times are slots and a twilight an arc; the astronomy that computes
  them is taken to give nested arcs. A midnight after a change of the clock is
  one slot off. Twilights that wrap count as set all day, as coded.
- `Startup`: a line is its statement, its name and a word; a line longer than
  the buffer counts as the pieces `fgets` returns; both passes see the same
  directory; no technology can fail, so a failed start of one is not modelled.
- `Store`: a file that cannot be read restores nothing; writes of two processes
  that overlap may leave a torn mixture; locks of blinds are values like others.
- `Dht22`: a reading is zero, true or corrupt; two compared answers are not
  both corrupt; the thread may be preempted for any time between its two writes.
  The two stores of `dht22_worker.c:276` have no barrier between them: that the
  loop sees them in the order they are written is assumed, as on a single core.
  Moments come late, never early, and nobody sets the clock. The thread's priority is in the state
  (`raised`) but no property says what it should be.
- Only silent answers are counted (`dht22_worker.c:245`). `WorkerGoesOn` says that
  a silent sensor does not keep the thread from the others; one that answers
  wrongly for ever does.
- A sensor that stopped answering is logged with its last reading for ever:
  `error` (`dht22.c:147`) is never set.
- `Consecutive` and `ConditionInForce` need timers that are never early. With
  `Early = 1` TLC shows a minute looked up twice (`schedule.c:232`).
- `Schedule`: a jump takes local time to any tick of any minute, which covers the
  change to and from summer time and a clock that is set. Timers are taken to run
  on undisturbed. What a jump skips is not raised and leaves the condition stale
  until a later entry, what it repeats is raised again (`schedule.c:206`): the two
  properties except the look-ups up to the first one that comes in its minute
  (`steady`), and the condition up to the first entry after that (`synced`).
- `GPI` inputs raise no event: the edge handler looks for devices of a type
  "GPIO" (`gpio.c:94`) that nothing registers.
- The suffix of a TIMER's duration ("10m") is not looked at, and durations are
  abstracted to "some time later".

Not modelled: the astronomy of `utils_sunriset.c` and SolTrack (numerical
approximation); `yamaha_mc.c`, `utils_http.c` (one blocking request to an unknown
machine, no state); GPI inputs, for the reason above; the pulses on the pin of a
DHT22 (`utils_gpio.c`, timing of busy loops); texts of replies; option parsing,
daemonizing and logging; libeu.

## 6. Plan

Done, in this order: `Engine` with its types and proofs; `EngineRanked`;
`Fsb14`; `EltakoBus` with its abstract specification; `Velux`; `Schedule`;
`Startup`; `Store`; `Dht22`; `Restart` over the engine; `Sunriset`;
`Soltracker` over the Velux blinds; `Remote` over the bus; the proofs of
section 4.

Next:

1. Refinement: a "big-step" engine in which a dispatch is one action, and
   `Engine` shown to implement it for layered rules.
2. `Restart` shown to implement `Store` at the grain of saves and starts, and
   `Fsb14` restarted with its lock, which is stored, and its motion, which is
   not.
3. Split lines on the socket: what the pieces of a line longer than a read mean
   to `line_parse`.
