# thermald in TLA+

A model of the thermal daemon of this repository (intel/thermal_daemon): the
arbitration of cooling devices between trip points, zones and their trips, the
engine thread with its message pipe, the adaptive engine with the firmware's data
vault (GDDV), the RAPL device and its power meter, how a daemon finds its sensors,
devices and zones, and the life of the process from its lock file to its end.
Every definition is written from the C++ source under `src/src/`; `PROJECT.json`
maps each to the lines it stands for.

## The system

| part | state | operations | what makes it hard |
|---|---|---|---|
| cooling device (`thd_cdev.cpp`) | current state, exponent and base of the exponential series, list `zone_trip_limits` of the trips that hold it, time and kind of the last action | `thd_cdev_set_state` (on, off), `thd_cdev_set_min_state` | trips of several zones call it in any order; only the end of the list decides; debounce; devices whose minimum is the larger number; `int` arithmetic |
| trip point (`thd_trip_point.cpp`) | on/off, polling on/off, count of critical readings, bindings with their sampling clocks | `thd_trip_point_check`, `thd_trip_cdev_state_reset`, binding a device | sequential control, hysteresis, dependency on another device, reset in the middle of a pass |
| zone (`thd_zone.cpp`) | its trips and sensors, active flag | `read_zone_temp`, `update_zone_preference`, `zone_reset`, `sort_and_update_poll_trip` | independent or correlated sensors, a polling trip below all others that switches polling |
| engine thread (`thd_engine.cpp`) | poll masks and timeout, saved interval, status, pipe | the `poll()` loop, `send_message`, `proc_message` and what each message does | messages are sent by the thread to itself and by D-Bus threads through one non-blocking pipe; events in bursts; a disabled daemon |
| adaptive engine (`thd_engine_adaptive.cpp`, `thd_gddv.cpp`) | current target set, tables, conditions with timers | decode the vault, evaluate the conditions, execute targets, move trips | nested repositories in two formats; several conditions with hysteresis in time; targets applied in part |
| RAPL device and power meter (`thd_cdev_rapl.cpp`, `thd_rapl_power_meter.cpp`) | limits of the hardware, energy counter | set, read and release a limit; sample the counter | locked registers, moved maxima, a counter that goes round under two readers |
| process (`main.cpp`, `thd_dbus_interface.cpp`, `thd_preference.cpp`, take-over in `thd_engine.cpp`) | lock file, preference file, policies of the kernel's zones, engine and its thread | start, set a preference, reinit, terminate, be killed | two threads, sleeps in place of joins, failing writes, a policy recorded per readable zone and restored by position |
| discovery (`thd_engine_default.cpp`, zones of each kind, `thd_parse.cpp`, `thd_trt_art_reader.cpp`) | vectors of sensors, devices and zones with their indices | read the kernel's, the default and the configured ones; D-Bus calls that add and delete | configurations that replace one another, a generated file that outlives a crash, numbers taken from counts |

The engine thread wakes up on a timeout, a kernel uevent or a message. It reads
every active zone; a zone shows its temperature to its trips in order; a trip
activates or deactivates the devices bound to it; the device arbitrates between
all trips that hold it. Polling trips send messages back to the engine that
switch its timeout between none, four seconds and one second.

## Modules

Cooling devices:

* `Cdev`: the cooling-device class as operators on a device record `d` and an
  object record `c`. Subclass differences (`map_target_state`, how a state is
  clamped when it is written, reading back the hardware) are fields of `d`. `Wrap` is
  the two's complement of an `int` of `IntBits` bits.
* `CdevArbitration`: one device, any set of trips. `Activate`, `Deactivate` and
  `Reset` are the calls a trip makes, in any order; `Heat` and `Cool` move a trip
  across its temperature; `Tick` is a second.
  * `CdevRange`: configurations whose numbers make sense, for `StateInRange`.
    The assumption spells out which steps have to fit in an `int`: the code
    checks the wrap-around for devices with `inc_val` only.
  * `CdevTargets`: every trip asks for a target. `CdevExponential`: none does.
* `SharedDevice`: the abstract specification of a device with targets. A trip that
  is hot takes hold; the first hold acts at once, a stronger one may have to
  wait; a trip that is cool lets go, and the device goes to what the others need.
  `CdevTargets` implements it (`DeviceIsShared`): `holders` is the set of requests
  found in `zone_trip_limits`, `level` the distance of `curr_state` from `min_state`.
  Which cool trip lets go, and when, is left open; what the comment of the
  function says about that is `OffRemovesTrip`, which fails.

Zones and engine:

* `Zone`: trip points and zones as operators on a record `w` of one zone's world.
* `ZoneControl` extends it with the engine's calls: a timeout, a uevent, a
  preference change, switching a zone on or off, moving a trip.
  `ZoneCritical` adds a history variable that counts alarming readings.
* `EngineLoop`: the engine thread between one `poll()` and the next, one action
  per step at which other threads can interleave, and the pipe down to its pages:
  a message is 4104 bytes, one word longer than a page, so a full pipe cuts a
  message in two and the reader goes on in the middle of one. Of a zone it keeps
  the polling trip of each sensor.
* `Gddv`: conditions, their times and condition sets as operators on a record
  `g` of what `cthd_gddv` remembers between two evaluations.
* `Adaptive`: the adaptive engine over `Gddv` and, through a parametrised
  `INSTANCE`, over `Zone`: its handlers are operators on a record `e` of devices
  (whose limits the targets change), device objects, trips and active zones. The
  actions are `thd_engine_start`, `read_zones` (the main loop's pass over the
  zones) and `update_engine_state`, with temperatures and the sources of the
  conditions changing in between. Tables and targets are constants.
* `Power`: the RAPL package limit and the power meter over the registers and the
  energy counter. Init is what `update()` makes of the platform; the actions are a
  second of consumption, the loop's measurement, the power sensor's, an activation
  and a deactivation by the exponential controller, and an adaptive target.

Process and start-up:

* `Daemon`: processes, each with a main thread (`pc`) and an engine thread, the
  lock and preference files, and the kernel's policies. Where the code sleeps for a
  second to let the thread end, the thread may read its messages meanwhile, later
  or never; a message may be lost, since a write to the full pipe is only logged;
  the thread of a disabled daemon may no longer look at the pipe (`Deafen`). The
  zones are given up between the two sleeps of a termination and the engine is
  freed after them, as steps of their own.
* `Vault`: the decoder of the data vault, one key per step, on a stack of buffers.
  A buffer is a sequence of items with sizes, a value a sequence of typed cells.
  `VaultFormat` is the other direction, how firmware lays tables out, and is the
  reference the decoder is checked against.
* `Config`: relationship tables written as a configuration, choice of the file, the
  parser with its defaults and what one element inherits from another.
* `Discovery`: sensors, devices and zones of the kernel, the defaults, the
  configuration. `Registry`: what the adaptive tables and D-Bus calls add and remove.
* `Startup`: the composition of the four: a machine starts, decodes, generates,
  parses, discovers, serves calls, is killed and starts again. `Daemon` abstracts
  the engine to the fact that it came up; `Startup` abstracts the process to its phase.

* `CdevArbitrationProofs`, `CdevRangeProofs`, `CdevTargetsProofs`, `ZoneProofs`,
  `ZoneControlProofs`, `PowerProofs`, `DaemonProofs`, `EngineLoopProofs`: theorems.
* `MC*`: the instances TLC checks.

An operator whose comment begins with "Mutant:" is a changed form of the
definition that follows it; it is used nowhere in the specifications and serves
to show that a property can fail.

## Runs

| run | instance | checks |
|---|---|---|
| `cdev_targets` | fan 0..6, three trips of two zones, two with equal targets, debounce of 2 s, found at 0 or 5 | a trip has one entry in the list and it is its own request; the last entry is the most restrictive; the device implements `SharedDevice`; it is at its minimum with the last hold; a hot trip is served; holds are given up |
| `cdev_off` | the same | fails: a trip that calls for deactivation is not always removed from the list |
| `cdev_exponential` | fan 0..9, step down by 4, two trips | types; an empty list was left by a deactivation; the state stays in range; activations never weaken; a hot trip reaches the maximum; cool trips release |
| `zones` | a zone with a sequential passive trip (two devices, one with a sampling period), two active trips that share a fan, and a HOT trip that suspends the machine; two changes of preference, status or trip | sequential order; whatever is in use is polled; hot is cooled; cool is released |
| `zone_critical` | two zones with HOT, CRITICAL, MAX and a trip depending on a device; correlated sensors; 2 readings in a row | no shutdown without a full row of alarming readings; a critical zone does shut down |
| `engine` | two sensors whose numbers are also message numbers; asynchronous or fixed interval; 16 pages, two D-Bus calls | the masks will be right when the pipe is empty; the timeout is 1 s while a polling trip is on; hot is polled; terminate ends |
| `adaptive` | two zones sharing a power device; three condition sets, one with two timed conditions; targets with PL1MAX before and after a PSVT, tables with one and with two MAX rows in a row, a row for a device the default table lacks, an ITMT table, a table that names no zone | the trips are those of the current target's tables; indices are unique; the limits written to a power device are in its range, also when the target of a trip is not; changes of target are called for, settle, and are not withheld |
| `power` | six platforms: PPCC limits of the configuration with one or two limits, of the PCI device with a value missing, none with and without a sane maximum, a locked package; counter of ten units; two targets | no energy is lost when the counter goes round; power is plausible; a release restores what power on, or with PPCC limits `update()`, left; the maximum in force holds |
| `daemon` | one process at a time, any number of them; in the foreground with D-Bus or in the background without; two kernel zones, one of them INT3400, one possibly unreadable; two calls; any message lost | the engine follows the preference file through failed writes, unless it was not told; policies are given back, and stay so if the thread has stopped reading; termination completes whatever the thread does |
| `startup` | eight machines: a vault of each format (nested, compressed), a spoilt, an empty and no vault, TRT and ART, PSVT, an administrator's file, a file named on the command line; a zone whose trips are both redefined; a generated file that cannot be opened, a coretemp input that is gone; three calls, two crashes | tables are decoded as written; every applicable row of the relationship tables is bound in every start; indices identify sensors, devices, zones and trips, but for two kinds of pairs |
| `startup_trips` | the manual's Example 6 | fails: of two passive trips configured for an existing zone only the last is there |
| `adaptive_fallback` | a vault whose only condition is not supported | fails: the fallback target is never executed |

The bounds. Devices have a few states more than the exponent needs to double
twice and to run into the clamp from both sides of a step. Two trips are the
fewest that compete, three the fewest in which the middle of the list matters.
Two readings in a row stand for the code's four. In `zones` two changes let a
preference change meet a status change or a moved trip. In `engine` two sensors
and two calls are enough to fill the pipe, whose size is the real one. A sensor
crosses its polling trip again only after the messages about its last crossing
were read (`Drift` in `EngineLoop`): temperatures are slow compared to the loop.
In `adaptive` two timed conditions in one set are the fewest of which the second
starts late, and a source can change between any two steps; a target whose table
names no zone ends the daemon, as in the code. In `power` the counter is read at
least once in each half of its range (`GapAssumption`; the real counters take
minutes) and goes round twice, so that a flag left over from the first round is
met by the second. In `daemon` two calls are the fewest that put two messages into the pipe
before a termination, so that a change of preference is read after the zones were
given back, and a slot for one process is used again and again, so
that what a killed process left meets the next one; two processes that compete for
the lock at the same time are in the module but not in this instance. In `startup` three calls add,
use and delete something, and two crashes let one start read what another wrote
with a crash in between or a reboot after it.

Fairness. The engine loop runs on: a timeout keeps coming while the machine is on
(`ZoneControl`), and the thread takes its next step whenever `poll()` has
something to return (`EngineLoop`). In `Adaptive` the loop keeps reading zones and
evaluating conditions: this engine is started with a poll interval, so `poll()`
times out. The variable `round` there and in `ZoneControl` only says that such a
step was taken. In `CdevArbitration` a trip keeps calling its
device as long as it is on its side of the threshold, since every poll calls
`thd_trip_point_check` for every trip. In `Daemon` the main thread goes on
between its calls; nothing is assumed of the engine's thread. Temperatures, users and `SIGKILL` owe nothing.

Deadlock is checked in every run but those of `Startup`, where a daemon that has
served its calls, or that failed to come up, has nothing left to do.

## Further observations

Made while writing the model, with no run of their own:

* without targets, the trip at the end of the list steps the device down though
  others hold it (`thd_cdev.cpp:414`), where the same comment says that the state
  is left unchanged;
* a device stepped by `inc_dec_val` can wrap around when a trip's limit keeps it
  away from its maximum (`thd_cdev.cpp:133`); `RangeAssumption` excludes it;
* `zone_reset` does not bring a device to its minimum that two trips of the zone
  hold with different targets (`thd_zone.cpp:207`);
* a hold taken under one preference stays when the next preference has no use
  for its trip (`thd_trip_point.cpp:212`): with two targets on one fan and one
  change of preference the fan can run for ever though all is cool;
* a short or failed write to the pipe is not repeated (`thd_engine.cpp:473`): a
  preference change with two hot sensors overfills the pipe and a
  `FAST_POLL_ENABLE` can be lost, which leaves its sensor unpolled;
* switching targets resets and deletes trips zone by zone
  (`thd_engine_adaptive.cpp:464`): when two zones share a device, entries of
  deleted trips that are not last stay in its list and can keep it throttled;
* two MAX rows in a row (`thd_engine_adaptive.cpp:228`): the comment says that the
  next target is not MAX, the code does not look, and the sum overflows an `int`.
  The target of such a trip, like a mean taken before PL1MAX lowers the range, is
  not a state of the device; what is written to it is one (`LimitInRange`);
* the limits a target sets with PL1MAX, PL1MIN and PL1STEP stay when another
  target takes over, and a target with nothing but a PSV is replaced by the
  default table at once (`thd_engine_adaptive.cpp:592`);
* `current_target_matched` keeps the last match when no set matches
  (`thd_gddv.cpp:1725`), so the times of that target's conditions are not checked
  when it matches again;
* `set_trip` (`thd_engine_adaptive.cpp:127`) can move a trip below the polling
  trip; its device is then in use while polling is off;
* a target is mapped by the trip (`thd_trip_point.cpp:288`) and again before it is
  compared (`thd_cdev.cpp:378`): on a backlight or P-state device the stronger
  target of a second trip is not applied;
* a MAX trip passes `hard_target` also when it deactivates
  (`thd_trip_point.cpp:316`), and `thd_cdev.cpp:470` then writes `max_state`: the
  device is not released by it;
* when `poll()` times out while the daemon is disabled the loop goes on before it
  looks at the pipe (`thd_engine.cpp:98`), so it does not see that it is enabled
  again;
* `FAST_POLL_DISABLE` restores the four seconds `POLL_ENABLE` had set after
  `POLL_DISABLE` cleared them (`thd_engine.cpp:586`): asynchronous sensors are then
  polled for ever;
* a deleted zone's holds stay on the cooling devices (`thd_engine.cpp:1237`).

The process:

* nobody joins the engine's thread: `TERMINATE` can be lost (`thd_engine.cpp:473`) or
  lie behind other messages, the thread may itself be asleep
  (`thd_rapl_power_meter.cpp:239`), and after two seconds the engine is freed all the
  same (`main.cpp:171`, `thd_dbus_interface.cpp:220`). The thread then works on freed
  memory until the process ends, which after `Reinit` it does not; and a change of
  preference read between giving up and freeing takes the zones over for good;
* policies found after a crash are the `user_space` of the process before and are
  recorded as the originals; policies are given back by position, which is wrong
  when one could not be read (`thd_engine.cpp:689`);
* a daemon in the background has no handler for SIGTERM (`main.cpp:326`) and
  loses its lock in `daemon()`, which forks; closing the lock file and removing its
  name are two steps, and a process between them loses the name of its own file;
* `Reinit` replaces the adaptive engine by the default one, and replies success
  when that did not come up;
* a preference of DISABLE on disk is kept in `preference` at the start, with
  `status` still true, and only the next change of preference tells them apart;
* a call to set a preference is reported as failed when the old value could not be
  saved, though the new one is in force; `int_pref_to_string` ignores its argument.

Discovery and configuration:

* a generated configuration that a crash cut off is never written again and hides
  `thermal-conf.xml` until `/run` is cleared (`thd_trt_art_reader.cpp:227`);
  without a product name it never matches;
* a virtual sensor that brings the power sensor with it shares its index
  (`thd_engine_default.cpp:215`), and a configuration that redefines two trips of
  different types of an existing zone can number two trips alike
  (`thd_engine_default.cpp:509`); `IdsIdentify` leaves out these pairs and no others;
* a polling trip looks its sensor up by index in a function that takes a position
  (`thd_trip_point.cpp:189`), which is the same only while the kernel numbers its
  zones without gaps and all can be read; two kernel zones of one type share the first
  sensor;
* a user's passive temperature takes effect at the next start, where it sorts the
  trips before the kernel's bindings are applied by number;
* Examples 5 and 6 of the manual name `/proc/acpi/ibm/fan`, but a generic device has
  to be under `/sys` (`thd_cdev_gen_sysfs.cpp:31`);
* sensors and platform names carry over from one `<Platform>` element to the next,
  a zone's type from one `<ThermalZone>` to the next; a zone of its own is given up
  when the sensor of its last trip is missing;
* PPCC limits with one limit only, and keys at the end of the vault that are
  shorter than a header, are dropped; a time in the last place of a condition set
  skips a cell.

Power:

* with PPCC limits `update()` writes the time window and the enforcement
  (`thd_cdev_rapl.cpp:394`, `:409`, `:413`) before it reads what it keeps as those of
  power on (`:467`), so a release puts back its own values, where the comments at `:49`
  and `:61` speak of a window and of a limit disabled at power on;
* without a usable maximum a release disables the limit, also one found enabled;
* on a package locked by the firmware a release leaves the state at its maximum;
* a reading right after the counter went round reports the power before it.

## Proofs

Each theorem but `OwnDevicesArePolled` is about a property that a run checks on a small instance; the proof is for
every value of the constants that satisfies the named assumptions. TLC evaluates the
assumptions on the instances of the runs.

**A device and its list** (`CdevArbitrationProofs`; `DeviceAssumption`,
`WidthAssumption`, and `RequestAssumption`: one request per zone and trip, as
`check_duplicate` sees to). For every device, every set of trips, every width of `int`
and every list:

* `TypeCorrect`: `TypeOK`; the exponent stays within `default_max_exponent`;
* `HoldsAreUnique`: `OneHoldPerTrip`;
* `HoldsAreFaithful`: `HoldsAreRequests`;
* `IdleDeactivated`: `IdleIsDeactivated`.

The inductive invariant `IndInv` is the conjunction of the four. They need each
other: a new entry differs from all others because every entry is the request of
some trip and a trip's request is determined by its zone and number. The lemma
`SortPermutes` says that sorting by any integer keys is a
permutation: the rank of an element, the number of elements that come before it,
is a bijection. All that `thd_cdev_set_state` does to the list is to append, to
sort and to drop the last entry, and each keeps the invariant; the rest of the
function is shown to leave the list alone (`SameHold`).

**The range** (`CdevRangeProofs`, `RangeAssumption`). `StaysInRange`: `StateInRange`,
for devices that count up and those that count down. The assumption asks of the
configuration only what the code does not check: that steps without `inc_val`, and the
first step of a series, fit in an `int`, and that the configured targets and limits are
states. The invariant `InSpan` adds the state the hardware reports and, from the second
step of a series on, the base of the series; before that the base may be left over from
anything. The proof is that each way out of the controller ends in a clamp that has seen
both ends of the range.

`SeriesNeverTurnsBack`: the action property `ActivationNeverWeakens`, for trips that leave
the state to the exponential controller (`PlainTrips`, MAX trips included) when states,
their distance and the step fit in an `int` (`FitsInt`). The invariant `OnSeries` says that
from the second step of a series on the device is at its maximum or exactly where the
series puts it, computed without wrap-around. The next step doubles a distance that fits in
an `int`; if that wraps, it wraps behind the base of the series, which the code's check
notices (`NoHiddenWrap`). `PlainTrips` excludes a MAX trip on a device of the base class
that counts downwards: there `set_curr_state_raw` turns the maximum into the minimum.

**Targets** (`CdevTargetsProofs`, `TargetsAssumption`, `SteppedAssumption`):

* `LastIsMostRestrictive`: `MostRestrictiveLast`;
* `ReleasedAtOnce`: the action property `ReleasedWithLastHold`;
* `ImplementsSharedDevice`: the refinement `DeviceIsShared`.

The strengthening `TargetInv` is that the list is sorted and the state is one of the
device. `SortByTargetSorts` shows that sorting sorts, so the last entry has the level its
holders need (`NeedIsLast`). The refinement mapping forgets the order of the list, the
debounce and the clock. One lemma per call (`ActivateEffect`, `DeactivateEffect`,
`LetGoKeeps`) says what becomes of the set of holders and of the state; `StepEffect`
collects them and `SharedStep` matches each outcome with an action of `SharedDevice` or
a stutter.

**Zones** (`ZoneProofs`, `ZoneControlProofs`; `DeviceAssumption`, `OffsetAssumption` and
`ZoneAssumption`: types of the configuration, and that polling trips come from
`sort_and_update_poll_trip` only). For any number of zones, sensors, trips,
bindings and devices, through every order of readings, uevents, preference changes, moved
trips, switched zones and suspends:

* `SequentialTripsStayOrdered`: `SequentialOrder`, if no other trip uses the devices of a
  sequential trip and each has more than one state (`SequentialTripsOwnDevices`);
* `OwnDevicesArePolled`: `OwnThrottledIsPolled`, in every configuration. It is what
  remains of `ThrottledIsPolled` where trips share devices and are moved: a device that one
  trip has to itself is in use only while its zone is polled, if that trip does not lie, and
  cannot be moved, below the polling trips (`PolledFor`). Devices that other trips share,
  other trips moved below the threshold and what happens in other zones make no
  difference to it.

`MCZones` assumes the hypothesis of the first of the instance TLC checks, and names the devices
the second is about there. Small variations of that instance, not kept as runs, show what is needed:

* `SequentialOrder` fails when another trip uses a device of the sequential one, and when the
  second device of the trip has one state only, since such a device is never `in_min_state`;
* `ThrottledIsPolled` fails when two zones share a device, when a device has one state only,
  when a trip is moved below the polling trip, and when the lowest trip is below the offset:
  the polling threshold is an `unsigned int`, wraps, and lies above the other trips.

Two trips of one zone that share a device are in the instance: there `ThrottledIsPolled` holds
of the shared device as well, which the theorem does not say (`Owned` below needs one owner).
What trips do that share a device is the subject of `CdevArbitration`.

The inductive invariant `IInv` says (`Sound`) that the trips are those the zone started with
but for switches, counters, targets and a moved temperature (`Shape`); that the list of a
device with one owner holds at most the entry of that owner (`Owned`), since only then does
letting go bring the device to its minimum; that the devices of every sequential trip are in
order; and that a device `PolledFor` names is idle or its zone polled (`Polled`). The argument:

* a device: one activation with at most the caller's entry leaves it held by the caller, one
  deactivation or reset leaves it with nothing held or in use;
* a trip: the loops over the bindings stop where the code breaks out, so a device is started
  only when those before it are at their maximum and slowed only when those behind it are idle;
* a zone: a reading at or above a polling trip reaches that trip after the trips that act on
  it, and the polling trip goes on (`HotBefore`, `Passing`); a reading below it changes no
  device of a trip above it except by letting go, and the zone is reset when a polling trip
  goes off (`ResetPolls`);
* the pass over the zones: a visit changes only the devices and trips of its own zone
  (`VisitKeeps`), time and a moved trip change none (`LaterSound`, `MoveSound`).

`ZoneProofs` assumes of the sort of bindings and trips that it rearranges what it is given
(`Sorting`); `SortingRearranges` at the end of `ZoneControlProofs` discharges that.

**The power meter and the RAPL device** (`PowerProofs`; `GapAssumption`: the counter is
read at least once in each half of its range; `PlatformAssumption`: types only):

* `EnergyIsAccounted`: `EnergyAccounted`, and `PowerPlausible`: `PowerIsPlausible`,
  from `MeterInv`: the counter is what the meter last saw plus at most what the package
  can use in the time since, in the same round or in the next one, and `half_way` says
  in which half the meter last saw it;
* `FoundRestored`: `FoundIsRestored`, and `MaximumAlwaysHolds`: `MaximumHolds`,
  from `DeviceInv`, which ties the registers to what power on or `update()` left while the
  device is not constrained, and `Within`: the limit in the register is neither above the state of the
  device nor above its maximum.

**The process** (`DaemonProofs`):

* `PreferenceIsInForce`: `PreferenceInForce`, and `PoliciesAreRestored`:
  `PoliciesRestored`, for any number of zones, calls, crashes and restarts, with
  `Alone`: one process at a time, as the lock file intends. `SoloInv` says that the engine
  acts on what the file holds, has a `PREF_CHANGED` to read or was not told (`Informed`), and
  that the first take-over recorded what was found (`Kept`), whatever later ones append
  behind it; between giving up and freeing, a thread that does not read cannot take over.
  Two processes would write to the same file and the same policies, so `Alone` is needed.

**The engine loop** (`EngineLoopProofs`; `SensorAssumption`, `ConfigAssumption`,
`PipeAssumption`: any sequence of sensors, any interval, any number of pages):

* `MasksAlwaysCatchUp`: `MasksCatchUp`;
* `AlwaysPolledEverySecond`: `PolledEverySecond`.

Until a write is cut off, the pieces in the pipe are whole messages (`Whole`) and a
reader takes them out in the order they were sent: page boundaries do not show. That is
shown first, for `send_message` and `Unread`. What the messages will make of a mask
(`Outcome`) is then independent of the pages, and the masks are in step with the polling
trips (`InStep`). The timeout needs more: both messages of a switch are sent
together (`Paired`), the two masks agree between two pairs, and within a pair the
timeout is still right for the sensors that remain (`Timed`). A pass over the zones
keeps this sensor by sensor.

**Induction over data.** The library's induction theorems cannot be used by the provers at
hand. Where a loop of the code has no bound (the passes over zones, sensors, trips and bindings,
the words of a pipe) the loop is a recursive function over `0 .. n`, and the proof goes by the least
counterexample: the smallest number for which a statement about the loop fails
(`LeastNatural`) has a predecessor for which it holds. `LoopInduction` of `ZoneProofs` puts
this once for all loops, with the rounds already done as a set; that a recursive function
satisfies its own equations is shown the same way, once for each loop (`BoundLoop`,
`ResetZoneLoop` and the like).

Not proved, only model-checked:

* liveness and what needs `ENABLED`: `HotTripServed`, `HoldsGivenUp`, `HotReachesMax`,
  `HotIsPolled`, `TerminationCompletes` and the like;
* devices that several trips of zones share, and the count of critical readings (`ShutdownIsEarned`),
  which `ZoneCritical` keeps beside the zones with a fold over what each sensor shows;
* the adaptive engine (`TripsAreTold`, `TablesInForce`, `LimitInRange`): its handlers are
  loops over targets, conditions and table rows, written with the folds of the community
  modules; the folds take an operator, which the provers cannot instantiate;
* start-up (`DecodedAsWritten`, `RelationsBound`, `IdsIdentify`): they say what
  recursive operators compute.

## Not modelled

Input or output without control of its own: sysfs helpers, option parsing, platform
detection, the feature file, the XML library, the LZMA decoder (`Vault` takes the
decompressed payload), logging and dumps. PID arithmetic is a choice among its
clamped results; the weighted sum of a virtual sensor is floating point.
`android_main.cpp` is not part of the build, `thd_cpu_default_binding.cpp` is
compiled out.

Of the loop, `EngineLoop` leaves out the calls to `update_engine_state` (see
`Adaptive`), `workarounds` and `rapl_measure_power` (see `Power`), and the take-over of
zones in `process_pref_change` (see `Daemon`). `Adaptive` takes the preference as
fixed and the RAPL device as one of known range that the firmware has not locked
(see `Power` for the others). `Cdev` starts a series from `curr_state`; the RAPL
device that starts from its measured power is in `Power`. `Power` leaves out minimum and maximum power, total
energy and the domains other than the package.

Assumed: memory allocation succeeds; processor and platform are supported; D-Bus calls are allowed by the feature file; a file that tells the
daemon to ignore the adaptive tables counts as a missing vault; calls that change the
engine's vectors are single steps, though `proc_message` reads them without the lock.
