-------------------------------- MODULE Zone --------------------------------
(***************************************************************************)
(* Trip points and thermal zones (thd_trip_point.cpp, thd_zone.cpp) as     *)
(* operators on a record w, the part of the daemon that one zone works on: *)
(*                                                                         *)
(*   cdevs      device name -> cooling-device object (record c of Cdev)    *)
(*   trips      trip_points of the zone, in the order of the vector        *)
(*   threshold  sensor -> temperature at which the kernel notifies         *)
(*   sent       messages written to the engine's pipe, in order            *)
(*   power      "on", "off" or "mem": what the zone asked of the machine   *)
(*                                                                         *)
(* A trip point is a record of index, type, temp, hyst, sensor,            *)
(* control_type, trip_on, poll_on, crit_trip_count, depend and cdevs, the  *)
(* sequence of its bindings: cdev, influence, sampling_priod, since_op     *)
(* (seconds since last_op_time, saturating), target_state_valid,           *)
(* target_state, min_max_valid, min_state, max_state.                      *)
(***************************************************************************)
EXTENDS Cdev, FiniteSetsExt, Functions

CONSTANTS
    Devices,                     \* device name -> record d of Cdev
    AsyncSensors,                \* sensors that are async_capable
    consecutive_critical_events, \* 4 in the code
    ignore_critical,             \* the --ignore-critical-trip option
    def_async_trip_offset,       \* 5000 in the code (milli-degrees)
    def_async_trip_offset_pct    \* 10 in the code

DEFAULT_SENSOR_ID == 65535

NoDepend == [cdev |-> "none"]

-----------------------------------------------------------------------------
(* Bindings of a trip to cooling devices.                                  *)

\* trip_cdev_add: one binding per device, most influence first.
trip_cdev_add(bindings, b) ==
    LET same  == {i \in DOMAIN bindings : bindings[i].cdev = b.cdev}
        added == IF same = {} THEN Append(bindings, b)
                 ELSE [bindings EXCEPT ![Min(same)].influence = b.influence]
    IN  SortByKey(added, [i \in DOMAIN added |-> -added[i].influence])

\* A trip point with the bindings of the configuration.
Bound(t) ==
    LET loop[k \in 0 .. Len(t.cdevs)] ==
            IF k = 0 THEN << >> ELSE trip_cdev_add(loop[k - 1], t.cdevs[k])
    IN  [t EXCEPT !.cdevs = loop[Len(t.cdevs)]]

\* A binding made without a target gets the minimum once it is used.
Resolved(d, b) ==
    [b EXCEPT !.target_state = IF @ = TRIP_PT_INVALID_TARGET_STATE THEN d.min_state ELSE @]

\* The arguments with which trip t of zone z calls thd_cdev_set_state.
RequestFor(z, t, b) ==
    LET d == Devices[b.cdev]
    IN  [zone |-> z, trip |-> t.index, hard_target |-> t.type = "MAX",
         target_state_valid |-> b.target_state_valid,
         target_value |-> map_target_state(d, b.target_state_valid, b.target_state),
         pid |-> FALSE, min_max_valid |-> b.min_max_valid,
         min_state |-> b.min_state, max_state |-> b.max_state, force |-> FALSE]

SetBinding(w, i, k, b) == [w EXCEPT !.trips[i].cdevs[k] = b]

SetCdev(w, n, c) == [w EXCEPT !.cdevs[n] = c]

\* A binding with a sampling period notes when it acted.
Timed(b) == [b EXCEPT !.since_op = IF b.sampling_priod # 0 THEN 0 ELSE @]

\* Mutant: a sequential trip activates all its devices.
ActivateBindingAll(z, i, acc, k) ==
    LET w == acc.w
        t == w.trips[i]
        b == t.cdevs[k]
        d == Devices[b.cdev]
        c == w.cdevs[b.cdev]
        r == RequestFor(z, t, Resolved(d, b))
    IN  IF acc.stop THEN acc
        ELSE IF b.sampling_priod # 0 /\ b.since_op < b.sampling_priod
        THEN [w |-> w, stop |-> TRUE]
        ELSE IF in_max_state(d, c)
        THEN [w |-> SetBinding(w, i, k, Timed(b)), stop |-> FALSE]
        ELSE [w |-> SetCdev(SetBinding(w, i, k, Resolved(d, Timed(b))), b.cdev,
                            ActivateState(d, c, r, d.min_state)),
              stop |-> FALSE]

\* Mutant: the sampling period must be exceeded, not reached.
ActivateBindingLate(z, i, acc, k) ==
    LET w == acc.w
        t == w.trips[i]
        b == t.cdevs[k]
        d == Devices[b.cdev]
        c == w.cdevs[b.cdev]
        r == RequestFor(z, t, Resolved(d, b))
    IN  IF acc.stop THEN acc
        ELSE IF b.sampling_priod # 0 /\ b.since_op <= b.sampling_priod
        THEN [w |-> w, stop |-> TRUE]
        ELSE IF in_max_state(d, c)
        THEN [w |-> SetBinding(w, i, k, Timed(b)), stop |-> FALSE]
        ELSE [w |-> SetCdev(SetBinding(w, i, k, Resolved(d, Timed(b))), b.cdev,
                            ActivateState(d, c, r, d.min_state)),
              stop |-> t.control_type = "SEQUENTIAL"]

\* One round of the activation loop; stop is the loop's break.
ActivateBinding(z, i, acc, k) ==
    LET w == acc.w
        t == w.trips[i]
        b == t.cdevs[k]
        d == Devices[b.cdev]
        c == w.cdevs[b.cdev]
        r == RequestFor(z, t, Resolved(d, b))
    IN  IF acc.stop THEN acc
        ELSE IF b.sampling_priod # 0 /\ b.since_op < b.sampling_priod
        THEN [w |-> w, stop |-> TRUE]
        ELSE IF in_max_state(d, c)
        THEN [w |-> SetBinding(w, i, k, Timed(b)), stop |-> FALSE]
        ELSE [w |-> SetCdev(SetBinding(w, i, k, Resolved(d, Timed(b))), b.cdev,
                            ActivateState(d, c, r, d.min_state)),
              stop |-> t.control_type = "SEQUENTIAL"]

\* One round of the deactivation loop.
DeactivateBinding(z, i, acc, k) ==
    LET w == acc.w
        t == w.trips[i]
        b == t.cdevs[k]
        d == Devices[b.cdev]
        c == w.cdevs[b.cdev]
        r == RequestFor(z, t, Resolved(d, b))
    IN  IF acc.stop \/ in_min_state(d, c) THEN acc
        ELSE [w |-> SetCdev(SetBinding(w, i, k, Resolved(d, b)), b.cdev,
                            DeactivateState(d, c, r, d.min_state)),
              stop |-> t.control_type = "SEQUENTIAL"]

ActivateTrip(w, z, i) ==
    LET n == Len(w.trips[i].cdevs)
        loop[k \in 0 .. n] == IF k = 0 THEN [w |-> w, stop |-> FALSE]
                              ELSE ActivateBinding(z, i, loop[k - 1], k)
    IN  loop[n].w

\* From the last binding to the first.
DeactivateTrip(w, z, i) ==
    LET n == Len(w.trips[i].cdevs)
        loop[k \in 0 .. n] == IF k = 0 THEN [w |-> w, stop |-> FALSE]
                              ELSE DeactivateBinding(z, i, loop[k - 1], n + 1 - k)
    IN  loop[n].w

\* One round of the loop that resets the devices of a trip.
ResetBinding(z, i, w, k, force) ==
    LET t == w.trips[i]
        b == t.cdevs[k]
        d == Devices[b.cdev]
        c == w.cdevs[b.cdev]
    IN  IF ~force /\ in_min_state(d, c) THEN w
        ELSE SetCdev(w, b.cdev, thd_cdev_set_min_state(d, c, RequestFor(z, t, b)))

\* From the last binding to the first.
thd_trip_cdev_state_reset(w, z, i, force) ==
    LET n == Len(w.trips[i].cdevs)
        loop[k \in 0 .. n] == IF k = 0 THEN w
                              ELSE ResetBinding(z, i, loop[k - 1], n + 1 - k, force)
    IN  loop[n]

-----------------------------------------------------------------------------
(* thd_trip_point_check.                                                   *)

\* The state the trip depends on; only asked when the temperature is reached.
DependencyHolds(w, t) ==
    LET state == get_curr_state(Devices[t.depend.cdev], w.cdevs[t.depend.cdev])
    IN  CASE t.depend.rel = "=="  -> state = t.depend.state
          [] t.depend.rel = ">"   -> state > t.depend.state
          [] t.depend.rel = "<"   -> state < t.depend.state
          [] t.depend.rel = "<="  -> state <= t.depend.state
          [] t.depend.rel = ">="  -> state >= t.depend.state

\* Mutant: a cool reading does not restart the count.
CheckCriticalSticky(w, i, temp) ==
    LET t == w.trips[i]
    IN  IF ignore_critical \/ temp < t.temp
        THEN w
        ELSE IF t.crit_trip_count < consecutive_critical_events
        THEN [w EXCEPT !.trips[i].crit_trip_count = t.crit_trip_count + 1]
        ELSE [w EXCEPT !.trips[i].crit_trip_count = 0,
                       !.power = IF t.type = "CRITICAL" THEN "off" ELSE "mem"]

\* Mutant: the temperature itself does not count.
CheckCriticalAbove(w, i, temp) ==
    LET t == w.trips[i]
    IN  IF ignore_critical \/ temp <= t.temp
        THEN [w EXCEPT !.trips[i].crit_trip_count = 0]
        ELSE IF t.crit_trip_count < consecutive_critical_events
        THEN [w EXCEPT !.trips[i].crit_trip_count = t.crit_trip_count + 1]
        ELSE [w EXCEPT !.trips[i].crit_trip_count = 0,
                       !.power = IF t.type = "CRITICAL" THEN "off" ELSE "mem"]

\* A CRITICAL or HOT trip acts on the last of several readings in a row.
CheckCritical(w, i, temp) ==
    LET t == w.trips[i]
    IN  IF ignore_critical \/ temp < t.temp
        THEN [w EXCEPT !.trips[i].crit_trip_count = 0]
        ELSE IF t.crit_trip_count < consecutive_critical_events
        THEN [w EXCEPT !.trips[i].crit_trip_count = t.crit_trip_count + 1]
        ELSE [w EXCEPT !.trips[i].crit_trip_count = 0,
                       !.power = IF t.type = "CRITICAL" THEN "off" ELSE "mem"]

set_threshold(w, s, temp) ==
    IF s \in AsyncSensors THEN [w EXCEPT !.threshold[s] = temp] ELSE w

Send(w, ids, s) == [w EXCEPT !.sent = @ \o [k \in DOMAIN ids |-> <<ids[k], s>>]]

\* A POLLING trip switches polling on and off as its sensor crosses it.
CheckPolling(w, i, temp) ==
    LET t == w.trips[i]
    IN  IF ~t.poll_on /\ temp >= t.temp
        THEN set_threshold(Send([w EXCEPT !.trips[i].poll_on = TRUE],
                                <<"POLL_ENABLE", "FAST_POLL_ENABLE">>, t.sensor),
                           t.sensor, t.temp)
        ELSE IF t.poll_on /\ temp < t.temp
        THEN set_threshold(Send([w EXCEPT !.trips[i].poll_on = FALSE],
                                <<"POLL_DISABLE", "FAST_POLL_DISABLE">>, t.sensor),
                           t.sensor, t.temp)
        ELSE w

\* Trip types a preference uses.
Applicable(t, pref) ==
    \/ pref = "PERFORMANCE" /\ t.type \in {"ACTIVE", "MAX"}
    \/ pref = "ENERGY_CONSERVE" /\ t.type \in {"PASSIVE", "MAX"}

CheckControl(w, z, i, temp) ==
    LET t == w.trips[i]
    IN  IF temp >= t.temp
        THEN ActivateTrip([w EXCEPT !.trips[i].trip_on = TRUE], z, i)
        ELSE IF IF t.trip_on THEN temp + t.hyst < t.temp ELSE temp < t.temp
        THEN DeactivateTrip([w EXCEPT !.trips[i].trip_on = FALSE], z, i)
        ELSE w

thd_trip_point_check(w, z, i, id, temp, pref) ==
    LET t == w.trips[i]
    IN  IF \/ t.depend # NoDepend /\ temp >= t.temp /\ ~DependencyHolds(w, t)
           \/ t.sensor \notin {DEFAULT_SENSOR_ID, id}
        THEN w
        ELSE IF t.type \in {"CRITICAL", "HOT"} THEN CheckCritical(w, i, temp)
        ELSE IF t.type = "POLLING" THEN CheckPolling(w, i, temp)
        ELSE IF Applicable(t, pref) THEN CheckControl(w, z, i, temp)
        ELSE w

\* The check of a polling trip sets *reset when it switches polling off.
Resets(w, v, i) ==
    w.trips[i].type = "POLLING" /\ w.trips[i].poll_on /\ ~v.trips[i].poll_on

-----------------------------------------------------------------------------
(* The zone.                                                               *)

\* Mutant: the devices stay as they are.
zone_resetNone(w, z, force) == w

\* From the last trip to the first.
zone_reset(w, z, force) ==
    LET n == Len(w.trips)
        loop[i \in 0 .. n] == IF i = 0 THEN w
                              ELSE thd_trip_cdev_state_reset(loop[i - 1], z, n + 1 - i, force)
    IN  loop[n]

\* What follows the check of trip i, which turned w into v.
AfterCheck(w, v, z, i) ==
    IF Resets(w, v, i) THEN [w |-> zone_reset(v, z, FALSE), stop |-> TRUE]
    ELSE [w |-> v, stop |-> FALSE]

\* One round of the loop over the trips; stop is its break.
CheckTrip(acc, z, i, id, temp, pref) ==
    IF acc.stop THEN acc
    ELSE AfterCheck(acc.w, thd_trip_point_check(acc.w, z, i, id, temp, pref), z, i)

\* Trips in order until a polling trip asks for a reset.
thermal_zone_temp_change(w, z, id, temp, pref) ==
    LET n == Len(w.trips)
        loop[i \in 0 .. n] == IF i = 0 THEN [w |-> w, stop |-> FALSE]
                              ELSE CheckTrip(loop[i - 1], z, i, id, temp, pref)
    IN  loop[n].w

\* The zone is shown what each of its sensors reads.
ReadSensors(w, z, sensors, temp, pref) ==
    LET n == Len(sensors)
        loop[k \in 0 .. n] ==
            IF k = 0 THEN w
            ELSE thermal_zone_temp_change(loop[k - 1], z, sensors[k], temp[sensors[k]], pref)
    IN  loop[n]

\* read_zone_temp of a zone whose sensors are independent, or correlated.
read_zone_temp(w, z, sensors, corelated, temp, pref) ==
    LET hottest == Max({0} \cup {temp[sensors[k]] : k \in DOMAIN sensors})
    IN  IF ~corelated THEN ReadSensors(w, z, sensors, temp, pref)
        ELSE IF hottest # 0
        THEN thermal_zone_temp_change(w, z, sensors[1], hottest, pref)
        ELSE w

\* A reading of 0 for every sensor, then the real readings.
update_zone_preference(w, z, sensors, temp, pref) ==
    ReadSensors(ReadSensors(w, z, sensors, [s \in Range(sensors) |-> 0], pref),
                z, sensors, temp, pref)

\* The polling trip of one sensor of a zone.
PollingTrip(n, temp, s) ==
    [index |-> n, type |-> "POLLING", temp |-> temp, hyst |-> 0, sensor |-> s,
     control_type |-> "PARALLEL", trip_on |-> FALSE, poll_on |-> FALSE,
     crit_trip_count |-> 0, depend |-> NoDepend, cdevs |-> << >>]

\* Drops the first polling trip, sorts the others by temperature and adds
\* polling trips below the lowest, one per sensor.
sort_and_update_poll_trip(w, sensors) ==
    LET polling == {i \in DOMAIN w.trips : w.trips[i].type = "POLLING"}
        first   == Min(polling)
        kept    == IF polling = {} THEN w.trips
                   ELSE SubSeq(w.trips, 1, first - 1) \o SubSeq(w.trips, first + 1, Len(w.trips))
        sorted  == SortByKey(kept, [i \in DOMAIN kept |-> kept[i].temp])
        lowest  == sorted[1].temp
        offset  == Larger((lowest * def_async_trip_offset_pct) \div 100,
                          def_async_trip_offset)
        temp    == (lowest - offset) % 2 ^ IntBits
        polls   == [k \in DOMAIN sensors |-> PollingTrip(Len(kept) + k - 1, temp, sensors[k])]
    IN  IF kept = << >> THEN [w EXCEPT !.trips = kept]
        ELSE [w EXCEPT !.trips = sorted \o polls,
                       !.threshold = [s \in DOMAIN @ |->
                           IF s \in AsyncSensors \cap Range(sensors) THEN temp ELSE @[s]]]
=============================================================================
