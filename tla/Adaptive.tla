------------------------------ MODULE Adaptive ------------------------------
(***************************************************************************)
(* The adaptive engine (thd_engine_adaptive.cpp): it evaluates the         *)
(* conditions of the data vault every poll interval and, when another      *)
(* target matches, rebuilds the trip points of the zones from the target's *)
(* tables and changes the limits of the power device.  The zones and the   *)
(* devices they share keep working between two evaluations.                *)
(*                                                                         *)
(* The handlers are operators on a record e, the engine: devices, cdevs,   *)
(* trips, active (zones), installed (int3400_installed) and exited.        *)
(***************************************************************************)
EXTENDS Gddv

CONSTANTS
    IntBits, default_max_exponent, AsyncSensors, consecutive_critical_events,
    ignore_critical, def_async_trip_offset, def_async_trip_offset_pct,
    SensorNames,    \* sensor -> its name
    Zones,          \* sequence of zones: name, sensors, trips at start-up
    Devices,        \* device -> record d of Cdev, with names (of search_cdev)
    Envs,           \* what the sources of the conditions can show
    Temps,          \* sensor -> what it can show, in milli-degrees
    debug_mode

VARIABLES
    devices,                 \* device -> record d of Cdev, as now limited
    cdevs,                   \* device -> device object
    trips,                   \* trip_points of each zone
    zone_active,             \* the zones that are active
    temp, env,               \* what sensors and sources show
    gddv,                    \* record g of Gddv
    current_matched_target,
    fallback_id,             \* position in targets, 0 for none
    policy_active,
    phase,                   \* "init", "run", "failed" or "exited"
    round                    \* "start", then what the main loop did not do last

zoneVars == <<devices, cdevs, trips, zone_active>>
policyVars == <<gddv, current_matched_target, fallback_id, policy_active>>
vars == <<devices, cdevs, trips, zone_active, temp, env, gddv,
          current_matched_target, fallback_id, policy_active, phase, round>>

\* The zone and device operators, for devices with limits devs.
Z(devs) == INSTANCE Zone WITH Devices <- devs

Sensors == DOMAIN SensorNames

preference == "ENERGY_CONSERVE"

TRIP_PT_INVALID_TARGET_STATE == Z(Devices)!TRIP_PT_INVALID_TARGET_STATE

itmt_hyst == 2000

DEFAULT_SAMPLE_TIME_SEC == 5

Engine == [devices |-> devices, cdevs |-> cdevs, trips |-> trips, active |-> zone_active,
           installed |-> FALSE, exited |-> FALSE]

\* The record Zone's operators work on, for zone z.
World(e, z) == [cdevs |-> e.cdevs, trips |-> e.trips[z], threshold |-> [s \in Sensors |-> 0],
                sent |-> << >>, power |-> "on"]

WithZone(e, z, w) == [e EXCEPT !.cdevs = w.cdevs, !.trips[z] = w.trips]

-----------------------------------------------------------------------------
(* Removing and installing trip points.                                    *)

\* zone_reset(1), trip_delete_all, set_zone_inactive.
ClearZone(e, z) ==
    [WithZone(e, z, Z(e.devices)!zone_reset(World(e, z), z, TRUE)) EXCEPT
        !.trips[z] = << >>, !.active = @ \ {z}]

ClearZones(e, kept) ==
    FoldLeftDomain(LAMBDA f, z : IF Zones[z].name \in kept THEN f ELSE ClearZone(f, z),
                   e, Zones)

PlotZones == {"rapl_pkg_power", "power_floor"}

OtherName(name) == CASE name = "B0D4" -> "TCPU" [] name = "TCPU" -> "B0D4" [] OTHER -> name

\* The zones of that name or, failing that, of the processor's other name.
search_zone(name) ==
    LET Named(n) == {z \in DOMAIN Zones : Zones[z].name = n}
    IN  IF Named(name) # {} THEN Named(name) ELSE Named(OtherName(name))

search_sensor(name) == {s \in Sensors : SensorNames[s] = name}

search_cdev(name) == {n \in DOMAIN Devices : name \in Devices[n].names}

\* A cooling device may also be listed under the processor's other name.
search_cdev_or_B0D4(name) ==
    IF search_cdev(name) = {} /\ name = "TCPU" THEN search_cdev("B0D4") ELSE search_cdev(name)

Binding(name, sampling, valid, target) ==
    [cdev |-> name, influence |-> 0, sampling_priod |-> sampling, since_op |-> sampling,
     target_state_valid |-> valid, target_state |-> target,
     min_max_valid |-> FALSE, min_state |-> 0, max_state |-> 0]

PassiveTrip(index, at, hyst, sensor, binding) ==
    [index |-> index, type |-> "PASSIVE", temp |-> at, hyst |-> hyst, sensor |-> sensor,
     control_type |-> "SEQUENTIAL", trip_on |-> FALSE, poll_on |-> FALSE,
     crit_trip_count |-> 0, depend |-> Z(Devices)!NoDepend, cdevs |-> <<binding>>]

\* add_trip with force set.
add_trip(e, z, trip) ==
    WithZone(e, z, Z(e.devices)!sort_and_update_poll_trip(
        [World(e, z) EXCEPT !.trips = Append(@, trip)], Zones[z].sensors))

\* Mutant: the trips already there are not counted.
InstallTripFirst(e, z, at, hyst, binding) ==
    [add_trip(e, z, PassiveTrip(0, at, hyst, Min(search_sensor(Zones[z].name)), binding))
        EXCEPT !.active = @ \cup {z}]

\* The new trip of zone z, which the row puts under control of device n.
InstallTrip(e, z, at, hyst, binding) ==
    [add_trip(e, z, PassiveTrip(Len(e.trips[z]), at, hyst, Min(search_sensor(Zones[z].name)), binding))
        EXCEPT !.active = @ \cup {z}]

DECI_KELVIN_TO_CELSIUS(t) ==
    IF t >= 2732 THEN (t - 2732 + 5) \div 10 ELSE -((2732 - t + 5) \div 10)

\* "MAX", "MIN" or a number of milliwatts.
ParseLimit(limit) ==
    CASE limit = <<"MAX">> -> TRIP_PT_INVALID_TARGET_STATE
      [] limit \in {<<"MIN">>, << >>} -> 0
      [] OTHER -> limit[2] * 1000

\* install_passive: a row without zone, device or sensor is skipped.
install_passive(e, row) ==
    LET zs    == search_zone(row.target)
        ds    == search_cdev_or_B0D4(row.source)
        z     == Min(zs)
        state == ParseLimit(row.limit)
    IN  IF zs = {} \/ ds = {} THEN e
        ELSE IF search_sensor(Zones[z].name) = {} THEN e
        ELSE InstallTrip(e, z, DECI_KELVIN_TO_CELSIUS(row.temp) * 1000, 0,
                         Binding(CHOOSE n \in ds : TRUE, row.sample_period \div 10,
                                 state # 0, state))

\* install_itmt: the unthrottled power is the trip's min_state.
install_itmt(e, row) ==
    LET zs == search_zone(row.target)
        ds == search_cdev("rapl_controller_mmio")
        z  == Min(zs)
    IN  IF zs = {} \/ ds = {} THEN e
        ELSE IF search_sensor(Zones[z].name) = {} THEN e
        ELSE InstallTrip(e, z, (row.trip_point - 2732) * 100, itmt_hyst,
                         [Binding(CHOOSE n \in ds : TRUE, DEFAULT_SAMPLE_TIME_SEC, FALSE, 0)
                             EXCEPT !.min_max_valid = TRUE,
                                    !.min_state = ParseLimit(row.pl1_max),
                                    !.max_state = ParseLimit(row.pl1_min)])

-----------------------------------------------------------------------------
(* psvt_consolidate.                                                       *)

Targeted(t) == {k \in DOMAIN t.cdevs : t.cdevs[k].target_state_valid}

is_target_valid(t) == Targeted(t) # {}

TargetState(t) == t.cdevs[Min(Targeted(t))].target_state

\* The halves of an int, rounded towards 0.
Halved(x) == IF x >= 0 THEN x \div 2 ELSE -((-x) \div 2)

\* set_first_target_invalid, and one degree more.
Untarget(t) == [t EXCEPT !.cdevs[1].target_state_valid = FALSE, !.temp = @ + 1000]

\* Half way to the next trip, in temperature and in state.
HalfWay(e, t, next) ==
    [t EXCEPT !.cdevs[1].target_state_valid = TRUE,
              !.cdevs[1].target_state =
                  Halved(Z(e.devices)!Wrap(e.devices[next.cdevs[1].cdev].min_state
                                             + TargetState(next))),
              !.temp = (next.temp + @) \div 2]

\* A trip that asks for full power, j-th of its zone.
ConsolidateMax(e, ts, j) ==
    LET t    == ts[j]
        next == ts[j + 1]
    IN  IF j = Len(ts) \/ next.cdevs = << >> THEN Untarget(t)
        ELSE IF /\ t.sensor = next.sensor
                /\ t.cdevs[1].cdev = next.cdevs[1].cdev
                /\ is_target_valid(next)
        THEN HalfWay(e, t, next)
        ELSE Untarget(t)

ConsolidateTrip(e, ts, j) ==
    IF is_target_valid(ts[j]) /\ TargetState(ts[j]) = TRIP_PT_INVALID_TARGET_STATE
    THEN [ts EXCEPT ![j] = ConsolidateMax(e, ts, j)] ELSE ts

\* The only trip of a zone beside the polling trip asks for a state: another
\* trip, one degree higher, goes on from there.
AddTripAbove(e, z, t) ==
    add_trip(e, z, PassiveTrip(1, t.temp + 1000, 0, t.sensor,
                       Binding(t.cdevs[1].cdev, 0, FALSE, TRIP_PT_INVALID_TARGET_STATE)))

ConsolidateZone(e, z) ==
    IF Len(e.trips[z]) = 2 /\ is_target_valid(e.trips[z][1])
    THEN AddTripAbove(e, z, e.trips[z][1])
    ELSE [e EXCEPT !.trips[z] =
             FoldLeftDomain(LAMBDA ts, j : ConsolidateTrip(e, ts, j), @, @)]

psvt_consolidate(e) == FoldLeftDomain(ConsolidateZone, e, Zones)

-----------------------------------------------------------------------------
(* Targets.                                                                *)

InstallPsvt(e, rows) == FoldLeft(install_passive, e, rows)

InstallItmt(e, rows) == FoldLeft(install_itmt, e, rows)

\* Mutant: another table of the same target is wiped.
set_itmt_targetAlone(e, target) ==
    IF target.table \notin DOMAIN itmts THEN e
    ELSE [InstallItmt(ClearZones(e, IF debug_mode THEN PlotZones ELSE {}), itmts[target.table])
             EXCEPT !.installed = TRUE]

set_itmt_target(e, target) ==
    IF target.table \notin DOMAIN itmts THEN e
    ELSE [InstallItmt(IF e.installed THEN e
                      ELSE ClearZones(e, IF debug_mode THEN PlotZones ELSE {}),
                      itmts[target.table]) EXCEPT !.installed = TRUE]

set_psvt_target(e, target) ==
    [InstallPsvt(IF e.installed THEN e ELSE ClearZones(e, PlotZones),
                 psvts[target.table]) EXCEPT !.installed = TRUE]

\* Moves the first passive trip of the zone.
set_trip(e, target) ==
    LET zs      == {z \in DOMAIN Zones : Zones[z].name = target.participant}
        z       == Min(zs)
        passive == {i \in DOMAIN e.trips[z] : e.trips[z][i].type = "PASSIVE"}
    IN  IF zs = {} THEN e
        ELSE IF passive = {} THEN e
        ELSE [e EXCEPT !.trips[z][Min(passive)].temp = target.argument * 1000]

\* No zone left to control: the daemon exits, to be restarted without the
\* adaptive engine.
AfterInstall(e, target) ==
    IF e.active = {} THEN [e EXCEPT !.exited = TRUE]
    ELSE IF target.code = "PSV" THEN set_trip(e, target)
    ELSE e

set_int3400_target(e, target) ==
    IF target.code = "PSVT" /\ target.table \notin DOMAIN psvts THEN e
    ELSE AfterInstall(psvt_consolidate(
             IF target.code \in {"ITMT", "ITMT3"} THEN set_itmt_target(e, target)
             ELSE IF target.code = "PSVT" THEN set_psvt_target(e, target)
             ELSE e), target)

install_passive_default(e) ==
    IF find_def_psvt = "none" THEN ClearZones(e, {})
    ELSE psvt_consolidate(InstallPsvt(ClearZones(e, {}), psvts[find_def_psvt]))

\* PL1MAX: the new least restrictive state, never above the limit in force.
SetPl1Max(e, n, limit) ==
    LET d == [e.devices[n] EXCEPT !.min_state = limit]
        Lower(c, state) == IF c.curr_state > state THEN Z(Devices)!set_curr_state_raw(d, c, state)
                           ELSE c
    IN  [e EXCEPT !.devices[n] = d, !.cdevs[n] = Lower(Lower(@, @.hw), limit)]

\* PL1MIN: the new most restrictive state.
SetPl1Min(e, n, limit) ==
    LET d == [e.devices[n] EXCEPT !.max_state = limit]
    IN  [e EXCEPT !.devices[n] = d,
                  !.cdevs[n] = IF @.curr_state < limit THEN Z(Devices)!set_curr_state_raw(d, @, limit)
                               ELSE @]

\* Only RAPL devices obey.  The time window, the short-term limit and the TCC
\* offset do not take part in the control of temperatures.
set_adaptive_target(e, n, code, value) ==
    IF Devices[n].raw # "limit" THEN e
    ELSE CASE code = "PL1MAX" -> SetPl1Max(e, n, value)
           [] code = "PL1MIN" -> SetPl1Min(e, n, value)
           [] code = "PL1STEP" -> [e EXCEPT !.devices[n].inc_val = -value * 2,
                                            !.devices[n].dec_val = -value]
           [] code = "PL1PowerLimit" -> [e EXCEPT !.cdevs[n].hw = value]
           [] OTHER -> e

INT3400 == "IETM"

execute_target(e, target) ==
    LET ds == search_cdev_or_B0D4(target.participant)
    IN  IF e.exited THEN e
        ELSE IF (ds = {} /\ target.participant = INT3400) \/ target.code = "PSVT"
        THEN set_int3400_target(e, target)
        ELSE IF ~target.numeric \/ ds = {} THEN e
        ELSE set_adaptive_target(e, CHOOSE n \in ds : TRUE, target.code, target.argument * 1000)

\* All targets with that id, in the order of the data vault.
ExecuteTargets(e, id) ==
    FoldLeft(execute_target, e, SelectSeq(targets, LAMBDA t : t.target_id = id))

\* A target of its own tables, or the default table.
OrDefault(e) == IF e.installed \/ e.exited THEN e ELSE install_passive_default(e)

-----------------------------------------------------------------------------
(* Actions.                                                                *)

Installed(e) ==
    /\ devices' = e.devices
    /\ cdevs' = e.cdevs
    /\ trips' = e.trips
    /\ zone_active' = e.active

BootCdev(d) ==
    [curr_state |-> d.min_state, hw |-> d.min_state, curr_pow |-> 0,
     base_pow_state |-> 0, trend_increase |-> FALSE, last_state |-> 0,
     since |-> d.debounce_interval + 1, zone_trip_limits |-> << >>]

Init ==
    /\ devices = Devices
    /\ cdevs = [n \in DOMAIN Devices |-> BootCdev(Devices[n])]
    /\ trips = [z \in DOMAIN Zones |-> Zones[z].trips]
    /\ zone_active = DOMAIN Zones
    /\ temp \in {t \in [Sensors -> UNION {Temps[s] : s \in Sensors}] :
                     \A s \in Sensors : t[s] \in Temps[s]}
    /\ env \in Envs
    /\ gddv = InitialGddv
    /\ current_matched_target = -1
    /\ fallback_id = 0
    /\ policy_active = FALSE
    /\ phase = "init"
    /\ round = "start"

Drift(s) ==
    /\ \E t \in Temps[s] \ {temp[s]} : temp' = [temp EXCEPT ![s] = t]
    /\ UNCHANGED <<zoneVars, env, policyVars, phase, round>>

\* A source changes: the power supply, the lid, the power profile, the firmware.
EnvChange ==
    /\ \E v \in Envs \ {env} : env' = v
    /\ UNCHANGED <<zoneVars, temp, policyVars, phase, round>>

\* The conditions are evaluated; fallback chosen when some are not supported
\* and none matches.  ev is the result of the first evaluation.
StartWith(ev, first, fallback) ==
    /\ gddv' = ev.g
    /\ fallback_id' = fallback
    /\ Installed(IF ev.target = -1 THEN install_passive_default(first) ELSE first)
    /\ phase' = "run"

thd_engine_start ==
    /\ phase = "init"
    /\ round' = "read"
    /\ UNCHANGED <<temp, env, current_matched_target, policy_active>>
    /\ IF conditions = << >>
       THEN Installed(install_passive_default(Engine)) /\ phase' = "run" /\ UNCHANGED <<gddv, fallback_id>>
       ELSE LET Evaluated(g) == evaluate_conditions(g, env, temp)
            IN  IF verify_conditions \/ Evaluated(gddv).target # -1
                THEN StartWith(IF verify_conditions THEN Evaluated(gddv) ELSE Evaluated(Evaluated(gddv).g),
                               Engine, 0)
                ELSE IF find_agressive_target # 0
                THEN StartWith(Evaluated(Evaluated(gddv).g), Engine, find_agressive_target)
                ELSE IF find_def_psvt # "none"
                THEN StartWith(Evaluated(Evaluated(gddv).g), install_passive_default(Engine), 0)
                ELSE phase' = "failed" /\ gddv' = Evaluated(gddv).g /\ UNCHANGED <<zoneVars, fallback_id>>

\* The clocks of devices and bindings after one more poll interval.
CdevsLater == [n \in DOMAIN cdevs |-> Z(devices)!Elapse(devices[n], cdevs[n])]

TripsLater ==
    [z \in DOMAIN trips |-> [i \in DOMAIN trips[z] |->
        [trips[z][i] EXCEPT !.cdevs = [k \in DOMAIN @ |->
            [@[k] EXCEPT !.since_op = IF @ < trips[z][i].cdevs[k].sampling_priod THEN @ + 1 ELSE @]]]]]

ReadZone(e, z) ==
    IF z \notin e.active THEN e
    ELSE WithZone(e, z, Z(e.devices)!read_zone_temp(World(e, z), z, Zones[z].sensors, FALSE, temp, preference))

\* The main loop's poll() times out: every active zone is read.
read_zones ==
    /\ phase = "run"
    /\ Installed(FoldLeftDomain(ReadZone, [Engine EXCEPT !.cdevs = CdevsLater, !.trips = TripsLater], Zones))
    /\ gddv' = GddvElapse(gddv)
    /\ round' = "update"
    /\ UNCHANGED <<temp, env, current_matched_target, fallback_id, policy_active, phase>>

Switched(e) ==
    /\ Installed(e)
    /\ phase' = IF e.exited THEN "exited" ELSE phase

\* The target that matches now is ev.target; it replaces the last one.
SwitchTo(ev) ==
    /\ gddv' = ev.g
    /\ current_matched_target' = ev.target
    /\ IF ev.target = current_matched_target
       THEN UNCHANGED <<zoneVars, policy_active, phase>>
       ELSE IF ev.target = -1 /\ fallback_id # 0 /\ ~policy_active
       THEN /\ Switched(ExecuteTargets(Engine, targets[fallback_id].target_id))
            /\ policy_active' = TRUE
       ELSE /\ Switched(OrDefault(IF ev.target > 0 THEN ExecuteTargets(Engine, ev.target) ELSE Engine))
            /\ policy_active' = (policy_active \/ ev.target > 0)

\* Called every poll interval; without conditions there is nothing to do.
update_engine_state ==
    /\ phase = "run"
    /\ round' = "read"
    /\ IF conditions = << >> THEN UNCHANGED <<zoneVars, gddv, current_matched_target, policy_active, phase>>
       ELSE SwitchTo(IF fallback_id = 0 THEN evaluate_conditions(gddv, env, temp)
                     ELSE [target |-> -1, g |-> gddv])
    /\ UNCHANGED <<temp, env, fallback_id>>

Next ==
    \/ \E s \in Sensors : Drift(s)
    \/ EnvChange
    \/ thd_engine_start
    \/ read_zones
    \/ update_engine_state

Spec == Init /\ [][Next]_vars

\* The engine is started, and its main loop keeps timing out and keeps
\* evaluating the conditions (only these three actions change round, and one
\* of them can always do so).
Fairness == WF_round(phase \in {"init", "run"} /\ round' \in {"read", "update"} \ {round})

FairSpec == Spec /\ Fairness

-----------------------------------------------------------------------------
(* Properties.                                                             *)

Ids == {targets[i].target_id : i \in DOMAIN targets}

\* Devices tell the trips that hold them apart by zone and index: no two
\* trips of a zone that control a device have the same index, although
\* indices are given out by the length of a vector that polling trips leave
\* and enter and that psvt_consolidate adds to.
TripsAreTold ==
    \A z \in DOMAIN Zones : \A i, j \in DOMAIN trips[z] :
        i # j /\ trips[z][i].cdevs # << >> /\ trips[z][j].cdevs # << >>
            => trips[z][i].index # trips[z][j].index

\* The power limit in force is one the device may have under the limits of the last
\* targets, PL1MAX and PL1MIN, whatever the trips ask for: a row or a mean computed
\* before PL1MAX moved the range, or the mean of two MAX rows, which psvt_consolidate
\* takes although "the target state of next is not of type MAX" and which overflows.
LimitInRange ==
    \A n \in DOMAIN Devices :
        Devices[n].raw = "limit" => cdevs[n].hw \in Z(devices)!StateRange(devices[n])

\* The rows of the tables that the targets with that id install.
PsvRows(id) == UNION {Range(psvts[targets[i].table]) : i \in
                   {k \in DOMAIN targets : /\ targets[k].target_id = id
                                           /\ targets[k].code = "PSVT"
                                           /\ targets[k].table \in DOMAIN psvts}}

ItmtRows(id) == UNION {Range(itmts[targets[i].table]) : i \in
                   {k \in DOMAIN targets : /\ targets[k].target_id = id
                                           /\ targets[k].code \in {"ITMT", "ITMT3"}
                                           /\ targets[k].table \in DOMAIN itmts}}

PsvRowsInForce(id) ==
    IF PsvRows(id) \cup ItmtRows(id) = {} /\ find_def_psvt # "none" THEN Range(psvts[find_def_psvt])
    ELSE PsvRows(id)

\* What a zone's passive trips should control, according to the tables.
Controls(z, id) ==
    UNION {search_cdev_or_B0D4(r.source) : r \in {r \in PsvRowsInForce(id) : z \in search_zone(r.target)}}
    \cup UNION {search_cdev("rapl_controller_mmio") : r \in {r \in ItmtRows(id) : z \in search_zone(r.target)}}

\* While a target is current the trips of every zone are those of its own
\* tables: of all of them, in whatever order the data vault lists them; of no
\* earlier target; of the default table when it has none.  Zones that no row
\* names are inactive.
TablesInForce ==
    phase = "run" /\ current_matched_target > 0 =>
        \A z \in DOMAIN Zones :
            /\ UNION {{b.cdev : b \in Range(trips[z][i].cdevs)} : i \in DOMAIN trips[z]}
                 = Controls(z, current_matched_target)
            /\ (z \in zone_active) <=> Controls(z, current_matched_target) # {}

\* All conditions of set i hold, their times left aside.
SetHolds(i) ==
    \A j \in DOMAIN conditions[i] :
        conditions[i][j].condition = "Default" \/ DataHolds(conditions[i][j], env, temp)

Untimed(i) == \A j \in DOMAIN conditions[i] : conditions[i][j].time = 0

\* A change of target is always one the conditions call for at that moment:
\* the new target belongs to a set that holds, and every set before it either
\* does not hold or has a time to wait for.
ChangesAreCalledFor ==
    [][current_matched_target' # current_matched_target =>
          \E i \in DOMAIN conditions \cup {Len(conditions) + 1} :
             /\ \A k \in 1 .. i - 1 : ~SetHolds(k) \/ ~Untimed(k)
             /\ IF i = Len(conditions) + 1 THEN current_matched_target' = -1
                ELSE SetHolds(i) /\ current_matched_target' = conditions[i][1].target]_vars

\* "This will result in switch of target back and forth, so don't check time
\* for the current target": once nothing changes any more the target stays.
TargetSettles == <>[][FALSE]_<<temp, env>> => <>[][FALSE]_current_matched_target

\* A set that holds for good is taken in the end, however many times it has
\* to wait for, if no set before it holds.
HeldSetIsTaken ==
    \A i \in DOMAIN conditions :
        <>[](phase = "run" /\ SetHolds(i) /\ \A k \in 1 .. i - 1 : ~SetHolds(k))
            => <>[](current_matched_target = conditions[i][1].target)

\* A fallback target chosen at start-up, because some conditions are not
\* supported and none matches, is executed.
FallbackIsExecuted == (fallback_id # 0) ~> policy_active
=============================================================================
