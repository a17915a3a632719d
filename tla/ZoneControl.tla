----------------------------- MODULE ZoneControl -----------------------------
(***************************************************************************)
(* Zones, their trip points and the cooling devices they share, driven by  *)
(* the engine: it reads all zones (on a timeout, a uevent or a             *)
(* notification), applies a new preference to all zones, and the D-Bus and *)
(* adaptive interfaces switch zones on and off and move trips.             *)
(***************************************************************************)
EXTENDS Zone

CONSTANTS
    Zones,        \* the zones in order: [trips, sensors, corelated], as configured
    Temps,        \* the temperatures a sensor can show
    NewTemps,     \* the temperatures a trip can be moved to at run time
    BootTemp,     \* the temperature at start-up
    BootPref,     \* the preference at start-up
    MaxChanges    \* bound on preference, status and trip changes

BindingType ==
    [cdev : DOMAIN Devices, influence : Int, sampling_priod : Int, since_op : Int,
     target_state_valid : BOOLEAN, target_state : Int,
     min_max_valid : BOOLEAN, min_state : Int, max_state : Int]

DependType == [cdev : DOMAIN Devices, rel : {"==", ">", "<", "<=", ">="}, state : Int]

TripType ==
    [index : Nat, type : {"CRITICAL", "HOT", "POLLING", "PASSIVE", "ACTIVE", "MAX"},
     temp : Int, hyst : Int, sensor : Nat, control_type : {"PARALLEL", "SEQUENTIAL"},
     trip_on : BOOLEAN, poll_on : BOOLEAN, crit_trip_count : Nat,
     depend : {NoDepend} \cup DependType, cdevs : Seq(BindingType)]

ASSUME DeviceAssumption ==
    \A n \in DOMAIN Devices :
        /\ Devices[n].min_state \in Int /\ Devices[n].max_state \in Int
        /\ Devices[n].raw \in {"base", "write", "limit"}

ASSUME OffsetAssumption ==
    /\ def_async_trip_offset \in Int /\ def_async_trip_offset_pct \in Int
    /\ 2 ^ IntBits \in Nat \ {0}

\* Polling trips come from sort_and_update_poll_trip only.
ASSUME ZoneAssumption ==
    /\ Zones \in Seq([sensors : Seq(Nat), corelated : BOOLEAN,
                      trips : Seq({t \in TripType : t.type # "POLLING" /\ ~t.poll_on})])
    /\ NewTemps \subseteq Int /\ Temps \subseteq Int /\ BootTemp \in Int

VARIABLES
    cdevs,        \* device name -> device object
    trips,        \* zone -> trip_points
    zone_active,  \* the zones that are active
    temp,         \* sensor -> what it shows
    preference,
    status,       \* FALSE once the preference is DISABLED
    power,        \* "on", "off" or "mem"
    changes,      \* number of changes made so far
    round         \* flips on every timeout of the main loop

vars == <<cdevs, trips, zone_active, temp, preference, status, power, changes, round>>

Sensors == UNION {Range(Zones[z].sensors) : z \in DOMAIN Zones}

\* The record Zone's operators work on, for zone z.
World(z) == [cdevs |-> cdevs, trips |-> trips[z], threshold |-> [s \in Sensors |-> 0],
             sent |-> << >>, power |-> power]

-----------------------------------------------------------------------------

BootCdev(d) ==
    [curr_state |-> d.min_state, hw |-> d.min_state, curr_pow |-> 0,
     base_pow_state |-> 0, trend_increase |-> FALSE, last_state |-> 0,
     since |-> d.debounce_interval + 1, zone_trip_limits |-> << >>]

\* The trips of zone z as zone_update leaves them.
BootTrips(z) ==
    sort_and_update_poll_trip(
        [trips |-> [i \in DOMAIN Zones[z].trips |-> Bound(Zones[z].trips[i])],
         threshold |-> [s \in Sensors |-> 0]],
        Zones[z].sensors).trips

\* Devices at rest.
Init ==
    /\ cdevs = [n \in DOMAIN Devices |-> BootCdev(Devices[n])]
    /\ trips = [z \in DOMAIN Zones |-> BootTrips(z)]
    /\ zone_active = DOMAIN Zones
    /\ temp = [s \in Sensors |-> BootTemp]
    /\ preference = BootPref
    /\ status = TRUE
    /\ power = "on"
    /\ changes = 0
    /\ round = 0

\* The temperature of a sensor changes.
Drift(s) ==
    /\ \E t \in Temps \ {temp[s]} : temp' = [temp EXCEPT ![s] = t]
    /\ UNCHANGED <<cdevs, trips, zone_active, preference, status, power, changes, round>>

\* A pass over the zones works on acc: cdevs, power, and the trips of all zones.
InZone(acc, z) == [World(z) EXCEPT !.cdevs = acc.cdevs, !.power = acc.power,
                                   !.trips = acc.trips[z]]

\* Zone z has been visited and left its part of acc as in w.
AfterZone(acc, z, w) == [cdevs |-> w.cdevs, power |-> w.power,
                         trips |-> [acc.trips EXCEPT ![z] = w.trips]]

zone_temperature_notification(w, z) ==
    read_zone_temp(w, z, Zones[z].sensors, Zones[z].corelated, temp, preference)

NotifyZone(acc, z) ==
    IF z \notin zone_active THEN acc
    ELSE AfterZone(acc, z, zone_temperature_notification(InZone(acc, z), z))

\* Every active zone is read, in order.
NotifyZones(devices, zone_trips) ==
    LET n == Len(Zones)
        loop[z \in 0 .. n] ==
            IF z = 0 THEN [cdevs |-> devices, trips |-> zone_trips, power |-> power]
            ELSE NotifyZone(loop[z - 1], z)
    IN  loop[n]

PreferZone(acc, z, pref) ==
    IF z \notin zone_active THEN acc
    ELSE AfterZone(acc, z, update_zone_preference(InZone(acc, z), z,
                               Zones[z].sensors, temp, pref))

\* Every active zone applies the new preference, in order.
PreferZones(pref) ==
    LET n == Len(Zones)
        loop[z \in 0 .. n] ==
            IF z = 0 THEN [cdevs |-> cdevs, trips |-> trips, power |-> power]
            ELSE PreferZone(loop[z - 1], z, pref)
    IN  loop[n]

\* The zones were visited, and left devices, trips and machine as in w.
Visited(w) == cdevs' = w.cdevs /\ trips' = w.trips /\ power' = w.power

\* A uevent: all zones are read, even when the daemon is disabled. A
\* THERMAL_ZONE_NOTIFY message does the same when it is enabled.
uevent ==
    /\ power = "on"
    /\ Visited(NotifyZones(cdevs, trips))
    /\ UNCHANGED <<zone_active, temp, preference, status, changes, round>>

\* The clocks of devices and bindings after one more poll interval.
CdevsLater == [n \in DOMAIN cdevs |-> Elapse(Devices[n], cdevs[n])]

BindingLater(b) == [b EXCEPT !.since_op = Smaller(@ + 1, b.sampling_priod)]

TripLater(t) == [t EXCEPT !.cdevs = [k \in DOMAIN @ |-> BindingLater(@[k])]]

TripsLater ==
    [z \in DOMAIN trips |-> [i \in DOMAIN trips[z] |-> TripLater(trips[z][i])]]

\* The main loop's poll() times out; a disabled daemon reads nothing.
thd_engine_thread ==
    /\ power = "on"
    /\ Visited(IF status THEN NotifyZones(CdevsLater, TripsLater)
               ELSE [cdevs |-> CdevsLater, trips |-> TripsLater, power |-> power])
    /\ round' = 1 - round
    /\ UNCHANGED <<zone_active, temp, preference, status, changes>>

\* Waking up after the suspend a HOT trip asked for.
Resume ==
    /\ power = "mem"
    /\ power' = "on"
    /\ UNCHANGED <<cdevs, trips, zone_active, temp, preference, status, changes, round>>

Change == changes < MaxChanges /\ power = "on" /\ changes' = changes + 1

process_pref_change(pref) ==
    /\ Change
    /\ IF pref = "DISABLED"
       THEN status' = FALSE /\ UNCHANGED <<cdevs, trips, power, preference>>
       ELSE /\ status' = TRUE
            /\ preference' = pref
            /\ Visited(PreferZones(pref))
    /\ UNCHANGED <<zone_active, temp, round>>

\* D-Bus: only flips the flag; the devices stay as they are.
user_set_zone_status(z, active) ==
    /\ Change
    /\ active # (z \in zone_active)
    /\ zone_active' = IF active THEN zone_active \cup {z} ELSE zone_active \ {z}
    /\ UNCHANGED <<cdevs, trips, temp, preference, status, power, round>>

\* Adaptive engine: moves the first passive trip, nothing else.
set_trip(z, t) ==
    LET passive == {i \in DOMAIN trips[z] : trips[z][i].type = "PASSIVE"}
    IN  /\ Change
        /\ passive # {}
        /\ trips' = [trips EXCEPT ![z][Min(passive)].temp = t]
        /\ UNCHANGED <<cdevs, zone_active, temp, preference, status, power, round>>

Next ==
    \/ \E s \in Sensors : Drift(s)
    \/ uevent
    \/ thd_engine_thread
    \/ \E z \in DOMAIN Zones :
         \/ \E active \in BOOLEAN : user_set_zone_status(z, active)
         \/ \E t \in NewTemps : set_trip(z, t)
    \/ \E pref \in {"PERFORMANCE", "ENERGY_CONSERVE", "DISABLED"} :
         process_pref_change(pref)
    \/ Resume

Spec == Init /\ [][Next]_vars

\* The main loop keeps timing out while the machine runs (only
\* thd_engine_thread flips round, and it can always do so).
Fairness == WF_round(power = "on" /\ round' = 1 - round)

FairSpec == Spec /\ Fairness

-----------------------------------------------------------------------------
(* What the configuration says of a device.                                *)

\* The devices trip i of zone z starts with.
BoundBy(z, i) == {b.cdev : b \in Range(BootTrips(z)[i].cdevs)}

\* Device n of trip i of zone z has states to move between, and no other
\* trip, of this or another zone, uses it.
OwnDevice(z, i, n) ==
    /\ Devices[n].min_state # Devices[n].max_state
    /\ \A y \in DOMAIN Zones : \A j \in DOMAIN BootTrips(y) :
         n \in BoundBy(y, j) => y = z /\ j = i

\* A sequential trip shares none of its devices.
SequentialTripsOwnDevices ==
    \A z \in DOMAIN Zones : \A i \in DOMAIN BootTrips(z) :
        BootTrips(z)[i].control_type = "SEQUENTIAL" =>
            \A n \in BoundBy(z, i) : OwnDevice(z, i, n)

\* Trip i of zone z does not lie below a polling trip of the zone, whose
\* temperature did not wrap below zero, and set_trip never moves it there.
PolledBelow(z, i) ==
    \A p \in DOMAIN BootTrips(z) :
        BootTrips(z)[p].type = "POLLING" =>
            /\ BootTrips(z)[p].temp <= BootTrips(z)[i].temp
            /\ BootTrips(z)[i].type = "PASSIVE" => \A t \in NewTemps : BootTrips(z)[p].temp <= t

\* Device n belongs to one trip, of zone z, that stays above the polling trips.
PolledFor(z, n) ==
    \E i \in DOMAIN BootTrips(z) :
        n \in BoundBy(z, i) /\ OwnDevice(z, i, n) /\ PolledBelow(z, i)

-----------------------------------------------------------------------------
(* Properties.                                                             *)

Bindings(z, i) == trips[z][i].cdevs

BoundTo(z) == UNION {{b.cdev : b \in Range(Bindings(z, i))} : i \in DOMAIN trips[z]}

Idle(n) == in_min_state(Devices[n], cdevs[n])

Full(n) == in_max_state(Devices[n], cdevs[n])

\* SEQUENTIAL means "one after other once the previous cdev reaches its max
\* state": no device of a sequential trip is in use while one before it is
\* not at its maximum, however activations, releases, resets and preference
\* changes interleave.
SequentialOrder ==
    \A z \in DOMAIN Zones : \A i \in DOMAIN trips[z] :
        trips[z][i].control_type = "SEQUENTIAL" =>
            \A k, l \in DOMAIN Bindings(z, i) :
                k < l /\ ~Idle(Bindings(z, i)[l].cdev) => Full(Bindings(z, i)[k].cdev)

\* A device that is in use, by one trip or by several, belongs to a zone
\* whose polling trip is on: the engine polls fast for as long as anything is
\* throttled, and the reset at the polling threshold leaves nothing in use.
ThrottledIsPolled ==
    \A n \in DOMAIN Devices :
        Idle(n) \/ \E z \in DOMAIN Zones :
                      /\ n \in BoundTo(z)
                      /\ \E i \in DOMAIN trips[z] : trips[z][i].poll_on

\* What is left of ThrottledIsPolled in every configuration: a zone is polled
\* while a device is in use that PolledFor names, whatever devices the other
\* trips share and wherever set_trip moves them.
OwnThrottledIsPolled ==
    \A z \in DOMAIN Zones : \A n \in DOMAIN Devices :
        PolledFor(z, n) => Idle(n) \/ \E i \in DOMAIN trips[z] : trips[z][i].poll_on

\* Trip i of zone z is in force and its temperature is reached.
Reached(z, i) ==
    /\ status /\ power = "on" /\ z \in zone_active
    /\ Applicable(trips[z][i], preference)
    /\ \A s \in Range(Zones[z].sensors) : temp[s] >= trips[z][i].temp

\* A zone that stays hot under a preference that uses the trip ends up with
\* every device of the trip at its maximum.
HotZoneIsCooled ==
    \A z \in DOMAIN Zones : \A i \in 1 .. Len(Zones[z].trips) :
        <>[]Reached(z, i) =>
            <>[](\A k \in DOMAIN Bindings(z, i) : Full(Bindings(z, i)[k].cdev))

\* The daemon is at work and every sensor is below every polling trip.
AllCool ==
    /\ status /\ power = "on" /\ zone_active = DOMAIN Zones
    /\ \A z \in DOMAIN Zones : \A i \in DOMAIN trips[z], s \in Sensors :
         temp[s] + trips[z][i].hyst < trips[z][i].temp

\* Once everything stays cool every device is released for good, whatever
\* preference was in force when it was activated.
CoolIsReleased == <>[]AllCool => <>[](\A n \in DOMAIN Devices : Idle(n))
=============================================================================
