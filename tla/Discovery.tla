------------------------------ MODULE Discovery ------------------------------
(***************************************************************************)
(* How an engine comes to its sensors, cooling devices and zones: the      *)
(* kernel's, the default ones, those of the configuration                  *)
(* (thd_engine.cpp, thd_engine_default.cpp, the zone classes), those of    *)
(* the adaptive tables (thd_engine_adaptive.cpp), and those added,         *)
(* replaced and deleted over D-Bus.                                        *)
(*                                                                         *)
(* An engine e is a record of sensors, cdevs and zones, sequences in the   *)
(* order of the vectors, and the next free index of each.                  *)
(*   sensor  index, type, kind ("sysfs", "raw", "virtual" or "power"),     *)
(*           async, path, links (positions of sensors, 0 for a constant)   *)
(*   cdev    index, type, alias, path, settings (those that were set)      *)
(*   zone    index, type, active, sensors (positions), trips               *)
(*   trip    index, type, temp, sensor_id, control and cdevs, records of   *)
(*           cdev (a position), influence, period and target               *)
(* A position is the place in a vector; sensors and cooling devices are    *)
(* never removed from theirs.  Temperatures are in degrees.                *)
(*                                                                         *)
(* hw is the machine: thermal and cooling, the kernel's zones and devices  *)
(* in the order of the directory; dts, the coretemp devices of the two     *)
(* directories that are searched; devices, the power and frequency         *)
(* interfaces there are; paths, the files there are; psv, the passive      *)
(* temperature a user left for a type of zone; int3400, whether its        *)
(* policy is supported; order, the administrator's order of CPU devices;   *)
(* and the options exclusive, ignore_default_control, debug and rt_kernel. *)
(***************************************************************************)
EXTENDS Integers, Sequences, SequencesExt, FiniteSetsExt, TLC

CONSTANTS
    PchNames,    \* the names that begin with pch_
    SysPaths     \* the paths that begin with /sys/

DefaultSensorId == 65535
UintRange == 4294967       \* 2^32 milli-degrees
IntMax == 2147483
MaxDtsSensors == 16

NoEngine ==
    [sensors |-> <<>>, cdevs |-> <<>>, zones |-> <<>>,
     current_sensor_index |-> 0, current_cdev_index |-> 0, current_zone_index |-> 0]

\* The first position that a set holds, 0 when there is none.
First(positions) == IF positions = {} THEN 0 ELSE Min(positions)

Matches(type, name) == type = name \/ {type, name} \subseteq PchNames

search_sensor(e, name) == First({i \in DOMAIN e.sensors : Matches(e.sensors[i].type, name)})
search_zone(e, name) == First({i \in DOMAIN e.zones : Matches(e.zones[i].type, name)})
search_cdev(e, name) == First({i \in DOMAIN e.cdevs : name \in {e.cdevs[i].type, e.cdevs[i].alias}})

thd_get_cdev_at_index(e, index) == First({i \in DOMAIN e.cdevs : e.cdevs[i].index = index})
get_zone(e, name) == First({i \in DOMAIN e.zones : e.zones[i].type = name})

\* The largest number of the kernel's objects, read or not.
MaxIndex(objects) == Max({0} \cup {objects[i].n : i \in DOMAIN objects})

-----------------------------------------------------------------------------
(* Sensors.                                                                *)

Sensor(index, type, kind) ==
    [index |-> index, type |-> type, kind |-> kind, async |-> FALSE, path |-> "", links |-> <<>>]

\* push_back and the index of the next one.
AddSensor(e, sensor) ==
    [e EXCEPT !.sensors = Append(@, sensor), !.current_sensor_index = @ + 1]

thd_read_default_thermal_sensors(e, hw) ==
    LET found == SelectSeq(hw.thermal, LAMBDA z : z.readable)
    IN  [e EXCEPT !.sensors = [i \in DOMAIN found |-> Sensor(found[i].n, found[i].type, "sysfs")],
                  !.current_sensor_index = IF found = <<>> THEN @ ELSE MaxIndex(hw.thermal) + 1]

SetAsync(e, i, async) == IF i = 0 THEN e ELSE [e EXCEPT !.sensors[i].async = async]

\* One sensor for every input of the coretemp devices, of the second directory when
\* the first has none.
Inputs(devices) == FoldLeft(LAMBDA n, d : n + d.inputs, 0, devices)
DtsInputs(hw) == IF Inputs(hw.dts[1]) > 0 THEN Inputs(hw.dts[1]) ELSE Inputs(hw.dts[2])

AddPowerSensor(e, hw) ==
    IF "power" \notin hw.devices THEN e
    ELSE AddSensor(e, Sensor(e.current_sensor_index, "rapl_pkg_power", "power"))

\* The power sensor that a link of a virtual sensor needs.
LinkPower(e, hw, link) ==
    IF link.power_sensor /\ search_sensor(e, "rapl_pkg_power") = 0 THEN AddPowerSensor(e, hw) ELSE e

\* A virtual sensor gets the index that is free before its links are looked up.
AddVirtual(e, hw, config) ==
    LET links == IF config.link_sensors # <<>> THEN config.link_sensors
                 ELSE IF config.sensor_link.name = "" THEN <<>>
                 ELSE <<[name |-> config.sensor_link.name, power_sensor |-> FALSE]>>
        with  == FoldLeft(LAMBDA acc, link :
                              LET next == LinkPower(acc.e, hw, link)
                              IN  [e |-> next,
                                   links |-> Append(acc.links, search_sensor(next, link.name))],
                          [e |-> e, links |-> <<>>], links)
    IN  AddSensor(with.e, [Sensor(e.current_sensor_index, config.name, "virtual")
                               EXCEPT !.links = with.links])

Configured(element, field, default) == IF field \in DOMAIN element THEN element[field] ELSE default

\* A <ThermalSensor>: an existing one is changed, another is added.
ConfigSensor(e, hw, config) ==
    LET i == search_sensor(e, config.name)
    IN  IF i # 0
        THEN [e EXCEPT !.sensors[i].path = IF Configured(config, "path", "") \in SysPaths THEN config.path ELSE @,
                       !.sensors[i].async = Configured(config, "async_capable", @)]
        ELSE IF config.virtual_sensor THEN AddVirtual(e, hw, config)
        ELSE IF Configured(config, "path", "") \notin hw.paths \cap SysPaths THEN e
        ELSE AddSensor(e, [Sensor(e.current_sensor_index, config.name, "raw") EXCEPT !.path = config.path])

\* Package sensors are taken to notify.
PackageAsync(e) ==
    FoldLeft(LAMBDA acc, name : SetAsync(acc, search_sensor(acc, name), TRUE), e,
             <<"pkg-temp-0", "x86_pkg_temp", "soc_dts0">>)

AddDts(e, hw) ==
    FoldLeft(LAMBDA acc, n : AddSensor(acc, Sensor(acc.current_sensor_index, "hwmon", "raw")),
             e, [n \in 1..DtsInputs(hw) |-> n])

read_thermal_sensors(e, hw, conf) ==
    LET kernel == AddDts(PackageAsync(thd_read_default_thermal_sensors(e, hw)), hw)
        power  == IF hw.debug THEN AddPowerSensor(kernel, hw) ELSE kernel
    IN  IF ~conf.matched THEN power
        ELSE FoldLeft(LAMBDA acc, config : ConfigSensor(acc, hw, config), power, conf.info.sensors)

-----------------------------------------------------------------------------
(* Cooling devices.                                                        *)

AddCdev(e, type, alias, path) ==
    [e EXCEPT !.cdevs = Append(@, [index |-> e.current_cdev_index, type |-> type, alias |-> alias,
                                   path |-> path, settings |-> <<>>]),
              !.current_cdev_index = @ + 1]

thd_read_default_cooling_devices(e, hw) ==
    LET found == SelectSeq(hw.cooling, LAMBDA c : c.usable)
    IN  [e EXCEPT !.cdevs = [i \in DOMAIN found |-> [index |-> found[i].n, type |-> found[i].type,
                                                     alias |-> "", path |-> "kernel", settings |-> <<>>]],
                  !.current_cdev_index = IF found = <<>> THEN @ ELSE MaxIndex(hw.cooling) + 1]

\* A device whose interface is there.
AddDevice(e, hw, device, type, alias) ==
    IF device \in hw.devices THEN AddCdev(e, type, alias, device) ELSE e

\* The MMIO interface takes the alias of the MSR one, which the adaptive engine, the
\* one without a configuration, opens up to 200 W.
AddMmio(e, hw, conf, wanted) ==
    LET limit == IF conf.matched THEN <<>> ELSE [pl1max |-> 200000]
    IN  IF ~wanted \/ "mmio" \notin hw.devices THEN e
        ELSE AddCdev([e EXCEPT !.cdevs = [i \in DOMAIN @ |->
                         IF @[i].path = "rapl"
                         THEN [@[i] EXCEPT !.alias = "", !.settings = limit @@ @] ELSE @[i]]],
                     "rapl_controller_mmio", "B0D4", "mmio")

\* A device of the name and path is set up, another is made when its file is there.
add_replace_cdev(e, hw, config) ==
    LET i       == search_cdev(e, config.type)
        present == i # 0 /\ config.path \in {"", e.cdevs[i].path}
        added   == IF present THEN e ELSE AddCdev(e, config.type, "", config.path)
        at      == IF present THEN i ELSE Len(added.cdevs)
    IN  IF ~present /\ config.path \notin hw.paths \cap SysPaths THEN e
        ELSE [added EXCEPT !.cdevs[at].settings = config.settings @@ @]

cpu_def_cooling_devices ==
    <<[type |-> "intel_powerclamp", path |-> "", settings |-> [min_state |-> 0, step |-> 5, read_back |-> FALSE]],
      [type |-> "LCD", path |-> "", settings |-> [min_state |-> 0, step |-> 5, read_back |-> FALSE]]>>

SetUpAll(e, hw, configs) ==
    FoldLeft(LAMBDA acc, config : add_replace_cdev(acc, hw, config), e, configs)

\* mmio: the configuration matched, or the engine is the adaptive one.
read_cooling_devices(e, hw, conf, mmio) ==
    LET rapl  == AddDevice(thd_read_default_cooling_devices(e, hw), hw, "rapl", "rapl_controller", "B0D4")
        cpu   == AddDevice(AddMmio(rapl, hw, conf, mmio), hw, "pstate", "intel_pstate", "")
        freq  == AddDevice(SetUpAll(cpu, hw, cpu_def_cooling_devices), hw, "cpufreq", "cpufreq", "")
        dram  == AddDevice(freq, hw, "dram", "rapl_controller_dram", "")
        light == IF search_cdev(dram, "LCD") # 0 THEN dram ELSE AddDevice(dram, hw, "backlight", "LCD", "")
    IN  IF conf.matched THEN SetUpAll(light, hw, conf.info.cdevs) ELSE light

-----------------------------------------------------------------------------
(* Trips and zones.                                                        *)

Trip(index, type, temp, sensor_id, control) ==
    [index |-> index, type |-> type, temp |-> temp, sensor_id |-> sensor_id,
     control |-> control, cdevs |-> <<>>]

Use(cdev, influence, period, target) ==
    [cdev |-> cdev, influence |-> influence, period |-> period, target |-> target]

\* Positions of a sequence in the order of a rank, equal ones as they were.
Ranked(ranks) ==
    SortSeq([i \in DOMAIN ranks |-> i],
            LAMBDA i, j : ranks[i] < ranks[j] \/ (ranks[i] = ranks[j] /\ i < j))

\* Mutant: a device that the trip has already is added again.
trip_cdev_addTwice(e, trip, use) == [trip EXCEPT !.cdevs = Append(@, use)]

\* A device that the trip has already, by type, only gets the new influence.  The
\* devices are kept by influence, the largest first.
trip_cdev_add(e, trip, use) ==
    LET same   == {i \in DOMAIN trip.cdevs : e.cdevs[trip.cdevs[i].cdev].type = e.cdevs[use.cdev].type}
        list   == IF same = {} THEN Append(trip.cdevs, use)
                  ELSE [trip.cdevs EXCEPT ![Min(same)].influence = use.influence]
        sorted == Ranked([i \in DOMAIN list |-> -list[i].influence])
    IN  [trip EXCEPT !.cdevs = [i \in DOMAIN list |-> list[sorted[i]]]]

\* The devices of the names that are there, without influence.
AddNamed(e, trip, names) ==
    FoldLeft(LAMBDA acc, name : IF search_cdev(e, name) = 0 THEN acc
                                ELSE trip_cdev_add(e, acc, Use(search_cdev(e, name), 0, 0, -1)),
             trip, names)

\* The devices of a configured trip that are there.
AddConfigured(e, trip, cdevs) ==
    FoldLeft(LAMBDA acc, c : IF search_cdev(e, c.type) = 0 THEN acc
                             ELSE trip_cdev_add(e, acc, Use(search_cdev(e, c.type), c.influence,
                                                            c.period, c.target)),
             trip, cdevs)

\* Where polling starts: a tenth, but five degrees at least, below the lowest trip.
\* The product and the difference are unsigned.
PollTemp(lowest) == (lowest - Max({((lowest * 10) % UintRange) \div 100, 5})) % UintRange

\* The first polling trip is removed, the rest is sorted, and one for every sensor
\* is added behind.
sort_and_update_poll_trip(e, zone) ==
    LET poll   == First({i \in DOMAIN zone.trips : zone.trips[i].type = "POLLING"})
        left   == IF poll = 0 THEN zone.trips ELSE RemoveAt(zone.trips, poll)
        order  == Ranked([i \in DOMAIN left |-> left[i].temp])
        sorted == [i \in DOMAIN left |-> left[order[i]]]
    IN  IF left = <<>> THEN [zone EXCEPT !.trips = left]
        ELSE [zone EXCEPT !.trips = sorted \o
                 [i \in DOMAIN zone.sensors |->
                     Trip(Len(sorted) + i - 1, "POLLING", PollTemp(sorted[1].temp),
                          e.sensors[zone.sensors[i]].index, "PARALLEL")]]

bind_sensor(zone, i) ==
    IF i = 0 \/ i \in ToSet(zone.sensors) THEN zone ELSE [zone EXCEPT !.sensors = Append(@, i)]

TripsOf(zone, type) == {i \in DOMAIN zone.trips : zone.trips[i].type = type}

\* The first trip of the type is replaced.
add_trip(e, zone, trip) ==
    sort_and_update_poll_trip(e,
        IF TripsOf(zone, trip.type) = {} THEN [zone EXCEPT !.trips = Append(@, trip)]
        ELSE [zone EXCEPT !.trips[Min(TripsOf(zone, trip.type))] = trip])

update_highest_trip_temp(e, zone, temp) ==
    IF zone.trips = <<>> THEN zone
    ELSE sort_and_update_poll_trip(e,
             IF TripsOf(zone, "PASSIVE") = {} THEN zone
             ELSE [zone EXCEPT !.trips[Max(TripsOf(zone, "PASSIVE"))].temp = temp])

update_trip_temp(e, zone, type, temp) ==
    sort_and_update_poll_trip(e,
        IF TripsOf(zone, type) = {} THEN zone
        ELSE [zone EXCEPT !.trips[Min(TripsOf(zone, type))].temp = temp])

\* The first trip of the type above zero degrees.
Bindable(zone, type) == First({i \in TripsOf(zone, type) : zone.trips[i].temp > 0})

bind_cooling_device(e, zone, type, use) ==
    IF Bindable(zone, type) = 0 THEN zone
    ELSE [zone EXCEPT !.trips[Bindable(zone, type)] = trip_cdev_add(e, @, use)]

\* The kernel's bindings, by the number of the trip, applied to the list as it is now.
read_cdev_trip_points(e, zone, count, bindings) ==
    FoldLeft(LAMBDA acc, b :
                 IF b.trip >= count \/ thd_get_cdev_at_index(e, b.cdev) = 0 THEN acc
                 ELSE [acc EXCEPT !.trips[b.trip + 1] =
                          trip_cdev_add(e, @, Use(thd_get_cdev_at_index(e, b.cdev), 0, 0, -1))],
             zone, bindings)

\* What follows once sensors are bound and trips are read.
zone_update(e, hw, zone, bindings) ==
    LET user == IF zone.type \in DOMAIN hw.psv
                THEN update_highest_trip_temp(e, zone, hw.psv[zone.type]) ELSE zone
    IN  sort_and_update_poll_trip(e, read_cdev_trip_points(e, user, Len(zone.trips), bindings))

Zone(index, type) == [index |-> index, type |-> type, active |-> FALSE, sensors |-> <<>>, trips |-> <<>>]

AddZone(e, zone) ==
    [e EXCEPT !.zones = Append(@, [zone EXCEPT !.active = TRUE]), !.current_zone_index = @ + 1]

-----------------------------------------------------------------------------
(* The kernel's zones.                                                     *)

TripType(text) ==
    CASE text = "critical" -> "CRITICAL" [] text = "hot" -> "MAX" [] text = "active" -> "ACTIVE"
      [] text = "passive" -> "PASSIVE" [] OTHER -> "INVALID"

\* Trips that can be written are left to the kernel's notification; a zone without
\* others gets one that is never reached.
read_trip_points(zone, kernel, sensor_id) ==
    LET used == SelectSeq(kernel.trips, LAMBDA t : t.temp > 0 /\ TripType(t.type) # "INVALID" /\ ~t.writable)
    IN  [zone EXCEPT !.trips =
            IF used = <<>> THEN <<Trip(0, "PASSIVE", IntMax, sensor_id, "SEQUENTIAL")>>
            ELSE [i \in DOMAIN used |->
                     Trip(i - 1, TripType(used[i].type), used[i].temp, sensor_id, "SEQUENTIAL")]]

\* A zone is bound to the first sensor of its type.
SysfsZone(e, hw, kernel) ==
    LET i     == search_sensor(e, kernel.type)
        bound == bind_sensor(Zone(kernel.n, kernel.type), i)
        async == SetAsync(e, i, e.sensors[i].async \/ \E k \in DOMAIN kernel.trips : kernel.trips[k].writable)
        zone  == zone_update(e, hw, read_trip_points(bound, kernel, e.sensors[i].index), kernel.bindings)
    IN  IF i = 0 THEN e
        ELSE [async EXCEPT !.zones = Append(@, [zone EXCEPT !.active = hw.exclusive])]

thd_read_default_thermal_zones(e, hw) ==
    LET read == FoldLeft(LAMBDA acc, kernel : SysfsZone(acc, hw, kernel), e, hw.thermal)
    IN  [read EXCEPT !.current_zone_index = IF read.zones = <<>> THEN @ ELSE MaxIndex(hw.thermal) + 1]

-----------------------------------------------------------------------------
(* The CPU.                                                                *)

\* The trips of a coretemp device: the lowest of its limits, ten degrees apart at least.
Lowest(limits, default) == IF DOMAIN limits = {} THEN default ELSE Min({limits[n] : n \in DOMAIN limits})

init(device) ==
    LET critical == Lowest(device.crit, 100)
        given    == Lowest(device.max, 0)
        max      == IF given = 0 \/ critical - given < 10 THEN critical - 10 ELSE given
    IN  [max |-> max, psv |-> max + (critical - max) \div 2]

PackageSensors(e, hw) ==
    SelectSeq([i \in 1..3 |-> search_sensor(e, <<"pkg-temp-0", "x86_pkg_temp", "soc_dts0">>[i])],
              LAMBDA i : i # 0 /\ (hw.rt_kernel => e.sensors[i].type = "soc_dts0"))

\* Package sensors, else the inputs that are sensors of their own, else one input.
zone_bind_sensors(e, hw, zone, device) ==
    LET inputs == SelectSeq([n \in 1..MaxDtsSensors |->
                                IF n - 1 \in DOMAIN device.max
                                THEN search_sensor(e, "temp" \o ToString(n - 1) \o "_input") ELSE 0],
                            LAMBDA i : i # 0)
        chosen == IF PackageSensors(e, hw) # <<>> THEN PackageSensors(e, hw)
                  ELSE IF inputs # <<>> THEN inputs ELSE <<search_sensor(e, "hwmon")>>
    IN  FoldLeft(LAMBDA acc, i : bind_sensor(acc, i), zone, chosen)

def_cooling_devices == <<"rapl_controller", "intel_pstate", "intel_powerclamp", "cpufreq", "Processor">>

\* The administrator's order of devices, else the default one and the fan.
CpuTrips(e, hw, limits) ==
    LET passive(names) == AddNamed(e, Trip(0, "PASSIVE", limits.psv, DefaultSensorId, "SEQUENTIAL"), names)
        active         == AddNamed(e, Trip(1, "ACTIVE", limits.max, DefaultSensorId, "SEQUENTIAL"), <<"Fan">>)
    IN  IF hw.order # <<>> THEN <<passive(hw.order)>>
        ELSE IF search_cdev(e, "Fan") = 0 THEN <<passive(def_cooling_devices)>>
        ELSE <<passive(def_cooling_devices), active>>

CpuZone(e, hw, device) ==
    LET bound == zone_bind_sensors(e, hw, Zone(e.current_zone_index, "cpu"), device)
        async == IF PackageSensors(e, hw) = <<>> THEN e ELSE SetAsync(e, search_sensor(e, "hwmon"), TRUE)
    IN  IF DOMAIN device.max = {} THEN e
        ELSE IF bound.sensors = <<>> THEN async
        ELSE AddZone(async, zone_update(async, hw, [bound EXCEPT !.trips = CpuTrips(e, hw, init(device))], <<>>))

CpuZones(e, hw, devices) == FoldLeft(LAMBDA acc, device : CpuZone(acc, hw, device), e, devices)

\* The second directory is searched when the first gave no zone.
SecondDirectory(e, before, hw) == IF Len(e.zones) > before THEN e ELSE CpuZones(e, hw, hw.dts[2])

AddCpuZones(e, hw) == SecondDirectory(CpuZones(e, hw, hw.dts[1]), Len(e.zones), hw)

\* The zone of the processor participant.
ProcessorZone(e, hw) ==
    LET names == (IF hw.int3400 THEN <<"B0D4">> ELSE <<>>) \o <<"B0DB", "TCPU">>
        there == {k \in DOMAIN names : search_zone(e, names[k]) # 0}
    IN  IF there = {} THEN 0 ELSE search_zone(e, names[Min(there)])

\* Its first passive trip above 90 degrees.
ProcessorTrip(e, z) ==
    IF z = 0 THEN 0
    ELSE First({k \in TripsOf(e.zones[z], "PASSIVE") : e.zones[z].trips[k].temp > 90})

\* The critical trip of the ACPI zone, 0 when there is none.
AcpiCritical(e) ==
    LET z == search_zone(e, "acpitz")
    IN  IF z = 0 THEN 0
        ELSE IF TripsOf(e.zones[z], "CRITICAL") = {} THEN 0
        ELSE e.zones[z].trips[Min(TripsOf(e.zones[z], "CRITICAL"))].temp

\* The processor's own zone takes the place of the CPU zone.
add_int340x_processor_dev(e, hw) ==
    LET z        == ProcessorZone(e, hw)
        k        == ProcessorTrip(e, z)
        critical == AcpiCritical(e)
        passive  == e.zones[z].trips[k].temp
        set      == IF critical # 0 /\ passive + 5 >= critical
                    THEN [e.zones[z] EXCEPT !.trips[k].temp = critical - 15] ELSE e.zones[z]
        bound    == FoldLeft(LAMBDA zone, name :
                                 IF search_cdev(e, name) = 0 THEN zone
                                 ELSE bind_cooling_device(e, zone, "PASSIVE", Use(search_cdev(e, name), 0, 0, -1)),
                             set, <<"rapl_controller", "intel_pstate", "intel_powerclamp", "Processor">>)
    IN  IF hw.ignore_default_control \/ k = 0 THEN [valid |-> FALSE, e |-> e]
        ELSE [valid |-> TRUE, e |-> [e EXCEPT !.zones[z] = [bound EXCEPT !.active = TRUE]]]

-----------------------------------------------------------------------------
(* The zones of the configuration.                                         *)

\* What a loop over the trips of an existing zone carries.
Into(zone, activate) == [zone |-> zone, activate |-> activate]

\* Mutant: a new trip is numbered like the first of a zone of its own.
NewTripFirst(e, zone, trip, sensor_id) ==
    AddConfigured(e, Trip(0, trip.type, trip.temperature, sensor_id, trip.control), trip.cdevs)

\* A new trip is numbered by the trips there are, polling ones included.
NewTrip(e, zone, trip, sensor_id) ==
    AddConfigured(e, Trip(Len(zone.trips), trip.type, trip.temperature, sensor_id, trip.control), trip.cdevs)

Found(e, cdevs) == SelectSeq(cdevs, LAMBDA c : search_cdev(e, c.type) # 0)

\* Without a temperature the devices are bound to the trip of the type there is.
BindAll(e, zone, trip) ==
    FoldLeft(LAMBDA acc, c : bind_cooling_device(e, acc, trip.type,
                                 Use(search_cdev(e, c.type), c.influence, c.period, c.target)),
             zone, Found(e, trip.cdevs))

\* A configured trip of an existing zone.
MergeTrip(e, acc, trip) ==
    LET i    == search_sensor(e, trip.sensor)
        zone == bind_sensor(acc.zone, i)
    IN  IF i = 0
        THEN IF trip.temperature = 0 THEN acc
             ELSE Into(update_trip_temp(e, acc.zone, trip.type, trip.temperature), acc.activate)
        ELSE IF trip.temperature # 0
        THEN Into(add_trip(e, zone, NewTrip(e, zone, trip, e.sensors[i].index)),
                  acc.activate \/ Found(e, trip.cdevs) # <<>>)
        ELSE Into(BindAll(e, zone, trip),
                  acc.activate \/ (Found(e, trip.cdevs) # <<>> /\ Bindable(zone, trip.type) # 0))

MergeZone(e, z, config) ==
    LET merged == FoldLeft(LAMBDA acc, trip : MergeTrip(e, acc, trip), Into(e.zones[z], FALSE), config.trips)
    IN  [e EXCEPT !.zones[z] = [merged.zone EXCEPT !.active = @ \/ merged.activate]]

\* A zone of its own has the trips with a temperature and a sensor.  It is given up
\* when the last trip's sensor is missing.
GenericZone(e, hw, config) ==
    LET sensor(trip) == search_sensor(e, trip.sensor)
        used  == SelectSeq(config.trips, LAMBDA t : t.temperature # 0 /\ sensor(t) # 0)
        trips == [k \in DOMAIN used |->
                     AddConfigured(e, Trip(k - 1, used[k].type, used[k].temperature,
                                           e.sensors[sensor(used[k])].index, used[k].control), used[k].cdevs)]
        bound == FoldLeft(LAMBDA acc, t : bind_sensor(acc, sensor(t)),
                          Zone(e.current_zone_index, config.type), config.trips)
    IN  IF config.trips = <<>> \/ used = <<>> THEN e
        ELSE IF sensor(Last(config.trips)) = 0 THEN e
        ELSE AddZone(e, zone_update(e, hw, [bound EXCEPT !.trips = trips], <<>>))

Inactive(e, name) ==
    IF search_zone(e, name) = 0 THEN e ELSE [e EXCEPT !.zones[search_zone(e, name)].active = FALSE]

\* A generated configuration takes the CPU zone's place, another one when it uses
\* the processor's sensor.
disable_cpu_zone(e, conf, config) ==
    LET z     == search_zone(e, config.type)
        taken == \/ conf.auto
                 \/ /\ z # 0
                    /\ e.zones[z].active
                    /\ \E k \in DOMAIN config.trips :
                          LET i == search_sensor(e, config.trips[k].sensor)
                          IN  i # 0 /\ e.sensors[i].type = "B0D4"
    IN  IF taken THEN Inactive(e, "cpu") ELSE e

ConfigZone(e, hw, conf, config) ==
    LET z == search_zone(e, config.type)
    IN  disable_cpu_zone(IF z # 0 THEN MergeZone(e, z, config) ELSE GenericZone(e, hw, config), conf, config)

\* The power zone of the debug mode.
RaplPowerZone(e, hw) ==
    LET i    == search_sensor(e, "rapl_pkg_power")
        trip == AddNamed(e, Trip(0, "PASSIVE", 100, DefaultSensorId, "PARALLEL"), <<"rapl_controller">>)
    IN  IF ~hw.debug \/ i = 0 \/ search_cdev(e, "rapl_controller") = 0 THEN e
        ELSE AddZone(e, zone_update(e, hw, [bind_sensor(Zone(e.current_zone_index, "rapl_pkg_power"), i)
                                                EXCEPT !.trips = <<trip>>], <<>>))

\* int340x is the result of add_int340x_processor_dev.
DefaultZones(int340x, hw) ==
    IF hw.ignore_default_control \/ int340x.valid \/ search_zone(int340x.e, "cpu") # 0
    THEN int340x.e ELSE AddCpuZones(int340x.e, hw)

ConfiguredZones(e, hw, conf) ==
    IF ~conf.matched THEN e
    ELSE FoldLeft(LAMBDA acc, c : ConfigZone(acc, hw, conf, c), e, conf.info.zones)

read_thermal_zones(e, hw, conf) ==
    LET kernel == thd_read_default_thermal_zones(e, hw)
        cpu    == DefaultZones(add_int340x_processor_dev(kernel, hw), hw)
    IN  RaplPowerZone(ConfiguredZones(cpu, hw, conf), hw)
=============================================================================
