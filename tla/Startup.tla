------------------------------- MODULE Startup -------------------------------
(***************************************************************************)
(* A daemon that starts and is used: the adaptive engine reads the data    *)
(* vault, the default engine a configuration that it may have to write     *)
(* first, sensors, cooling devices and zones are found, and the D-Bus      *)
(* interface changes them.  The daemon may be killed at any moment; what   *)
(* is under /run stays, until the machine is started again.                *)
(*                                                                         *)
(* machine   the number of the machine in Machines                         *)
(* files     the configuration files: option (named on the command line),  *)
(*           conf_auto, run_auto and conf                                  *)
(* psv       the passive temperatures that users have left, by zone        *)
(* phase     "off", "vault", "config", "generating", "sensors", "cdevs",   *)
(*           "zones", "up" or "failed"                                     *)
(* adaptive  the engine is the adaptive one                                *)
(* vault     the decoder of the data vault                                 *)
(* conf      what the parser made of the configuration                     *)
(* engine    sensors, cooling devices and zones                            *)
(* calls     how many calls there were since the start                     *)
(* crashes   how often the daemon was killed or the machine started again  *)
(***************************************************************************)
EXTENDS Vault, Config, Registry

CONSTANTS
    Machines,        \* records: the fields of hw, acpi, dmi, source (of the vault), written (the
                     \* tables it stands for), files, and the options option, xml, adaptive
                     \* and disable_active_power
    SensorCalls,     \* <<name, path>> of AddSensor
    VirtualCalls,    \* <<name, sensor>> of AddVirtualSensor
    ZoneCalls,       \* <<name, temperature, sensor, device>> of AddZonePassive
    ZoneNames,       \* names in calls about a zone
    CdevCalls,       \* <<name, path>> of AddCoolingDevice
    MaxCalls, MaxCrashes

VARIABLES machine, files, psv, phase, adaptive, vault, conf, engine, calls, crashes
vars == <<machine, files, psv, phase, adaptive, vault, conf, engine, calls, crashes>>

m == Machines[machine]
hw == [m EXCEPT !.psv = psv]

NoVault == [frames |-> <<>>, tables |-> NoTables, status |-> "none"]

Init ==
    /\ machine \in DOMAIN Machines
    /\ files = Machines[machine].files
    /\ psv = Machines[machine].psv
    /\ phase = "off" /\ adaptive = FALSE /\ vault = NoVault
    /\ conf = NoConf /\ engine = NoEngine
    /\ calls = 0 /\ crashes = 0

-----------------------------------------------------------------------------
(* Starting.                                                               *)

\* main: the adaptive engine is asked for, or the default one.  The adaptive one needs
\* the vault of the INT3400 device even if another is read in its place.
Start ==
    /\ phase = "off"
    /\ phase' = IF m.adaptive THEN "vault" ELSE "config"
    /\ adaptive' = m.adaptive
    /\ vault' = CASE ~m.adaptive -> NoVault
                  [] m.adaptive /\ m.source.device = <<>> -> [NoVault EXCEPT !.status = "error"]
                  [] OTHER -> gddv_init(m.source)
    /\ UNCHANGED <<machine, files, psv, conf, engine, calls, crashes>>

ReadVault ==
    /\ phase = "vault" /\ vault.status = "parsing"
    /\ vault' = parse_gddv(vault, Last(vault.frames))
    /\ UNCHANGED <<machine, files, psv, phase, adaptive, conf, engine, calls, crashes>>

find_def_psvt == \E k \in DOMAIN vault.tables.psvts : vault.tables.psvts[k].name \in {"generic_os", "IETM.D0"}

\* thd_engine_init of the adaptive engine: without a vault the default engine is
\* tried, with nothing to do in it the engine has no sensors and no zones.
VaultRead ==
    /\ phase = "vault" /\ vault.status # "parsing"
    /\ IF vault.status = "error"
       THEN phase' = "config" /\ adaptive' = FALSE /\ UNCHANGED vault
       ELSE /\ vault' = Merged(vault)
            /\ phase' = IF vault.tables.conditions = <<>> /\ ~find_def_psvt THEN "up" ELSE "sensors"
            /\ UNCHANGED adaptive
    /\ UNCHANGED <<machine, files, psv, conf, engine, calls, crashes>>

\* A new configuration is begun, when there is something to write.
Generates == m.xml /\ Regenerates(files, m.option) /\ generate_conf(m.acpi, m.dmi) # <<>>

Generate ==
    /\ phase = "config" /\ Generates
    /\ phase' = "generating" /\ files' = [files EXCEPT !.run_auto = Partial]
    /\ UNCHANGED <<machine, psv, adaptive, vault, conf, engine, calls, crashes>>

\* The configuration there is is parsed, also when a new one cannot be opened for writing.
Configure ==
    /\ phase = "config" /\ phase' = "sensors"
    /\ conf' = IF m.xml THEN start_parse(parser_init(files, m.option), m.dmi) ELSE NoConf
    /\ UNCHANGED <<machine, files, psv, adaptive, vault, engine, calls, crashes>>

\* The file is complete and is parsed.
Generated ==
    /\ phase = "generating" /\ phase' = "sensors"
    /\ files' = [files EXCEPT !.run_auto = [NoFile EXCEPT !.state = "whole",
                                                          !.platforms = generate_conf(m.acpi, m.dmi)]]
    /\ conf' = start_parse(parser_init(files', m.option), m.dmi)
    /\ UNCHANGED <<machine, psv, adaptive, vault, engine, calls, crashes>>

\* The engine has failed; after the adaptive one the default one is tried.
InitFailed ==
    /\ phase' = IF adaptive THEN "config" ELSE "failed"
    /\ adaptive' = FALSE /\ engine' = NoEngine

FindSensors ==
    /\ phase = "sensors" /\ phase' = "cdevs"
    /\ engine' = read_thermal_sensors(NoEngine, hw, conf)
    /\ UNCHANGED <<machine, files, psv, adaptive, vault, conf, calls, crashes>>

\* An input of a coretemp device is gone when it is looked at: read_thermal_sensors fails.
SensorsLost ==
    /\ phase = "sensors" /\ DtsInputs(hw) > 0
    /\ InitFailed
    /\ UNCHANGED <<machine, files, psv, vault, conf, calls, crashes>>

FindCdevs ==
    /\ phase = "cdevs" /\ phase' = "zones"
    /\ engine' = read_cooling_devices(engine, hw, conf, ~m.disable_active_power /\ (conf.matched \/ adaptive))
    /\ UNCHANGED <<machine, files, psv, adaptive, vault, conf, calls, crashes>>

\* e is the engine with the zones that were found.  Without any it fails.
ZonesFound(e) ==
    IF e.zones = <<>> THEN InitFailed
    ELSE /\ phase' = "up" /\ UNCHANGED adaptive
         /\ engine' = IF adaptive THEN AddVsct(e, hw, vault.tables) ELSE e

FindZones ==
    /\ phase = "zones"
    /\ ZonesFound(read_thermal_zones(engine, hw, conf))
    /\ UNCHANGED <<machine, files, psv, vault, conf, calls, crashes>>

-----------------------------------------------------------------------------
(* Calls of the D-Bus interface.                                           *)

\* A call that the features allow, and what the engine makes of it.
Called(result) ==
    /\ phase = "up" /\ calls < MaxCalls
    /\ calls' = calls + 1
    /\ engine' = result.e
    /\ UNCHANGED <<machine, files, psv, phase, adaptive, vault, conf, crashes>>

add_sensor == \E c \in SensorCalls : Called(user_add_sensor(engine, hw, c[1], c[2]))
add_virtual_sensor == \E c \in VirtualCalls : Called(user_add_virtual_sensor(engine, c[1], c[2]))
add_zone_passive == \E c \in ZoneCalls : Called(user_add_zone(engine, hw, c[1], c[2], c[3], c[4]))
set_zone_status ==
    \E name \in ZoneNames, status \in BOOLEAN : Called(user_set_zone_status(engine, name, status))
delete_zone == \E name \in ZoneNames : Called(user_delete_zone(engine, name))
add_cooling_device ==
    \E c \in CdevCalls : Called(user_add_cdev(engine, hw, c[1], c[2], [min_state |-> 0, max_state |-> 10]))

set_user_passive_temperature ==
    /\ phase = "up" /\ calls < MaxCalls
    /\ calls' = calls + 1
    /\ \E name \in ZoneNames : psv' = user_set_psv_temp(engine, hw, name, 60).psv
    /\ UNCHANGED <<machine, files, phase, adaptive, vault, conf, engine, crashes>>

-----------------------------------------------------------------------------
(* The daemon is killed; the machine is started again.                     *)

Off ==
    /\ phase' = "off" /\ adaptive' = FALSE /\ vault' = NoVault
    /\ conf' = NoConf /\ engine' = NoEngine
    /\ calls' = 0 /\ UNCHANGED machine

Crash ==
    /\ phase # "off" /\ crashes < MaxCrashes
    /\ crashes' = crashes + 1
    /\ Off /\ UNCHANGED <<files, psv>>

\* /run is empty after a reboot.
Reboot ==
    /\ phase = "off" /\ crashes > 0 /\ crashes < MaxCrashes
    /\ crashes' = crashes + 1
    /\ files' = [files EXCEPT !.run_auto = NoFile] /\ psv' = <<>>
    /\ Off

Next ==
    \/ Start \/ ReadVault \/ VaultRead \/ Generate \/ Configure \/ Generated
    \/ FindSensors \/ SensorsLost \/ FindCdevs \/ FindZones
    \/ add_sensor \/ add_virtual_sensor \/ add_zone_passive \/ set_zone_status
    \/ delete_zone \/ add_cooling_device \/ set_user_passive_temperature
    \/ Crash \/ Reboot

Spec == Init /\ [][Next]_vars

-----------------------------------------------------------------------------
(* Properties.                                                             *)

\* What the decoder of the data vault made of the bytes is what the firmware wrote
\* into them, whatever the format and the nesting of repositories; a vault that is
\* spoilt leaves the machine to the default engine.
DecodedAsWritten ==
    /\ phase \notin {"off", "vault"} /\ vault.status = "done" => vault.tables = m.written
    /\ phase \notin {"off", "vault"} /\ vault.status = "error" => ~adaptive

\* The device a row of a relationship table is about, and the rows about the same.
RowDevice(row) == search_cdev(engine, CoolingName(m.acpi, row.source))
Alike(rows, row) ==
    SelectSeq(rows, LAMBDA r : r.target = row.target /\ RowDevice(r) # 0
                               /\ engine.cdevs[RowDevice(r)].type = engine.cdevs[RowDevice(row)].type)

\* The row's device is bound once to the first trip of the type, with the influence
\* of the last such row, and the zone is in use.
RowBound(rows, row, type, Weight(_)) ==
    LET zone == engine.zones[search_zone(engine, ZoneName(row.target))]
        uses == SelectSeq(zone.trips[Bindable(zone, type)].cdevs,
                          LAMBDA u : engine.cdevs[u.cdev].type = engine.cdevs[RowDevice(row)].type)
    IN  /\ zone.active
        /\ Len(uses) = 1
        /\ uses[1].influence = Weight(Last(Alike(rows, row)))

\* The row names a zone, a sensor and a device that are there.
Applicable(row, type) ==
    /\ RowDevice(row) # 0
    /\ search_sensor(engine, ZoneName(row.target)) # 0
    /\ search_zone(engine, ZoneName(row.target)) # 0
    /\ Bindable(engine.zones[search_zone(engine, ZoneName(row.target))], type) # 0

\* The relationship tables of the firmware, written as a configuration, read back,
\* and merged with the zones that were found, bind every device they name, in this and
\* in every later start that finds the file complete.
RelationsBound ==
    LET told == /\ phase = "up" /\ calls = 0 /\ ~adaptive /\ m.xml /\ ~m.option
                /\ files.conf_auto.state = "none" /\ files.run_auto.state = "whole"
                /\ Passive1 \in m.acpi.uuids /\ m.dmi.product_name # ""
        bound(rows, type, Weight(_)) ==
            \A k \in DOMAIN rows : Applicable(rows[k], type) => RowBound(rows, rows[k], type, Weight)
    IN  told => /\ bound(Rows(m.acpi, "trt"), "PASSIVE", LAMBDA r : r.influence)
                /\ bound(Rows(m.acpi, "art"), "ACTIVE", LAMBDA r : r.weight)

DistinctIndex(list) == \A i, j \in DOMAIN list : i # j => list[i].index # list[j].index

\* Virtual sensor i was given its index before it brought power sensor j with it, which
\* was given the same.
BroughtPower(i, j) ==
    /\ engine.sensors[i].kind = "virtual" /\ engine.sensors[j].kind = "power"
    /\ engine.sensors[i].index = engine.sensors[j].index
    /\ j \in ToSet(engine.sensors[i].links)

\* The configuration gives an existing zone, of the kernel, a trip t of a type that it
\* has: the trip takes the other's place, and the next one the configuration gives that
\* zone is numbered by the same number of trips.
Redefined(zone, t) ==
    \E c \in DOMAIN conf.info.zones, k \in DOMAIN m.thermal :
        LET config == conf.info.zones[c]
        IN  /\ Matches(zone.type, config.type) /\ Matches(zone.type, m.thermal[k].type)
            /\ \E l \in DOMAIN m.thermal[k].trips : TripType(m.thermal[k].trips[l].type) = t.type
            /\ \E i \in 1 .. Len(config.trips) - 1 :
                  config.trips[i].type = t.type /\ config.trips[i].temperature = t.temp

\* The kernel lists its zones in order and all can be read.
InOrder == \A k \in DOMAIN m.thermal : m.thermal[k].n = k - 1 /\ m.thermal[k].readable

\* Indexes tell sensors, cooling devices and zones apart, and the trips of a zone by
\* which devices remember who holds them, through every start and every sequence of
\* D-Bus calls; but for a virtual sensor and the power sensor it brings, and for a trip
\* that the configuration redefines before another of the same zone.  Where the
\* kernel's zones come in order, the sensor of a polling trip is found by its index as
\* a position, which is how the trip looks it up.
IdsIdentify ==
    /\ \A i, j \in DOMAIN engine.sensors :
          i # j /\ engine.sensors[i].index = engine.sensors[j].index
              => BroughtPower(i, j) \/ BroughtPower(j, i)
    /\ DistinctIndex(engine.cdevs)
    /\ DistinctIndex(engine.zones)
    /\ \A z \in DOMAIN engine.zones :
          LET zone == engine.zones[z]
              real == SelectSeq(zone.trips, LAMBDA t : t.type # "POLLING")
          IN  /\ \A i, j \in DOMAIN real :
                    i # j /\ real[i].index = real[j].index
                        => Redefined(zone, real[i]) \/ Redefined(zone, real[j])
              /\ InOrder => \A k \in TripsOf(zone, "POLLING") :
                    \/ zone.trips[k].sensor_id + 1 \in ToSet(zone.sensors)
                    \/ \E i, j \in DOMAIN engine.sensors :
                          BroughtPower(i, j) /\ engine.sensors[i].index = zone.trips[k].sensor_id

\* Every trip that the administrator's configuration gives an existing zone, with a
\* temperature and a sensor that is there, is a trip of that zone.
ConfiguredTripsExist ==
    phase = "up" /\ calls = 0 /\ ~adaptive /\ conf.matched /\ ~conf.auto =>
        \A i \in DOMAIN conf.info.zones :
            LET config == conf.info.zones[i]
                z      == search_zone(engine, config.type)
            IN  z # 0 => \A k \in DOMAIN config.trips :
                    config.trips[k].temperature # 0 /\ search_sensor(engine, config.trips[k].sensor) # 0 =>
                        \E t \in DOMAIN engine.zones[z].trips :
                            /\ engine.zones[z].trips[t].type = config.trips[k].type
                            /\ engine.zones[z].trips[t].temp = config.trips[k].temperature
=============================================================================
