------------------------------- MODULE Registry -------------------------------
(***************************************************************************)
(* What changes an engine's sensors, cooling devices and zones after they  *)
(* were found: the virtual sensor of the adaptive tables and the calls of  *)
(* the D-Bus interface (thd_dbus_interface.cpp, thd_engine.cpp).  A call   *)
(* gives a result: ok, whether the engine accepted it, and the engine e.   *)
(***************************************************************************)
EXTENDS Discovery

CONSTANT Dotted    \* name with a dot -> stem and leaf, what is before and after the last one

Stem(name) == IF name \in DOMAIN Dotted THEN Dotted[name].stem ELSE name
Leaf(name) == IF name \in DOMAIN Dotted THEN Dotted[name].leaf ELSE name

Result(ok, e) == [ok |-> ok, e |-> e]

\* A zone with one passive trip; the sensor and the device must be there.
DynamicZone(e, hw, name, temp, sensor, cdev) ==
    LET i    == search_sensor(e, sensor)
        trip == AddNamed(e, Trip(0, "PASSIVE", temp, e.sensors[i].index, "PARALLEL"), <<cdev>>)
    IN  IF i = 0 \/ search_cdev(e, cdev) = 0 THEN Result(FALSE, e)
        ELSE Result(TRUE, AddZone(e, zone_update(e, hw, [bind_sensor(Zone(e.current_zone_index, name), i)
                                                             EXCEPT !.trips = <<trip>>], <<>>)))

\* The virtual sensor of the adaptive tables and the zone that watches it, with a trip
\* that is never reached.  A power coefficient needs the power sensor.
AddVsct(e, hw, tables) ==
    LET links == [k \in DOMAIN tables.vscts |->
                     IF tables.vscts[k][3] = 1 THEN [name |-> "rapl_pkg_power", power_sensor |-> TRUE]
                     ELSE [name |-> Leaf(tables.vscts[k][1]), power_sensor |-> FALSE]]
        power == \E k \in DOMAIN links : links[k].power_sensor
        with  == AddVirtual(e, hw, [name |-> Stem(tables.vscts_name), link_sensors |-> links])
    IN  IF tables.vscts = <<>> \/ (power /\ "power" \notin hw.devices) THEN e
        ELSE DynamicZone(with, hw, Stem(tables.vscts_name), UintRange - 1, Stem(tables.vscts_name),
                         "intel_powerclamp").e

-----------------------------------------------------------------------------
(* Calls.                                                                  *)

\* A sensor of the name is pointed to the path, whether the file is there or not.
user_add_sensor(e, hw, name, path) ==
    LET i == First({k \in DOMAIN e.sensors : e.sensors[k].type = name})
    IN  IF path \notin SysPaths THEN Result(FALSE, e)
        ELSE IF i # 0 THEN Result(TRUE, [e EXCEPT !.sensors[i].path = path])
        ELSE IF path \notin hw.paths THEN Result(FALSE, e)
        ELSE Result(TRUE, AddSensor(e, [Sensor(e.current_sensor_index, name, "raw") EXCEPT !.path = path]))

\* A virtual sensor of the name gets one more link; a new one is made even when the
\* sensor it depends on is not there.
user_add_virtual_sensor(e, name, dep_sensor) ==
    LET i   == First({k \in DOMAIN e.sensors : e.sensors[k].type = name})
        dep == search_sensor(e, dep_sensor)
    IN  IF i # 0
        THEN IF e.sensors[i].kind # "virtual" \/ dep = 0 THEN Result(FALSE, e)
             ELSE Result(TRUE, [e EXCEPT !.sensors[i].links = Append(@, dep)])
        ELSE Result(TRUE, AddSensor(e, [Sensor(e.current_sensor_index, name, "virtual")
                                            EXCEPT !.links = IF dep_sensor = "" THEN <<>> ELSE <<dep>>]))

\* Zones of one name may be added more than once.
user_add_zone(e, hw, zone_name, temp, sensor_name, cdev_name) ==
    DynamicZone(e, hw, zone_name, temp, sensor_name, cdev_name)

user_set_zone_status(e, name, status) ==
    IF get_zone(e, name) = 0 THEN Result(FALSE, e)
    ELSE Result(TRUE, [e EXCEPT !.zones[get_zone(e, name)].active = status])

\* The first zone of the name is deleted, and not finding one is no error.
user_delete_zone(e, name) ==
    Result(TRUE, IF get_zone(e, name) = 0 THEN e ELSE [e EXCEPT !.zones = RemoveAt(@, get_zone(e, name))])

\* A device of the name gets new bounds, whatever its path.
user_add_cdev(e, hw, cdev_name, path, settings) ==
    LET i     == search_cdev(e, cdev_name)
        added == IF i # 0 THEN e ELSE AddCdev(e, cdev_name, "", path)
        at    == IF i # 0 THEN i ELSE Len(added.cdevs)
    IN  IF i = 0 /\ path \notin hw.paths \cap SysPaths THEN Result(FALSE, e)
        ELSE Result(TRUE, [added EXCEPT !.cdevs[at].settings = settings @@ @])

\* The temperature is left in a file for the next start.
user_set_psv_temp(e, hw, name, temp) ==
    [ok |-> get_zone(e, name) # 0,
     psv |-> IF get_zone(e, name) = 0 THEN hw.psv ELSE (name :> temp) @@ hw.psv]
=============================================================================
