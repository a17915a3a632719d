------------------------------- MODULE Config -------------------------------
(***************************************************************************)
(* Where the thermal configuration comes from: the ACPI relationship       *)
(* tables written out as an XML file (thd_trt_art_reader.cpp), and the     *)
(* parser that reads such a file or the administrator's (thd_parse.cpp).   *)
(*                                                                         *)
(* acpi is what the firmware shows: the tables trt, art and psvt as        *)
(* sequences of rows, the readable ones among them, the uuids that are     *)
(* supported, and int340x, the device of a name.  dmi holds uuid,          *)
(* product_name and product_sku, "" when they cannot be read.              *)
(*                                                                         *)
(* A file is a record of state ("none", "partial" or "whole"), trusted     *)
(* (owner, mode and kind are as demanded) and platforms, its <Platform>    *)
(* elements.  An element is a record with a field for each child that is   *)
(* there, so that parsing it gives the missing ones their defaults.        *)
(* Temperatures are in degrees, 0 for none; a target of -1 is none.        *)
(***************************************************************************)
EXTENDS Integers, Sequences, SequencesExt, FiniteSetsExt, TLC

Passive1 == "42A441D6"
Passive2 == "9E04115A"

NoFile == [state |-> "none", trusted |-> TRUE, platforms |-> <<>>]
Partial == [NoFile EXCEPT !.state = "partial"]

-----------------------------------------------------------------------------
(* The tables as a configuration.                                          *)

\* A source device that is a display, memory or processor participant.
associate_device(acpi, name) ==
    IF name \notin DOMAIN acpi.int340x THEN name
    ELSE CASE acpi.int340x[name] = "INT3406" -> "DISP"
           [] acpi.int340x[name] = "INT3402" -> "TMEM"
           [] acpi.int340x[name] = "INT3401" -> "TCPU"
           [] OTHER -> name

target_substitue_strings ==
    ("B0D4" :> "rapl_controller") @@ ("DPLY" :> "LCD") @@ ("DISP" :> "LCD")
        @@ ("TMEM" :> "rapl_controller_dram") @@ ("TCPU" :> "rapl_controller")
        @@ ("B0DB" :> "rapl_controller")

source_substitue_strings == "TPCH" :> "pch_wildcat_point"

Substituted(list, name) == IF name \in DOMAIN list THEN list[name] ELSE name

\* subtitute_string of a device that cools, and of a zone or sensor.
CoolingName(acpi, name) == Substituted(target_substitue_strings, associate_device(acpi, name))
ZoneName(name) == Substituted(source_substitue_strings, name)

\* The rows of a table that was read.
Rows(acpi, table) == IF table \in acpi.readable THEN acpi[table] ELSE <<>>

Targets(rows) == [i \in DOMAIN rows |-> rows[i].target]

RowsOf(rows, target) == SelectSeq(rows, LAMBDA r : r.target = target)

\* rel_list: the targets of the tables that were read, in order of appearance.
parse_target_devices(acpi, psvt) ==
    FoldLeft(LAMBDA list, t : IF t \in ToSet(list) THEN list ELSE Append(list, t), <<>>,
             Targets(Rows(acpi, "trt")) \o Targets(Rows(acpi, "art")) \o Targets(psvt))

\* One trip for all rows of the target.  Its temperature "*" is read back as 0.
StarTrip(type, target, cdevs) ==
    IF cdevs = <<>> THEN <<>>
    ELSE <<[sensor |-> ZoneName(target), temperature |-> 0, type |-> type,
           control |-> "SEQUENTIAL", cdevs |-> cdevs]>>

add_passive_trip_point(acpi, target) ==
    LET rows == RowsOf(Rows(acpi, "trt"), target)
    IN  StarTrip("PASSIVE", target,
            [i \in DOMAIN rows |-> [type |-> CoolingName(acpi, rows[i].source),
                                    influence |-> rows[i].influence,
                                    period |-> rows[i].sample_period \div 10]])

add_active_trip_point(acpi, target) ==
    LET rows == RowsOf(Rows(acpi, "art"), target)
    IN  StarTrip("ACTIVE", target,
            [i \in DOMAIN rows |-> [type |-> CoolingName(acpi, rows[i].source),
                                    influence |-> rows[i].weight]])

\* The temperature of a row of the PSVT: one degree more for the limit MAX, none for
\* a text that is neither MAX nor MIN.
PsvtTemperature(row) ==
    CASE row.kind = "number" \/ row.limit = "MIN" -> row.passive_temp
      [] row.kind = "text" /\ row.limit = "MAX" -> row.passive_temp + 1
      [] OTHER -> 0

\* One trip for each row.
add_psvt_trip_point(acpi, target) ==
    LET rows == RowsOf(acpi.psvt, target)
    IN  [i \in DOMAIN rows |->
            [sensor |-> target, temperature |-> PsvtTemperature(rows[i]), type |-> "PASSIVE",
             cdevs |-> <<[type |-> CoolingName(acpi, rows[i].source),
                          period |-> rows[i].sample_period \div 10,
                          target |-> IF rows[i].kind = "number" /\ rows[i].amount > 0
                                     THEN 1000 * rows[i].amount ELSE -1]>>]]

create_thermal_zone(acpi, target) ==
    [type |-> ZoneName(target),
     trips |-> add_passive_trip_point(acpi, target) \o add_active_trip_point(acpi, target)]

\* The product name, or a wildcard when there is none to read.
create_platform_conf(dmi, zones) ==
    [product_name |-> IF dmi.product_name = "" THEN "*" ELSE dmi.product_name, zones |-> zones]

WithTarget(targets) == SelectSeq(targets, LAMBDA t : t # "")

\* Zones of the PSVT; they exist for the targets of the other tables too.
process_psvt(acpi, dmi) ==
    IF Passive2 \notin acpi.uuids \/ "psvt" \notin acpi.readable THEN <<>>
    ELSE LET targets == WithTarget(parse_target_devices(acpi, acpi.psvt))
         IN  <<create_platform_conf(dmi, [i \in DOMAIN targets |->
                   [type |-> ZoneName(targets[i]), trips |-> add_psvt_trip_point(acpi, targets[i])]])>>

\* The platform element that generate_conf writes, none when there are no tables.
generate_conf(acpi, dmi) ==
    IF acpi.readable \cap {"trt", "art"} = {} \/ Passive1 \notin acpi.uuids
    THEN process_psvt(acpi, dmi)
    ELSE LET targets == WithTarget(parse_target_devices(acpi, <<>>))
         IN  <<create_platform_conf(dmi, [i \in DOMAIN targets |->
                   create_thermal_zone(acpi, targets[i])])>>

-----------------------------------------------------------------------------
(* The parser.                                                             *)

\* A trip's use of a cooling device; a limit of 0 is none.
parse_new_trip_cdev(element) ==
    element @@ [type |-> "", influence |-> 0, period |-> 0, target |-> -1,
                target_min_state |-> 0, target_max_state |-> 0, pid |-> <<>>]

TripTypeNames == {"ACTIVE", "PASSIVE", "CRITICAL", "HOT", "MAX"}

\* A text that names no type leaves the default, and so does an element without one.
\* A power is kept in the same place as a temperature.
parse_new_trip_point(element) ==
    LET trip == element @@ [sensor |-> "", temperature |-> 0, hyst |-> 0, type |-> "ACTIVE",
                            control |-> "PARALLEL", depends |-> <<>>, cdevs |-> <<>>]
    IN  [trip EXCEPT !.temperature = IF "power" \in DOMAIN element THEN element.power ELSE @,
                     !.type = IF @ \in TripTypeNames THEN @ ELSE "ACTIVE",
                     !.control = IF @ = "SEQUENTIAL" THEN @ ELSE "PARALLEL",
                     !.cdevs = [j \in DOMAIN @ |-> parse_new_trip_cdev(@[j])]]

parse_trip_points(elements) == [k \in DOMAIN elements |-> parse_new_trip_point(elements[k])]

\* A zone without a type has the one of the zone before it.
parse_new_zone(previous, element) ==
    [type |-> IF "type" \in DOMAIN element THEN element.type ELSE previous,
     trips |-> IF "trips" \in DOMAIN element THEN parse_trip_points(element.trips) ELSE <<>>]

parse_thermal_zones(elements) ==
    FoldLeft(LAMBDA list, element :
                 Append(list, parse_new_zone(IF list = <<>> THEN "" ELSE Last(list).type, element)),
             <<>>, elements)

\* mask: the settings that are given, the only ones that replace a device's own.
parse_new_cooling_dev(element) ==
    [type |-> IF "type" \in DOMAIN element THEN element.type ELSE "",
     path |-> IF "path" \in DOMAIN element THEN element.path ELSE "",
     settings |-> [mask \in DOMAIN element \ {"type", "path", "index"} |-> element[mask]]]

parse_cooling_devs(elements) == [i \in DOMAIN elements |-> parse_new_cooling_dev(elements[i])]

\* The sensor a virtual one is made of, by a factor or as one of several.
parse_new_sensor_link(element) == element @@ [name |-> "", multiplier |-> 0, offset |-> 0]
parse_new_virtual_sensor_target(element) ==
    element @@ [name |-> "", coeff |-> 0, offset |-> 0, power_sensor |-> FALSE]
parse_new_virtual_sensor_polling(element) == element @@ [virtual_temp |-> 0, sample_period |-> 0]

\* Path and AsyncCapable count only when they are given.
parse_new_sensor(element) ==
    LET sensor == element @@ [name |-> "", virtual_sensor |-> FALSE, sensor_link |-> <<>>,
                              link_sensors |-> <<>>, polling_table |-> <<>>]
    IN  [sensor EXCEPT
            !.sensor_link = parse_new_sensor_link(@),
            !.link_sensors = [j \in DOMAIN @ |-> parse_new_virtual_sensor_target(@[j])],
            !.polling_table = [j \in DOMAIN @ |-> parse_new_virtual_sensor_polling(@[j])]]

parse_thermal_sensors(elements) == [i \in DOMAIN elements |-> parse_new_sensor(elements[i])]

NoInfo ==
    [uuid |-> "", product_name |-> "", product_sku |-> "", preference |-> "ENERGY_CONSERVE",
     polling_interval |-> 0, ppcc |-> <<>>, sensors |-> <<>>, cdevs |-> <<>>, zones |-> <<>>]

\* A platform element after those before it: identity and sensors are inherited.
parse_new_platform_info(info, element) ==
    LET given == element @@ [info EXCEPT !.preference = NoInfo.preference, !.polling_interval = 0,
                                         !.ppcc = <<>>, !.sensors = <<>>, !.cdevs = <<>>, !.zones = <<>>]
    IN  [given EXCEPT !.preference = IF @ = "PERFORMANCE" THEN @ ELSE "ENERGY_CONSERVE",
                      !.sensors = info.sensors \o parse_thermal_sensors(@),
                      !.cdevs = parse_cooling_devs(@),
                      !.zones = parse_thermal_zones(@)]

\* thermal_info_list of a file.
parse_new_platform(platforms) ==
    FoldLeft(LAMBDA list, element :
                 Append(list, parse_new_platform_info(IF list = <<>> THEN NoInfo ELSE Last(list), element)),
             <<>>, platforms)

match_product_sku(info, dmi) == dmi.product_sku = "" \/ info.product_sku \in {"", "*", dmi.product_sku}

FirstIn(set) == IF set = {} THEN 0 ELSE Min(set)

\* matched_thermal_info_index, 0 for no match: by UUID, by product name, and last by
\* a wildcard name among those that have a UUID.
platform_matched(list, dmi) ==
    LET uuids == {i \in DOMAIN list : dmi.uuid # "" /\ list[i].uuid # "" /\ list[i].uuid \in {"*", dmi.uuid}}
        names == {i \in DOMAIN list :
                     /\ dmi.product_name # ""
                     /\ \/ list[i].product_name = "*"
                        \/ list[i].product_name = dmi.product_name /\ match_product_sku(list[i], dmi)}
        wild  == {i \in DOMAIN list : list[i].uuid # "" /\ list[i].product_name = "*"}
    IN  IF uuids # {} THEN Min(uuids) ELSE IF names # {} THEN Min(names) ELSE FirstIn(wild)

\* The file that is read, and whether it counts as a generated one: the one named on
\* the command line, a generated one, the administrator's.
parser_init(files, option) ==
    CASE option -> [file |-> files.option, auto |-> FALSE]
      [] ~option /\ files.conf_auto.state # "none" -> [file |-> files.conf_auto, auto |-> TRUE]
      [] ~option /\ files.conf_auto.state = "none" /\ files.run_auto.state # "none" ->
             [file |-> files.run_auto, auto |-> TRUE]
      [] OTHER -> [file |-> files.conf, auto |-> FALSE]

\* generate_conf is reached and does not find the file of an earlier start.
Regenerates(files, option) ==
    ~option /\ files.conf_auto.state = "none" /\ files.run_auto.state = "none"

NoConf == [matched |-> FALSE, auto |-> FALSE, info |-> NoInfo]

\* What the engine gets from the parser: a file that is cut off does not parse.
start_parse(chosen, dmi) ==
    LET list  == parse_new_platform(chosen.file.platforms)
        match == platform_matched(list, dmi)
    IN  IF chosen.file.state # "whole" \/ ~chosen.file.trusted \/ match = 0 THEN NoConf
        ELSE [matched |-> TRUE, auto |-> chosen.auto, info |-> list[match]]
=============================================================================
