------------------------------ MODULE MCStartup ------------------------------
(* Machines with a data vault in each format, a spoilt one, an empty one   *)
(* and none; with relationship tables; with a file named on the command    *)
(* line and with the administrator's configuration.                        *)
EXTENDS Startup, VaultFormat

MCPchNames == {"pch_wildcat_point", "pch_cannonlake"}
MCSysPaths == {"/sys/a", "/sys/b"}
MCDotted == [x \in {"IETM.VSCT", "SB.TSKN"} |->
                IF x = "IETM.VSCT" THEN [stem |-> "IETM", leaf |-> "VSCT"] ELSE [stem |-> "SB", leaf |-> "TSKN"]]

-----------------------------------------------------------------------------
(* Hardware.                                                               *)

KTrip(type, temp) == [type |-> type, temp |-> temp, writable |-> FALSE]
KZone(n, type, trips, bindings) ==
    [n |-> n, type |-> type, readable |-> TRUE, trips |-> trips, bindings |-> bindings]
KCdev(n, type) == [n |-> n, type |-> type, usable |-> TRUE]

NoAcpi == [trt |-> <<>>, art |-> <<>>, psvt |-> <<>>, readable |-> {}, uuids |-> {}, int340x |-> <<>>]
NoSource == [feature |-> FALSE, file_trusted |-> FALSE, file |-> <<>>, device |-> <<>>]
NoFiles == [option |-> NoFile, conf_auto |-> NoFile, run_auto |-> NoFile, conf |-> NoFile]

Machine ==
    [thermal |-> <<KZone(0, "acpitz", <<KTrip("critical", 105)>>, <<>>),
                   KZone(1, "TCPU", <<KTrip("passive", 95), KTrip("active", 70)>>, <<[trip |-> 1, cdev |-> 0]>>),
                   KZone(2, "TSKN", <<KTrip("passive", 45), KTrip("active", 40)>>, <<>>)>>,
     cooling |-> <<KCdev(0, "Fan"), KCdev(1, "Processor"), KCdev(2, "intel_powerclamp")>>,
     dts |-> <<<<>>, <<>>>>, devices |-> {"rapl", "pstate"}, paths |-> {"/sys/a"}, psv |-> <<>>,
     int3400 |-> FALSE, order |-> <<>>, exclusive |-> FALSE, ignore_default_control |-> FALSE,
     debug |-> FALSE, rt_kernel |-> FALSE, acpi |-> NoAcpi,
     dmi |-> [uuid |-> "u1", product_name |-> "Book", product_sku |-> "s1"],
     source |-> NoSource, written |-> NoTables, files |-> NoFiles, option |-> FALSE, xml |-> TRUE,
     adaptive |-> FALSE, disable_active_power |-> FALSE]

-----------------------------------------------------------------------------
(* Vaults.                                                                 *)

C(condition, device, argument, time, target) ==
    [condition |-> condition, device |-> device, comparison |-> "GREATER_OR_EQUAL", argument |-> argument,
     time_comparison |-> IF time = 0 THEN "" ELSE "LESSER_OR_EQUAL", time |-> time, target |-> target]

Psv(limit) == <<"TCPU", "TSKN", 1, 50, 3182, 9, 1, limit, 1, 1, 1>>
PsvKinds == <<"s", "s", "n", "n", "n", "n", "n", "l", "n", "n", "n", "x">>

\* A custom condition stands for the temperature of the skin sensor.
Second ==
    [NoTables EXCEPT
        !.conditions = <<<<C("Temperature", "TSKN", 3182, 5, 1), C("Lid_state", "", 1, 0, 1)>>,
                         <<C("Power_slider", "", 100, 7, 2)>>, <<C("Default", "", 0, 0, 3)>>>>,
        !.custom_conditions = <<<<"Custom_1", "c1", "TSKN", 0, "Temperature">>>>,
        !.targets = <<<<1, "t", "TCPU", 9, "PL1MAX", "15000">>>>,
        !.psvts = <<[name |-> "IETM.D0", rows |-> <<Psv("MAX"), Psv("5")>>]>>,
        !.itmts = <<[name |-> "T0", rows |-> <<<<"TSKN", 3182, "", "9000", "15000", 1, "", 2, 3>>>>],
                    [name |-> "T3", rows |-> <<"r1", "r2">>]>>,
        !.ppccs = <<[name |-> "TCPU.D0", limit |-> <<3, 15, 28, 32, 1>>, limit_1_valid |-> TRUE]>>,
        !.idsps = <<"u1", "u2">>,
        !.trippoints = <<[name |-> "TCPU.D0", temp |-> 100, type |-> "CRITICAL"]>>,
        !.vspts = <<<<40, 5>>>>,
        !.vscts = <<<<"SB.TSKN", 1, 0, 1, 1, 1, 1>>, <<"TPWR", 1, 1, 1, 1, 1, 1>>>>,
        !.vscts_name = "IETM.VSCT"]

\* The conditions as they are in the vault, before the custom ones are merged.
SecondStored ==
    [Second.conditions EXCEPT ![1][1].condition = "Custom_1", ![1][1].device = ""]

\* The tables in three repositories, each within the one before.
SecondVault ==
    <<Repo(2, <<>>),
      Key(<<"shared", "tables", "apct">>, ConditionTable(2, SecondStored)),
      Key(<<"shared", "tables", "appc">>, Table(1, <<"n", "s", "s", "n", "n">>, Second.custom_conditions)),
      Key(<<"shared", "tables", "apat">>, Table(2, <<"n", "s", "s", "n", "s", "s">>, Second.targets)),
      Key(<<"shared", "tables", "psvt", "IETM.D0">>, Table(2, PsvKinds, Second.psvts[1].rows)),
      Repo(2, <<>>),
      Key(<<"shared", "tables", "itmt", "T0">>,
          Table(2, <<"s", "n", "s", "s", "s", "n", "s", "n", "n">>, Second.itmts[1].rows)),
      Key(<<"shared", "tables", "itmt3", "T3">>, Bytes(<<"header", "r1", "r2">>)),
      Key(<<"participants", "TCPU.D0", "ppcc">>, Bytes(<<0, 0, 3, 15, 28, 32, 1, 0, 3, 15, 28, 32, 1>>)),
      Key(<<"participants", "IETM.D0", "idsp">>, Uuids(<<"u1", "u2">>)),
      Repo(2, <<>>),
      Key(<<"participants", "TCPU.D0", "trippoint", "_crt">>, <<N(DeciKelvinOf(100))>>),
      Key(<<"shared", "tables", "vspt">>, Table(1, <<"n", "n">>, <<<<DeciKelvinOf(40), 50>>>>)),
      Key(<<"shared", "tables", "vsct", "IETM.VSCT">>,
          Table(1, <<"s", "n", "n", "n", "n", "n", "n">>, Second.vscts))>>

\* The first format of conditions, with a time, in a compressed repository.
First1 ==
    [NoTables EXCEPT
        !.conditions = <<<<C("Lid_state", "", 1, 5, 1), C("Power_source", "", 1, 0, 1)>>,
                         <<C("Default", "", 0, 0, 2), C("Default", "", 0, 0, 2), C("Default", "", 0, 0, 2)>>>>,
        !.itmts = <<[name |-> "Default", rows |-> <<<<"TSKN", 3182, "", "9000", "15000">>>>]>>]

First1Payload ==
    <<Key(<<"shared", "tables", "apct">>, ConditionTable(1, First1.conditions)),
      Key(<<"shared", "tables", "itmt">>, Table(1, <<"s", "n", "s", "s", "s", "x">>, First1.itmts[1].rows)),
      Key(<<"shared", "tables", "_trt">>,
          RowCells(<<"s", "s", "n", "n", "n", "n", "n", "n">>, <<"a", "b", 1, 2, 3, 4, 5, 6>>)),
      Key(<<"shared", "other", "key">>, <<S("unknown")>>)>>

-----------------------------------------------------------------------------
(* Configurations.                                                         *)

Trt(source, target, influence) ==
    [source |-> source, target |-> target, influence |-> influence, sample_period |-> 50]
Art(source, target, weight) == [source |-> source, target |-> target, weight |-> weight]
PsvtRow(kind, limit, amount, temp) ==
    [source |-> "TCPU", target |-> "TSKN", passive_temp |-> temp, sample_period |-> 50, kind |-> kind,
     limit |-> limit, amount |-> amount]

Relations ==
    [NoAcpi EXCEPT !.trt = <<Trt("TCPU", "TSKN", 20), Trt("B0D4", "TSKN", 30), Trt("Fan", "TSKN", 10),
                             Trt("DISP", "TCPU", 5), Trt("Processor", "TPCH", 7)>>,
                   !.art = <<Art("Fan", "TCPU", 100), Art("Fan", "TSKN", 50)>>,
                   !.readable = {"trt", "art"}, !.uuids = {Passive1}]

Psvt ==
    [NoAcpi EXCEPT !.psvt = <<PsvtRow("number", "", 10, 45), PsvtRow("text", "MAX", 0, 50)>>,
                   !.readable = {"psvt"}, !.uuids = {Passive2}]

\* A raw, a virtual and a power sensor, a fan by its path, trips in a zone of the
\* kernel and a zone of its own.
Administrator ==
    <<[uuid |-> "u9"],
      [uuid |-> "*", product_name |-> "*",
       sensors |-> <<[name |-> "raw1", path |-> "/sys/a"], [name |-> "TSKN", async_capable |-> TRUE],
                     [name |-> "virt", virtual_sensor |-> TRUE, sensor_link |-> [name |-> "TSKN"]],
                     [name |-> "lost", path |-> "/sys/b"]>>,
       cdevs |-> <<[type |-> "_fan_", path |-> "/sys/a", max_state |-> 3], [type |-> "Fan", min_state |-> 1]>>,
       zones |-> <<[type |-> "TSKN",
                    trips |-> <<[sensor |-> "TSKN", temperature |-> 90, type |-> "CRITICAL"],
                                [sensor |-> "virt", temperature |-> 42, type |-> "PASSIVE",
                                 cdevs |-> <<[type |-> "_fan_", influence |-> 10], [type |-> "Fan"]>>]>>],
                   [type |-> "own",
                    trips |-> <<[sensor |-> "raw1", temperature |-> 60, type |-> "ACTIVE",
                                 cdevs |-> <<[type |-> "Fan"]>>],
                                [sensor |-> "raw1", temperature |-> 3, type |-> "other"],
                                [sensor |-> "TSKN", temperature |-> 80, type |-> "PASSIVE",
                                 control |-> "SEQUENTIAL", cdevs |-> <<[type |-> "rapl_controller"]>>]>>]>>]>>

\* A virtual sensor of the skin temperature and the power.
Weighted ==
    [name |-> "weighted", virtual_sensor |-> TRUE,
     link_sensors |-> <<[name |-> "TSKN", coeff |-> 1], [name |-> "rapl_pkg_power", power_sensor |-> TRUE]>>]

\* Both trips of a zone of the kernel.
BothRedefined ==
    [type |-> "TSKN", trips |-> <<[sensor |-> "TSKN", temperature |-> 50, type |-> "PASSIVE"],
                                  [sensor |-> "TSKN", temperature |-> 48, type |-> "ACTIVE"]>>]

DefaultPsvt == Key(<<"shared", "tables", "psvt", "IETM.D0">>, Table(2, PsvKinds, Second.psvts[1].rows))

Coretemp == [inputs |-> 2, crit |-> [n \in 1..2 |-> 100], max |-> [n \in 1..2 |-> 95]]

MCMachines ==
    <<[Machine EXCEPT !.adaptive = TRUE, !.devices = {"rapl", "mmio", "power", "dram"},
                      !.source = [NoSource EXCEPT !.device = SecondVault], !.written = Second],
      [Machine EXCEPT !.adaptive = TRUE, !.thermal = <<>>, !.dts = <<<<Coretemp>>, <<>>>>,
                      !.source = [NoSource EXCEPT !.feature = TRUE, !.file_trusted = TRUE,
                                                  !.file = <<Repo(2, First1Payload)>>,
                                                  !.device = SecondVault],
                      !.written = First1],
      [Machine EXCEPT !.adaptive = TRUE, !.acpi = Psvt, !.exclusive = TRUE, !.devices = {"rapl", "backlight"},
                      !.source = [NoSource EXCEPT !.device = 
                          <<Repo(1, <<>>), DefaultPsvt,
                            Key(<<"shared", "tables", "apat">>, Table(1, <<>>, <<>>))>>]],
      [Machine EXCEPT !.acpi = Relations, !.devices = {"rapl", "backlight", "cpufreq"},
                      !.thermal = <<@[1], @[2], @[3], KZone(3, "pch_cannonlake", <<KTrip("passive", 80)>>, <<>>)>>],
      [Machine EXCEPT !.files.conf = [NoFile EXCEPT !.state = "whole", !.platforms = Administrator],
                      !.thermal = <<@[1], @[3]>>, !.dts = <<<<>>, <<Coretemp>>>>, !.debug = TRUE,
                      !.devices = {"rapl", "power"}],
      [Machine EXCEPT !.adaptive = TRUE, !.source = [NoSource EXCEPT !.device = <<Repo(1, <<>>)>>]],
      [Machine EXCEPT !.adaptive = TRUE, !.thermal = <<>>, !.xml = FALSE, !.disable_active_power = TRUE,
                      !.source = [NoSource EXCEPT !.device = <<Repo(1, <<>>), DefaultPsvt>>],
                      !.written = [NoTables EXCEPT !.psvts = Second.psvts]],
      [Machine EXCEPT !.adaptive = TRUE, !.option = TRUE, !.ignore_default_control = TRUE,
                      !.acpi = Relations, !.dmi.uuid = "",
                      !.files.option = [NoFile EXCEPT !.state = "whole", !.platforms = <<
                          [product_name |-> "Book", product_sku |-> "s2"],
                          [product_name |-> "Book", product_sku |-> "*",
                           sensors |-> <<Weighted>>, zones |-> <<BothRedefined>>]>>],
                      !.devices = {"rapl", "mmio", "power"}]>>

\* The machine of the sixth example of the manual page of the configuration.
Example6 ==
    <<[product_name |-> "*",
       zones |-> <<[type |-> "x86_pkg_temp",
                    trips |-> <<[sensor |-> "x86_pkg_temp", temperature |-> 80, type |-> "PASSIVE",
                                 cdevs |-> <<[type |-> "_fan_", target |-> 1]>>],
                                [sensor |-> "x86_pkg_temp", temperature |-> 85, type |-> "PASSIVE",
                                 cdevs |-> <<[type |-> "_fan_", target |-> 2]>>]>>]>>,
       cdevs |-> <<[type |-> "_fan_", path |-> "/proc/acpi/ibm/fan", max_state |-> 7]>>]>>

MCExampleMachines ==
    <<[Machine EXCEPT !.files.conf = [NoFile EXCEPT !.state = "whole", !.platforms = Example6],
                      !.thermal = <<@[1], KZone(1, "x86_pkg_temp", <<>>, <<>>)>>,
                      !.dts = <<<<Coretemp>>, <<>>>>]>>

MCSensorCalls == {<<"added", "/sys/a">>, <<"TSKN", "/sys/b">>}
MCVirtualCalls == {<<"virt", "TSKN">>, <<"virt2", "">>}
MCZoneCalls == {<<"zone", 50, "TSKN", "Fan">>, <<"zone", 55, "added", "rapl_controller">>}
MCZoneNames == {"zone", "TSKN", "cpu"}
MCCdevCalls == {<<"Fan", "/sys/a">>, <<"_added_", "/sys/a">>}
=============================================================================
