------------------------------- MODULE MCZones -------------------------------
(* A laptop in small: a zone whose passive trip uses two devices one after    *)
(* the other, whose two active trips share a fan and whose hot trip suspends. *)
EXTENDS ZoneControl, TLC

Dev(top, down, debounce) ==
    [min_state |-> 0, max_state |-> top, inc_dec_val |-> 1, inc_val |-> 0,
     dec_val |-> down, auto_down_adjust |-> FALSE, debounce_interval |-> debounce,
     pid_enable |-> FALSE, raw |-> "base", read_back |-> FALSE, map |-> "none"]

Bind(name, sampling) ==
    [cdev |-> name, influence |-> 0, sampling_priod |-> sampling,
     since_op |-> sampling, target_state_valid |-> FALSE, target_state |-> 0,
     min_max_valid |-> FALSE, min_state |-> 0, max_state |-> 0]

Trip(index, type, at, sensor, control, bindings) ==
    [index |-> index, type |-> type, temp |-> at, hyst |-> 1, sensor |-> sensor,
     control_type |-> control, trip_on |-> FALSE, poll_on |-> FALSE,
     crit_trip_count |-> 0, depend |-> NoDepend, cdevs |-> bindings]

MCDevices == "rapl" :> Dev(2, 0, 0) @@ "clamp" :> Dev(3, 2, 1) @@ "fan" :> Dev(2, 0, 0)

MCZonesConf ==
    <<[sensors |-> <<1>>, corelated |-> FALSE,
       trips |-> <<Trip(0, "PASSIVE", 8, 1, "SEQUENTIAL",
                        <<Bind("rapl", 0), Bind("clamp", 1)>>),
                   Trip(1, "ACTIVE", 9, DEFAULT_SENSOR_ID, "PARALLEL",
                        <<Bind("fan", 0)>>),
                   Trip(2, "ACTIVE", 10, DEFAULT_SENSOR_ID, "PARALLEL",
                        <<Bind("fan", 0)>>),
                   Trip(3, "HOT", 10, DEFAULT_SENSOR_ID, "PARALLEL", << >>)>>]>>

MCTemps == {4, 7, 9, 10}

\* SequentialOrder is proved for configurations like this one, and what is
\* proved of ThrottledIsPolled is about these devices.
ASSUME ProvedForThisConfiguration ==
    /\ SequentialTripsOwnDevices
    /\ {n \in DOMAIN Devices : PolledFor(1, n)} = {"rapl", "clamp"}
=============================================================================
