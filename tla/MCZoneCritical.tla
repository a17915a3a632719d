---------------------------- MODULE MCZoneCritical ----------------------------
(* Two zones that can stop the machine: one has a HOT and a CRITICAL trip and *)
(* a passive trip that depends on the state of its fan, the other reads two   *)
(* sensors together.                                                          *)
EXTENDS ZoneCritical

Fan == [min_state |-> 0, max_state |-> 2, inc_dec_val |-> 1, inc_val |-> 0,
        dec_val |-> 0, auto_down_adjust |-> FALSE, debounce_interval |-> 0,
        pid_enable |-> FALSE, raw |-> "base", read_back |-> FALSE, map |-> "none"]

Binding(name) ==
    [cdev |-> name, influence |-> 0, sampling_priod |-> 0, since_op |-> 0,
     target_state_valid |-> FALSE, target_state |-> 0,
     min_max_valid |-> FALSE, min_state |-> 0, max_state |-> 0]

Trip(index, type, at, depend, bindings) ==
    [index |-> index, type |-> type, temp |-> at, hyst |-> 1,
     sensor |-> DEFAULT_SENSOR_ID, control_type |-> "PARALLEL", trip_on |-> FALSE,
     poll_on |-> FALSE, crit_trip_count |-> 0, depend |-> depend, cdevs |-> bindings]

MCDevices == "fan" :> Fan @@ "clamp" :> [Fan EXCEPT !.max_state = 1]

FanInUse == [cdev |-> "fan", rel |-> ">=", state |-> 1]

MCZonesConf ==
    <<[sensors |-> <<1>>, corelated |-> FALSE,
       trips |-> <<Trip(0, "HOT", 8, NoDepend, << >>),
                   Trip(1, "CRITICAL", 9, NoDepend, << >>)>>],
      [sensors |-> <<1, 2>>, corelated |-> TRUE,
       trips |-> <<Trip(0, "MAX", 6, NoDepend, <<Binding("fan")>>),
                   Trip(1, "PASSIVE", 6, FanInUse, <<Binding("clamp")>>),
                   Trip(2, "CRITICAL", 9, NoDepend, << >>)>>]>>

MCTemps == {3, 8, 9}
=============================================================================
