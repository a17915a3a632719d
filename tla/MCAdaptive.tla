------------------------------ MODULE MCAdaptive ------------------------------
(* A laptop in small: the processor and the charger share the power device.    *)
EXTENDS Adaptive

MCDevices ==
    "rapl" :> [min_state |-> 28000, max_state |-> 12000, inc_dec_val |-> 0,
               inc_val |-> -16000, dec_val |-> -8000, auto_down_adjust |-> FALSE,
               debounce_interval |-> 0, pid_enable |-> FALSE, raw |-> "limit",
               read_back |-> FALSE, map |-> "none",
               names |-> {"rapl_controller_mmio", "B0D4"}]

MCZones == <<[name |-> "TCPU", sensors |-> <<1>>, trips |-> << >>],
             [name |-> "CHRG", sensors |-> <<2>>, trips |-> << >>]>>

MCSensors == <<"TCPU", "CHRG">>

Row(zone, at, limit) ==
    [target |-> zone, source |-> "TCPU", temp |-> at, limit |-> limit, sample_period |-> 0]

MCPsvts ==
    "IETM.D0" :> <<Row("B0D4", 3332, << >>), Row("CHRG", 3182, <<"mW", 24>>)>> @@
    "quiet"   :> <<Row("TCPU", 3182, <<"MAX">>), Row("TCPU", 3232, <<"MAX">>),
                   Row("TCPU", 3282, <<"mW", 12>>)>> @@
    "absent"  :> <<Row("SKIN", 3182, << >>)>>

MCItmts == "fast" :> <<[target |-> "CHRG", trip_point |-> 3232,
                        pl1_min |-> <<"mW", 20>>, pl1_max |-> <<"MAX">>]>>

Target(id, participant, code, table, numeric, argument) ==
    [target_id |-> id, participant |-> participant, code |-> code, table |-> table,
     numeric |-> numeric, argument |-> argument]

MCTargets ==
    <<Target(4, "IETM", "PSVT", "quiet", FALSE, 0),
      Target(4, "TCPU", "PL1MAX", "", TRUE, 16),
      Target(4, "IETM", "ITMT", "fast", FALSE, 0),
      Target(7, "TCPU", "PL1MAX", "", TRUE, 28),
      Target(9, "IETM", "PSVT", "absent", FALSE, 0)>>

Cond(source, comparison, argument, time, target) ==
    [condition |-> source, device |-> 2, comparison |-> comparison, argument |-> argument,
     time |-> time, time_comparison |-> "GREATER_OR_EQUAL", target |-> target]

MCConditions ==
    <<<<Cond("odvp0", "EQUAL", 1, 1, 4), Cond("Temperature", "GREATER_OR_EQUAL", 3232, 2, 4)>>,
      <<Cond("Power_source", "EQUAL", 0, 0, 7)>>,
      <<Cond("odvp0", "EQUAL", 2, 0, 9)>>>>

Env(odvp, battery) == "odvp0" :> odvp @@ "Power_source" :> battery

MCEnvs == {Env(0, 1), Env(1, 0), Env(2, 0), Env(2, 1)}

MCTemps == <<{30000, 60000}, {30000, 60000}>>

\* A vault with a condition the daemon does not support, and none that matches.
UnsupportedConditions == <<<<Cond("Orientation", "EQUAL", 1, 0, 4)>>>>
===============================================================================
