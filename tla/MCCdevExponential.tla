-------------------------- MODULE MCCdevExponential --------------------------
(* A fan-like device 0..9 without a target, used by trips of two zones.  *)
EXTENDS CdevExponential

MCDevice ==
    [min_state |-> 0, max_state |-> 9, inc_dec_val |-> 1, inc_val |-> 0,
     dec_val |-> 4, auto_down_adjust |-> FALSE, debounce_interval |-> 1,
     pid_enable |-> FALSE, raw |-> "base", read_back |-> FALSE,
     map |-> "none"]

Plain(z) ==
    [zone |-> z, trip |-> 0, hard_target |-> FALSE, target_state_valid |-> FALSE,
     target_value |-> 0, pid |-> FALSE, min_max_valid |-> FALSE,
     min_state |-> 0, max_state |-> 0, force |-> FALSE]

MCRequests == {Plain(1), Plain(2)}

MCBootStates == {0}

ASSUME PlainTrips /\ FitsInt
=============================================================================
