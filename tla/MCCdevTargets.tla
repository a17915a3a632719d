---------------------------- MODULE MCCdevTargets ----------------------------
(* A fan-like device 0..6 shared by three trips of two zones, two of which   *)
(* ask for the same state.                                                   *)
EXTENDS CdevTargets

MCDevice ==
    [min_state |-> 0, max_state |-> 6, inc_dec_val |-> 1, inc_val |-> 0,
     dec_val |-> 0, auto_down_adjust |-> FALSE, debounce_interval |-> 2,
     pid_enable |-> FALSE, raw |-> "base", read_back |-> FALSE,
     map |-> "none"]

Ask(z, t, target) ==
    [zone |-> z, trip |-> t, hard_target |-> FALSE, target_state_valid |-> TRUE,
     target_value |-> target, pid |-> FALSE, min_max_valid |-> FALSE,
     min_state |-> 0, max_state |-> 0, force |-> FALSE]

MCRequests == {Ask(1, 0, 2), Ask(1, 1, 4), Ask(2, 0, 4)}

MCBootStates == {0, 5}
=============================================================================
