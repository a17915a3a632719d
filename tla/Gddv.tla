-------------------------------- MODULE Gddv --------------------------------
(***************************************************************************)
(* The adaptive conditions of the firmware's data vault (thd_gddv.cpp) as  *)
(* operators on a record g, what a cthd_gddv object remembers between two  *)
(* evaluations:                                                            *)
(*                                                                         *)
(*   since    for every condition, NotStarted while its state_entry_time   *)
(*            is 0, else the seconds since then, saturating just above the *)
(*            condition's time                                             *)
(*   matched  current_target_matched                                       *)
(*                                                                         *)
(* A condition is a record of condition (what it reads), device, argument, *)
(* comparison, time, time_comparison and target.                           *)
(***************************************************************************)
EXTENDS Integers, Sequences, SequencesExt

CONSTANTS
    conditions,   \* sequence of condition sets, in order of priority
    targets,      \* sequence of records: target_id, participant, code, table (a name),
                  \* numeric (the argument is a number) and argument
    psvts,        \* table name -> rows (target, source, temp, limit, sample_period)
    itmts,        \* table name -> rows (target, trip_point, pl1_min, pl1_max)
    InputDevices  \* of "Lid_state" and "Power_source", those with a device

NotStarted == -1

InitialGddv ==
    [since |-> [i \in DOMAIN conditions |-> [j \in DOMAIN conditions[i] |-> NotStarted]],
     matched |-> -1]

-----------------------------------------------------------------------------
(* One condition.                                                          *)

Compare(comparison, value, argument) ==
    \/ comparison = "EQUAL" /\ value = argument
    \/ comparison = "LESSER_OR_EQUAL" /\ value <= argument
    \/ comparison = "GREATER_OR_EQUAL" /\ value >= argument
    \/ comparison = "NOT_EQUAL" /\ value # argument

\* Sensors show milli-degrees Celsius, conditions speak of deci-Kelvin.
DeciKelvin(millicelsius) == millicelsius \div 100 + 2732

\* The condition as such, without its time.  env holds the sources that can be
\* read; Workload is taken as bursty and the system is Linux, both 3.
DataHolds(c, env, temp) ==
    CASE c.condition = "Temperature" ->
             /\ c.device \in DOMAIN temp
             /\ Compare(c.comparison, DeciKelvin(temp[c.device]), c.argument)
      [] c.condition = "Motion" -> c.argument = 0
      [] c.condition \in {"Workload", "OS_type"} -> Compare(c.comparison, 3, c.argument)
      [] c.condition \in DOMAIN env -> Compare(c.comparison, env[c.condition], c.argument)
      [] OTHER -> FALSE

\* Mutant: the time is checked for the current target too.
TimeAppliesAlways(c, g) == c.time # 0

\* The time of a condition of the target that matched last is not checked.
TimeApplies(c, g) == c.time # 0 /\ c.target # g.matched

\* Mutant: a time that is not over yet starts again.
TimedRestart(g, i, j) ==
    IF g.since[i][j] # NotStarted /\ Compare(conditions[i][j].time_comparison, g.since[i][j], conditions[i][j].time)
    THEN [met |-> TRUE, g |-> [g EXCEPT !.since[i][j] = NotStarted]]
    ELSE [met |-> FALSE, g |-> [g EXCEPT !.since[i][j] = 0]]

\* The time of condition j of set i starts, is over or goes on.
Timed(g, i, j) ==
    IF g.since[i][j] = NotStarted
    THEN [met |-> FALSE, g |-> [g EXCEPT !.since[i][j] = 0]]
    ELSE IF Compare(conditions[i][j].time_comparison, g.since[i][j], conditions[i][j].time)
    THEN [met |-> TRUE, g |-> [g EXCEPT !.since[i][j] = NotStarted]]
    ELSE [met |-> FALSE, g |-> g]

\* Condition j of set i: whether it is met, and what is remembered.
evaluate_condition(g, i, j, env, temp) ==
    LET c == conditions[i][j]
    IN  IF c.condition = "Default" THEN [met |-> TRUE, g |-> g]
        ELSE IF ~DataHolds(c, env, temp)
        THEN [met |-> FALSE, g |-> [g EXCEPT !.since[i][j] = NotStarted]]
        ELSE IF TimeApplies(c, g) THEN Timed(g, i, j)
        ELSE [met |-> TRUE, g |-> g]

\* One second passes.
GddvElapse(g) ==
    [g EXCEPT !.since = [i \in DOMAIN @ |-> [j \in DOMAIN @[i] |->
        IF @[i][j] \in {NotStarted, conditions[i][j].time + 1} THEN @[i][j]
        ELSE @[i][j] + 1]]]

-----------------------------------------------------------------------------
(* The sets.                                                               *)

\* Conditions in order, up to the first that is not met.
evaluate_condition_set(g, i, env, temp) ==
    FoldLeftDomain(LAMBDA acc, j : IF acc.met THEN evaluate_condition(acc.g, i, j, env, temp)
                                   ELSE acc,
                   [met |-> TRUE, g |-> g], conditions[i])

\* Set i was evaluated.
SetEvaluated(acc, i, result) ==
    IF ~result.met THEN [acc EXCEPT !.g = result.g]
    ELSE [target |-> conditions[i][1].target,
          g |-> [result.g EXCEPT !.matched = conditions[i][1].target]]

\* Mutant: the last set that is met wins.
evaluate_conditionsLast(g, env, temp) ==
    FoldLeftDomain(LAMBDA acc, i : SetEvaluated(acc, i, evaluate_condition_set(acc.g, i, env, temp)),
                   [target |-> -1, g |-> g], conditions)

\* The target of the first set that is met; -1 when none is.
evaluate_conditions(g, env, temp) ==
    FoldLeftDomain(LAMBDA acc, i : IF acc.target # -1 THEN acc
                                   ELSE SetEvaluated(acc, i,
                                            evaluate_condition_set(acc.g, i, env, temp)),
                   [target |-> -1, g |-> g], conditions)

\* Conditions the daemon knows how to evaluate.
verify_condition(c) ==
    \/ c.condition \in {"Default", "Temperature", "Workload", "Platform_type",
                        "Power_slider", "OS_type", "odvp0", "odvp1"}
    \/ c.condition \in InputDevices

verify_conditions ==
    \A i \in DOMAIN conditions : \A j \in DOMAIN conditions[i] :
        verify_condition(conditions[i][j])

\* The position of the target that allows the most power, 0 when none does.
find_agressive_target ==
    LET power == {i \in DOMAIN targets : /\ targets[i].code \in {"PL1MAX", "PL1PowerLimit"}
                                         /\ targets[i].numeric
                                         /\ targets[i].argument > 0}
        most  == {i \in power : \A k \in power : targets[k].argument <= targets[i].argument}
    IN  IF most = {} THEN 0 ELSE Min(most)

\* The name of the default table.
find_def_psvt ==
    IF "generic_os" \in DOMAIN psvts THEN "generic_os"
    ELSE IF "IETM.D0" \in DOMAIN psvts THEN "IETM.D0"
    ELSE "none"
=============================================================================
