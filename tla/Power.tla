------------------------------- MODULE Power -------------------------------
(***************************************************************************)
(* The package power limit of powercap RAPL as a cooling device            *)
(* (thd_cdev_rapl.cpp), the power meter it starts from                     *)
(* (thd_rapl_power_meter.cpp) and the hardware under both.                 *)
(*                                                                         *)
(*   plat   what the platform shows when the daemon starts, the registers  *)
(*          power on left included                                         *)
(*   hw     the registers behind the powercap files                        *)
(*   dev    the cthd_sysfs_cdev_rapl object                                *)
(*   meter  the package domain of the cthd_rapl_power_meter object         *)
(*   env    the energy counter of the hardware, the seconds since the      *)
(*          meter read it last, and how often it went round since the      *)
(*          meter's first reading                                          *)
(*   direct the last write of the limit was a PL1PowerLimit target         *)
(*                                                                         *)
(* Powers are small numbers in one unit; states of the device are powers.  *)
(***************************************************************************)
EXTENDS Integers

CONSTANTS
    Platforms,     \* records: source of the PPCC limits ("conf", "pci", "none"), pl0_max,
                   \* pl0_min, min_window, max_window, pl2_max, step; and the
                   \* registers pl1_max (-1 when absent), pl1, pl2, window, enabled, locked
    SaneMax,       \* rapl_max_sane_phy_max
    DefWindow,     \* def_rapl_time_window
    Range,         \* max_energy_range
    MaxPower,      \* energy the package can use in one second
    MaxGap,        \* seconds between two readings of the counter
    Targets,       \* adaptive targets: records of code and argument
    MaxWraps,      \* bound: rounds of the energy counter
    MaxTargets     \* bound: targets that are set

VARIABLES plat, hw, dev, meter, env, direct, told

vars == <<plat, hw, dev, meter, env, direct, told>>

\* The counter is read at least once in each half of its range.
ASSUME GapAssumption ==
    /\ {Range, MaxPower, MaxGap} \subseteq Nat \ {0}
    /\ MaxGap * MaxPower < Range \div 2

ASSUME PlatformAssumption ==
    /\ Platforms \subseteq
         [source : {"conf", "pci", "none"}, pl0_max : Int, pl0_min : Int, min_window : Int,
          max_window : Int, pl2_max : Int, step : Int, pl1_max : Int, pl1 : Int, pl2 : Int,
          window : Int, enabled : {0, 1}, locked : BOOLEAN]
    /\ {SaneMax, DefWindow} \subseteq Int
    /\ Targets \subseteq
         [code : {"PL1MAX", "PL1MIN", "PL1STEP", "PL1TimeWindow", "PL1PowerLimit", "PL2PowerLimit"},
          argument : Int]

Larger(a, b) == IF a > b THEN a ELSE b
Smaller(a, b) == IF a < b THEN a ELSE b

-----------------------------------------------------------------------------
(* The start: update() on what the platform shows.                         *)

\* The limits of the platform are used: those of the configuration when they are a
\* range, those of the PCI device when none is missing and the limit they allow is
\* not below the one of powercap.
read_ppcc_power_limits(p) ==
    /\ p.source # "none"
    /\ p.pl0_max > p.pl0_min
    /\ p.source = "pci" => /\ 0 \notin {p.pl0_max, p.pl0_min, p.min_window, p.max_window, p.step}
                           /\ p.pl1_max <= p.pl0_max

\* The registers after update().  A locked register refuses every write.
UpdatedRegisters(p) ==
    LET window == IF p.max_window > p.min_window THEN p.max_window ELSE p.window
    IN  IF p.locked \/ ~read_ppcc_power_limits(p)
        THEN [pl1 |-> p.pl1, pl2 |-> p.pl2, window |-> p.window, enabled |-> p.enabled]
        ELSE IF p.pl2 # 0
        THEN [pl1 |-> p.pl0_max, pl2 |-> p.pl2, window |-> window, enabled |-> 1]
        ELSE [pl1 |-> p.pl0_max, pl2 |-> p.pl2_max, window |-> window,
              enabled |-> IF p.pl2_max # 0 THEN 1 ELSE p.enabled]

\* There is no usable maximum: the device works from the power that is drawn.
NoSaneMax(p) == p.pl1_max < 0 \/ p.pl1_max > SaneMax

\* The device after update(), r the registers it left.  With PPCC limits inc_dec_val
\* keeps its default, one microwatt.
UpdatedDevice(p, r) ==
    LET phy  == Larger(p.pl1_max, p.pl1)
        with(min, max, dynamic) ==
            [min_state |-> min, max_state |-> max, curr_state |-> min, dynamic |-> dynamic,
             bios_locked |-> FALSE, constrained |-> FALSE, min_window |-> p.min_window, step |-> p.step,
             inc_dec_val |-> -p.step, on_pwr |-> 0, on_window |-> r.window, on_enabled |-> r.enabled]
    IN  IF read_ppcc_power_limits(p)
        THEN [with(p.pl0_max, p.pl0_min, TRUE) EXCEPT !.inc_dec_val = 0]
        ELSE IF NoSaneMax(p)
        THEN [with(SaneMax, 0, TRUE) EXCEPT !.on_pwr = p.pl1, !.on_enabled = 0]
        ELSE with(phy, phy - phy \div 2, FALSE)

Init ==
    /\ plat \in Platforms
    /\ hw = UpdatedRegisters(plat)
    /\ dev = UpdatedDevice(plat, hw)
    /\ meter = [enabled |-> dev.dynamic, counter |-> 0, cumulative |-> 0, half_way |-> FALSE, power |-> 0]
    /\ \E e \in 0 .. Range - 1 : env = [energy |-> e, elapsed |-> 1, wraps |-> 0, sampled |-> FALSE]
    /\ direct = FALSE
    /\ told = 0

-----------------------------------------------------------------------------
(* The meter.                                                              *)

\* Mutant: the flag of the upper half survives the round.
rapl_energy_loopSticky(m, e, dt) ==
    LET wrapped == m.half_way /\ e < Range \div 2
        counter == IF wrapped THEN 0 ELSE m.counter
    IN  [m EXCEPT !.counter = e,
                  !.cumulative = IF wrapped THEN @ + Range ELSE @,
                  !.half_way = @ \/ e > Range \div 2,
                  !.power = IF counter # 0 THEN (e - counter) \div dt ELSE @]

\* Mutant: the last reading is kept for the power when the counter went round.
rapl_energy_loopKept(m, e, dt) ==
    LET wrapped == m.half_way /\ e < Range \div 2
    IN  [m EXCEPT !.counter = e,
                  !.cumulative = IF wrapped THEN @ + Range ELSE @,
                  !.half_way = IF wrapped THEN FALSE ELSE @ \/ e > Range \div 2,
                  !.power = IF m.counter # 0 THEN (e - m.counter) \div dt ELSE @]

\* The counter is read as e, dt seconds after the last reading.  It went round when it
\* was in its upper half before and is in its lower half now; the power then stays
\* what it was, because the old reading is forgotten.
rapl_energy_loop(m, e, dt) ==
    LET wrapped == m.half_way /\ e < Range \div 2
        counter == IF wrapped THEN 0 ELSE m.counter
    IN  [m EXCEPT !.counter = e,
                  !.cumulative = IF wrapped THEN @ + Range ELSE @,
                  !.half_way = IF wrapped THEN FALSE ELSE @ \/ e > Range \div 2,
                  !.power = IF counter # 0 THEN (e - counter) \div dt ELSE @]

\* The counter was read in the second x.elapsed after the last reading.
Looped(m, x) ==
    IF m.enabled /\ x.elapsed > 0 THEN rapl_energy_loop(m, x.energy, x.elapsed) ELSE m

JustRead(m, x) ==
    IF m.enabled /\ x.elapsed > 0 THEN [x EXCEPT !.elapsed = 0, !.sampled = TRUE] ELSE x

\* A second passes in which the package uses p.
SecondPassed(x, p) ==
    [x EXCEPT !.energy = (@ + p) % Range,
              !.elapsed = IF x.sampled THEN @ + 1 ELSE 1,
              !.wraps = IF x.sampled /\ x.energy + p >= Range THEN @ + 1 ELSE @]

\* The second fits in the gap between two readings and in the bound.
MayPass(x, p) ==
    x.sampled => x.elapsed < MaxGap /\ (x.energy + p < Range \/ x.wraps < MaxWraps)

Tick ==
    /\ \E p \in 0 .. MaxPower : MayPass(env, p) /\ env' = SecondPassed(env, p)
    /\ UNCHANGED <<plat, hw, dev, meter, direct, told>>

\* The engine's loop reads the meter.
rapl_measure_power ==
    /\ meter.enabled /\ env.elapsed > 0
    /\ meter' = Looped(meter, env)
    /\ env' = JustRead(meter, env)
    /\ UNCHANGED <<plat, hw, dev, direct, told>>

\* A reader of the power starts the measurement; without a power so far the counter is
\* read twice, a second apart.
rapl_action_get_power ==
    LET started == [meter EXCEPT !.enabled = TRUE]
    IN  IF meter.power # 0 THEN meter' = started /\ UNCHANGED env
        ELSE \E p \in 0 .. MaxPower :
                LET x == SecondPassed(JustRead(started, env), p)
                IN  /\ MayPass(JustRead(started, env), p)
                    /\ meter' = Looped(Looped(started, env), x)
                    /\ env' = JustRead(started, x)

\* The power sensor is read: the last power, never a new measurement.
ReadPowerSensor ==
    /\ ~meter.enabled
    /\ meter' = [meter EXCEPT !.enabled = TRUE]
    /\ UNCHANGED <<plat, hw, dev, env, direct, told>>

-----------------------------------------------------------------------------
(* The device.  A result holds the device d and the registers r.           *)

\* The registers r become written, unless the package is locked and refuses.
Write(r, written) == IF plat.locked THEN r ELSE written

\* Mutant: the time window of the throttling is left in place.
ReleasedWindow(d, r) ==
    [d |-> [d EXCEPT !.constrained = FALSE],
     r |-> Write(r, [r EXCEPT !.enabled = IF d.on_enabled = 0 THEN 0 ELSE @])]

\* The limit is given up: what update() recorded as found at power on is restored.
Released(d, r) ==
    [d |-> [d EXCEPT !.constrained = FALSE],
     r |-> Write(r, [r EXCEPT !.enabled = IF d.on_enabled = 0 THEN 0 ELSE @,
                              !.window = d.on_window])]

\* The first activation shortens the window and enforces the limit.
Constrained(d, r) ==
    LET window == IF d.min_window # 0 THEN d.min_window ELSE DefWindow
    IN  [d |-> [d EXCEPT !.constrained = TRUE],
         r |-> Write(r, [r EXCEPT !.enabled = IF d.on_enabled = 0 THEN 1 ELSE @,
                                  !.window = window])]

\* The limit is written; a locked package is noticed here.
Limited(x, state) ==
    [d |-> [x.d EXCEPT !.curr_state = state, !.bios_locked = plat.locked],
     r |-> Write(x.r, [x.r EXCEPT !.pl1 = state])]

\* A locked device only pretends, and takes nearly every request for throttling.
Pretended(d, state) ==
    [d EXCEPT !.curr_state = IF state <= d.inc_dec_val THEN d.min_state ELSE d.max_state]

set_curr_state(d, r, state, control) ==
    LET new == Larger(state, d.max_state)
    IN  IF d.bios_locked THEN [d |-> Pretended(d, state), r |-> r]
        ELSE IF new >= d.min_state
        THEN Limited(Released(d, r), IF d.on_pwr # 0 THEN d.on_pwr ELSE d.min_state)
        ELSE IF control /\ ~d.constrained THEN Limited(Constrained(d, r), new)
        ELSE Limited([d |-> d, r |-> r], new)

\* The device and the registers become x, after a call that wrote the limit.
Becomes(x) == dev' = x.d /\ hw' = x.r

\* What the controller starts from: the power drawn, or the limit when that is lower.
get_curr_state(d, r, m) == IF d.dynamic THEN Smaller(r.pl1, m.power) ELSE d.curr_state

\* A trip is hot: k steps down from where the package is now.
Activate ==
    /\ IF dev.dynamic THEN rapl_action_get_power ELSE UNCHANGED <<meter, env>>
    /\ \E k \in 1 .. 2 :
           Becomes(set_curr_state(dev, hw, get_curr_state(dev, hw, meter') - k * dev.step, TRUE))
    /\ direct' = FALSE
    /\ UNCHANGED <<plat, told>>

\* A trip is cool: a step up from the last limit, or all the way.
Deactivate ==
    /\ \E state \in {dev.curr_state + dev.step, dev.min_state} :
           Becomes(set_curr_state(dev, hw, state, FALSE))
    /\ direct' = FALSE
    /\ UNCHANGED <<plat, meter, env, told>>

-----------------------------------------------------------------------------
(* Targets of the adaptive policy.                                         *)

\* Mutant: the limit in force is not compared with the new maximum.
NewMaximumLater(d, r, value) == [d |-> [d EXCEPT !.min_state = value], r |-> r]

\* PL1MAX: the limit follows when it is above the new maximum.
NewMaximum(d, r, value) ==
    LET capped == [d EXCEPT !.min_state = value]
        first  == IF d.curr_state > r.pl1 THEN set_curr_state(capped, r, r.pl1, TRUE)
                  ELSE [d |-> capped, r |-> r]
    IN  IF first.d.curr_state > value THEN set_curr_state(first.d, first.r, value, TRUE) ELSE first

\* PL1MIN: the limit follows when it is below the new minimum.
NewMinimum(d, r, value) ==
    LET raised == [d EXCEPT !.max_state = value]
    IN  IF d.curr_state < value THEN set_curr_state(raised, r, value, TRUE)
        ELSE [d |-> raised, r |-> r]

set_adaptive_target ==
    /\ told < MaxTargets /\ told' = told + 1
    /\ \E t \in Targets :
         /\ \/ t.code = "PL1MAX" /\ Becomes(NewMaximum(dev, hw, t.argument))
            \/ t.code = "PL1MIN" /\ Becomes(NewMinimum(dev, hw, t.argument))
            \/ t.code = "PL1STEP" /\ dev' = [dev EXCEPT !.step = t.argument] /\ UNCHANGED hw
            \/ t.code = "PL1TimeWindow" /\ dev' = [dev EXCEPT !.min_window = t.argument] /\ UNCHANGED hw
            \/ t.code = "PL1PowerLimit" /\ hw' = Write(hw, [hw EXCEPT !.pl1 = t.argument]) /\ UNCHANGED dev
            \/ t.code = "PL2PowerLimit" /\ UNCHANGED dev
               /\ hw' = IF hw.pl2 = -1 THEN hw ELSE Write(hw, [hw EXCEPT !.pl2 = t.argument])
         /\ direct' = (direct \/ t.code = "PL1PowerLimit")
    /\ UNCHANGED <<plat, meter, env>>

Next ==
    \/ Tick
    \/ rapl_measure_power
    \/ ReadPowerSensor
    \/ Activate
    \/ Deactivate
    \/ set_adaptive_target

Spec == Init /\ [][Next]_vars

-----------------------------------------------------------------------------
(* Properties.                                                             *)

\* No energy is lost when the hardware's counter goes round: right after every reading
\* the meter has counted exactly the rounds the counter made since its first reading.
EnergyAccounted == env.elapsed = 0 => meter.cumulative = Range * env.wraps

\* The power the meter reports, which the controller starts from and a power sensor
\* shows, is never negative (a huge unsigned number) nor more than the package can use.
PowerIsPlausible == meter.power \in 0 .. MaxPower

\* The device starts from limits it knows, of the platform or of powercap.
KnownLimits == read_ppcc_power_limits(plat) \/ ~NoSaneMax(plat)

\* The registers update() left.
Updated == UpdatedRegisters(plat)

\* Unless it throttles, the device leaves the time window and the enforcement of the
\* package as power on left them, whatever was activated, released and targeted before:
\* set_curr_state() promises to "restore power on time window" and "If disabled during
\* power on, disable".  That is so without PPCC limits, the enforcement only when there
\* is a sane maximum.  With PPCC limits update() has written both before it records
\* them as those of power on, and what it wrote is what a release puts back.
FoundIsRestored ==
    ~dev.constrained =>
        IF read_ppcc_power_limits(plat)
        THEN hw.window = Updated.window /\ hw.enabled = Updated.enabled
        ELSE /\ hw.window = plat.window
             /\ ~NoSaneMax(plat) => hw.enabled = plat.enabled

\* No limit above the maximum in force, PL1MAX once a target named it, is left in the
\* hardware, unless a later PL1PowerLimit target wrote one.
MaximumHolds ==
    KnownLimits /\ ~plat.locked /\ ~direct => hw.pl1 <= dev.min_state
=============================================================================
