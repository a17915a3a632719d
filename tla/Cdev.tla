-------------------------------- MODULE Cdev --------------------------------
(***************************************************************************)
(* The cooling-device base class (thd_cdev.h, thd_cdev.cpp) as operators   *)
(* on two records:                                                         *)
(*                                                                         *)
(*   d  the device: min_state, max_state, inc_dec_val, inc_val, dec_val,   *)
(*      auto_down_adjust, debounce_interval, pid_enable and the points     *)
(*      where a subclass differs: raw (set_curr_state_raw is that of the   *)
(*      "base" class, a plain "write", or the power "limit" of RAPL),      *)
(*      read_back (get_curr_state reads the hardware), map ("none" or      *)
(*      "mirror", see map_target_state);                                   *)
(*   c  what a cthd_cdev object remembers: curr_state, curr_pow,           *)
(*      base_pow_state, trend_increase, last_state, zone_trip_limits;      *)
(*      since, the seconds elapsed since last_action_time, saturating      *)
(*      just above the debounce interval; hw, the value the device was     *)
(*      last written with.                                                 *)
(*                                                                         *)
(* A request r is the argument list of thd_cdev_set_state: zone, trip,     *)
(* hard_target, target_state_valid, target_value, pid, min_max_valid,      *)
(* min_state, max_state, force.  A state may lie above or below max_state: *)
(* for a power limit min_state is the larger number.                       *)
(***************************************************************************)
EXTENDS Integers, Sequences, FiniteSets

CONSTANTS
    IntBits,              \* width of int (32 in the build)
    default_max_exponent  \* 20 in the code

\* Two's complement value of x in an int of IntBits bits.
Wrap(x) ==
    LET half == 2 ^ (IntBits - 1)
    IN  ((x + half) % (2 * half)) - half

\* The largest int.
TRIP_PT_INVALID_TARGET_STATE == 2 ^ (IntBits - 1) - 1

Larger(a, b) == IF a >= b THEN a ELSE b

Smaller(a, b) == IF a <= b THEN a ELSE b

Magnitude(a) == IF a < 0 THEN -a ELSE a

Ascending(d) == d.min_state <= d.max_state

\* State a cools more than state b on device d.
MoreRestrictive(d, a, b) == IF Ascending(d) THEN a > b ELSE a < b

\* The states a device can be set to.
StateRange(d) ==
    IF Ascending(d) THEN d.min_state .. d.max_state
                    ELSE d.max_state .. d.min_state

-----------------------------------------------------------------------------
(* Reading and writing the device.                                         *)

get_curr_state(d, c) == IF d.read_back THEN c.hw ELSE c.curr_state

\* Mutant: the highest limit is not looked at.
LimitClampLow(d, state) == IF state < d.max_state THEN d.max_state ELSE state

\* RAPL, of a known range: never below the lowest limit nor above the highest.
LimitClamp(d, state) ==
    LET high == IF state < d.max_state THEN d.max_state ELSE state
    IN  IF high >= d.min_state THEN d.min_state ELSE high

set_curr_state(d, c, state) ==
    LET new_state == IF d.raw = "limit" THEN LimitClamp(d, state) ELSE state
    IN  [c EXCEPT !.curr_state = new_state, !.hw = new_state]

\* The base class clamps as if min_state < max_state, whatever the device.
RawClamp(d, state) ==
    LET low == IF state > d.max_state THEN d.max_state ELSE state
    IN  IF low < d.min_state THEN d.min_state ELSE low

set_curr_state_raw(d, c, state) ==
    set_curr_state(d, c, IF d.raw = "base" THEN RawClamp(d, state) ELSE state)

\* Mutant: anything below the maximum counts as idle.
in_min_stateBelowMax(d, c) == get_curr_state(d, c) < d.max_state

in_min_state(d, c) ==
    \/ d.min_state < d.max_state /\ get_curr_state(d, c) <= d.min_state
    \/ d.min_state > d.max_state /\ get_curr_state(d, c) >= d.min_state

in_max_state(d, c) ==
    \/ d.min_state < d.max_state /\ get_curr_state(d, c) >= d.max_state
    \/ d.min_state > d.max_state /\ get_curr_state(d, c) <= d.max_state

\* 1 when state cools more than the current state, -1 when it cools less.
cmp_current_state(d, c, state) ==
    IF get_curr_state(d, c) = state \/ d.min_state = d.max_state THEN 0
    ELSE IF MoreRestrictive(d, state, get_curr_state(d, c)) THEN 1 ELSE -1

\* Backlight and P-state devices take a target in the units of the hardware
\* (brightness, percent of performance) and count their states downwards
\* from full.
map_target_state(d, valid, target) ==
    IF ~valid \/ d.map = "none" THEN target
    ELSE IF target > d.max_state THEN 0 ELSE d.max_state - target

-----------------------------------------------------------------------------
(* Clamping to the device's limits, or to a trip's own limits when they    *)
(* are tighter.  0 stands for a limit that is not given.                   *)

thd_clamp_state_min(d, state, temp_min) ==
    IF Ascending(d)
    THEN Larger(state, IF temp_min # 0 THEN Larger(temp_min, d.min_state)
                                       ELSE d.min_state)
    ELSE Smaller(state, IF temp_min # 0 THEN Smaller(temp_min, d.min_state)
                                        ELSE d.min_state)

\* Mutant: only the trip's own maximum is applied.
clamp_state_maxOfTrip(d, state, temp_max) ==
    IF temp_max = 0 THEN state
    ELSE IF Ascending(d) THEN Smaller(state, temp_max) ELSE Larger(state, temp_max)

thd_clamp_state_max(d, state, temp_max) ==
    IF Ascending(d)
    THEN Smaller(state, IF temp_max # 0 THEN Smaller(temp_max, d.max_state)
                                        ELSE d.max_state)
    ELSE Larger(state, IF temp_max # 0 THEN Larger(temp_max, d.max_state)
                                       ELSE d.max_state)

-----------------------------------------------------------------------------
(* The exponential controller.                                             *)

\* Mutant: a series starts one exponent too early.
NextPowEarly(c) ==
    IF c.trend_increase THEN Smaller(c.curr_pow + 1, default_max_exponent) ELSE -1

\* Mutant: the exponent grows once only.
NextPowOnce(c) == IF c.trend_increase THEN 1 ELSE 0

\* The exponent of this step of the series.
NextPow(c) ==
    IF c.trend_increase THEN Smaller(c.curr_pow + 1, default_max_exponent) ELSE 0

\* Mutant: a new series starts where the last one did.
SeriesBaseStale(c, curr) == c.base_pow_state

\* The state at which the series began.
SeriesBase(c, curr) ==
    IF c.trend_increase /\ c.curr_pow = 0 THEN curr ELSE c.base_pow_state

\* One step up; each repeated call doubles the distance from the state at
\* which the series began.  The wrap-around check covers inc_val only.  The state it
\* starts from, get_curr_state(true), is curr_state except for a RAPL device that
\* follows its measured power, which Power models.
ExponentialUp(d, c, temp_min, temp_max) ==
    LET curr   == thd_clamp_state_min(d, c.curr_state, temp_min)
        step   == IF d.inc_val # 0 THEN d.inc_val ELSE d.inc_dec_val
        base   == SeriesBase(c, curr)
        pow    == NextPow(c)
        raised == Wrap(base + 2 ^ pow * step)
        wrapped == \/ d.inc_val < 0 /\ base < raised
                   \/ d.inc_val > 0 /\ base > raised
        state  == IF ~c.trend_increase THEN Wrap(curr + step)
                  ELSE IF wrapped THEN d.max_state ELSE raised
    IN  set_curr_state(d, [c EXCEPT !.curr_pow = pow,
                                    !.base_pow_state = base,
                                    !.trend_increase = TRUE],
                       thd_clamp_state_max(d, state, temp_max))

\* One step back towards min_state, or straight to it.
ExponentialDown(d, c) ==
    LET curr  == thd_clamp_state_max(d, get_curr_state(d, c), 0)
        step  == Magnitude(IF d.dec_val # 0 THEN d.dec_val ELSE d.inc_dec_val)
        lower == IF d.auto_down_adjust THEN d.min_state
                 ELSE IF Ascending(d) THEN curr - step ELSE curr + step
        state == thd_clamp_state_max(d, thd_clamp_state_min(d, lower, 0), 0)
    IN  set_curr_state(d, [c EXCEPT !.curr_pow = 0, !.trend_increase = FALSE],
                       state)

-----------------------------------------------------------------------------
(* The list of activations: which trips hold the device, and how.          *)

\* std::sort with few elements: ascending keys, equal keys stay in order.
SortByKey(s, key) ==
    LET place(i) == Cardinality({j \in DOMAIN s :
                        \/ key[j] < key[i]
                        \/ key[j] = key[i] /\ j <= i})
    IN  [k \in DOMAIN s |-> s[CHOOSE i \in DOMAIN s : place(i) = k]]

\* Mutant: always descending.
SortByTargetDown(d, s) == SortByKey(s, [i \in DOMAIN s |-> -s[i].target_value])

SortByTarget(d, s) ==
    SortByKey(s, [i \in DOMAIN s |->
        IF d.min_state < d.max_state THEN s[i].target_value
                                     ELSE -s[i].target_value])

SortByLimits(d, s) ==
    SortByKey(s, [i \in DOMAIN s |->
        IF d.min_state > d.max_state THEN -s[i].max_state
                                     ELSE s[i].min_state])

NotGiven(limit) == limit = 0 \/ limit = TRIP_PT_INVALID_TARGET_STATE

\* The entry a request adds; limits not given are the device's own.
LimitOf(d, r) ==
    [zone |-> r.zone, trip |-> r.trip,
     target_state_valid |-> r.target_state_valid,
     target_value |-> r.target_value,
     min_state |-> IF ~r.min_max_valid THEN 0
                   ELSE IF NotGiven(r.min_state) THEN d.min_state ELSE r.min_state,
     max_state |-> IF ~r.min_max_valid THEN 0
                   ELSE IF NotGiven(r.max_state) THEN d.max_state ELSE r.max_state]

HeldBy(limit, r) == limit.zone = r.zone /\ limit.trip = r.trip

\* Mutant: only the last entry is searched.
HoldsLast(c, r) ==
    c.zone_trip_limits # << >> /\ HeldBy(c.zone_trip_limits[Len(c.zone_trip_limits)], r)

Holds(c, r) == \E i \in DOMAIN c.zone_trip_limits : HeldBy(c.zone_trip_limits[i], r)

\* Mutant: the wrong end of the list decides.
LastLimitFirst(limits) == limits[1]

LastLimit(limits) == limits[Len(limits)]

\* Mutant: the new entry has the target of the previous one.
AddLimitStale(d, limits, r) ==
    Append(limits, IF limits = << >> THEN LimitOf(d, r)
                   ELSE [LimitOf(d, r) EXCEPT !.target_value = LastLimit(limits).target_value])

\* Push when (zone, trip) is new, then sort by what the new entry carries.
AddLimit(d, limits, r) ==
    LET pushed   == Append(limits, LimitOf(d, r))
        byTarget == IF r.target_state_valid THEN SortByTarget(d, pushed) ELSE pushed
    IN  IF r.min_max_valid THEN SortByLimits(d, byTarget) ELSE byTarget

-----------------------------------------------------------------------------
(* thd_cdev_set_state.                                                     *)

\* Mutant: a deactivation is not recorded as the last action.
ActingOnce(d, c, state) ==
    [c EXCEPT !.since = 0, !.last_state = Larger(@, state), !.curr_state = get_curr_state(d, c)]

\* The call goes ahead: it is recorded for the debounce, and a device at its
\* minimum starts a new series.
Acting(d, c, state) ==
    LET now == [c EXCEPT !.since = 0, !.last_state = state,
                         !.curr_state = get_curr_state(d, c)]
    IN  IF now.curr_state = d.min_state
        THEN [now EXCEPT !.curr_pow = 0, !.trend_increase = FALSE]
        ELSE now

\* Everything after the list has been updated: the branch that picks the
\* target, the maximum, the PID output or the exponential controller.
\* pid_output is the clamped result of the PID arithmetic.
ApplyState(d, c, r, state, valid, target, temp_min, temp_max, pid_output) ==
    LET c1 == Acting(d, c, state)
    IN  IF valid THEN [set_curr_state_raw(d, c1, target) EXCEPT !.curr_state = target]
        ELSE IF r.hard_target THEN set_curr_state_raw(d, c1, d.max_state)
        ELSE IF r.pid \/ d.pid_enable THEN set_curr_state_raw(d, c1, pid_output)
        ELSE IF state = 1 THEN ExponentialUp(d, c1, temp_min, temp_max)
        ELSE ExponentialDown(d, c1)

\* state = 1.  The last entry of the list decides, whoever is calling.
ActivateState(d, c, r, pid_output) ==
    LET limits == IF Holds(c, r) THEN c.zone_trip_limits
                  ELSE AddLimit(d, c.zone_trip_limits, r)
        limit  == LastLimit(limits)
        c1     == [c EXCEPT !.zone_trip_limits = limits]
    IN  IF /\ c.zone_trip_limits # << >>
           /\ limit.target_state_valid
           /\ cmp_current_state(d, c, map_target_state(d, TRUE, limit.target_value)) <= 0
        THEN c1
        ELSE IF ~r.force /\ c.last_state = 1 /\ c.since <= d.debounce_interval
        THEN c1
        ELSE ApplyState(d, c1, r, 1, limit.target_state_valid, limit.target_value,
                        limit.min_state, limit.max_state, pid_output)

\* Mutant: the caller's own target stays in force.
AfterReleaseOwn(d, r, last, rest) == [valid |-> r.target_state_valid, target |-> r.target_value]

\* The target, if any, once entry last is erased: that of the entry before
\* it, or the minimum.
AfterRelease(d, r, last, rest) ==
    IF rest # << >>
    THEN [valid |-> LastLimit(rest).target_state_valid, target |-> LastLimit(rest).target_value]
    ELSE [valid  |-> r.target_state_valid \/ (~last.target_state_valid /\ r.force),
          target |-> IF last.target_state_valid \/ r.force THEN d.min_state ELSE r.target_value]

\* Mutant: the last entry is erased whoever lets go.
ReleaseLimitAny(d, c, r, pid_output) ==
    LET rest  == SubSeq(c.zone_trip_limits, 1, Len(c.zone_trip_limits) - 1)
        after == AfterRelease(d, r, LastLimit(c.zone_trip_limits), rest)
    IN  ApplyState(d, [c EXCEPT !.zone_trip_limits = rest], r, 0,
                   after.valid, after.target, 0, 0, pid_output)

\* state = 0 with a non-empty list.  Only the last entry can be erased.
ReleaseLimit(d, c, r, pid_output) ==
    LET last   == LastLimit(c.zone_trip_limits)
        rest   == SubSeq(c.zone_trip_limits, 1, Len(c.zone_trip_limits) - 1)
        after  == AfterRelease(d, r, last, rest)
    IN  IF ~HeldBy(last, r) THEN c
        ELSE ApplyState(d, [c EXCEPT !.zone_trip_limits = rest], r, 0,
                        after.valid, after.target, 0, 0, pid_output)

\* Mutant: a device nobody holds is left as it is.
DeactivateHeld(d, c, r, pid_output) ==
    IF c.zone_trip_limits # << >> THEN ReleaseLimit(d, c, r, pid_output) ELSE c

\* state = 0.
DeactivateState(d, c, r, pid_output) ==
    IF c.zone_trip_limits # << >> THEN ReleaseLimit(d, c, r, pid_output)
    ELSE IF in_min_state(d, c) THEN c
    ELSE ApplyState(d, c, r, 0, r.force, d.min_state, 0, 0, pid_output)

\* The request thd_cdev_set_min_state makes for a trip that lets go.
MinStateRequest(d, r) ==
    [r EXCEPT !.hard_target = FALSE, !.target_state_valid = TRUE,
              !.target_value = d.min_state, !.pid = FALSE, !.force = TRUE,
              !.min_max_valid = FALSE, !.min_state = 0, !.max_state = 0]

thd_cdev_set_min_state(d, c, r) ==
    DeactivateState(d, [c EXCEPT !.trend_increase = FALSE],
                    MinStateRequest(d, r), d.min_state)

\* One second passes.
Elapse(d, c) == [c EXCEPT !.since = Smaller(c.since + 1, d.debounce_interval + 1)]
=============================================================================
