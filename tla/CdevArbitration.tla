-------------------------- MODULE CdevArbitration ---------------------------
(***************************************************************************)
(* One cooling device shared by trip points of several zones.              *)
(*                                                                         *)
(* Each trip point calls the device on its own schedule: the activation    *)
(* and deactivation loops of thd_trip_point_check, and                     *)
(* thd_trip_cdev_state_reset when the zone falls below its polling         *)
(* threshold.  Zones are polled and notified in any order, so the calls    *)
(* interleave freely; hot is the set of trips whose temperature is         *)
(* reached.                                                                *)
(***************************************************************************)
EXTENDS Cdev

CONSTANTS
    Device,     \* the device record d of Cdev
    Requests,   \* one request record per trip point bound to the device
    BootStates  \* the states the device may be found in at start-up

ASSUME DeviceAssumption ==
    /\ Device.min_state \in Int
    /\ Device.max_state \in Int
    /\ Device.min_state # Device.max_state
    /\ Device.inc_dec_val \in Int
    /\ Device.inc_val \in Int
    /\ Device.dec_val \in Int
    /\ Device.debounce_interval \in Nat
    /\ Device.auto_down_adjust \in BOOLEAN
    /\ Device.pid_enable \in BOOLEAN
    /\ Device.raw \in {"base", "write", "limit"}
    /\ Device.read_back \in BOOLEAN
    /\ Device.map \in {"none", "mirror"}

ASSUME WidthAssumption ==
    /\ IntBits \in Nat \ {0}
    /\ 2 ^ (IntBits - 1) > 0
    /\ default_max_exponent \in Nat

\* A zone has one trip point per trip index, and a trip point one binding
\* per device (check_duplicate in thd_trip_point.h).
ASSUME RequestAssumption ==
    /\ Requests \subseteq
         [zone : Int, trip : Int, hard_target : BOOLEAN,
          target_state_valid : BOOLEAN, target_value : Int, pid : BOOLEAN,
          min_max_valid : BOOLEAN, min_state : Int, max_state : Int,
          force : {FALSE}]
    /\ \A r1, r2 \in Requests :
         r1.zone = r2.zone /\ r1.trip = r2.trip => r1 = r2

ASSUME BootAssumption == BootStates \subseteq StateRange(Device)

VARIABLES
    cdev,  \* the device object, record c of Cdev
    hot    \* requests whose trip temperature is reached

vars == <<cdev, hot>>

Limits == cdev.zone_trip_limits

-----------------------------------------------------------------------------

BootCdev(state) ==
    [curr_state |-> state, hw |-> state, curr_pow |-> 0, base_pow_state |-> 0,
     trend_increase |-> FALSE, last_state |-> 0,
     since |-> Device.debounce_interval + 1, zone_trip_limits |-> << >>]

Init ==
    /\ cdev \in {BootCdev(s) : s \in BootStates}
    /\ hot = {}

\* The temperature of a zone reaches, or leaves, a trip point.
Heat(r) == r \notin hot /\ hot' = hot \cup {r} /\ UNCHANGED cdev

Cool(r) == r \in hot /\ hot' = hot \ {r} /\ UNCHANGED cdev

\* The value passed for a target is mapped by the caller.
Mapped(r) == [r EXCEPT !.target_value =
                 map_target_state(Device, r.target_state_valid, r.target_value)]

\* What the PID arithmetic, clamped to the device's range, can come to.
PidOutputs(r) ==
    IF r.pid \/ Device.pid_enable THEN StateRange(Device) ELSE {Device.min_state}

\* The activation loop skips a device that is at its maximum.
Activate(r) ==
    /\ r \in hot
    /\ ~in_max_state(Device, cdev)
    /\ \E out \in PidOutputs(r) :
         cdev' = ActivateState(Device, cdev, Mapped(r), out)
    /\ UNCHANGED hot

\* The deactivation loop skips a device that is at its minimum.
Deactivate(r) ==
    /\ r \notin hot
    /\ ~in_min_state(Device, cdev)
    /\ \E out \in PidOutputs(r) :
         cdev' = DeactivateState(Device, cdev, Mapped(r), out)
    /\ UNCHANGED hot

\* The zone fell below its polling threshold.
Reset(r) ==
    /\ r \notin hot
    /\ ~in_min_state(Device, cdev)
    /\ cdev' = thd_cdev_set_min_state(Device, cdev, Mapped(r))
    /\ UNCHANGED hot

Tick == cdev' = Elapse(Device, cdev) /\ UNCHANGED hot

Next ==
    \/ \E r \in Requests : \/ Heat(r) \/ Cool(r)
                           \/ Activate(r) \/ Deactivate(r) \/ Reset(r)
    \/ Tick

Spec == Init /\ [][Next]_vars

\* The engine polls every zone again and again, so a trip keeps calling the
\* device for as long as it is on its side of the threshold, and time passes.
Fairness ==
    /\ \A r \in Requests : WF_vars(Activate(r)) /\ WF_vars(Deactivate(r))
    /\ WF_vars(Tick)

FairSpec == Spec /\ Fairness

-----------------------------------------------------------------------------
(* Properties that hold whatever the trips ask for.                        *)

LimitType ==
    [zone : Int, trip : Int, target_state_valid : BOOLEAN, target_value : Int,
     min_state : Int, max_state : Int]

CdevType ==
    [curr_state : Int, hw : Int, curr_pow : 0 .. default_max_exponent,
     base_pow_state : Int, trend_increase : BOOLEAN, last_state : {0, 1},
     since : 0 .. Device.debounce_interval + 1,
     zone_trip_limits : Seq(LimitType)]

\* The device record keeps the types of its C++ fields: the exponent of the
\* controller stays within default_max_exponent and the activation list is
\* a sequence of complete entries.
TypeOK == cdev \in CdevType /\ hot \subseteq Requests

\* A trip holds the device at most once: however often a trip repeats its
\* activation, is ignored by the debounce or is deactivated out of order,
\* zone_trip_limits never has two entries for it (so it never grows beyond
\* the number of trips).
OneHoldPerTrip ==
    \A i, j \in DOMAIN Limits :
        Limits[i].zone = Limits[j].zone /\ Limits[i].trip = Limits[j].trip => i = j

\* What an entry of the list says is what its trip asked for: sorting and
\* erasing never mix up two trips' targets and limits.
HoldsAreRequests ==
    \A i \in DOMAIN Limits :
        \E r \in Requests : Limits[i] = LimitOf(Device, Mapped(r))

\* An empty list means that the last thing done to the device was a
\* deactivation, so the first activation of an idle device is never
\* swallowed by the debounce interval.
IdleIsDeactivated == Limits = << >> => cdev.last_state = 0

\* No sequence of activations, deactivations and resets drives the device
\* outside [min_state, max_state], whichever of the two is larger: the steps
\* of thd_cdev_exponential_controller, a trip's own limits and the overflow
\* check always meet the clamps (for the configurations of CdevRange).
StateInRange == cdev.curr_state \in StateRange(Device)

=============================================================================
