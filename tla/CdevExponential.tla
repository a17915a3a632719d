--------------------------- MODULE CdevExponential ---------------------------
(***************************************************************************)
(* CdevArbitration for trips that leave the choice of state to the         *)
(* exponential controller: no target, no PID, no limits of their own.      *)
(***************************************************************************)
EXTENDS CdevRange

\* A device found at its minimum.  A power limit counts downwards, as all of RAPL's
\* do; a MAX trip sets a device of the base class to its maximum only if that
\* counts upwards (RawClamp).
PlainTrips ==
    /\ \A r \in Requests : ~r.target_state_valid /\ ~r.pid /\ ~r.min_max_valid
    /\ ~Device.pid_enable /\ ~Device.read_back
    /\ BootStates = {Device.min_state}
    /\ Device.raw = "limit" => ~Ascending(Device)
    /\ Device.raw = "base" /\ (\E r \in Requests : r.hard_target) => Ascending(Device)

\* States, the distance of two of them and a step all fit in an int.  The last
\* conjunct is arithmetic.
FitsInt ==
    LET half == 2 ^ (IntBits - 1)
    IN  /\ StateRange(Device) \subseteq -half .. half - 1
        /\ Magnitude(Device.max_state - Device.min_state) < half
        /\ Magnitude(Step) < half
        /\ \A p \in 0 .. default_max_exponent : 2 ^ p > 0 /\ 2 ^ (p + 1) = 2 * 2 ^ p

\* The exponential series never turns back: while a trip is activated the
\* device never cools less than before, whatever base_pow_state and curr_pow
\* an earlier series of another trip left behind.
ActivationNeverWeakens ==
    [][\A r \in Requests : Activate(r) =>
          ~MoreRestrictive(Device, cdev.curr_state, cdev'.curr_state)]_vars

\* When every trip stays below its temperature the device ends at its
\* minimum state for good, whatever holds are left in zone_trip_limits.
ReleasedWhenCool == <>[](hot = {}) => <>[](in_min_state(Device, cdev))

\* A trip that stays hot while the others stay cool ends up with the device
\* at its maximum: the debounce delays it and holds other trips left behind
\* in zone_trip_limits push it back, but neither for ever.
HotReachesMax ==
    \A r \in Requests : <>[](hot = {r}) => <>[](in_max_state(Device, cdev))
=============================================================================
