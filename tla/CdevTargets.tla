----------------------------- MODULE CdevTargets -----------------------------
(***************************************************************************)
(* CdevArbitration for the configurations in which every trip asks for a   *)
(* target state of its own (TargetState in thermal-conf.xml): the case the *)
(* activation list was written for.                                        *)
(***************************************************************************)
EXTENDS CdevArbitration

\* Targets are states of the device that cool, given in the device's units.
ASSUME TargetsAssumption ==
    /\ \A r \in Requests :
         /\ r.target_state_valid
         /\ ~r.min_max_valid
         /\ r.target_value \in StateRange(Device) \ {Device.min_state}
    /\ Device.map = "none"
    /\ Device.raw = "base" => Ascending(Device)
    /\ ~Device.read_back

\* The trips are not of type MAX and no PID is configured.  A MAX trip that lets go of
\* a device nobody holds would set it to max_state, and a PID to anything.
ASSUME SteppedAssumption ==
    /\ \A r \in Requests : ~r.hard_target /\ ~r.pid
    /\ ~Device.pid_enable

Target(i) == Limits[i].target_value

\* The last entry of the activation list is the most restrictive one: it is
\* the one thd_cdev_set_state obeys.
MostRestrictiveLast ==
    \A i \in DOMAIN Limits :
        ~MoreRestrictive(Device, Target(i), Target(Len(Limits)))

\* How far a state is from the least cooling one.
Level(state) == Magnitude(state - Device.min_state)

Shared ==
    INSTANCE SharedDevice WITH
        Trips <- Requests,
        Wanted <- [r \in Requests |-> Level(r.target_value)],
        Levels <- {Level(s) : s \in BootStates},
        asking <- hot,
        holders <- {r \in Requests : Holds(cdev, r)},
        level <- Level(cdev.curr_state)

\* The list, the sorting, the debounce and the order in which trips call implement
\* the device of SharedDevice: a first hold acts at once, the level is that of the
\* strongest hold or of an earlier one, only a trip that cooled down lets go, and
\* what it leaves is the level the others need.  It does not say that a trip lets
\* go in the call that says so: OffRemovesTrip is about that.
DeviceIsShared == Shared!Spec

\* The comment of thd_cdev_set_state (thd_cdev.cpp:236-256) says that a trip is
\* removed from the list "on call for deactivation", and when state = 0 "we check if
\* the zone in our list, if yes, we remove this zone": whichever trip calls for
\* deactivation has no entry when the call returns.
OffRemovesTrip ==
    \A r \in Requests \ hot :
        ~in_min_state(Device, cdev) =>
            ~Holds(DeactivateState(Device, cdev, Mapped(r), Device.min_state), r)

\* When the last hold on the device goes, the device is back at its minimum
\* in the same call.
ReleasedWithLastHold ==
    [][Limits # << >> /\ Limits' = << >> =>
          cdev'.curr_state = Device.min_state]_vars

\* A trip that stays hot gets at least the cooling it asks for.
HotTripServed ==
    \A r \in Requests :
        (r \in hot) ~> \/ r \notin hot
                       \/ ~MoreRestrictive(Device, r.target_value, cdev.curr_state)

\* When every trip stays below its temperature, every hold is given up.
HoldsGivenUp == <>[](hot = {}) => <>[](Limits = << >>)
=============================================================================
