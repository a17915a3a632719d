------------------------------ MODULE CdevRange ------------------------------
(***************************************************************************)
(* CdevArbitration for configurations whose numbers make sense: targets    *)
(* and trip limits inside the device's range, steps towards max_state, and *)
(* no wrap-around that the controller does not catch.                      *)
(***************************************************************************)
EXTENDS CdevArbitration

Step == IF Device.inc_val # 0 THEN Device.inc_val ELSE Device.inc_dec_val

\* The controller's wrap-around check covers inc_val, from the second step of
\* a series on; all other steps need to fit in an int.
ASSUME RangeAssumption ==
    /\ IF Ascending(Device) THEN Step > 0 ELSE Step < 0
    /\ \A b \in StateRange(Device), p \in 0 .. default_max_exponent :
         p = 0 \/ Device.inc_val = 0 =>
             ~MoreRestrictive(Device, b, Wrap(b + 2 ^ p * Step))
    /\ \A r \in Requests :
         /\ r.target_state_valid => Mapped(r).target_value \in StateRange(Device)
         /\ r.min_max_valid => /\ r.min_state \in StateRange(Device) \cup {0}
                               /\ r.max_state \in StateRange(Device) \cup {0}
=============================================================================
