---------------------------- MODULE SharedDevice ----------------------------
(***************************************************************************)
(* What a cooling device with target states promises the trips that share  *)
(* it, without the list, the order of calls and the debounce by which      *)
(* thd_cdev.cpp keeps the promise.  A level is how far a state is from the *)
(* least cooling one.                                                      *)
(***************************************************************************)
EXTENDS Naturals, FiniteSetsExt

CONSTANTS
    Trips,
    Wanted,   \* Wanted[t], the level that trip t asks for
    Levels    \* the levels the device may be found at

VARIABLES
    asking,   \* trips that are hot
    holders,  \* trips that hold the device
    level     \* the level it is at

vars == <<asking, holders, level>>

Init == asking = {} /\ holders = {} /\ level \in Levels

\* The strongest wish of a set of trips.
Need(trips) == Max({Wanted[t] : t \in trips})

Ask(t) == asking' = asking \cup {t} /\ UNCHANGED <<holders, level>>

Cease(t) == asking' = asking \ {t} /\ UNCHANGED <<holders, level>>

\* A hot trip takes hold of the device.  It gets its level at once when it is
\* the first; a stronger wish than those of the others may have to wait.
Hold(t) ==
    /\ t \in asking \ holders
    /\ holders' = holders \cup {t}
    /\ level' \in IF holders = {} THEN {Wanted[t]} ELSE {level, Need(holders')}
    /\ UNCHANGED asking

\* The wish that had to wait is granted.
Grant ==
    /\ asking \cap holders # {}
    /\ level' = Need(holders)
    /\ UNCHANGED <<asking, holders>>

\* A trip that is no longer hot lets go, whichever wish it had, and the device
\* goes to what the others need.
Release(t) ==
    /\ t \in holders \ asking
    /\ holders' = holders \ {t}
    /\ level' = IF holders' = {} THEN 0 ELSE Need(holders')
    /\ UNCHANGED asking

\* Nobody holds the device, and it is found cooling.
Relax ==
    /\ holders = {}
    /\ level' < level
    /\ UNCHANGED <<asking, holders>>

Next ==
    \/ \E t \in Trips : Ask(t) \/ Cease(t) \/ Hold(t) \/ Release(t)
    \/ Grant \/ Relax

Spec == Init /\ [][Next]_vars
=============================================================================
