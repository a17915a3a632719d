----------------------------- MODULE ZoneCritical -----------------------------
(***************************************************************************)
(* ZoneControl with a history variable that counts, for each zone, the     *)
(* readings in a row that were at or above its lowest CRITICAL or HOT      *)
(* trip: the run that the last reading ended, and the longest run seen in  *)
(* the last step. Every zone has such a trip.                              *)
(***************************************************************************)
EXTENDS ZoneControl, SequencesExt

VARIABLE streak   \* zone -> [run, longest]

cvars == <<cdevs, trips, zone_active, temp, preference, status, power, changes, round, streak>>

Lowest(z) == Min({trips[z][i].temp : i \in {j \in DOMAIN trips[z] :
                                              trips[z][j].type \in {"CRITICAL", "HOT"}}})

\* The temperatures a pass over the zones shows the trips of zone z.
Shown(z) ==
    IF Zones[z].corelated THEN <<Max({temp[s] : s \in Range(Zones[z].sensors)})>>
    ELSE [k \in DOMAIN Zones[z].sensors |-> temp[Zones[z].sensors[k]]]

\* A preference change shows 0 and then the temperature of every sensor.
ShownOnChange(z) ==
    <<0>> \o [k \in DOMAIN Zones[z].sensors |-> temp[Zones[z].sensors[k]]]

\* The history after these readings. Counting stops at the number that matters.
Count(z, readings) ==
    LET Add(acc, t) ==
            LET n == IF t >= Lowest(z) THEN Smaller(acc.run + 1, consecutive_critical_events + 1)
                     ELSE 0
            IN  [run |-> n, longest |-> Larger(acc.longest, n)]
    IN  IF z \notin zone_active THEN streak[z]
        ELSE FoldLeft(Add, [run |-> streak[z].run, longest |-> 0], readings)

CInit == Init /\ streak = [z \in DOMAIN Zones |-> [run |-> 0, longest |-> 0]]

CNext ==
    \/ /\ uevent
       /\ streak' = [z \in DOMAIN Zones |-> Count(z, Shown(z))]
    \/ /\ thd_engine_thread
       /\ streak' = IF status THEN [z \in DOMAIN Zones |-> Count(z, Shown(z))] ELSE streak
    \/ \E pref \in {"PERFORMANCE", "ENERGY_CONSERVE", "DISABLED"} :
         /\ process_pref_change(pref)
         /\ streak' = IF pref = "DISABLED" THEN streak
                      ELSE [z \in DOMAIN Zones |-> Count(z, ShownOnChange(z))]
    \/ /\ \/ \E s \in Sensors : Drift(s)
          \/ \E z \in DOMAIN Zones, active \in BOOLEAN : user_set_zone_status(z, active)
          \/ Resume
       /\ UNCHANGED streak

CSpec == CInit /\ [][CNext]_cvars /\ Fairness

\* The machine is switched off or suspended only when some zone has just seen
\* one alarming reading more than consecutive_critical_events, with no cool
\* reading or preference change in between.
ShutdownIsEarned ==
    [][power = "on" /\ power' # "on" =>
          \E z \in zone_active : streak'[z].longest > consecutive_critical_events]_cvars

\* A zone that stays at a critical temperature while the daemon is at work
\* ends with the machine off, whatever happened before.
CriticalShutsDown ==
    \A z \in DOMAIN Zones :
        <>[](/\ status /\ z \in zone_active
             /\ \E i \in DOMAIN trips[z] :
                  trips[z][i].type = "CRITICAL" /\ \A k \in DOMAIN Shown(z) : Shown(z)[k] >= trips[z][i].temp
             /\ power # "mem")
            => <>(power = "off")
=============================================================================
