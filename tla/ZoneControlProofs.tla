-------------------------- MODULE ZoneControlProofs --------------------------
(***************************************************************************)
(* The devices of a sequential trip are used in order, and what is in use  *)
(* is polled: for any zones, trips, sensors and devices.                   *)
(***************************************************************************)
EXTENDS ZoneProofs

\* Zone z was visited, which turned w into v.
ZoneKept(z, w, v) ==
    /\ Base(v, z) /\ OnlyZoneCdevs(z, w, v)
    /\ SequentialTripsOwnDevices /\ InOrder(w.cdevs) => InOrder(v.cdevs)
    /\ \A i, n : Guarded(z, i, n) /\ Polled(z, n, w) => Polled(z, n, v)

\* A polling trip watches sensor id of zone z, if the zone has trips at all.
Watched(z, id) == NumTrips(z) = 0 \/ \E p : PollsFor(z, p, id)

\* Doing nothing, and two visits in a row.
LEMMA KeptNothing ==
    ASSUME NEW z, NEW w, Base(w, z)
    PROVE  ZoneKept(z, w, w)
BY Zenon DEF ZoneKept, OnlyZoneCdevs

LEMMA KeptTwice ==
    ASSUME NEW z, NEW w, NEW u, NEW v, ZoneKept(z, w, u), ZoneKept(z, u, v)
    PROVE  ZoneKept(z, w, v)
<1>1. OnlyZoneCdevs(z, w, v)
  BY Zenon DEF ZoneKept, OnlyZoneCdevs
<1> QED
  BY Zenon, <1>1 DEF ZoneKept

\* thermal_zone_temp_change: a reading of one sensor is shown to all trips.
LEMMA ReadingKeeps ==
    ASSUME Sorting, NEW z \in DOMAIN Zones, NEW w, Base(w, z), NEW id, Watched(z, id),
           NEW x \in Int, NEW pref
    PROVE  ZoneKept(z, w, thermal_zone_temp_change(w, z, id, x, pref))
<1> DEFINE N == NumTrips(z)
<1>1. Len(w.trips) = N
  BY Zenon DEF Base, Shape
<1>2. N \in Nat
  <2>1. BootTrips(z) \in Seq(TripType)
    BY Zenon, BootShape
  <2> QED
    BY <2>1 DEF NumTrips
<1> HIDE DEF N
<1>3. PICK g : CheckRounds(w, z, id, x, pref, N, g)
  BY Zenon, <1>1, <1>2, CheckLoop
<1>4. g[0].w = w /\ g[0].stop = FALSE /\ IsPass(g[0])
  <2>1. g[0] = [w |-> w, stop |-> FALSE]
    BY Zenon, <1>3 DEF CheckRounds
  <2> QED
    BY <2>1 DEF IsPass
<1> DEFINE T == {k \in 0 .. N : Passing(z, w, id, x, k, g[k])}
<1>5. 0 \in T
  <2>1. OnlyZoneCdevs(z, w, w)
    BY Zenon DEF OnlyZoneCdevs
  <2>2. Passing(z, w, id, x, 0, g[0])
    BY Zenon, <1>4, <2>1 DEF Passing
  <2>3. 0 \in 0 .. N
    BY <1>2
  <2> QED
    BY Zenon, <2>2, <2>3
<1>6. \A k \in 1 .. N : k - 1 \in T => k \in T
  <2> SUFFICES ASSUME NEW k \in 1 .. N, k - 1 \in T PROVE k \in T
    BY Zenon
  <2>1. Passing(z, w, id, x, k - 1, g[k - 1])
    BY Zenon
  <2>2. g[k] = CheckTrip(g[k - 1], z, k, id, x, pref)
    BY Zenon, <1>3 DEF CheckRounds
  <2>3. k \in 0 .. N /\ k \in 1 .. NumTrips(z)
    BY <1>2 DEF N
  <2>4. Passing(z, w, id, x, k, CheckTrip(g[k - 1], z, k, id, x, pref))
    BY Zenon, <2>1, <2>3, PassingStep
  <2> QED
    BY Zenon, <2>2, <2>3, <2>4
<1>7. \A k \in 0 .. N : k \in T
  <2> HIDE DEF T
  <2> QED
    BY Zenon, <1>2, <1>5, <1>6, LoopInduction
<1>8. N \in 0 .. N
  BY <1>2
<1> DEFINE a == g[N]
<1>9. Passing(z, w, id, x, N, a)
  BY Zenon, <1>7, <1>8
<1>10. thermal_zone_temp_change(w, z, id, x, pref) = a.w
  BY Zenon, <1>3 DEF CheckRounds
<1> HIDE DEF a
<1>11. \A i, n : Guarded(z, i, n) /\ Polled(z, n, w) => Polled(z, n, a.w)
  <2> SUFFICES ASSUME NEW i, NEW n, Guarded(z, i, n), Polled(z, n, w) PROVE Polled(z, n, a.w)
    BY Zenon
  <2>1. i \in 1 .. N
    BY Zenon DEF Guarded, N
  <2>2. N # 0
    BY <1>2, <2>1
  <2>3. PICK p : PollsFor(z, p, id)
    BY Zenon, <2>2 DEF Watched, N
  <2>4. p \in 1 .. N
    BY Zenon, <2>3 DEF PollsFor, N
  <2>5. ~(N < p)
    BY <1>2, <2>4
  <2>6. ~HotBefore(z, p, x, N)
    BY Zenon, <2>5 DEF HotBefore
  <2> QED
    BY Zenon, <1>9, <2>3, <2>6 DEF Passing
<1>12. ZoneKept(z, w, a.w)
  BY Zenon, <1>9, <1>11 DEF Passing, ZoneKept
<1> QED
  BY Zenon, <1>10, <1>12

\* Every sensor of a zone has its polling trip.
LEMMA SensorsWatched ==
    ASSUME Sorting, NEW z \in DOMAIN Zones, NEW k \in 1 .. Len(Zones[z].sensors)
    PROVE  Watched(z, Zones[z].sensors[k])
<1> DEFINE q == Len(Zones[z].sensors)
<1>1. CASE NumTrips(z) = 0
  BY Zenon, <1>1 DEF Watched
<1>2. CASE NumTrips(z) # 0
  <2>1. PICK c \in Nat : PollingLast(z, c)
    BY Zenon, <1>2, BootShape
  <2>2. q \in Nat
    BY ConfiguredTrips
  <2>3. NumTrips(z) = c + q
    BY Zenon, <2>1 DEF PollingLast
  <2> HIDE DEF q
  <2>4. c + k \in 1 .. NumTrips(z)
    BY <2>2, <2>3 DEF q
  <2>5. PollsFor(z, c + k, Zones[z].sensors[k])
    BY Zenon, <2>1, <2>4 DEF PollingLast, PollsFor
  <2> QED
    BY Zenon, <2>5 DEF Watched
<1> QED
  BY Zenon, <1>1, <1>2

\* The sensors of zone z show integers.
Shows(z, shown) == \A k \in 1 .. Len(Zones[z].sensors) : shown[Zones[z].sensors[k]] \in Int

\* ReadSensors: every sensor's reading is shown to the zone.
LEMMA SensorsKeep ==
    ASSUME Sorting, NEW z \in DOMAIN Zones, NEW w, Base(w, z), NEW shown, Shows(z, shown), NEW pref
    PROVE  ZoneKept(z, w, ReadSensors(w, z, Zones[z].sensors, shown, pref))
<1> DEFINE s == Zones[z].sensors
           N == Len(s)
<1>1. N \in Nat
  BY ConfiguredTrips
<1> HIDE DEF N
<1>2. PICK g : SensorRounds(w, z, s, shown, pref, N, g)
  BY Zenon, <1>1, SensorLoop DEF N
<1> DEFINE T == {k \in 0 .. N : ZoneKept(z, w, g[k])}
<1>3. 0 \in T
  <2>1. g[0] = w
    BY Zenon, <1>2 DEF SensorRounds
  <2>2. ZoneKept(z, w, w)
    BY Zenon, KeptNothing
  <2>3. 0 \in 0 .. N
    BY <1>1
  <2> QED
    BY Zenon, <2>1, <2>2, <2>3
<1>4. \A k \in 1 .. N : k - 1 \in T => k \in T
  <2> SUFFICES ASSUME NEW k \in 1 .. N, k - 1 \in T PROVE k \in T
    BY Zenon
  <2> DEFINE u  == g[k - 1]
             id == s[k]
             x  == shown[s[k]]
             v  == thermal_zone_temp_change(u, z, id, x, pref)
  <2>1. ZoneKept(z, w, u)
    BY Zenon
  <2>2. g[k] = v
    BY Zenon, <1>2 DEF SensorRounds
  <2>3. x \in Int /\ Watched(z, id)
    BY Zenon, SensorsWatched DEF Shows, N
  <2>4. Base(u, z)
    BY Zenon, <2>1 DEF ZoneKept
  <2> HIDE DEF u, id, x
  <2>5. ZoneKept(z, u, v)
    BY Zenon, <2>3, <2>4, ReadingKeeps
  <2> HIDE DEF v
  <2>6. ZoneKept(z, w, v)
    BY Zenon, <2>1, <2>5, KeptTwice
  <2>7. k \in 0 .. N
    BY <1>1
  <2> QED
    BY Zenon, <2>2, <2>6, <2>7
<1>5. \A k \in 0 .. N : k \in T
  <2> HIDE DEF T
  <2> QED
    BY Zenon, <1>1, <1>3, <1>4, LoopInduction
<1>6. N \in 0 .. N
  BY <1>1
<1>7. ZoneKept(z, w, g[N])
  BY Zenon, <1>5, <1>6
<1> QED
  BY Zenon, <1>2, <1>7 DEF SensorRounds

\* The readings of the first k sensors, and 0.
UpTo(f, k) == {0} \cup {f[j] : j \in 1 .. k}

\* The hottest of several readings is one of them.
LEMMA HottestIsInt ==
    ASSUME NEW n \in Nat, NEW f, \A k \in 1 .. n : f[k] \in Int
    PROVE  Max(UpTo(f, n)) \in UpTo(f, n)
<1> DEFINE T == {k \in 0 .. n : \E x \in UpTo(f, k) : \A y \in UpTo(f, k) : x >= y}
<1>1. 0 \in T
  BY DEF UpTo
<1>2. \A k \in 1 .. n : k - 1 \in T => k \in T
  <2> SUFFICES ASSUME NEW k \in 1 .. n, k - 1 \in T PROVE k \in T
    BY Zenon
  <2>1. PICK x \in UpTo(f, k - 1) : \A y \in UpTo(f, k - 1) : x >= y
    BY Zenon
  <2>2. UpTo(f, k) = UpTo(f, k - 1) \cup {f[k]}
    BY DEF UpTo
  <2>3. UpTo(f, k) \in SUBSET Int
    BY DEF UpTo
  <2>4. CASE x >= f[k]
    <3>1. x \in UpTo(f, k) /\ \A y \in UpTo(f, k) : x >= y
      BY Zenon, <2>1, <2>2, <2>4
    <3> QED
      BY <3>1
  <2>5. CASE ~(x >= f[k])
    <3>1. f[k] \in UpTo(f, k) /\ \A y \in UpTo(f, k) : f[k] >= y
      BY <2>1, <2>2, <2>3, <2>5
    <3> QED
      BY <3>1
  <2> QED
    BY Zenon, <2>4, <2>5
<1>3. \A k \in 0 .. n : k \in T
  <2> HIDE DEF T
  <2> QED
    BY Zenon, <1>1, <1>2, LoopInduction
<1>4. n \in 0 .. n
  OBVIOUS
<1>5. \E x \in UpTo(f, n) : \A y \in UpTo(f, n) : x >= y
  BY Zenon, <1>3, <1>4
<1> QED
  BY Zenon, <1>5 DEF Max

\* read_zone_temp, of independent or correlated sensors.
LEMMA ReadZoneKeeps ==
    ASSUME Sorting, NEW z \in DOMAIN Zones, NEW w, Base(w, z), NEW shown, Shows(z, shown), NEW pref, NEW b
    PROVE  ZoneKept(z, w, read_zone_temp(w, z, Zones[z].sensors, b, shown, pref))
<1> DEFINE s == Zones[z].sensors
           n == Len(s)
           f == [k \in DOMAIN s |-> shown[s[k]]]
           h == Max({0} \cup {shown[s[k]] : k \in DOMAIN s})
           v == read_zone_temp(w, z, s, b, shown, pref)
<1>1. v = IF ~b THEN ReadSensors(w, z, s, shown, pref)
          ELSE IF h # 0 THEN thermal_zone_temp_change(w, z, s[1], h, pref)
          ELSE w
  BY Zenon DEF read_zone_temp
<1>2. n \in Nat /\ DOMAIN s = 1 .. n
  BY ConfiguredTrips
<1>3. \A k \in 1 .. n : f[k] = shown[s[k]] /\ f[k] \in Int
  BY Zenon, <1>2 DEF Shows
<1>4. {0} \cup {shown[s[k]] : k \in DOMAIN s} = UpTo(f, n)
  <2> HIDE DEF f, n, s
  <2>1. {shown[s[k]] : k \in DOMAIN s} = {f[k] : k \in 1 .. n}
    BY <1>2, <1>3
  <2> QED
    BY Zenon, <2>1 DEF UpTo
<1>5. h \in UpTo(f, n)
  <2> HIDE DEF f, n
  <2>1. Max(UpTo(f, n)) \in UpTo(f, n)
    BY Zenon, <1>2, <1>3, HottestIsInt
  <2> QED
    BY Zenon, <1>4, <2>1
<1> HIDE DEF v, h, f
<1>6. h = 0 \/ \E k \in 1 .. n : h = f[k]
  BY <1>5 DEF UpTo
<1>7. h \in Int
  BY <1>3, <1>6
<1>8. CASE ~b
  <2>1. ZoneKept(z, w, ReadSensors(w, z, s, shown, pref))
    BY Zenon, SensorsKeep
  <2> QED
    BY Zenon, <1>1, <1>8, <2>1 DEF v
<1>9. CASE b /\ h # 0
  <2>1. 1 \in 1 .. n
    BY <1>2, <1>6, <1>9
  <2>2. Watched(z, s[1])
    BY Zenon, <2>1, SensorsWatched
  <2>3. ZoneKept(z, w, thermal_zone_temp_change(w, z, s[1], h, pref))
    BY Zenon, <1>7, <2>2, ReadingKeeps
  <2> QED
    BY Zenon, <1>1, <1>9, <2>3 DEF v
<1>10. CASE b /\ h = 0
  <2>1. ZoneKept(z, w, w)
    BY Zenon, KeptNothing
  <2> QED
    BY Zenon, <1>1, <1>10, <2>1 DEF v
<1> QED
  BY Zenon, <1>8, <1>9, <1>10

\* update_zone_preference: every sensor shows 0, then what it reads.
LEMMA PreferenceKeeps ==
    ASSUME Sorting, NEW z \in DOMAIN Zones, NEW w, Base(w, z), NEW shown, Shows(z, shown), NEW pref
    PROVE  ZoneKept(z, w, update_zone_preference(w, z, Zones[z].sensors, shown, pref))
<1> DEFINE s    == Zones[z].sensors
           none == [i \in Range(s) |-> 0]
           u    == ReadSensors(w, z, s, none, pref)
           v    == ReadSensors(u, z, s, shown, pref)
<1>1. update_zone_preference(w, z, s, shown, pref) = v
  BY Zenon DEF update_zone_preference
<1>2. Shows(z, none)
  <2>1. s \in Seq(Nat)
    BY Zenon, ConfiguredTrips
  <2> HIDE DEF s
  <2>2. \A k \in 1 .. Len(s) : s[k] \in Range(s)
    BY <2>1 DEF Range
  <2>3. \A k \in 1 .. Len(s) : none[s[k]] \in Int
    BY <2>2
  <2> QED
    BY Zenon, <2>3 DEF Shows, s
<1> HIDE DEF none
<1>3. ZoneKept(z, w, u)
  BY Zenon, <1>2, SensorsKeep
<1>4. Base(u, z)
  BY Zenon, <1>3 DEF ZoneKept
<1> HIDE DEF u
<1>5. ZoneKept(z, u, v)
  BY Zenon, <1>4, SensorsKeep
<1> HIDE DEF v
<1>6. ZoneKept(z, w, v)
  BY Zenon, <1>3, <1>5, KeptTwice
<1> QED
  BY Zenon, <1>1, <1>6

-----------------------------------------------------------------------------
(* All zones.                                                              *)

\* Every zone is polled for the devices it must be polled for.
AllPolled(cd, ts) ==
    \A z \in DOMAIN Zones : \A i, n :
        Guarded(z, i, n) => Polled(z, n, [cdevs |-> cd, trips |-> ts[z]])

\* The devices cd and the trips ts of all zones are well formed.
Formed(cd, ts) ==
    /\ IsCdevs(cd) /\ Owned(cd)
    /\ ts = [z \in DOMAIN Zones |-> ts[z]]
    /\ \A z \in DOMAIN Zones : Shape(ts[z], z)

\* The inductive invariant, of the devices cd and the trips ts of all zones.
Sound(cd, ts) ==
    /\ Formed(cd, ts)
    /\ SequentialTripsOwnDevices => InOrder(cd)
    /\ AllPolled(cd, ts)

\* Whether a device is polled for depends on the devices and trips only.
LEMMA PolledDepends ==
    ASSUME NEW z, NEW n, NEW w, NEW v, v.cdevs = w.cdevs, v.trips = w.trips, Polled(z, n, w)
    PROVE  Polled(z, n, v)
BY Zenon DEF Polled

\* The record a visit to zone z works on.
LEMMA ZoneWorld ==
    ASSUME NEW acc, NEW z \in DOMAIN Zones, Formed(acc.cdevs, acc.trips)
    PROVE  /\ InZone(acc, z).cdevs = acc.cdevs /\ InZone(acc, z).trips = acc.trips[z]
           /\ Base(InZone(acc, z), z)
<1> DEFINE w == InZone(acc, z)
<1>1. IsWorld(w)
  BY DEF InZone, World, IsWorld, WorldFields
<1>2. w.cdevs = acc.cdevs /\ w.trips = acc.trips[z]
  BY DEF InZone, World
<1> HIDE DEF w
<1>3. Shape(w.trips, z) /\ IsCdevs(w.cdevs) /\ Owned(w.cdevs)
  BY Zenon, <1>2 DEF Formed
<1> QED
  BY Zenon, <1>1, <1>2, <1>3 DEF Base, w

\* Zone z was visited; another zone y is polled for its devices as before.
LEMMA OtherZonesPolled ==
    ASSUME NEW z \in DOMAIN Zones, NEW w, NEW v, OnlyZoneCdevs(z, w, v),
           NEW y, y # z, NEW i, NEW n, Guarded(y, i, n), NEW a, a.cdevs = w.cdevs, Polled(y, n, a),
           NEW b, b.cdevs = v.cdevs, b.trips = a.trips
    PROVE  Polled(y, n, b)
<1>1. n \in DOMAIN Devices /\ Owns(y, i, n)
  BY Zenon DEF Guarded
<1>2. ~UsedBy(z, n)
  BY Zenon, <1>1 DEF Owns, Sole, UsedBy
<1>3. b.cdevs[n] = a.cdevs[n]
  BY Zenon, <1>1, <1>2 DEF OnlyZoneCdevs
<1> QED
  BY Zenon, <1>3 DEF Polled, IdleIn

\* A visit to one zone.
LEMMA VisitKeeps ==
    ASSUME Sorting, NEW z \in DOMAIN Zones, NEW acc, Sound(acc.cdevs, acc.trips), NEW v,
           ZoneKept(z, InZone(acc, z), v)
    PROVE  Sound(AfterZone(acc, z, v).cdevs, AfterZone(acc, z, v).trips)
<1> DEFINE w  == InZone(acc, z)
           cd == acc.cdevs
           ts == acc.trips
           us == [ts EXCEPT ![z] = v.trips]
           r  == AfterZone(acc, z, v)
<1>1. r.cdevs = v.cdevs /\ r.trips = us
  BY Zenon DEF AfterZone
<1>2. Formed(cd, ts)
  BY Zenon DEF Sound
<1>3. w.cdevs = cd /\ w.trips = ts[z]
  BY Zenon, <1>2, ZoneWorld
<1>4. Base(v, z) /\ OnlyZoneCdevs(z, w, v)
  BY Zenon DEF ZoneKept
<1> HIDE DEF w, r
<1>5. \A y \in DOMAIN Zones : us[y] = IF y = z THEN v.trips ELSE ts[y]
  BY Zenon, <1>2 DEF Formed
<1>6. us = [y \in DOMAIN Zones |-> us[y]]
  <2>1. ts = [y \in DOMAIN Zones |-> ts[y]]
    BY Zenon, <1>2 DEF Formed
  <2>2. DOMAIN us = DOMAIN Zones
    BY Zenon, <2>1
  <2> QED
    BY <2>2
<1> HIDE DEF us
<1>7. \A y \in DOMAIN Zones : Shape(us[y], y)
  <2> SUFFICES ASSUME NEW y \in DOMAIN Zones PROVE Shape(us[y], y)
    BY Zenon
  <2>1. CASE y = z
    BY Zenon, <1>4, <1>5, <2>1 DEF Base
  <2>2. CASE y # z
    BY Zenon, <1>2, <1>5, <2>2 DEF Formed
  <2> QED
    BY Zenon, <2>1, <2>2
<1>8. Formed(v.cdevs, us)
  BY Zenon, <1>4, <1>6, <1>7 DEF Formed, Base
<1>9. SequentialTripsOwnDevices => InOrder(v.cdevs)
  <2>1. SequentialTripsOwnDevices => InOrder(w.cdevs)
    BY Zenon, <1>3 DEF Sound
  <2> QED
    BY Zenon, <2>1 DEF ZoneKept, w
<1>10. AllPolled(v.cdevs, us)
  <2> SUFFICES ASSUME NEW y \in DOMAIN Zones, NEW i, NEW n, Guarded(y, i, n)
               PROVE  Polled(y, n, [cdevs |-> v.cdevs, trips |-> us[y]])
    BY Zenon DEF AllPolled
  <2> DEFINE a == [cdevs |-> cd, trips |-> ts[y]]
             b == [cdevs |-> v.cdevs, trips |-> us[y]]
  <2>1. a.cdevs = cd /\ a.trips = ts[y] /\ b.cdevs = v.cdevs /\ b.trips = us[y]
    BY Zenon
  <2>2. Polled(y, n, a)
    BY Zenon DEF Sound, AllPolled
  <2> HIDE DEF a, b
  <2>3. CASE y = z
    <3>1. a.cdevs = w.cdevs /\ a.trips = w.trips
      BY Zenon, <1>3, <2>1, <2>3
    <3>2. Polled(z, n, w)
      BY Zenon, <2>2, <2>3, <3>1, PolledDepends
    <3>3. Polled(z, n, v)
      BY Zenon, <2>3, <3>2 DEF ZoneKept, w
    <3>4. b.cdevs = v.cdevs /\ b.trips = v.trips
      BY Zenon, <1>5, <2>1, <2>3
    <3> QED
      BY Zenon, <2>3, <3>3, <3>4, PolledDepends DEF b
  <2>4. CASE y # z
    <3>1. a.cdevs = w.cdevs /\ b.trips = a.trips
      BY Zenon, <1>3, <1>5, <2>1, <2>4
    <3>2. Polled(y, n, b)
      BY Zenon, <1>4, <2>1, <2>2, <2>4, <3>1, OtherZonesPolled
    <3> QED
      BY Zenon, <3>2 DEF b
  <2> QED
    BY Zenon, <2>3, <2>4
<1>11. Sound(v.cdevs, us)
  BY Zenon, <1>8, <1>9, <1>10 DEF Sound
<1> QED
  BY Zenon, <1>1, <1>11 DEF r

\* The sensors of a zone show what temp says.
LEMMA TempShows ==
    ASSUME Sorting, temp \in [Sensors -> Int], NEW z \in DOMAIN Zones
    PROVE  Shows(z, temp)
<1> DEFINE s == Zones[z].sensors
<1>1. s \in Seq(Nat)
  BY Zenon, ConfiguredTrips
<1>2. \A k \in 1 .. Len(s) : s[k] \in Sensors
  <2> SUFFICES ASSUME NEW k \in 1 .. Len(s) PROVE s[k] \in Sensors
    BY Zenon
  <2>1. k \in DOMAIN s
    BY <1>1
  <2>2. s[k] \in Range(s)
    BY Zenon, <2>1 DEF Range
  <2> QED
    BY Zenon, <2>2 DEF Sensors
<1> HIDE DEF s
<1>3. \A k \in 1 .. Len(s) : temp[s[k]] \in Int
  BY Zenon, <1>2
<1> QED
  BY Zenon, <1>3 DEF Shows, s

\* The inductive invariant, of a record with devices and trips.
SoundAt(acc) == Sound(acc.cdevs, acc.trips)

\* The zones are in a sequence.
LEMMA ZoneNumbers == Len(Zones) \in Nat /\ DOMAIN Zones = 1 .. Len(Zones)
<1> DEFINE R == [sensors : Seq(Nat), corelated : BOOLEAN,
                 trips : Seq({t \in TripType : t.type # "POLLING" /\ ~t.poll_on})]
<1>1. Zones \in Seq(R)
  BY Zenon, ZoneAssumption
<1> HIDE DEF R
<1> QED
  BY <1>1

\* NotifyZone reads one zone.
LEMMA NotifyStep ==
    ASSUME Sorting, NEW z \in DOMAIN Zones, NEW acc, SoundAt(acc), temp \in [Sensors -> Int]
    PROVE  SoundAt(NotifyZone(acc, z))
<1> DEFINE w == InZone(acc, z)
           v == zone_temperature_notification(w, z)
<1>1. CASE z \notin zone_active
  BY Zenon, <1>1 DEF NotifyZone
<1>2. CASE z \in zone_active
  <2>1. NotifyZone(acc, z) = AfterZone(acc, z, v)
    BY Zenon, <1>2 DEF NotifyZone
  <2>2. Formed(acc.cdevs, acc.trips) /\ Sound(acc.cdevs, acc.trips)
    BY Zenon DEF SoundAt, Sound
  <2>3. Base(w, z)
    BY Zenon, <2>2, ZoneWorld
  <2>4. Shows(z, temp)
    BY Zenon, TempShows
  <2>5. ZoneKept(z, w, v)
    <3> HIDE DEF w
    <3> QED
      BY Zenon, <2>3, <2>4, ReadZoneKeeps DEF zone_temperature_notification
  <2> HIDE DEF v
  <2>6. Sound(AfterZone(acc, z, v).cdevs, AfterZone(acc, z, v).trips)
    BY Zenon, <2>2, <2>5, VisitKeeps
  <2> QED
    BY Zenon, <2>1, <2>6 DEF SoundAt
<1> QED
  BY Zenon, <1>1, <1>2

\* NotifyZones reads all active zones.
LEMMA NotifySound ==
    ASSUME Sorting, NEW cd, NEW ts, Sound(cd, ts), temp \in [Sensors -> Int]
    PROVE  SoundAt(NotifyZones(cd, ts))
<1> DEFINE N == Len(Zones)
<1>1. N \in Nat /\ DOMAIN Zones = 1 .. N
  BY Zenon, ZoneNumbers
<1> HIDE DEF N
<1>2. PICK g : NotifyRounds(cd, ts, N, g)
  BY Zenon, <1>1, NotifyLoop DEF N
<1> DEFINE T == {k \in 0 .. N : SoundAt(g[k])}
<1>3. 0 \in T
  <2>1. g[0] = [cdevs |-> cd, trips |-> ts, power |-> power]
    BY Zenon, <1>2 DEF NotifyRounds
  <2>2. g[0].cdevs = cd /\ g[0].trips = ts
    BY <2>1
  <2>3. SoundAt(g[0])
    BY Zenon, <2>2 DEF SoundAt
  <2>4. 0 \in 0 .. N
    BY <1>1
  <2> QED
    BY Zenon, <2>3, <2>4
<1>4. \A k \in 1 .. N : k - 1 \in T => k \in T
  <2> SUFFICES ASSUME NEW k \in 1 .. N, k - 1 \in T PROVE k \in T
    BY Zenon
  <2> DEFINE a == g[k - 1]
  <2>1. SoundAt(a) /\ g[k] = NotifyZone(a, k)
    BY Zenon, <1>2 DEF NotifyRounds
  <2> HIDE DEF a
  <2>2. SoundAt(NotifyZone(a, k))
    BY Zenon, <1>1, <2>1, NotifyStep
  <2>3. k \in 0 .. N
    BY <1>1
  <2> QED
    BY Zenon, <2>1, <2>2, <2>3
<1>5. \A k \in 0 .. N : k \in T
  <2> HIDE DEF T
  <2> QED
    BY Zenon, <1>1, <1>3, <1>4, LoopInduction
<1>6. N \in 0 .. N
  BY <1>1
<1>7. SoundAt(g[N])
  BY Zenon, <1>5, <1>6
<1> QED
  BY Zenon, <1>2, <1>7 DEF NotifyRounds

\* PreferZone applies a preference to one zone.
LEMMA PreferStep ==
    ASSUME Sorting, NEW z \in DOMAIN Zones, NEW acc, SoundAt(acc), temp \in [Sensors -> Int], NEW pref
    PROVE  SoundAt(PreferZone(acc, z, pref))
<1> DEFINE w == InZone(acc, z)
           v == update_zone_preference(w, z, Zones[z].sensors, temp, pref)
<1>1. CASE z \notin zone_active
  BY Zenon, <1>1 DEF PreferZone
<1>2. CASE z \in zone_active
  <2>1. PreferZone(acc, z, pref) = AfterZone(acc, z, v)
    BY Zenon, <1>2 DEF PreferZone
  <2>2. Formed(acc.cdevs, acc.trips) /\ Sound(acc.cdevs, acc.trips)
    BY Zenon DEF SoundAt, Sound
  <2>3. Base(w, z)
    BY Zenon, <2>2, ZoneWorld
  <2>4. Shows(z, temp)
    BY Zenon, TempShows
  <2>5. ZoneKept(z, w, v)
    <3> HIDE DEF w
    <3> QED
      BY Zenon, <2>3, <2>4, PreferenceKeeps
  <2> HIDE DEF v
  <2>6. Sound(AfterZone(acc, z, v).cdevs, AfterZone(acc, z, v).trips)
    BY Zenon, <2>2, <2>5, VisitKeeps
  <2> QED
    BY Zenon, <2>1, <2>6 DEF SoundAt
<1> QED
  BY Zenon, <1>1, <1>2

\* PreferZones applies a preference to all active zones.
LEMMA PreferSound ==
    ASSUME Sorting, Sound(cdevs, trips), temp \in [Sensors -> Int], NEW pref
    PROVE  SoundAt(PreferZones(pref))
<1> DEFINE N == Len(Zones)
<1>1. N \in Nat /\ DOMAIN Zones = 1 .. N
  BY Zenon, ZoneNumbers
<1> HIDE DEF N
<1>2. PICK g : PreferRounds(pref, N, g)
  BY Zenon, <1>1, PreferLoop DEF N
<1> DEFINE T == {k \in 0 .. N : SoundAt(g[k])}
<1>3. 0 \in T
  <2>1. g[0] = [cdevs |-> cdevs, trips |-> trips, power |-> power]
    BY Zenon, <1>2 DEF PreferRounds
  <2>2. g[0].cdevs = cdevs /\ g[0].trips = trips
    BY <2>1
  <2>3. SoundAt(g[0])
    BY Zenon, <2>2 DEF SoundAt
  <2>4. 0 \in 0 .. N
    BY <1>1
  <2> QED
    BY Zenon, <2>3, <2>4
<1>4. \A k \in 1 .. N : k - 1 \in T => k \in T
  <2> SUFFICES ASSUME NEW k \in 1 .. N, k - 1 \in T PROVE k \in T
    BY Zenon
  <2> DEFINE a == g[k - 1]
  <2>1. SoundAt(a) /\ g[k] = PreferZone(a, k, pref)
    BY Zenon, <1>2 DEF PreferRounds
  <2> HIDE DEF a
  <2>2. SoundAt(PreferZone(a, k, pref))
    BY Zenon, <1>1, <2>1, PreferStep
  <2>3. k \in 0 .. N
    BY <1>1
  <2> QED
    BY Zenon, <2>1, <2>2, <2>3
<1>5. \A k \in 0 .. N : k \in T
  <2> HIDE DEF T
  <2> QED
    BY Zenon, <1>1, <1>3, <1>4, LoopInduction
<1>6. N \in 0 .. N
  BY <1>1
<1>7. SoundAt(g[N])
  BY Zenon, <1>5, <1>6
<1> QED
  BY Zenon, <1>2, <1>7 DEF PreferRounds

\* The devices cd and ce are in the same states.
SameStates(cd, ce) ==
    \A n \in DOMAIN Devices : /\ IdleIn(ce, n) = IdleIn(cd, n)
                              /\ FullIn(ce, n) = FullIn(cd, n)

\* The polling trips of ts and us are on and off alike.
SamePolling(ts, us) ==
    \A z \in DOMAIN Zones : \A j \in 1 .. NumTrips(z) : us[z][j].poll_on = ts[z][j].poll_on

\* A step that moves no device and switches no polling trip.
LEMMA SoundCarries ==
    ASSUME Sorting, NEW cd, NEW ts, Sound(cd, ts), NEW ce, NEW us, Formed(ce, us),
           SameStates(cd, ce), SamePolling(ts, us)
    PROVE  Sound(ce, us)
<1>1. SequentialTripsOwnDevices => InOrder(ce)
  <2> SUFFICES ASSUME InOrder(cd), NEW z \in DOMAIN Zones, NEW i \in 1 .. NumTrips(z), Sequential(z, i)
               PROVE  OrderedTrip(ce, z, i)
    BY Zenon DEF Sound, InOrder
  <2>1. \A k \in 1 .. NumBindings(z, i) : Name(z, i, k) \in DOMAIN Devices
    BY Zenon, BootNames
  <2>2. OrderedTrip(cd, z, i)
    BY Zenon DEF InOrder
  <2> QED
    BY Zenon, <2>1, <2>2 DEF OrderedTrip, SameStates
<1>2. ASSUME NEW z \in DOMAIN Zones, NEW i, NEW n, Guarded(z, i, n)
      PROVE  Polled(z, n, [cdevs |-> ce, trips |-> us[z]])
  <2> DEFINE a == [cdevs |-> cd, trips |-> ts[z]]
             b == [cdevs |-> ce, trips |-> us[z]]
  <2>1. a.cdevs = cd /\ a.trips = ts[z] /\ b.cdevs = ce /\ b.trips = us[z]
    BY Zenon
  <2>2. Polled(z, n, a)
    BY Zenon, <1>2 DEF Sound, AllPolled
  <2> HIDE DEF a, b
  <2>3. CASE \E j \in 1 .. NumTrips(z) : a.trips[j].poll_on = TRUE
    <3>1. PICK j \in 1 .. NumTrips(z) : a.trips[j].poll_on = TRUE
      BY Zenon, <2>3
    <3>2. us[z][j].poll_on = ts[z][j].poll_on
      BY Zenon DEF SamePolling
    <3>3. b.trips[j].poll_on = TRUE
      BY Zenon, <2>1, <3>1, <3>2
    <3> QED
      BY Zenon, <3>3 DEF Polled, b
  <2>4. CASE IdleIn(a.cdevs, n)
    <3>1. n \in DOMAIN Devices
      BY Zenon, <1>2 DEF Guarded
    <3>2. IdleIn(b.cdevs, n)
      BY Zenon, <2>1, <2>4, <3>1 DEF SameStates
    <3> QED
      BY Zenon, <3>2 DEF Polled, b
  <2> QED
    BY Zenon, <2>2, <2>3, <2>4 DEF Polled
<1>3. AllPolled(ce, us)
  BY Zenon, <1>2 DEF AllPolled
<1> QED
  BY Zenon, <1>1, <1>3 DEF Sound

\* The clock of a device that advances.
LEMMA DeviceLater ==
    ASSUME NEW d, NEW c, IsCdev(c)
    PROVE  /\ SameHolds(Elapse(d, c), c)
           /\ in_min_state(d, Elapse(d, c)) = in_min_state(d, c)
           /\ in_max_state(d, Elapse(d, c)) = in_max_state(d, c)
<1> DEFINE a == Elapse(d, c)
<1>1. DOMAIN c = CdevFields
  BY DEF IsCdev
<1>2. a = [c EXCEPT !.since = Smaller(c.since + 1, d.debounce_interval + 1)]
  BY Zenon DEF Elapse
<1> HIDE DEF a
<1>3. a.curr_state = c.curr_state /\ a.hw = c.hw /\ a.zone_trip_limits = c.zone_trip_limits
  BY <1>1, <1>2 DEF CdevFields
<1>4. IsCdev(a)
  BY <1>1, <1>2 DEF IsCdev
<1>5. get_curr_state(d, a) = get_curr_state(d, c)
  BY Zenon, <1>3 DEF get_curr_state
<1>6. in_min_state(d, a) = in_min_state(d, c) /\ in_max_state(d, a) = in_max_state(d, c)
  BY Zenon, <1>5 DEF in_min_state, in_max_state
<1> QED
  BY Zenon, <1>3, <1>4, <1>6 DEF SameHolds, a

\* The clocks of a trip's bindings that advance.
LEMMA LikeLater ==
    ASSUME NEW t, NEW x, Like(t, x)
    PROVE  Like(TripLater(t), x) /\ TripLater(t).poll_on = t.poll_on
<1> DEFINE bs == t.cdevs
           cs == [k \in DOMAIN bs |-> BindingLater(bs[k])]
           u  == TripLater(t)
<1>1. t \in TripType
  BY Zenon DEF Like
<1>2. bs \in Seq(BindingType)
  BY Zenon, <1>1 DEF TripType
<1>3. \A k \in DOMAIN bs : bs[k] \in BindingType
  <2> HIDE DEF bs
  <2> QED
    BY <1>2, ElementOfList
<1>4. \A k \in DOMAIN bs : BindingLater(bs[k]) \in BindingType /\ BindingLater(bs[k]).cdev = bs[k].cdev
  <2> SUFFICES ASSUME NEW b \in BindingType
               PROVE  BindingLater(b) \in BindingType /\ BindingLater(b).cdev = b.cdev
    BY Zenon, <1>3
  <2>1. \A m, n \in Int : Smaller(m + 1, n) \in Int
    BY DEF Smaller
  <2>2. b.since_op \in Int /\ b.sampling_priod \in Int
    BY Zenon DEF BindingType
  <2> DEFINE m == Smaller(b.since_op + 1, b.sampling_priod)
  <2>3. m \in Int
    BY Zenon, <2>1, <2>2
  <2>4. BindingLater(b) = [b EXCEPT !.since_op = m]
    BY Zenon DEF BindingLater
  <2> HIDE DEF m
  <2> QED
    BY Zenon, <2>3, <2>4 DEF BindingType
<1>5. u = [t EXCEPT !.cdevs = cs]
  BY Zenon DEF TripLater
<1> HIDE DEF bs, u
<1>6. cs \in Seq(BindingType) /\ Len(cs) = Len(bs)
  BY <1>2, <1>4
<1>7. DOMAIN bs = 1 .. Len(bs)
  BY <1>2
<1>8. \A k \in 1 .. Len(bs) : cs[k].cdev = bs[k].cdev
  BY Zenon, <1>4, <1>7
<1> HIDE DEF cs
<1>9. u \in TripType
  BY Zenon, <1>1, <1>5, <1>6 DEF TripType
<1>10. DOMAIN t = {"index", "type", "temp", "hyst", "sensor", "control_type", "trip_on",
                   "poll_on", "crit_trip_count", "depend", "cdevs"}
  BY Zenon, <1>1 DEF TripType
<1>11. /\ u.index = t.index /\ u.type = t.type /\ u.sensor = t.sensor /\ u.temp = t.temp
       /\ u.control_type = t.control_type /\ u.depend = t.depend /\ u.poll_on = t.poll_on
       /\ u.cdevs = cs
  BY <1>5, <1>10
<1>12. Len(bs) = Len(x.cdevs) /\ \A k \in 1 .. Len(x.cdevs) : bs[k].cdev = x.cdevs[k].cdev
  BY Zenon DEF Like, bs
<1>13. Len(cs) = Len(x.cdevs) /\ \A k \in 1 .. Len(x.cdevs) : cs[k].cdev = x.cdevs[k].cdev
  BY Zenon, <1>6, <1>8, <1>12
<1>14. Like(u, x)
  BY Zenon, <1>9, <1>11, <1>13 DEF Like
<1> QED
  BY Zenon, <1>11, <1>14 DEF u

\* The clocks advance.
LEMMA LaterSound ==
    ASSUME Sorting, Sound(cdevs, trips)
    PROVE  Sound(CdevsLater, TripsLater)
<1> DEFINE ce == CdevsLater
           us == TripsLater
<1>1. Formed(cdevs, trips)
  BY Zenon DEF Sound
<1>2. /\ cdevs = [n \in DOMAIN Devices |-> cdevs[n]] /\ \A n \in DOMAIN Devices : IsCdev(cdevs[n])
      /\ trips = [z \in DOMAIN Zones |-> trips[z]] /\ Owned(cdevs)
      /\ \A z \in DOMAIN Zones : Shape(trips[z], z)
  BY Zenon, <1>1 DEF Formed, IsCdevs
<1>3. DOMAIN cdevs = DOMAIN Devices /\ DOMAIN trips = DOMAIN Zones
  BY Zenon, <1>2
<1>4. ce = [n \in DOMAIN Devices |-> Elapse(Devices[n], cdevs[n])]
  BY Zenon, <1>3 DEF CdevsLater
<1>5. us = [z \in DOMAIN Zones |-> [i \in DOMAIN trips[z] |-> TripLater(trips[z][i])]]
  BY Zenon, <1>3 DEF TripsLater
<1> HIDE DEF ce, us
<1>6. \A n \in DOMAIN Devices : ce[n] = Elapse(Devices[n], cdevs[n])
  BY Zenon, <1>4
<1>7. ASSUME NEW n \in DOMAIN Devices
      PROVE  /\ SameHolds(ce[n], cdevs[n])
             /\ IdleIn(ce, n) = IdleIn(cdevs, n) /\ FullIn(ce, n) = FullIn(cdevs, n)
  <2> DEFINE d == Devices[n]
             c == cdevs[n]
  <2>1. IsCdev(c) /\ ce[n] = Elapse(d, c)
    BY Zenon, <1>2, <1>6
  <2> HIDE DEF d, c
  <2>2. /\ SameHolds(Elapse(d, c), c)
        /\ in_min_state(d, Elapse(d, c)) = in_min_state(d, c)
        /\ in_max_state(d, Elapse(d, c)) = in_max_state(d, c)
    BY Zenon, <2>1, DeviceLater
  <2> QED
    BY Zenon, <2>1, <2>2 DEF IdleIn, FullIn, c, d
<1>8. SameStates(cdevs, ce)
  BY Zenon, <1>7 DEF SameStates
<1>9. IsCdevs(ce)
  <2>1. ce = [n \in DOMAIN Devices |-> ce[n]]
    BY <1>4
  <2> QED
    BY Zenon, <1>7, <2>1 DEF IsCdevs, SameHolds
<1>10. Owned(ce)
  <2> SUFFICES ASSUME NEW z \in DOMAIN Zones, NEW i \in 1 .. NumTrips(z), NEW n \in DOMAIN Devices,
                      Uses(z, i, n), Sole(z, i, n)
               PROVE  OwnEntries(ce[n], z, BootTrips(z)[i].index)
    BY Zenon DEF Owned
  <2>1. OwnEntries(cdevs[n], z, BootTrips(z)[i].index)
    BY Zenon, <1>2 DEF Owned
  <2>2. ce[n].zone_trip_limits = cdevs[n].zone_trip_limits
    BY Zenon, <1>7 DEF SameHolds
  <2> QED
    BY Zenon, <2>1, <2>2 DEF OwnEntries
<1>11. ASSUME NEW z \in DOMAIN Zones
       PROVE  Shape(us[z], z) /\ \A j \in 1 .. NumTrips(z) : us[z][j].poll_on = trips[z][j].poll_on
  <2> DEFINE ts == trips[z]
             vs == us[z]
             N  == NumTrips(z)
  <2>1. vs = [i \in DOMAIN ts |-> TripLater(ts[i])]
    BY Zenon, <1>5
  <2>2. ts \in Seq(TripType) /\ Len(ts) = N /\ \A i \in 1 .. N : Like(ts[i], BootTrips(z)[i])
    BY Zenon, <1>2 DEF Shape
  <2> HIDE DEF ts, vs, N
  <2>3. DOMAIN ts = 1 .. N /\ N \in Nat
    BY <2>2
  <2>4. \A i \in 1 .. N : vs[i] = TripLater(ts[i])
    BY Zenon, <2>1, <2>3
  <2>5. \A i \in 1 .. N : Like(vs[i], BootTrips(z)[i]) /\ vs[i].poll_on = ts[i].poll_on
    BY Zenon, <2>2, <2>4, LikeLater
  <2>6. \A i \in 1 .. N : vs[i] \in TripType
    BY Zenon, <2>5 DEF Like
  <2>7. vs = [i \in 1 .. N |-> vs[i]]
    BY <2>1, <2>3
  <2>8. vs \in Seq(TripType) /\ Len(vs) = N
    BY <2>3, <2>6, <2>7
  <2>9. Shape(vs, z)
    BY Zenon, <2>5, <2>8 DEF Shape, N
  <2> QED
    BY Zenon, <2>5, <2>9 DEF vs, ts, N
<1>12. us = [z \in DOMAIN Zones |-> us[z]]
  BY <1>5
<1>13. Formed(ce, us)
  BY Zenon, <1>9, <1>10, <1>11, <1>12 DEF Formed
<1>14. SamePolling(trips, us)
  BY Zenon, <1>11 DEF SamePolling
<1>15. Sound(ce, us)
  BY Zenon, <1>8, <1>13, <1>14, SoundCarries
<1> QED
  BY Zenon, <1>15 DEF ce, us

\* set_trip moves a passive trip of zone z to temperature x.
LEMMA MoveSound ==
    ASSUME Sorting, Sound(cdevs, trips), NEW z \in DOMAIN Zones, NEW x \in NewTemps,
           NEW i \in DOMAIN trips[z], trips[z][i].type = "PASSIVE"
    PROVE  Sound(cdevs, [trips EXCEPT ![z][i].temp = x])
<1> DEFINE ts == trips[z]
           t  == [ts[i] EXCEPT !.temp = x]
           vs == [ts EXCEPT ![i] = t]
           us == [trips EXCEPT ![z] = vs]
<1>1. [trips EXCEPT ![z][i].temp = x] = us
  BY Zenon
<1>2. Formed(cdevs, trips)
  BY Zenon DEF Sound
<1>3. trips = [y \in DOMAIN Zones |-> trips[y]] /\ \A y \in DOMAIN Zones : Shape(trips[y], y)
  BY Zenon, <1>2 DEF Formed
<1>4. ts \in Seq(TripType) /\ Len(ts) = NumTrips(z) /\ \A j \in 1 .. NumTrips(z) : Like(ts[j], BootTrips(z)[j])
  BY Zenon, <1>3 DEF Shape
<1>5. i \in 1 .. NumTrips(z)
  <2> HIDE DEF ts
  <2>1. DOMAIN ts = 1 .. NumTrips(z)
    BY <1>4
  <2> QED
    BY Zenon, <2>1 DEF ts
<1>6. Like(ts[i], BootTrips(z)[i])
  BY Zenon, <1>4, <1>5
<1>7. ts[i] \in TripType /\ x \in Int
  BY Zenon, <1>6, ZoneAssumption DEF Like
<1>8. t \in TripType
  BY Zenon, <1>7 DEF TripType
<1>9. DOMAIN ts[i] = {"index", "type", "temp", "hyst", "sensor", "control_type", "trip_on",
                      "poll_on", "crit_trip_count", "depend", "cdevs"}
  BY Zenon, <1>7 DEF TripType
<1> DEFINE s == ts[i]
<1> HIDE DEF s
<1>10. /\ t.index = s.index /\ t.type = s.type /\ t.sensor = s.sensor /\ t.temp = x
       /\ t.control_type = s.control_type /\ t.depend = s.depend /\ t.poll_on = s.poll_on
       /\ t.cdevs = s.cdevs
  BY <1>9 DEF s
<1> HIDE DEF t
<1>11. BootTrips(z)[i].type = "PASSIVE"
  BY Zenon, <1>6 DEF Like
<1>12. Like(t, BootTrips(z)[i])
  BY Zenon, <1>6, <1>8, <1>10, <1>11 DEF Like, s
<1>13. SwapsTrip(z, ts, i, t, vs)
  BY Zenon, <1>3, <1>5, <1>12 DEF SwapsTrip
<1> HIDE DEF vs, ts
<1>14. TripSwapped(z, ts, i, t, vs)
  BY Zenon, <1>13, ShapeReplaced
<1>15. \A y \in DOMAIN Zones : us[y] = IF y = z THEN vs ELSE trips[y]
  BY Zenon, <1>3
<1>16. us = [y \in DOMAIN Zones |-> us[y]]
  <2>1. DOMAIN us = DOMAIN Zones
    BY Zenon, <1>3
  <2> QED
    BY Zenon, <2>1
<1> HIDE DEF us
<1>17. \A y \in DOMAIN Zones : Shape(us[y], y)
  BY Zenon, <1>3, <1>14, <1>15 DEF TripSwapped
<1>18. Formed(cdevs, us)
  BY Zenon, <1>2, <1>16, <1>17 DEF Formed
<1>19. SameStates(cdevs, cdevs)
  BY Zenon DEF SameStates
<1>20. SamePolling(trips, us)
  <2> SUFFICES ASSUME NEW y \in DOMAIN Zones, NEW j \in 1 .. NumTrips(y)
               PROVE  us[y][j].poll_on = trips[y][j].poll_on
    BY Zenon DEF SamePolling
  <2>1. CASE y # z
    BY Zenon, <1>15, <2>1
  <2>2. CASE y = z /\ j # i
    BY Zenon, <1>14, <1>15, <2>2 DEF TripSwapped, ts
  <2>3. CASE y = z /\ j = i
    BY Zenon, <1>10, <1>14, <1>15, <2>3 DEF TripSwapped, ts, s
  <2> QED
    BY Zenon, <2>1, <2>2, <2>3
<1> QED
  BY Zenon, <1>1, <1>18, <1>19, <1>20, SoundCarries

\* A device at boot, with states to move between, is idle.
LEMMA BootIdle ==
    ASSUME NEW n \in DOMAIN Devices, Devices[n].min_state # Devices[n].max_state,
           NEW cd, cd[n] = BootCdev(Devices[n])
    PROVE  IdleIn(cd, n)
<1> DEFINE d == Devices[n]
           c == cd[n]
<1>1. d.min_state \in Int /\ d.max_state \in Int
  BY Zenon, DeviceAssumption
<1> HIDE DEF c, d
<1>2. c.curr_state = d.min_state /\ c.hw = d.min_state
  <2>1. c = BootCdev(d)
    BY Zenon DEF c, d
  <2> QED
    BY <2>1 DEF BootCdev
<1>3. get_curr_state(d, c) = d.min_state
  BY Zenon, <1>2 DEF get_curr_state
<1>4. d.min_state # d.max_state
  BY Zenon DEF d
<1>5. d.min_state < d.max_state \/ d.min_state > d.max_state
  BY <1>1, <1>4
<1>6. d.min_state <= d.min_state /\ d.min_state >= d.min_state
  BY <1>1
<1>7. in_min_state(d, c)
  BY Zenon, <1>3, <1>5, <1>6 DEF in_min_state
<1> QED
  BY Zenon, <1>7 DEF IdleIn, c, d

\* The initial states satisfy the inductive invariant.
LEMMA BootSound ==
    ASSUME Sorting, Init
    PROVE  Sound(cdevs, trips)
<1>1. /\ cdevs = [n \in DOMAIN Devices |-> BootCdev(Devices[n])]
      /\ trips = [z \in DOMAIN Zones |-> BootTrips(z)]
  BY Zenon DEF Init
<1>2. /\ \A n \in DOMAIN Devices : cdevs[n] = BootCdev(Devices[n])
      /\ \A z \in DOMAIN Zones : trips[z] = BootTrips(z)
  BY Zenon, <1>1
<1>3. IsCdevs(cdevs)
  <2>1. cdevs = [n \in DOMAIN Devices |-> cdevs[n]]
    BY <1>1
  <2>2. \A n \in DOMAIN Devices : IsCdev(BootCdev(Devices[n]))
    BY DEF IsCdev, BootCdev, CdevFields
  <2> QED
    BY Zenon, <1>2, <2>1, <2>2 DEF IsCdevs
<1>4. Owned(cdevs)
  <2>1. \A n \in DOMAIN Devices : cdevs[n].zone_trip_limits = << >>
    <3>1. \A d : BootCdev(d).zone_trip_limits = << >>
      BY DEF BootCdev
    <3> QED
      BY Zenon, <1>2, <3>1
  <2> QED
    BY Zenon, <2>1 DEF Owned, OwnEntries
<1>5. \A z \in DOMAIN Zones : Shape(trips[z], z)
  <2> SUFFICES ASSUME NEW z \in DOMAIN Zones PROVE Shape(BootTrips(z), z)
    BY Zenon, <1>2
  <2>1. BootTrips(z) \in Seq(TripType) /\ \A i \in 1 .. NumTrips(z) : BootTrip(BootTrips(z)[i])
    BY Zenon, BootShape
  <2>2. \A i \in 1 .. NumTrips(z) : Like(BootTrips(z)[i], BootTrips(z)[i])
    BY Zenon, <2>1 DEF Like, BootTrip
  <2> QED
    BY Zenon, <2>1, <2>2 DEF Shape, NumTrips
<1>6. trips = [z \in DOMAIN Zones |-> trips[z]]
  BY <1>1
<1>7. Formed(cdevs, trips)
  BY Zenon, <1>3, <1>4, <1>5, <1>6 DEF Formed
<1>8. ASSUME SequentialTripsOwnDevices PROVE InOrder(cdevs)
  <2> SUFFICES ASSUME NEW z, NEW i, SequentialTrip(z, i) PROVE OrderedTrip(cdevs, z, i)
    BY Zenon DEF InOrder, SequentialTrip
  <2>1. z \in DOMAIN Zones /\ i \in 1 .. NumTrips(z)
    BY Zenon DEF SequentialTrip
  <2>2. ASSUME NEW k \in 1 .. NumBindings(z, i) PROVE IdleIn(cdevs, Name(z, i, k))
    <3> DEFINE n == Name(z, i, k)
    <3>1. Uses(z, i, n)
      BY Zenon DEF Uses
    <3>2. n \in DOMAIN Devices
      BY Zenon, <2>1, BootNames
    <3> HIDE DEF n
    <3>3. Owns(z, i, n)
      BY Zenon, <1>8, <3>1, SequentialOwns
    <3>4. IdleIn(cdevs, n)
      BY Zenon, <1>2, <3>2, <3>3, BootIdle DEF Owns
    <3> QED
      BY Zenon, <3>4 DEF n
  <2> QED
    BY Zenon, <2>2 DEF OrderedTrip
<1>9. AllPolled(cdevs, trips)
  <2> SUFFICES ASSUME NEW z \in DOMAIN Zones, NEW i, NEW n, Guarded(z, i, n)
               PROVE  Polled(z, n, [cdevs |-> cdevs, trips |-> trips[z]])
    BY Zenon DEF AllPolled
  <2>1. n \in DOMAIN Devices /\ Owns(z, i, n)
    BY Zenon DEF Guarded
  <2>2. IdleIn(cdevs, n)
    BY Zenon, <1>2, <2>1, BootIdle DEF Owns
  <2> QED
    BY Zenon, <2>2 DEF Polled
<1> QED
  BY Zenon, <1>7, <1>8, <1>9 DEF Sound

-----------------------------------------------------------------------------
(* The properties.                                                         *)

\* The inductive invariant of the specification.
IInv == Sound(cdevs, trips) /\ temp \in [Sensors -> Int]

\* It holds when the daemon starts.
LEMMA IInvInit == Sorting /\ Init => IInv
<1> SUFFICES ASSUME Sorting, Init PROVE IInv
  BY Zenon
<1>1. Sound(cdevs, trips)
  BY Zenon, BootSound
<1>2. temp = [s \in Sensors |-> BootTemp] /\ BootTemp \in Int
  BY Zenon, ZoneAssumption DEF Init
<1>3. temp \in [Sensors -> Int]
  BY Zenon, <1>2
<1> QED
  BY Zenon, <1>1, <1>3 DEF IInv

\* Every step keeps it.
LEMMA IInvNext == Sorting /\ IInv /\ [Next]_vars => IInv'
<1> SUFFICES ASSUME Sorting, IInv, [Next]_vars PROVE IInv'
  BY Zenon
<1>1. Sound(cdevs, trips) /\ temp \in [Sensors -> Int]
  BY Zenon DEF IInv
<1>2. ASSUME UNCHANGED <<cdevs, trips, temp>> PROVE IInv'
  <2>1. cdevs' = cdevs /\ trips' = trips /\ temp' = temp
    BY Zenon, <1>2
  <2> QED
    BY Zenon, <1>1, <2>1 DEF IInv
<1>3. ASSUME NEW s \in Sensors, Drift(s) PROVE IInv'
  <2>1. PICK x \in Temps : temp' = [temp EXCEPT ![s] = x]
    BY Zenon, <1>3 DEF Drift
  <2>2. x \in Int
    BY Zenon, ZoneAssumption
  <2>3. temp' \in [Sensors -> Int]
    BY Zenon, <1>1, <2>1, <2>2
  <2>4. cdevs' = cdevs /\ trips' = trips
    BY Zenon, <1>3 DEF Drift
  <2> QED
    BY Zenon, <1>1, <2>3, <2>4 DEF IInv
<1>4. ASSUME NEW w, SoundAt(w), Visited(w), temp' = temp PROVE IInv'
  <2>1. cdevs' = w.cdevs /\ trips' = w.trips
    BY Zenon, <1>4 DEF Visited
  <2> QED
    BY Zenon, <1>1, <1>4, <2>1 DEF IInv, SoundAt
<1>5. ASSUME uevent PROVE IInv'
  <2>1. SoundAt(NotifyZones(cdevs, trips))
    BY Zenon, <1>1, NotifySound
  <2>2. Visited(NotifyZones(cdevs, trips)) /\ temp' = temp
    BY Zenon, <1>5 DEF uevent
  <2> QED
    BY Zenon, <1>4, <2>1, <2>2
<1>6. ASSUME thd_engine_thread PROVE IInv'
  <2> DEFINE w == IF status THEN NotifyZones(CdevsLater, TripsLater)
                  ELSE [cdevs |-> CdevsLater, trips |-> TripsLater, power |-> power]
  <2>1. Visited(w) /\ temp' = temp
    BY Zenon, <1>6 DEF thd_engine_thread
  <2>2. Sound(CdevsLater, TripsLater)
    BY Zenon, <1>1, LaterSound
  <2>3. SoundAt(NotifyZones(CdevsLater, TripsLater))
    BY Zenon, <1>1, <2>2, NotifySound
  <2>4. SoundAt([cdevs |-> CdevsLater, trips |-> TripsLater, power |-> power])
    BY Zenon, <2>2 DEF SoundAt
  <2>5. SoundAt(w)
    BY Zenon, <2>3, <2>4
  <2> HIDE DEF w
  <2> QED
    BY Zenon, <1>4, <2>1, <2>5
<1>7. ASSUME NEW z \in DOMAIN Zones, NEW active, user_set_zone_status(z, active) PROVE IInv'
  BY Zenon, <1>2, <1>7 DEF user_set_zone_status
<1>8. ASSUME NEW z \in DOMAIN Zones, NEW x \in NewTemps, set_trip(z, x) PROVE IInv'
  <2> DEFINE passive == {i \in DOMAIN trips[z] : trips[z][i].type = "PASSIVE"}
             i       == Min(passive)
  <2>1. /\ passive # {} /\ trips' = [trips EXCEPT ![z][i].temp = x]
        /\ cdevs' = cdevs /\ temp' = temp
    BY Zenon, <1>8 DEF set_trip
  <2>2. passive \in SUBSET Nat
    <3>1. Shape(trips[z], z)
      BY Zenon, <1>1 DEF Sound, Formed
    <3>2. trips[z] \in Seq(TripType)
      BY Zenon, <3>1 DEF Shape
    <3> DEFINE ts == trips[z]
    <3> HIDE DEF ts
    <3>3. DOMAIN ts \in SUBSET Nat
      BY <3>2 DEF ts
    <3> QED
      BY Zenon, <3>3 DEF ts
  <2>3. i \in passive
    <3> HIDE DEF passive
    <3> QED
      BY Zenon, <2>1, <2>2, MinInSet
  <2>4. i \in DOMAIN trips[z] /\ trips[z][i].type = "PASSIVE"
    BY Zenon, <2>3
  <2> HIDE DEF i
  <2>5. Sound(cdevs, [trips EXCEPT ![z][i].temp = x])
    BY Zenon, <1>1, <2>4, MoveSound
  <2> QED
    BY Zenon, <1>1, <2>1, <2>5 DEF IInv
<1>9. ASSUME NEW pref, process_pref_change(pref) PROVE IInv'
  <2>1. temp' = temp
    BY Zenon, <1>9 DEF process_pref_change
  <2>2. CASE pref = "DISABLED"
    BY Zenon, <1>2, <1>9, <2>2 DEF process_pref_change
  <2>3. CASE pref # "DISABLED"
    <3>1. Visited(PreferZones(pref))
      BY Zenon, <1>9, <2>3 DEF process_pref_change
    <3>2. SoundAt(PreferZones(pref))
      BY Zenon, <1>1, PreferSound
    <3> QED
      BY Zenon, <1>4, <2>1, <3>1, <3>2
  <2> QED
    BY Zenon, <2>2, <2>3
<1>10. ASSUME Resume PROVE IInv'
  BY Zenon, <1>2, <1>10 DEF Resume
<1>11. ASSUME UNCHANGED vars PROVE IInv'
  BY Zenon, <1>2, <1>11 DEF vars
<1> QED
  BY Zenon, <1>3, <1>5, <1>6, <1>7, <1>8, <1>9, <1>10, <1>11 DEF Next

\* What the invariant says of the trips of a zone.
LEMMA TripsAsBooted ==
    ASSUME IInv, NEW z \in DOMAIN Zones
    PROVE  /\ DOMAIN trips[z] = 1 .. NumTrips(z)
           /\ \A i \in 1 .. NumTrips(z) :
                /\ trips[z][i].control_type = BootTrips(z)[i].control_type
                /\ DOMAIN trips[z][i].cdevs = 1 .. NumBindings(z, i)
                /\ \A k \in 1 .. NumBindings(z, i) : trips[z][i].cdevs[k].cdev = Name(z, i, k)
<1> DEFINE ts == trips[z]
<1>1. Shape(ts, z)
  BY Zenon DEF IInv, Sound, Formed
<1> HIDE DEF ts
<1>2. ts \in Seq(TripType) /\ Len(ts) = NumTrips(z)
  BY Zenon, <1>1 DEF Shape
<1>3. DOMAIN ts = 1 .. NumTrips(z)
  BY <1>2
<1>4. ASSUME NEW i \in 1 .. NumTrips(z)
      PROVE  /\ ts[i].control_type = BootTrips(z)[i].control_type
             /\ DOMAIN ts[i].cdevs = 1 .. NumBindings(z, i)
             /\ \A k \in 1 .. NumBindings(z, i) : ts[i].cdevs[k].cdev = Name(z, i, k)
  <2> DEFINE t == ts[i]
  <2>1. Like(t, BootTrips(z)[i])
    BY Zenon, <1>1 DEF Shape
  <2> HIDE DEF t
  <2>2. t \in TripType /\ Len(t.cdevs) = NumBindings(z, i)
    BY Zenon, <2>1 DEF Like, NumBindings
  <2>3. t.cdevs \in Seq(BindingType)
    BY Zenon, <2>2 DEF TripType
  <2>4. DOMAIN t.cdevs = 1 .. NumBindings(z, i)
    BY <2>2, <2>3
  <2>5. \A k \in 1 .. NumBindings(z, i) : t.cdevs[k].cdev = Name(z, i, k)
    BY Zenon, <2>1 DEF Like, NumBindings, Name
  <2>6. t.control_type = BootTrips(z)[i].control_type
    BY Zenon, <2>1 DEF Like
  <2> QED
    BY Zenon, <2>4, <2>5, <2>6 DEF t
<1> QED
  BY Zenon, <1>3, <1>4 DEF ts

\* The invariant gives SequentialOrder.
LEMMA SoundOrders == SequentialTripsOwnDevices /\ IInv => SequentialOrder
<1> SUFFICES ASSUME SequentialTripsOwnDevices, IInv,
                    NEW z \in DOMAIN Zones, NEW i \in DOMAIN trips[z],
                    trips[z][i].control_type = "SEQUENTIAL",
                    NEW k \in DOMAIN Bindings(z, i), NEW l \in DOMAIN Bindings(z, i),
                    k < l, ~Idle(Bindings(z, i)[l].cdev)
             PROVE  Full(Bindings(z, i)[k].cdev)
  BY Zenon DEF SequentialOrder
<1>1. i \in 1 .. NumTrips(z)
  BY Zenon, TripsAsBooted
<1>2. k \in 1 .. NumBindings(z, i) /\ l \in 1 .. NumBindings(z, i) /\ Sequential(z, i)
  BY Zenon, <1>1, TripsAsBooted DEF Bindings, Sequential
<1>3. Bindings(z, i)[k].cdev = Name(z, i, k) /\ Bindings(z, i)[l].cdev = Name(z, i, l)
  BY Zenon, <1>1, <1>2, TripsAsBooted DEF Bindings
<1>4. OrderedTrip(cdevs, z, i)
  BY Zenon, <1>1, <1>2 DEF IInv, Sound, InOrder
<1>5. ~IdleIn(cdevs, Name(z, i, l))
  BY Zenon, <1>3 DEF Idle, IdleIn
<1>6. FullIn(cdevs, Name(z, i, k))
  BY Zenon, <1>2, <1>4, <1>5 DEF OrderedTrip
<1> QED
  BY Zenon, <1>3, <1>6 DEF Full, FullIn

\* The invariant gives OwnThrottledIsPolled.
LEMMA SoundPolls ==
    ASSUME Sorting
    PROVE  IInv => OwnThrottledIsPolled
<1> SUFFICES ASSUME IInv, NEW z \in DOMAIN Zones, NEW n \in DOMAIN Devices, PolledFor(z, n), ~Idle(n)
             PROVE  \E j \in DOMAIN trips[z] : trips[z][j].poll_on
  BY Zenon DEF OwnThrottledIsPolled
<1>1. PICK i \in DOMAIN BootTrips(z) :
        n \in BoundBy(z, i) /\ OwnDevice(z, i, n) /\ PolledBelow(z, i)
  BY Zenon DEF PolledFor
<1>2. i \in 1 .. NumTrips(z)
  <2>1. BootTrips(z) \in Seq(TripType)
    BY Zenon, BootShape
  <2> QED
    BY <2>1 DEF NumTrips
<1>3. Uses(z, i, n)
  BY Zenon, <1>1, <1>2, UsesBound
<1>4. Owns(z, i, n)
  BY Zenon, <1>1, <1>2, OwnedByTrip
<1>5. Guarded(z, i, n)
  BY Zenon, <1>1, <1>2, <1>3, <1>4 DEF Guarded
<1>6. Polled(z, n, [cdevs |-> cdevs, trips |-> trips[z]])
  BY Zenon, <1>5 DEF IInv, Sound, AllPolled
<1>7. \E j \in 1 .. NumTrips(z) : trips[z][j].poll_on = TRUE
  <2> DEFINE a == [cdevs |-> cdevs, trips |-> trips[z]]
  <2>1. a.cdevs = cdevs /\ a.trips = trips[z]
    BY Zenon
  <2> HIDE DEF a
  <2>2. Polled(z, n, a)
    BY Zenon, <1>6 DEF a
  <2>3. ~IdleIn(cdevs, n)
    BY Zenon DEF Idle, IdleIn
  <2> QED
    BY Zenon, <2>1, <2>2, <2>3 DEF Polled
<1> QED
  BY Zenon, <1>7, TripsAsBooted

-----------------------------------------------------------------------------
(* The sort, by counting the elements that go before each; the theorems    *)
(* about cardinalities are needed from here on.                            *)

INSTANCE FiniteSetTheorems

\* Whether element j of a list with these keys is placed at or before i.
Precedes(key, j, i) == key[j] < key[i] \/ (key[j] = key[i] /\ j <= i)

\* The sort used on bindings and on trips loses, duplicates and invents none.
LEMMA SortRearranges ==
    ASSUME NEW S, NEW s \in Seq(S), NEW key \in [DOMAIN s -> Int]
    PROVE  \E p \in Bijection(1 .. Len(s), 1 .. Len(s)) :
              SortByKey(s, key) = [k \in 1 .. Len(s) |-> s[p[k]]]
<1> DEFINE n == Len(s)
           D == 1 .. n
           Down(i) == {j \in D : Precedes(key, j, i)}
           place == [i \in D |-> Cardinality(Down(i))]
           p == [k \in D |-> CHOOSE i \in D : place[i] = k]
<1>1. n \in Nat /\ DOMAIN s = D /\ s \in [D -> S]
  BY ElementOfList
<1>2. IsFiniteSet(D) /\ Cardinality(D) = n
  <2>1. 1 \in Int /\ n \in Int /\ n >= 0
    BY <1>1
  <2>2. IsFiniteSet(D) /\ Cardinality(D) = IF 1 > n THEN 0 ELSE n - 1 + 1
    <3> HIDE DEF n
    <3> QED
      BY <2>1, FS_Interval
  <2> HIDE DEF n, D
  <2> QED
    BY <2>1, <2>2
<1>3. \A i \in D : key[i] \in Int
  BY <1>1
<1>4. \A i \in D : /\ IsFiniteSet(Down(i))
                   /\ Cardinality(Down(i)) \in Nat
                   /\ Cardinality(Down(i)) <= n
  BY <1>2, FS_Subset, FS_CardinalityType
<1>5. \A i \in D : Cardinality(Down(i)) # 0
  <2> SUFFICES ASSUME NEW i \in D PROVE Cardinality(Down(i)) # 0
    OBVIOUS
  <2>1. i \in Down(i)
    BY <1>1, <1>3 DEF Precedes
  <2> QED
    BY Zenon, <2>1, <1>4, FS_EmptySet
<1>6. \A i, j \in D : i # j /\ Precedes(key, i, j) =>
                         Cardinality(Down(i)) < Cardinality(Down(j))
  <2> SUFFICES ASSUME NEW i \in D, NEW j \in D, i # j, Precedes(key, i, j)
               PROVE  Cardinality(Down(i)) < Cardinality(Down(j))
    OBVIOUS
  <2>1. Down(i) \subseteq Down(j)
    BY <1>1, <1>3 DEF Precedes
  <2>2. j \in Down(j) /\ j \notin Down(i)
    BY <1>1, <1>3 DEF Precedes
  <2>3. /\ Cardinality(Down(i)) <= Cardinality(Down(j))
        /\ Cardinality(Down(j)) = Cardinality(Down(i)) => Down(j) = Down(i)
    <3> HIDE DEF Down
    <3> QED
      BY <2>1, <1>4, FS_Subset
  <2>4. Cardinality(Down(i)) # Cardinality(Down(j))
    BY <2>2, <2>3
  <2> HIDE DEF Down
  <2> QED
    BY <2>3, <2>4, <1>4
<1>7. \A i, j \in D : Precedes(key, i, j) \/ Precedes(key, j, i)
  BY <1>1, <1>3 DEF Precedes
<1>8. place \in Injection(D, D)
  <2>1. place \in [D -> D]
    <3> HIDE DEF Down
    <3> QED
      BY <1>1, <1>4, <1>5
  <2>2. \A i, j \in D : place[i] = place[j] => i = j
    <3> HIDE DEF Down
    <3> SUFFICES ASSUME NEW i \in D, NEW j \in D, i # j
                 PROVE  place[i] # place[j]
      OBVIOUS
    <3>1. \/ Cardinality(Down(i)) < Cardinality(Down(j))
          \/ Cardinality(Down(j)) < Cardinality(Down(i))
      BY <1>6, <1>7
    <3> QED
      BY <3>1, <1>4
  <2> QED
    BY Zenon, <2>1, <2>2 DEF Injection, IsInjective
<1>9. place \in Surjection(D, D)
  BY <1>8, <1>2, FS_Injection
<1>10. \A k \in D : \E i \in D : place[i] = k
  BY Zenon, <1>9 DEF Surjection
<1>11. \A k \in D : p[k] \in D /\ place[p[k]] = k
  <2> HIDE DEF place
  <2> QED
    BY Zenon, <1>10
<1>12. p \in Bijection(D, D)
  <2> HIDE DEF place
  <2>1. p \in [D -> D]
    BY <1>11
  <2>2. \A k, l \in D : p[k] = p[l] => k = l
    BY <1>11
  <2>3. \A i \in D : \E k \in D : p[k] = i
    <3> SUFFICES ASSUME NEW i \in D PROVE \E k \in D : p[k] = i
      OBVIOUS
    <3>1. place[i] \in D /\ place[p[place[i]]] = place[i]
      BY <1>8, <1>11 DEF Injection
    <3> QED
      BY <3>1, <1>8, <1>11 DEF Injection, IsInjective
  <2> HIDE DEF p
  <2> QED
    BY <2>1, <2>2, <2>3 DEF Bijection, Injection, Surjection, IsInjective
<1>13. SortByKey(s, key) = [k \in D |-> s[p[k]]]
  <2>1. \A i \in D : place[i] = Cardinality({j \in DOMAIN s :
                        \/ key[j] < key[i]
                        \/ key[j] = key[i] /\ j <= i})
    BY <1>1 DEF Precedes
  <2>2. \A k \in D : p[k] = CHOOSE i \in DOMAIN s : Cardinality({j \in DOMAIN s :
                        \/ key[j] < key[i]
                        \/ key[j] = key[i] /\ j <= i}) = k
    BY Zenon, <1>1 DEF Precedes
  <2>3. SortByKey(s, key) =
           [k \in DOMAIN s |-> s[CHOOSE i \in DOMAIN s : Cardinality({j \in DOMAIN s :
                        \/ key[j] < key[i]
                        \/ key[j] = key[i] /\ j <= i}) = k]]
    BY DEF SortByKey
  <2> HIDE DEF p
  <2> QED
    BY Zenon, <1>1, <2>2, <2>3
<1> HIDE DEF p
<1> QED
  BY <1>12, <1>13

\* What the lemmas about the zones assume of the sort.
LEMMA SortingRearranges == Sorting
  BY Zenon, SortRearranges DEF Sorting

\* The inductive invariant holds in every reachable state.
LEMMA IInvAlways == Spec => []IInv
<1>1. Init => IInv
  BY Zenon, SortingRearranges, IInvInit
<1>2. IInv /\ [Next]_vars => IInv'
  BY Zenon, SortingRearranges, IInvNext
<1> QED
  BY <1>1, <1>2, PTL DEF Spec

\* Devices of a sequential trip come into use one after the other and are
\* released in the reverse order, through every interleaving of readings,
\* resets, preference changes, moved trips and switched zones, for any number
\* of zones, trips and devices, as long as no other trip uses the devices of
\* a sequential trip and each of them has more than one state.
THEOREM SequentialTripsStayOrdered ==
    SequentialTripsOwnDevices => (Spec => []SequentialOrder)
<1> SUFFICES ASSUME SequentialTripsOwnDevices PROVE Spec => []SequentialOrder
  OBVIOUS
<1>1. IInv => SequentialOrder
  BY Zenon, SoundOrders
<1> QED
  BY <1>1, IInvAlways, PTL

\* Nothing is throttled unnoticed: while a device is in use that one trip has
\* to itself, a polling trip of its zone is on, and the reset below the
\* polling threshold leaves it idle, unless the trip lies or can be moved
\* below the polling trips. This is so in every configuration, for any number
\* of zones, sensors, trips and devices, whatever other trips share and
\* wherever set_trip moves them.
THEOREM OwnDevicesArePolled == Spec => []OwnThrottledIsPolled
<1>1. IInv => OwnThrottledIsPolled
  BY Zenon, SortingRearranges, SoundPolls
<1> QED
  BY <1>1, IInvAlways, PTL
=============================================================================
