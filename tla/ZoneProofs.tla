----------------------------- MODULE ZoneProofs ------------------------------
(***************************************************************************)
(* What one visit of a zone does to its trips and devices, for any zones,  *)
(* trips, sensors and devices.  ZoneControlProofs builds on these facts.   *)
(*                                                                         *)
(* The loops of the model are recursive functions; what they compute is    *)
(* shown by induction over the rounds (LoopInduction).                     *)
(***************************************************************************)
EXTENDS ZoneControl, WellFoundedInduction, TLAPS

\* A set of naturals has a least element.
LEMMA LeastNatural ==
    ASSUME NEW T, T \subseteq Nat, T # {}
    PROVE  \E x \in T : \A y \in T : x <= y
<1> DEFINE R == {ss \in Nat \X Nat : ss[1] < ss[2]}
<1>1. IsWellFoundedOn(R, Nat)
  BY NatLessThanWellFounded DEF OpToRel
<1>2. PICK x \in T : \A y \in T : ~(<<y, x>> \in R)
  BY Zenon, <1>1, WFMin
<1>3. ASSUME NEW y \in T PROVE x <= y
  <2>1. x \in Nat /\ y \in Nat
    OBVIOUS
  <2>2. y < x => <<y, x>> \in R
    BY <2>1
  <2> HIDE DEF R
  <2>3. ~(y < x)
    BY <1>2, <2>2
  <2> QED
    BY <2>1, <2>3
<1> QED
  BY <1>3

\* Induction over the rounds of a loop.
LEMMA LoopInduction ==
    ASSUME NEW n \in Nat, NEW T, 0 \in T,
           \A k \in 1 .. n : k - 1 \in T => k \in T
    PROVE  \A k \in 0 .. n : k \in T
<1> DEFINE B == {k \in 0 .. n : k \notin T}
<1> SUFFICES ASSUME B # {} PROVE FALSE
  OBVIOUS
<1>1. PICK x \in B : \A y \in B : x <= y
  <2>1. B \subseteq Nat
    OBVIOUS
  <2> HIDE DEF B
  <2> QED
    BY Zenon, <2>1, LeastNatural
<1>2. x \in 0 .. n /\ x \notin T /\ x # 0
  BY <1>1
<1>3. x \in 1 .. n /\ x - 1 \in 0 .. n /\ ~(x <= x - 1)
  BY <1>2
<1>4. x - 1 \in T
  BY <1>1, <1>3
<1> QED
  BY <1>2, <1>3, <1>4

\* The elements of a sequence.
LEMMA ElementOfList ==
    ASSUME NEW S, NEW s \in Seq(S)
    PROVE  /\ Len(s) \in Nat /\ DOMAIN s = 1 .. Len(s)
           /\ \A k \in 1 .. Len(s) : s[k] \in S
OBVIOUS

\* A set of one element has one element, from the definition of Cardinality.
LEMMA OneElement == Cardinality({1}) = 1
<1> DEFINE D == SUBSET {1}
           less(T) == T \ {CHOOSE x : x \in T}
           F(f) == [T \in D |-> IF T = {} THEN 0 ELSE 1 + f[less(T)]]
           g == [T \in D |-> IF T = {} THEN 0 ELSE 1]
           CS == CHOOSE f : f = F(f)
<1>1. {} \in D /\ {1} \in D /\ {1} # {}
  OBVIOUS
<1>2. \A T \in D : T # {} => T = {1}
  OBVIOUS
<1>3. less({1}) = {}
  OBVIOUS
<1> HIDE DEF D, less
<1>4. \A T \in D : T # {} => less(T) = {}
  BY Zenon, <1>2, <1>3
<1>5. g = F(g)
  <2>1. \A T \in D : T # {} => 1 + g[less(T)] = 1
    <3>1. g[{}] = 0 
      BY <1>1
    <3> HIDE DEF g
    <3> QED
      BY <1>4, <3>1
  <2> QED
    BY Zenon, <2>1
<1>6. CS = F(CS)
  <2> HIDE DEF g
  <2> QED
  BY Zenon, <1>5
<1> HIDE DEF CS
<1>7. CS[{}] = 0
  BY <1>1, <1>6
<1>8. CS[{1}] = 1 + CS[{}]
  BY <1>1, <1>3, <1>6
<1>9. Cardinality({1}) = CS[{1}]
  BY Zenon DEF Cardinality, CS, D, less
<1> QED
  BY <1>7, <1>8, <1>9
\* The sort rearranges what it is given.  The lemmas that need this assume it;
\* SortingRearranges of ZoneControlProofs proves it.
Sorting ==
    \A S : \A s \in Seq(S) : \A key \in [DOMAIN s -> Int] :
        \E p \in Bijection(1 .. Len(s), 1 .. Len(s)) :
            SortByKey(s, key) = [k \in 1 .. Len(s) |-> s[p[k]]]

-----------------------------------------------------------------------------
(* The loops: g[k] is what k rounds leave.                                 *)

BoundRounds(t, n, g) ==
    /\ g[0] = << >>
    /\ \A k \in 1 .. n : g[k] = trip_cdev_add(g[k - 1], t.cdevs[k])
    /\ Bound(t) = [t EXCEPT !.cdevs = g[n]]

\* The bindings of a trip are added one by one.
LEMMA BoundLoop ==
    ASSUME NEW t, NEW n \in Nat, n = Len(t.cdevs)
    PROVE  \E g : BoundRounds(t, n, g)
<1> DEFINE x       == << >>
           S(v, k) == trip_cdev_add(v, t.cdevs[k])
           D(f, m) == [k \in 0 .. m |-> IF k = 0 THEN x ELSE S(f[k - 1], k)]
           T       == {m \in 0 .. n : \E f : f = D(f, m)}
           a       == CHOOSE f : f = D(f, n)
<1>1. Bound(t) = [t EXCEPT !.cdevs = a[n]]
  BY Zenon DEF Bound
<1> HIDE DEF x, S
<1>2. 0 \in T
  <2>1. \A k \in 0 .. 0 : k = 0
    OBVIOUS
  <2>2. [k \in 0 .. 0 |-> x] = D([k \in 0 .. 0 |-> x], 0)
    BY Zenon, <2>1
  <2>3. 0 \in 0 .. n
    OBVIOUS
  <2> HIDE DEF D
  <2> QED
    BY Zenon, <2>2, <2>3
<1>3. ASSUME NEW m \in 1 .. n, m - 1 \in T PROVE m \in T
  <2>1. PICK f : f = D(f, m - 1)
    BY Zenon, <1>3
  <2> DEFINE h == [k \in 0 .. m |-> IF k = m THEN S(f[m - 1], m) ELSE f[k]]
  <2>2. ASSUME NEW k \in 0 .. m PROVE h[k] = IF k = 0 THEN x ELSE S(h[k - 1], k)
    <3>1. m # 0 /\ (k # m => k \in 0 .. m - 1) /\ (k # 0 => k - 1 \in 0 .. m /\ k - 1 # m)
      OBVIOUS
    <3>2. k # m => f[k] = IF k = 0 THEN x ELSE S(f[k - 1], k)
      BY Zenon, <2>1, <3>1
    <3>3. (k # m => h[k] = f[k]) /\ (k # 0 => h[k - 1] = f[k - 1]) /\ (k = m => h[k] = S(f[m - 1], m))
      BY Zenon, <3>1
    <3> HIDE DEF h
    <3>4. CASE k = m
      BY Zenon, <3>1, <3>3, <3>4
    <3>5. CASE k # m
      <4>1. k = 0 \/ S(h[k - 1], k) = S(f[k - 1], k)
        BY Zenon, <3>3
      <4> QED
        BY Zenon, <3>2, <3>3, <3>5, <4>1
    <3> QED
      BY Zenon, <3>4, <3>5
  <2>3. h = D(h, m)
    <3>1. h = [k \in 0 .. m |-> h[k]]
      BY Zenon
    <3> HIDE DEF h
    <3> QED
      BY Zenon, <2>2, <3>1
  <2>4. m \in 0 .. n
    OBVIOUS
  <2> HIDE DEF h, D
  <2> QED
    BY Zenon, <2>3, <2>4
<1>4. n \in T
  <2> HIDE DEF T
  <2>1. \A k \in 0 .. n : k \in T
    BY Zenon, <1>2, <1>3, LoopInduction
  <2> QED
    BY <2>1
<1>5. a = D(a, n)
  BY Zenon, <1>4
<1> HIDE DEF a
<1>6. \A k \in 0 .. n : a[k] = IF k = 0 THEN x ELSE S(a[k - 1], k)
  BY Zenon, <1>5
<1>7. a[0] = x /\ \A k \in 1 .. n : a[k] = S(a[k - 1], k)
  <2>1. 0 \in 0 .. n /\ \A k \in 1 .. n : k \in 0 .. n /\ k # 0
    OBVIOUS
  <2> QED
    BY Zenon, <1>6, <2>1
<1> QED
  BY Zenon, <1>1, <1>7 DEF x, S, BoundRounds

ActivateRounds(w, z, i, n, g) ==
    /\ g[0] = [w |-> w, stop |-> FALSE]
    /\ \A k \in 1 .. n : g[k] = ActivateBinding(z, i, g[k - 1], k)
    /\ ActivateTrip(w, z, i) = g[n].w

\* The activation loop.
LEMMA ActivateLoop ==
    ASSUME NEW w, NEW z, NEW i, NEW n \in Nat, n = Len(w.trips[i].cdevs)
    PROVE  \E g : ActivateRounds(w, z, i, n, g)
<1> DEFINE x       == [w |-> w, stop |-> FALSE]
           S(v, k) == ActivateBinding(z, i, v, k)
           D(f, m) == [k \in 0 .. m |-> IF k = 0 THEN x ELSE S(f[k - 1], k)]
           T       == {m \in 0 .. n : \E f : f = D(f, m)}
           a       == CHOOSE f : f = D(f, n)
<1>1. ActivateTrip(w, z, i) = a[n].w
  BY Zenon DEF ActivateTrip
<1> HIDE DEF x, S
<1>2. 0 \in T
  <2>1. \A k \in 0 .. 0 : k = 0
    OBVIOUS
  <2>2. [k \in 0 .. 0 |-> x] = D([k \in 0 .. 0 |-> x], 0)
    BY Zenon, <2>1
  <2>3. 0 \in 0 .. n
    OBVIOUS
  <2> HIDE DEF D
  <2> QED
    BY Zenon, <2>2, <2>3
<1>3. ASSUME NEW m \in 1 .. n, m - 1 \in T PROVE m \in T
  <2>1. PICK f : f = D(f, m - 1)
    BY Zenon, <1>3
  <2> DEFINE h == [k \in 0 .. m |-> IF k = m THEN S(f[m - 1], m) ELSE f[k]]
  <2>2. ASSUME NEW k \in 0 .. m PROVE h[k] = IF k = 0 THEN x ELSE S(h[k - 1], k)
    <3>1. m # 0 /\ (k # m => k \in 0 .. m - 1) /\ (k # 0 => k - 1 \in 0 .. m /\ k - 1 # m)
      OBVIOUS
    <3>2. k # m => f[k] = IF k = 0 THEN x ELSE S(f[k - 1], k)
      BY Zenon, <2>1, <3>1
    <3>3. (k # m => h[k] = f[k]) /\ (k # 0 => h[k - 1] = f[k - 1]) /\ (k = m => h[k] = S(f[m - 1], m))
      BY Zenon, <3>1
    <3> HIDE DEF h
    <3>4. CASE k = m
      BY Zenon, <3>1, <3>3, <3>4
    <3>5. CASE k # m
      <4>1. k = 0 \/ S(h[k - 1], k) = S(f[k - 1], k)
        BY Zenon, <3>3
      <4> QED
        BY Zenon, <3>2, <3>3, <3>5, <4>1
    <3> QED
      BY Zenon, <3>4, <3>5
  <2>3. h = D(h, m)
    <3>1. h = [k \in 0 .. m |-> h[k]]
      BY Zenon
    <3> HIDE DEF h
    <3> QED
      BY Zenon, <2>2, <3>1
  <2>4. m \in 0 .. n
    OBVIOUS
  <2> HIDE DEF h, D
  <2> QED
    BY Zenon, <2>3, <2>4
<1>4. n \in T
  <2> HIDE DEF T
  <2>1. \A k \in 0 .. n : k \in T
    BY Zenon, <1>2, <1>3, LoopInduction
  <2> QED
    BY <2>1
<1>5. a = D(a, n)
  BY Zenon, <1>4
<1> HIDE DEF a
<1>6. \A k \in 0 .. n : a[k] = IF k = 0 THEN x ELSE S(a[k - 1], k)
  BY Zenon, <1>5
<1>7. a[0] = x /\ \A k \in 1 .. n : a[k] = S(a[k - 1], k)
  <2>1. 0 \in 0 .. n /\ \A k \in 1 .. n : k \in 0 .. n /\ k # 0
    OBVIOUS
  <2> QED
    BY Zenon, <1>6, <2>1
<1> QED
  BY Zenon, <1>1, <1>7 DEF x, S, ActivateRounds

DeactivateRounds(w, z, i, n, g) ==
    /\ g[0] = [w |-> w, stop |-> FALSE]
    /\ \A k \in 1 .. n : g[k] = DeactivateBinding(z, i, g[k - 1], n + 1 - k)
    /\ DeactivateTrip(w, z, i) = g[n].w

\* The deactivation loop.
LEMMA DeactivateLoop ==
    ASSUME NEW w, NEW z, NEW i, NEW n \in Nat, n = Len(w.trips[i].cdevs)
    PROVE  \E g : DeactivateRounds(w, z, i, n, g)
<1> DEFINE x       == [w |-> w, stop |-> FALSE]
           S(v, k) == DeactivateBinding(z, i, v, n + 1 - k)
           D(f, m) == [k \in 0 .. m |-> IF k = 0 THEN x ELSE S(f[k - 1], k)]
           T       == {m \in 0 .. n : \E f : f = D(f, m)}
           a       == CHOOSE f : f = D(f, n)
<1>1. DeactivateTrip(w, z, i) = a[n].w
  BY Zenon DEF DeactivateTrip
<1> HIDE DEF x, S
<1>2. 0 \in T
  <2>1. \A k \in 0 .. 0 : k = 0
    OBVIOUS
  <2>2. [k \in 0 .. 0 |-> x] = D([k \in 0 .. 0 |-> x], 0)
    BY Zenon, <2>1
  <2>3. 0 \in 0 .. n
    OBVIOUS
  <2> HIDE DEF D
  <2> QED
    BY Zenon, <2>2, <2>3
<1>3. ASSUME NEW m \in 1 .. n, m - 1 \in T PROVE m \in T
  <2>1. PICK f : f = D(f, m - 1)
    BY Zenon, <1>3
  <2> DEFINE h == [k \in 0 .. m |-> IF k = m THEN S(f[m - 1], m) ELSE f[k]]
  <2>2. ASSUME NEW k \in 0 .. m PROVE h[k] = IF k = 0 THEN x ELSE S(h[k - 1], k)
    <3>1. m # 0 /\ (k # m => k \in 0 .. m - 1) /\ (k # 0 => k - 1 \in 0 .. m /\ k - 1 # m)
      OBVIOUS
    <3>2. k # m => f[k] = IF k = 0 THEN x ELSE S(f[k - 1], k)
      BY Zenon, <2>1, <3>1
    <3>3. (k # m => h[k] = f[k]) /\ (k # 0 => h[k - 1] = f[k - 1]) /\ (k = m => h[k] = S(f[m - 1], m))
      BY Zenon, <3>1
    <3> HIDE DEF h
    <3>4. CASE k = m
      BY Zenon, <3>1, <3>3, <3>4
    <3>5. CASE k # m
      <4>1. k = 0 \/ S(h[k - 1], k) = S(f[k - 1], k)
        BY Zenon, <3>3
      <4> QED
        BY Zenon, <3>2, <3>3, <3>5, <4>1
    <3> QED
      BY Zenon, <3>4, <3>5
  <2>3. h = D(h, m)
    <3>1. h = [k \in 0 .. m |-> h[k]]
      BY Zenon
    <3> HIDE DEF h
    <3> QED
      BY Zenon, <2>2, <3>1
  <2>4. m \in 0 .. n
    OBVIOUS
  <2> HIDE DEF h, D
  <2> QED
    BY Zenon, <2>3, <2>4
<1>4. n \in T
  <2> HIDE DEF T
  <2>1. \A k \in 0 .. n : k \in T
    BY Zenon, <1>2, <1>3, LoopInduction
  <2> QED
    BY <2>1
<1>5. a = D(a, n)
  BY Zenon, <1>4
<1> HIDE DEF a
<1>6. \A k \in 0 .. n : a[k] = IF k = 0 THEN x ELSE S(a[k - 1], k)
  BY Zenon, <1>5
<1>7. a[0] = x /\ \A k \in 1 .. n : a[k] = S(a[k - 1], k)
  <2>1. 0 \in 0 .. n /\ \A k \in 1 .. n : k \in 0 .. n /\ k # 0
    OBVIOUS
  <2> QED
    BY Zenon, <1>6, <2>1
<1> QED
  BY Zenon, <1>1, <1>7 DEF x, S, DeactivateRounds

ResetRounds(w, z, i, force, n, g) ==
    /\ g[0] = w
    /\ \A k \in 1 .. n : g[k] = ResetBinding(z, i, g[k - 1], n + 1 - k, force)
    /\ thd_trip_cdev_state_reset(w, z, i, force) = g[n]

\* The loop over the devices of a trip that is reset.
LEMMA ResetTripLoop ==
    ASSUME NEW w, NEW z, NEW i, NEW force, NEW n \in Nat, n = Len(w.trips[i].cdevs)
    PROVE  \E g : ResetRounds(w, z, i, force, n, g)
<1> DEFINE x       == w
           S(v, k) == ResetBinding(z, i, v, n + 1 - k, force)
           D(f, m) == [k \in 0 .. m |-> IF k = 0 THEN x ELSE S(f[k - 1], k)]
           T       == {m \in 0 .. n : \E f : f = D(f, m)}
           a       == CHOOSE f : f = D(f, n)
<1>1. thd_trip_cdev_state_reset(w, z, i, force) = a[n]
  BY Zenon DEF thd_trip_cdev_state_reset
<1> HIDE DEF x, S
<1>2. 0 \in T
  <2>1. \A k \in 0 .. 0 : k = 0
    OBVIOUS
  <2>2. [k \in 0 .. 0 |-> x] = D([k \in 0 .. 0 |-> x], 0)
    BY Zenon, <2>1
  <2>3. 0 \in 0 .. n
    OBVIOUS
  <2> HIDE DEF D
  <2> QED
    BY Zenon, <2>2, <2>3
<1>3. ASSUME NEW m \in 1 .. n, m - 1 \in T PROVE m \in T
  <2>1. PICK f : f = D(f, m - 1)
    BY Zenon, <1>3
  <2> DEFINE h == [k \in 0 .. m |-> IF k = m THEN S(f[m - 1], m) ELSE f[k]]
  <2>2. ASSUME NEW k \in 0 .. m PROVE h[k] = IF k = 0 THEN x ELSE S(h[k - 1], k)
    <3>1. m # 0 /\ (k # m => k \in 0 .. m - 1) /\ (k # 0 => k - 1 \in 0 .. m /\ k - 1 # m)
      OBVIOUS
    <3>2. k # m => f[k] = IF k = 0 THEN x ELSE S(f[k - 1], k)
      BY Zenon, <2>1, <3>1
    <3>3. (k # m => h[k] = f[k]) /\ (k # 0 => h[k - 1] = f[k - 1]) /\ (k = m => h[k] = S(f[m - 1], m))
      BY Zenon, <3>1
    <3> HIDE DEF h
    <3>4. CASE k = m
      BY Zenon, <3>1, <3>3, <3>4
    <3>5. CASE k # m
      <4>1. k = 0 \/ S(h[k - 1], k) = S(f[k - 1], k)
        BY Zenon, <3>3
      <4> QED
        BY Zenon, <3>2, <3>3, <3>5, <4>1
    <3> QED
      BY Zenon, <3>4, <3>5
  <2>3. h = D(h, m)
    <3>1. h = [k \in 0 .. m |-> h[k]]
      BY Zenon
    <3> HIDE DEF h
    <3> QED
      BY Zenon, <2>2, <3>1
  <2>4. m \in 0 .. n
    OBVIOUS
  <2> HIDE DEF h, D
  <2> QED
    BY Zenon, <2>3, <2>4
<1>4. n \in T
  <2> HIDE DEF T
  <2>1. \A k \in 0 .. n : k \in T
    BY Zenon, <1>2, <1>3, LoopInduction
  <2> QED
    BY <2>1
<1>5. a = D(a, n)
  BY Zenon, <1>4
<1> HIDE DEF a
<1>6. \A k \in 0 .. n : a[k] = IF k = 0 THEN x ELSE S(a[k - 1], k)
  BY Zenon, <1>5
<1>7. a[0] = x /\ \A k \in 1 .. n : a[k] = S(a[k - 1], k)
  <2>1. 0 \in 0 .. n /\ \A k \in 1 .. n : k \in 0 .. n /\ k # 0
    OBVIOUS
  <2> QED
    BY Zenon, <1>6, <2>1
<1> QED
  BY Zenon, <1>1, <1>7 DEF x, S, ResetRounds

ZoneResetRounds(w, z, force, n, g) ==
    /\ g[0] = w
    /\ \A k \in 1 .. n : g[k] = thd_trip_cdev_state_reset(g[k - 1], z, n + 1 - k, force)
    /\ zone_reset(w, z, force) = g[n]

\* The loop over the trips of a zone that is reset.
LEMMA ResetZoneLoop ==
    ASSUME NEW w, NEW z, NEW force, NEW n \in Nat, n = Len(w.trips)
    PROVE  \E g : ZoneResetRounds(w, z, force, n, g)
<1> DEFINE x       == w
           S(v, k) == thd_trip_cdev_state_reset(v, z, n + 1 - k, force)
           D(f, m) == [k \in 0 .. m |-> IF k = 0 THEN x ELSE S(f[k - 1], k)]
           T       == {m \in 0 .. n : \E f : f = D(f, m)}
           a       == CHOOSE f : f = D(f, n)
<1>1. zone_reset(w, z, force) = a[n]
  BY Zenon DEF zone_reset
<1> HIDE DEF x, S
<1>2. 0 \in T
  <2>1. \A k \in 0 .. 0 : k = 0
    OBVIOUS
  <2>2. [k \in 0 .. 0 |-> x] = D([k \in 0 .. 0 |-> x], 0)
    BY Zenon, <2>1
  <2>3. 0 \in 0 .. n
    OBVIOUS
  <2> HIDE DEF D
  <2> QED
    BY Zenon, <2>2, <2>3
<1>3. ASSUME NEW m \in 1 .. n, m - 1 \in T PROVE m \in T
  <2>1. PICK f : f = D(f, m - 1)
    BY Zenon, <1>3
  <2> DEFINE h == [k \in 0 .. m |-> IF k = m THEN S(f[m - 1], m) ELSE f[k]]
  <2>2. ASSUME NEW k \in 0 .. m PROVE h[k] = IF k = 0 THEN x ELSE S(h[k - 1], k)
    <3>1. m # 0 /\ (k # m => k \in 0 .. m - 1) /\ (k # 0 => k - 1 \in 0 .. m /\ k - 1 # m)
      OBVIOUS
    <3>2. k # m => f[k] = IF k = 0 THEN x ELSE S(f[k - 1], k)
      BY Zenon, <2>1, <3>1
    <3>3. (k # m => h[k] = f[k]) /\ (k # 0 => h[k - 1] = f[k - 1]) /\ (k = m => h[k] = S(f[m - 1], m))
      BY Zenon, <3>1
    <3> HIDE DEF h
    <3>4. CASE k = m
      BY Zenon, <3>1, <3>3, <3>4
    <3>5. CASE k # m
      <4>1. k = 0 \/ S(h[k - 1], k) = S(f[k - 1], k)
        BY Zenon, <3>3
      <4> QED
        BY Zenon, <3>2, <3>3, <3>5, <4>1
    <3> QED
      BY Zenon, <3>4, <3>5
  <2>3. h = D(h, m)
    <3>1. h = [k \in 0 .. m |-> h[k]]
      BY Zenon
    <3> HIDE DEF h
    <3> QED
      BY Zenon, <2>2, <3>1
  <2>4. m \in 0 .. n
    OBVIOUS
  <2> HIDE DEF h, D
  <2> QED
    BY Zenon, <2>3, <2>4
<1>4. n \in T
  <2> HIDE DEF T
  <2>1. \A k \in 0 .. n : k \in T
    BY Zenon, <1>2, <1>3, LoopInduction
  <2> QED
    BY <2>1
<1>5. a = D(a, n)
  BY Zenon, <1>4
<1> HIDE DEF a
<1>6. \A k \in 0 .. n : a[k] = IF k = 0 THEN x ELSE S(a[k - 1], k)
  BY Zenon, <1>5
<1>7. a[0] = x /\ \A k \in 1 .. n : a[k] = S(a[k - 1], k)
  <2>1. 0 \in 0 .. n /\ \A k \in 1 .. n : k \in 0 .. n /\ k # 0
    OBVIOUS
  <2> QED
    BY Zenon, <1>6, <2>1
<1> QED
  BY Zenon, <1>1, <1>7 DEF x, S, ZoneResetRounds

CheckRounds(w, z, id, t, pref, n, g) ==
    /\ g[0] = [w |-> w, stop |-> FALSE]
    /\ \A k \in 1 .. n : g[k] = CheckTrip(g[k - 1], z, k, id, t, pref)
    /\ thermal_zone_temp_change(w, z, id, t, pref) = g[n].w

\* The loop over the trips of a zone that is shown a temperature.
LEMMA CheckLoop ==
    ASSUME NEW w, NEW z, NEW id, NEW t, NEW pref, NEW n \in Nat, n = Len(w.trips)
    PROVE  \E g : CheckRounds(w, z, id, t, pref, n, g)
<1> DEFINE x       == [w |-> w, stop |-> FALSE]
           S(v, k) == CheckTrip(v, z, k, id, t, pref)
           D(f, m) == [k \in 0 .. m |-> IF k = 0 THEN x ELSE S(f[k - 1], k)]
           T       == {m \in 0 .. n : \E f : f = D(f, m)}
           a       == CHOOSE f : f = D(f, n)
<1>1. thermal_zone_temp_change(w, z, id, t, pref) = a[n].w
  BY Zenon DEF thermal_zone_temp_change
<1> HIDE DEF x, S
<1>2. 0 \in T
  <2>1. \A k \in 0 .. 0 : k = 0
    OBVIOUS
  <2>2. [k \in 0 .. 0 |-> x] = D([k \in 0 .. 0 |-> x], 0)
    BY Zenon, <2>1
  <2>3. 0 \in 0 .. n
    OBVIOUS
  <2> HIDE DEF D
  <2> QED
    BY Zenon, <2>2, <2>3
<1>3. ASSUME NEW m \in 1 .. n, m - 1 \in T PROVE m \in T
  <2>1. PICK f : f = D(f, m - 1)
    BY Zenon, <1>3
  <2> DEFINE h == [k \in 0 .. m |-> IF k = m THEN S(f[m - 1], m) ELSE f[k]]
  <2>2. ASSUME NEW k \in 0 .. m PROVE h[k] = IF k = 0 THEN x ELSE S(h[k - 1], k)
    <3>1. m # 0 /\ (k # m => k \in 0 .. m - 1) /\ (k # 0 => k - 1 \in 0 .. m /\ k - 1 # m)
      OBVIOUS
    <3>2. k # m => f[k] = IF k = 0 THEN x ELSE S(f[k - 1], k)
      BY Zenon, <2>1, <3>1
    <3>3. (k # m => h[k] = f[k]) /\ (k # 0 => h[k - 1] = f[k - 1]) /\ (k = m => h[k] = S(f[m - 1], m))
      BY Zenon, <3>1
    <3> HIDE DEF h
    <3>4. CASE k = m
      BY Zenon, <3>1, <3>3, <3>4
    <3>5. CASE k # m
      <4>1. k = 0 \/ S(h[k - 1], k) = S(f[k - 1], k)
        BY Zenon, <3>3
      <4> QED
        BY Zenon, <3>2, <3>3, <3>5, <4>1
    <3> QED
      BY Zenon, <3>4, <3>5
  <2>3. h = D(h, m)
    <3>1. h = [k \in 0 .. m |-> h[k]]
      BY Zenon
    <3> HIDE DEF h
    <3> QED
      BY Zenon, <2>2, <3>1
  <2>4. m \in 0 .. n
    OBVIOUS
  <2> HIDE DEF h, D
  <2> QED
    BY Zenon, <2>3, <2>4
<1>4. n \in T
  <2> HIDE DEF T
  <2>1. \A k \in 0 .. n : k \in T
    BY Zenon, <1>2, <1>3, LoopInduction
  <2> QED
    BY <2>1
<1>5. a = D(a, n)
  BY Zenon, <1>4
<1> HIDE DEF a
<1>6. \A k \in 0 .. n : a[k] = IF k = 0 THEN x ELSE S(a[k - 1], k)
  BY Zenon, <1>5
<1>7. a[0] = x /\ \A k \in 1 .. n : a[k] = S(a[k - 1], k)
  <2>1. 0 \in 0 .. n /\ \A k \in 1 .. n : k \in 0 .. n /\ k # 0
    OBVIOUS
  <2> QED
    BY Zenon, <1>6, <2>1
<1> QED
  BY Zenon, <1>1, <1>7 DEF x, S, CheckRounds

SensorRounds(w, z, sensors, shown, pref, n, g) ==
    /\ g[0] = w
    /\ \A k \in 1 .. n : g[k] = thermal_zone_temp_change(g[k - 1], z, sensors[k], shown[sensors[k]], pref)
    /\ ReadSensors(w, z, sensors, shown, pref) = g[n]

\* The loop over the sensors of a zone.
LEMMA SensorLoop ==
    ASSUME NEW w, NEW z, NEW sensors, NEW shown, NEW pref, NEW n \in Nat, n = Len(sensors)
    PROVE  \E g : SensorRounds(w, z, sensors, shown, pref, n, g)
<1> DEFINE x       == w
           S(v, k) == thermal_zone_temp_change(v, z, sensors[k], shown[sensors[k]], pref)
           D(f, m) == [k \in 0 .. m |-> IF k = 0 THEN x ELSE S(f[k - 1], k)]
           T       == {m \in 0 .. n : \E f : f = D(f, m)}
           a       == CHOOSE f : f = D(f, n)
<1>1. ReadSensors(w, z, sensors, shown, pref) = a[n]
  BY Zenon DEF ReadSensors
<1> HIDE DEF x, S
<1>2. 0 \in T
  <2>1. \A k \in 0 .. 0 : k = 0
    OBVIOUS
  <2>2. [k \in 0 .. 0 |-> x] = D([k \in 0 .. 0 |-> x], 0)
    BY Zenon, <2>1
  <2>3. 0 \in 0 .. n
    OBVIOUS
  <2> HIDE DEF D
  <2> QED
    BY Zenon, <2>2, <2>3
<1>3. ASSUME NEW m \in 1 .. n, m - 1 \in T PROVE m \in T
  <2>1. PICK f : f = D(f, m - 1)
    BY Zenon, <1>3
  <2> DEFINE h == [k \in 0 .. m |-> IF k = m THEN S(f[m - 1], m) ELSE f[k]]
  <2>2. ASSUME NEW k \in 0 .. m PROVE h[k] = IF k = 0 THEN x ELSE S(h[k - 1], k)
    <3>1. m # 0 /\ (k # m => k \in 0 .. m - 1) /\ (k # 0 => k - 1 \in 0 .. m /\ k - 1 # m)
      OBVIOUS
    <3>2. k # m => f[k] = IF k = 0 THEN x ELSE S(f[k - 1], k)
      BY Zenon, <2>1, <3>1
    <3>3. (k # m => h[k] = f[k]) /\ (k # 0 => h[k - 1] = f[k - 1]) /\ (k = m => h[k] = S(f[m - 1], m))
      BY Zenon, <3>1
    <3> HIDE DEF h
    <3>4. CASE k = m
      BY Zenon, <3>1, <3>3, <3>4
    <3>5. CASE k # m
      <4>1. k = 0 \/ S(h[k - 1], k) = S(f[k - 1], k)
        BY Zenon, <3>3
      <4> QED
        BY Zenon, <3>2, <3>3, <3>5, <4>1
    <3> QED
      BY Zenon, <3>4, <3>5
  <2>3. h = D(h, m)
    <3>1. h = [k \in 0 .. m |-> h[k]]
      BY Zenon
    <3> HIDE DEF h
    <3> QED
      BY Zenon, <2>2, <3>1
  <2>4. m \in 0 .. n
    OBVIOUS
  <2> HIDE DEF h, D
  <2> QED
    BY Zenon, <2>3, <2>4
<1>4. n \in T
  <2> HIDE DEF T
  <2>1. \A k \in 0 .. n : k \in T
    BY Zenon, <1>2, <1>3, LoopInduction
  <2> QED
    BY <2>1
<1>5. a = D(a, n)
  BY Zenon, <1>4
<1> HIDE DEF a
<1>6. \A k \in 0 .. n : a[k] = IF k = 0 THEN x ELSE S(a[k - 1], k)
  BY Zenon, <1>5
<1>7. a[0] = x /\ \A k \in 1 .. n : a[k] = S(a[k - 1], k)
  <2>1. 0 \in 0 .. n /\ \A k \in 1 .. n : k \in 0 .. n /\ k # 0
    OBVIOUS
  <2> QED
    BY Zenon, <1>6, <2>1
<1> QED
  BY Zenon, <1>1, <1>7 DEF x, S, SensorRounds

NotifyRounds(devices, zone_trips, n, g) ==
    /\ g[0] = [cdevs |-> devices, trips |-> zone_trips, power |-> power]
    /\ \A k \in 1 .. n : g[k] = NotifyZone(g[k - 1], k)
    /\ NotifyZones(devices, zone_trips) = g[n]

\* The loop over the zones that are read.
LEMMA NotifyLoop ==
    ASSUME NEW devices, NEW zone_trips, NEW n \in Nat, n = Len(Zones)
    PROVE  \E g : NotifyRounds(devices, zone_trips, n, g)
<1> DEFINE x       == [cdevs |-> devices, trips |-> zone_trips, power |-> power]
           S(v, k) == NotifyZone(v, k)
           D(f, m) == [k \in 0 .. m |-> IF k = 0 THEN x ELSE S(f[k - 1], k)]
           T       == {m \in 0 .. n : \E f : f = D(f, m)}
           a       == CHOOSE f : f = D(f, n)
<1>1. NotifyZones(devices, zone_trips) = a[n]
  BY Zenon DEF NotifyZones
<1> HIDE DEF x, S
<1>2. 0 \in T
  <2>1. \A k \in 0 .. 0 : k = 0
    OBVIOUS
  <2>2. [k \in 0 .. 0 |-> x] = D([k \in 0 .. 0 |-> x], 0)
    BY Zenon, <2>1
  <2>3. 0 \in 0 .. n
    OBVIOUS
  <2> HIDE DEF D
  <2> QED
    BY Zenon, <2>2, <2>3
<1>3. ASSUME NEW m \in 1 .. n, m - 1 \in T PROVE m \in T
  <2>1. PICK f : f = D(f, m - 1)
    BY Zenon, <1>3
  <2> DEFINE h == [k \in 0 .. m |-> IF k = m THEN S(f[m - 1], m) ELSE f[k]]
  <2>2. ASSUME NEW k \in 0 .. m PROVE h[k] = IF k = 0 THEN x ELSE S(h[k - 1], k)
    <3>1. m # 0 /\ (k # m => k \in 0 .. m - 1) /\ (k # 0 => k - 1 \in 0 .. m /\ k - 1 # m)
      OBVIOUS
    <3>2. k # m => f[k] = IF k = 0 THEN x ELSE S(f[k - 1], k)
      BY Zenon, <2>1, <3>1
    <3>3. (k # m => h[k] = f[k]) /\ (k # 0 => h[k - 1] = f[k - 1]) /\ (k = m => h[k] = S(f[m - 1], m))
      BY Zenon, <3>1
    <3> HIDE DEF h
    <3>4. CASE k = m
      BY Zenon, <3>1, <3>3, <3>4
    <3>5. CASE k # m
      <4>1. k = 0 \/ S(h[k - 1], k) = S(f[k - 1], k)
        BY Zenon, <3>3
      <4> QED
        BY Zenon, <3>2, <3>3, <3>5, <4>1
    <3> QED
      BY Zenon, <3>4, <3>5
  <2>3. h = D(h, m)
    <3>1. h = [k \in 0 .. m |-> h[k]]
      BY Zenon
    <3> HIDE DEF h
    <3> QED
      BY Zenon, <2>2, <3>1
  <2>4. m \in 0 .. n
    OBVIOUS
  <2> HIDE DEF h, D
  <2> QED
    BY Zenon, <2>3, <2>4
<1>4. n \in T
  <2> HIDE DEF T
  <2>1. \A k \in 0 .. n : k \in T
    BY Zenon, <1>2, <1>3, LoopInduction
  <2> QED
    BY <2>1
<1>5. a = D(a, n)
  BY Zenon, <1>4
<1> HIDE DEF a
<1>6. \A k \in 0 .. n : a[k] = IF k = 0 THEN x ELSE S(a[k - 1], k)
  BY Zenon, <1>5
<1>7. a[0] = x /\ \A k \in 1 .. n : a[k] = S(a[k - 1], k)
  <2>1. 0 \in 0 .. n /\ \A k \in 1 .. n : k \in 0 .. n /\ k # 0
    OBVIOUS
  <2> QED
    BY Zenon, <1>6, <2>1
<1> QED
  BY Zenon, <1>1, <1>7 DEF x, S, NotifyRounds

PreferRounds(pref, n, g) ==
    /\ g[0] = [cdevs |-> cdevs, trips |-> trips, power |-> power]
    /\ \A k \in 1 .. n : g[k] = PreferZone(g[k - 1], k, pref)
    /\ PreferZones(pref) = g[n]

\* The loop over the zones that get a new preference.
LEMMA PreferLoop ==
    ASSUME NEW pref, NEW n \in Nat, n = Len(Zones)
    PROVE  \E g : PreferRounds(pref, n, g)
<1> DEFINE x       == [cdevs |-> cdevs, trips |-> trips, power |-> power]
           S(v, k) == PreferZone(v, k, pref)
           D(f, m) == [k \in 0 .. m |-> IF k = 0 THEN x ELSE S(f[k - 1], k)]
           T       == {m \in 0 .. n : \E f : f = D(f, m)}
           a       == CHOOSE f : f = D(f, n)
<1>1. PreferZones(pref) = a[n]
  BY Zenon DEF PreferZones
<1> HIDE DEF x, S
<1>2. 0 \in T
  <2>1. \A k \in 0 .. 0 : k = 0
    OBVIOUS
  <2>2. [k \in 0 .. 0 |-> x] = D([k \in 0 .. 0 |-> x], 0)
    BY Zenon, <2>1
  <2>3. 0 \in 0 .. n
    OBVIOUS
  <2> HIDE DEF D
  <2> QED
    BY Zenon, <2>2, <2>3
<1>3. ASSUME NEW m \in 1 .. n, m - 1 \in T PROVE m \in T
  <2>1. PICK f : f = D(f, m - 1)
    BY Zenon, <1>3
  <2> DEFINE h == [k \in 0 .. m |-> IF k = m THEN S(f[m - 1], m) ELSE f[k]]
  <2>2. ASSUME NEW k \in 0 .. m PROVE h[k] = IF k = 0 THEN x ELSE S(h[k - 1], k)
    <3>1. m # 0 /\ (k # m => k \in 0 .. m - 1) /\ (k # 0 => k - 1 \in 0 .. m /\ k - 1 # m)
      OBVIOUS
    <3>2. k # m => f[k] = IF k = 0 THEN x ELSE S(f[k - 1], k)
      BY Zenon, <2>1, <3>1
    <3>3. (k # m => h[k] = f[k]) /\ (k # 0 => h[k - 1] = f[k - 1]) /\ (k = m => h[k] = S(f[m - 1], m))
      BY Zenon, <3>1
    <3> HIDE DEF h
    <3>4. CASE k = m
      BY Zenon, <3>1, <3>3, <3>4
    <3>5. CASE k # m
      <4>1. k = 0 \/ S(h[k - 1], k) = S(f[k - 1], k)
        BY Zenon, <3>3
      <4> QED
        BY Zenon, <3>2, <3>3, <3>5, <4>1
    <3> QED
      BY Zenon, <3>4, <3>5
  <2>3. h = D(h, m)
    <3>1. h = [k \in 0 .. m |-> h[k]]
      BY Zenon
    <3> HIDE DEF h
    <3> QED
      BY Zenon, <2>2, <3>1
  <2>4. m \in 0 .. n
    OBVIOUS
  <2> HIDE DEF h, D
  <2> QED
    BY Zenon, <2>3, <2>4
<1>4. n \in T
  <2> HIDE DEF T
  <2>1. \A k \in 0 .. n : k \in T
    BY Zenon, <1>2, <1>3, LoopInduction
  <2> QED
    BY <2>1
<1>5. a = D(a, n)
  BY Zenon, <1>4
<1> HIDE DEF a
<1>6. \A k \in 0 .. n : a[k] = IF k = 0 THEN x ELSE S(a[k - 1], k)
  BY Zenon, <1>5
<1>7. a[0] = x /\ \A k \in 1 .. n : a[k] = S(a[k - 1], k)
  <2>1. 0 \in 0 .. n /\ \A k \in 1 .. n : k \in 0 .. n /\ k # 0
    OBVIOUS
  <2> QED
    BY Zenon, <1>6, <2>1
<1> QED
  BY Zenon, <1>1, <1>7 DEF x, S, PreferRounds


-----------------------------------------------------------------------------
(* One device. A device object is a record; what a trip does to it leaves  *)
(* the list of holds alone, except for the trip's own entry.               *)

CdevFields == {"curr_state", "hw", "curr_pow", "base_pow_state", "trend_increase",
               "last_state", "since", "zone_trip_limits"}

IsCdev(c) == c = [f \in CdevFields |-> c[f]]

\* Still a device object, with the same holds.
SameHolds(a, c) == IsCdev(a) /\ a.zone_trip_limits = c.zone_trip_limits

\* At most trip x of zone z holds the device.
OwnEntries(c, z, x) ==
    \/ c.zone_trip_limits = << >>
    \/ \E e : c.zone_trip_limits = <<e>> /\ e.zone = z /\ e.trip = x

\* Steps that keep the holds add up.
LEMMA SameHoldsTwice ==
    ASSUME NEW a, NEW b, NEW c, SameHolds(a, b), SameHolds(b, c)
    PROVE  SameHolds(a, c)
  BY Zenon DEF SameHolds

\* Writing the state of a device keeps its holds.
LEMMA SetKeepsHolds ==
    ASSUME NEW d, NEW c, IsCdev(c), NEW s
    PROVE  /\ SameHolds(set_curr_state(d, c, s), c)
           /\ SameHolds(set_curr_state_raw(d, c, s), c)
<1>1. ASSUME NEW v PROVE SameHolds(set_curr_state(d, c, v), c)
  <2>1. PICK y : set_curr_state(d, c, v) = [c EXCEPT !.curr_state = y, !.hw = y]
    BY Zenon DEF set_curr_state
  <2> QED
    BY Zenon, <2>1 DEF IsCdev, SameHolds, CdevFields
<1>2. PICK y : set_curr_state_raw(d, c, s) = set_curr_state(d, c, y)
  BY Zenon DEF set_curr_state_raw
<1> QED
  BY Zenon, <1>1, <1>2

\* So do the exponential controller and the bookkeeping before it.
LEMMA ControllerKeepsHolds ==
    ASSUME NEW d, NEW c, IsCdev(c), NEW s, NEW lo, NEW hi
    PROVE  /\ SameHolds(Acting(d, c, s), c)
           /\ SameHolds(ExponentialUp(d, c, lo, hi), c)
           /\ SameHolds(ExponentialDown(d, c), c)
<1>1. SameHolds(Acting(d, c, s), c)
  <2> DEFINE now == [c EXCEPT !.since = 0, !.last_state = s, !.curr_state = get_curr_state(d, c)]
  <2>1. \/ Acting(d, c, s) = now
        \/ Acting(d, c, s) = [now EXCEPT !.curr_pow = 0, !.trend_increase = FALSE]
    BY Zenon DEF Acting
  <2>2. SameHolds(now, c)
    BY Zenon DEF IsCdev, SameHolds, CdevFields
  <2> HIDE DEF now
  <2> DEFINE begun == [now EXCEPT !.curr_pow = 0, !.trend_increase = FALSE]
  <2>3. SameHolds(begun, now)
    BY Zenon, <2>2 DEF IsCdev, SameHolds, CdevFields
  <2>4. Acting(d, c, s) = now \/ Acting(d, c, s) = begun
    BY Zenon, <2>1
  <2> HIDE DEF begun
  <2>5. SameHolds(begun, c)
    BY Zenon, <2>2, <2>3, SameHoldsTwice
  <2> QED
    BY Zenon, <2>2, <2>4, <2>5
<1>2. SameHolds(ExponentialUp(d, c, lo, hi), c)
  <2>1. PICK p, b, y : ExponentialUp(d, c, lo, hi) =
                          set_curr_state(d, [c EXCEPT !.curr_pow = p, !.base_pow_state = b,
                                                      !.trend_increase = TRUE], y)
    BY Zenon DEF ExponentialUp
  <2> DEFINE x == [c EXCEPT !.curr_pow = p, !.base_pow_state = b, !.trend_increase = TRUE]
  <2>2. SameHolds(x, c)
    BY Zenon DEF IsCdev, SameHolds, CdevFields
  <2>3. ExponentialUp(d, c, lo, hi) = set_curr_state(d, x, y)
    BY Zenon, <2>1
  <2> HIDE DEF x
  <2>4. IsCdev(x)
    BY Zenon, <2>2 DEF SameHolds
  <2>5. SameHolds(set_curr_state(d, x, y), x)
    BY Zenon, <2>4, SetKeepsHolds
  <2> QED
    BY Zenon, <2>2, <2>3, <2>5, SameHoldsTwice
<1>3. SameHolds(ExponentialDown(d, c), c)
  <2>1. PICK y : ExponentialDown(d, c) =
                    set_curr_state(d, [c EXCEPT !.curr_pow = 0, !.trend_increase = FALSE], y)
    BY Zenon DEF ExponentialDown
  <2> DEFINE x == [c EXCEPT !.curr_pow = 0, !.trend_increase = FALSE]
  <2>2. SameHolds(x, c)
    BY Zenon DEF IsCdev, SameHolds, CdevFields
  <2>3. ExponentialDown(d, c) = set_curr_state(d, x, y)
    BY Zenon, <2>1
  <2> HIDE DEF x
  <2>4. IsCdev(x)
    BY Zenon, <2>2 DEF SameHolds
  <2>5. SameHolds(set_curr_state(d, x, y), x)
    BY Zenon, <2>4, SetKeepsHolds
  <2> QED
    BY Zenon, <2>2, <2>3, <2>5, SameHoldsTwice
<1> QED
  BY <1>1, <1>2, <1>3

\* And so does everything thd_cdev_set_state does after the list is updated.
LEMMA ApplyKeepsHolds ==
    ASSUME NEW d, NEW c, IsCdev(c), NEW r, NEW s, NEW valid, NEW target, NEW lo, NEW hi, NEW out
    PROVE  SameHolds(ApplyState(d, c, r, s, valid, target, lo, hi, out), c)
<1> DEFINE c1 == Acting(d, c, s)
           a  == ApplyState(d, c, r, s, valid, target, lo, hi, out)
<1>1. SameHolds(c1, c)
  BY Zenon, ControllerKeepsHolds
<1>2. \/ \E y : a = [set_curr_state_raw(d, c1, target) EXCEPT !.curr_state = y]
      \/ \E y : a = set_curr_state_raw(d, c1, y)
      \/ a = ExponentialUp(d, c1, lo, hi)
      \/ a = ExponentialDown(d, c1)
  BY Zenon DEF ApplyState
<1> HIDE DEF a, c1
<1>3. IsCdev(c1)
  BY Zenon, <1>1 DEF SameHolds
<1>4. ASSUME NEW y, a = [set_curr_state_raw(d, c1, target) EXCEPT !.curr_state = y]
      PROVE  SameHolds(a, c1)
  <2> DEFINE b == set_curr_state_raw(d, c1, target)
  <2>1. SameHolds(b, c1)
    BY Zenon, <1>3, SetKeepsHolds
  <2>2. a = [b EXCEPT !.curr_state = y]
    BY Zenon, <1>4
  <2> HIDE DEF b
  <2>3. SameHolds(a, b)
    BY <2>1, <2>2 DEF IsCdev, SameHolds, CdevFields
  <2> QED
    BY Zenon, <2>1, <2>3, SameHoldsTwice
<1>5. ASSUME NEW y, a = set_curr_state_raw(d, c1, y)
      PROVE  SameHolds(a, c1)
  BY Zenon, <1>3, <1>5, SetKeepsHolds
<1>6. ASSUME a = ExponentialUp(d, c1, lo, hi) \/ a = ExponentialDown(d, c1)
      PROVE  SameHolds(a, c1)
  BY Zenon, <1>3, <1>6, ControllerKeepsHolds
<1>7. SameHolds(a, c1)
  BY Zenon, <1>2, <1>4, <1>5, <1>6
<1> QED
  BY Zenon, <1>1, <1>7, SameHoldsTwice DEF a

\* Sorting a list of one entry does nothing.
LEMMA SortOne ==
    ASSUME NEW e, NEW key
    PROVE  SortByKey(<<e>>, key) = <<e>>
<1> DEFINE s == <<e>>
           P(i) == {j \in DOMAIN s : key[j] < key[i] \/ (key[j] = key[i] /\ j <= i)}
           q(k) == CHOOSE i \in DOMAIN s : Cardinality(P(i)) = k
<1>1. DOMAIN s = {1} /\ s[1] = e /\ Len(s) = 1
  OBVIOUS
<1>2. Cardinality(P(1)) = 1
  <2>1. P(1) = {1}
    BY <1>1
  <2> QED
    BY <2>1, OneElement
<1>3. q(1) = 1
  BY Zenon, <1>1, <1>2
<1>4. SortByKey(s, key) = [k \in DOMAIN s |-> s[q(k)]]
  BY Zenon DEF SortByKey
<1> HIDE DEF q
<1>5. SortByKey(s, key) = [k \in {1} |-> e]
  BY Zenon, <1>1, <1>3, <1>4
<1>6. <<e>> = [k \in {1} |-> e]
  OBVIOUS
<1> QED
  BY <1>5, <1>6 DEF s

\* The first trip to hold a device has the list to itself.
LEMMA FirstHold ==
    ASSUME NEW d, NEW r
    PROVE  AddLimit(d, << >>, r) = <<LimitOf(d, r)>>
<1> DEFINE one == <<LimitOf(d, r)>>
<1>1. Append(<< >>, LimitOf(d, r)) = one
  BY DEF LimitOf
<1> HIDE DEF one
<1>2. SortByTarget(d, one) = one /\ SortByLimits(d, one) = one
  BY Zenon, SortOne DEF SortByTarget, SortByLimits, one
<1> QED
  BY Zenon, <1>1, <1>2 DEF AddLimit, one

\* Activating a device adds at most an entry of the caller.
LEMMA ActivateKeepsOwn ==
    ASSUME NEW d, NEW c, IsCdev(c), NEW r, NEW out
    PROVE  LET a == ActivateState(d, c, r, out)
           IN  IsCdev(a) /\ (OwnEntries(c, r.zone, r.trip) => OwnEntries(a, r.zone, r.trip))
<1> DEFINE L  == c.zone_trip_limits
           ls == IF Holds(c, r) THEN L ELSE AddLimit(d, L, r)
           c1 == [c EXCEPT !.zone_trip_limits = ls]
           a  == ActivateState(d, c, r, out)
<1>1. a = c1 \/ \E v, t, lo, hi : a = ApplyState(d, c1, r, 1, v, t, lo, hi, out)
  BY Zenon DEF ActivateState
<1>2. IsCdev(c1) /\ c1.zone_trip_limits = ls
  <2> HIDE DEF ls
  <2> QED
    BY Zenon DEF IsCdev, CdevFields
<1> HIDE DEF c1, a
<1>3. SameHolds(a, c1)
  <2>1. SameHolds(c1, c1)
    BY Zenon, <1>2 DEF SameHolds
  <2> QED
    BY Zenon, <1>1, <1>2, <2>1, ApplyKeepsHolds
<1>4. IsCdev(a) /\ a.zone_trip_limits = ls
  BY Zenon, <1>2, <1>3 DEF SameHolds
<1>5. ASSUME OwnEntries(c, r.zone, r.trip) PROVE OwnEntries(a, r.zone, r.trip)
  <2>1. CASE L = << >>
    <3>1. ~Holds(c, r)
      <4>1. DOMAIN << >> = {}
        OBVIOUS
      <4> QED
        BY Zenon, <2>1, <4>1 DEF Holds
    <3>2. ls = <<LimitOf(d, r)>>
      BY Zenon, <2>1, <3>1, FirstHold
    <3>3. LimitOf(d, r).zone = r.zone /\ LimitOf(d, r).trip = r.trip
      BY DEF LimitOf
    <3> HIDE DEF ls
    <3> QED
      BY Zenon, <1>4, <3>2, <3>3 DEF OwnEntries
  <2>2. ASSUME NEW e, L = <<e>>, e.zone = r.zone, e.trip = r.trip PROVE OwnEntries(a, r.zone, r.trip)
    <3>1. 1 \in DOMAIN L /\ L[1] = e
      BY <2>2
    <3>2. Holds(c, r)
      BY Zenon, <2>2, <3>1 DEF Holds, HeldBy
    <3> QED
      BY Zenon, <1>4, <2>2, <3>2 DEF OwnEntries
  <2> QED
    BY Zenon, <1>5, <2>1, <2>2 DEF OwnEntries
<1> QED
  BY Zenon, <1>4, <1>5 DEF a

\* Deactivating a device takes at most an entry of the caller away.
LEMMA DeactivateKeepsOwn ==
    ASSUME NEW d, NEW c, IsCdev(c), NEW r, NEW out
    PROVE  LET a == DeactivateState(d, c, r, out)
           IN  IsCdev(a) /\ (OwnEntries(c, r.zone, r.trip) => OwnEntries(a, r.zone, r.trip))
<1> DEFINE L    == c.zone_trip_limits
           rest == SubSeq(L, 1, Len(L) - 1)
           c1   == [c EXCEPT !.zone_trip_limits = rest]
           a    == DeactivateState(d, c, r, out)
<1>1. \/ a = c
      \/ \E v, t : a = ApplyState(d, c, r, 0, v, t, 0, 0, out)
      \/ L # << >> /\ \E v, t : a = ApplyState(d, c1, r, 0, v, t, 0, 0, out)
  BY Zenon DEF DeactivateState, ReleaseLimit
<1>2. IsCdev(c1) /\ c1.zone_trip_limits = rest
  <2> HIDE DEF rest
  <2> QED
    BY Zenon DEF IsCdev, CdevFields
<1>3. SameHolds(c, c)
  BY Zenon DEF SameHolds
<1> HIDE DEF c1, a
<1>4. SameHolds(a, c) \/ (L # << >> /\ SameHolds(a, c1))
  BY Zenon, <1>1, <1>2, <1>3, ApplyKeepsHolds
<1>5. IsCdev(a) /\ (a.zone_trip_limits = L \/ (L # << >> /\ a.zone_trip_limits = rest))
  BY Zenon, <1>2, <1>4 DEF SameHolds
<1>6. ASSUME OwnEntries(c, r.zone, r.trip) PROVE OwnEntries(a, r.zone, r.trip)
  <2>1. L = << >> => OwnEntries(a, r.zone, r.trip)
    BY Zenon, <1>5 DEF OwnEntries
  <2>2. ASSUME NEW e, L = <<e>>, e.zone = r.zone, e.trip = r.trip PROVE OwnEntries(a, r.zone, r.trip)
    <3>1. rest = << >>
      BY <2>2
    <3> HIDE DEF rest
    <3> QED
      BY Zenon, <1>5, <2>2, <3>1 DEF OwnEntries
  <2> QED
    BY Zenon, <1>6, <2>1, <2>2 DEF OwnEntries
<1> QED
  BY Zenon, <1>5, <1>6 DEF a

\* Writing the minimum leaves a device idle, whichever way it is written.
LEMMA MinimumIsIdle ==
    ASSUME NEW n \in DOMAIN Devices, Devices[n].min_state # Devices[n].max_state,
           NEW c, IsCdev(c), NEW d, d = Devices[n]
    PROVE  in_min_state(d, [set_curr_state_raw(d, c, d.min_state) EXCEPT !.curr_state = d.min_state])
<1> DEFINE m == d.min_state
           b == set_curr_state_raw(d, c, m)
           a == [b EXCEPT !.curr_state = m]
<1>1. m \in Int /\ d.max_state \in Int /\ m # d.max_state /\ d.raw \in {"base", "write", "limit"}
  BY DeviceAssumption
<1>2. RawClamp(d, m) = m /\ LimitClamp(d, m) = m
  BY <1>1 DEF RawClamp, LimitClamp
<1>3. b = [c EXCEPT !.curr_state = m, !.hw = m]
  BY Zenon, <1>2 DEF set_curr_state_raw, set_curr_state
<1>4. b.hw = m /\ IsCdev(b)
  BY Zenon, <1>3 DEF IsCdev, CdevFields
<1> HIDE DEF b
<1>5. a.hw = m /\ a.curr_state = m
  BY Zenon, <1>4 DEF IsCdev, CdevFields
<1> HIDE DEF a
<1>6. get_curr_state(d, a) = m
  BY Zenon, <1>5 DEF get_curr_state
<1>7. in_min_state(d, a)
  BY <1>1, <1>6 DEF in_min_state
<1> QED
  BY <1>7 DEF a, b

\* The request of a trip names the trip.
LEMMA RequestNamesCaller ==
    ASSUME NEW z, NEW t, NEW b
    PROVE  RequestFor(z, t, b).zone = z /\ RequestFor(z, t, b).trip = t.index
  BY Zenon DEF RequestFor

\* And so does the request with which it lets go.
LEMMA ReleaseNamesCaller ==
    ASSUME NEW z, NEW t, NEW b, NEW d, NEW q, q = MinStateRequest(d, RequestFor(z, t, b))
    PROVE  q.zone = z /\ q.trip = t.index /\ q.force = TRUE /\ q.target_state_valid = TRUE
<1> DEFINE r == RequestFor(z, t, b)
<1>1. {"zone", "trip", "target_state_valid", "force"} \subseteq DOMAIN r
  <2>1. PICK u1, u2, u3, u4, u5, u6 :
           r = [zone |-> z, trip |-> t.index, hard_target |-> u1, target_state_valid |-> u2,
                target_value |-> u3, pid |-> FALSE, min_max_valid |-> u4,
                min_state |-> u5, max_state |-> u6, force |-> FALSE]
    BY Zenon DEF RequestFor
  <2> HIDE DEF r
  <2> QED
    BY Zenon, <2>1
<1>2. r.zone = z /\ r.trip = t.index
  BY Zenon DEF RequestFor
<1> HIDE DEF r
<1>3. q = [r EXCEPT !.hard_target = FALSE, !.target_state_valid = TRUE,
                    !.target_value = d.min_state, !.pid = FALSE, !.force = TRUE,
                    !.min_max_valid = FALSE, !.min_state = 0, !.max_state = 0]
  BY Zenon DEF MinStateRequest, r
<1> QED
  BY Zenon, <1>1, <1>2, <1>3

\* A reset by the only trip that can hold the device leaves it idle.
LEMMA ResetReleases ==
    ASSUME NEW n \in DOMAIN Devices, NEW c, IsCdev(c), NEW z, NEW t, NEW b
    PROVE  LET d == Devices[n]
               a == thd_cdev_set_min_state(d, c, RequestFor(z, t, b))
           IN  /\ IsCdev(a)
               /\ OwnEntries(c, z, t.index) => OwnEntries(a, z, t.index)
               /\ OwnEntries(c, z, t.index) /\ d.min_state # d.max_state => in_min_state(d, a)
<1> DEFINE d  == Devices[n]
           q  == MinStateRequest(d, RequestFor(z, t, b))
           c0 == [c EXCEPT !.trend_increase = FALSE]
           L  == c0.zone_trip_limits
           a  == DeactivateState(d, c0, q, d.min_state)
<1>1. thd_cdev_set_min_state(d, c, RequestFor(z, t, b)) = a
  BY Zenon DEF thd_cdev_set_min_state
<1>2. q.zone = z /\ q.trip = t.index /\ q.force = TRUE /\ q.target_state_valid = TRUE
  BY Zenon, ReleaseNamesCaller
<1>3. SameHolds(c0, c)
  BY Zenon DEF SameHolds, IsCdev, CdevFields
<1> HIDE DEF q, c0
<1>4. IsCdev(c0) /\ (OwnEntries(c, z, t.index) => OwnEntries(c0, z, t.index))
  BY Zenon, <1>3 DEF SameHolds, OwnEntries
<1>5. IsCdev(a) /\ (OwnEntries(c0, z, t.index) => OwnEntries(a, z, t.index))
  <2>1. IsCdev(a) /\ (OwnEntries(c0, q.zone, q.trip) => OwnEntries(a, q.zone, q.trip))
    BY Zenon, <1>4, DeactivateKeepsOwn
  <2> HIDE DEF a
  <2> QED
    BY Zenon, <1>2, <2>1
<1>6. ASSUME OwnEntries(c0, z, t.index), d.min_state # d.max_state PROVE in_min_state(d, a)
  <2>1. ASSUME NEW x, IsCdev(x), a = ApplyState(d, x, q, 0, TRUE, d.min_state, 0, 0, d.min_state)
        PROVE  in_min_state(d, a)
    <3> DEFINE y == Acting(d, x, 0)
    <3>1. IsCdev(y)
      BY Zenon, <2>1, ControllerKeepsHolds DEF SameHolds
    <3>2. a = [set_curr_state_raw(d, y, d.min_state) EXCEPT !.curr_state = d.min_state]
      BY Zenon, <2>1 DEF ApplyState
    <3> HIDE DEF y, a, d
    <3> QED
      BY Zenon, <1>6, <3>1, <3>2, MinimumIsIdle DEF d
  <2>2. CASE L = << >>
    <3>1. in_min_state(d, c0) => a = c0
      BY Zenon, <2>2 DEF DeactivateState
    <3>2. ~in_min_state(d, c0) => a = ApplyState(d, c0, q, 0, TRUE, d.min_state, 0, 0, d.min_state)
      BY Zenon, <1>2, <2>2 DEF DeactivateState
    <3> HIDE DEF a, d
    <3> QED
      BY Zenon, <1>4, <2>1, <3>1, <3>2
  <2>3. ASSUME NEW e, L = <<e>>, e.zone = z, e.trip = t.index PROVE in_min_state(d, a)
    <3> DEFINE rest == SubSeq(L, 1, Len(L) - 1)
               c1   == [c0 EXCEPT !.zone_trip_limits = rest]
    <3>1. L # << >> /\ LastLimit(L) = e /\ rest = << >>
      BY <2>3 DEF LastLimit
    <3>2. HeldBy(LastLimit(L), q)
      BY Zenon, <1>2, <2>3, <3>1 DEF HeldBy
    <3>3. AfterRelease(d, q, LastLimit(L), rest).target = d.min_state
      BY <1>2, <3>1 DEF AfterRelease
    <3>4. AfterRelease(d, q, LastLimit(L), rest).valid = TRUE
      BY Zenon, <1>2, <3>1 DEF AfterRelease
    <3>5. a = ApplyState(d, c1, q, 0, TRUE, d.min_state, 0, 0, d.min_state)
      <4>1. a = ReleaseLimit(d, c0, q, d.min_state)
        BY Zenon, <3>1 DEF DeactivateState
      <4> QED
        BY Zenon, <3>2, <3>3, <3>4, <4>1 DEF ReleaseLimit
    <3>6. IsCdev(c1)
      <4> HIDE DEF rest
      <4> QED
        BY Zenon, <1>4 DEF IsCdev, CdevFields
    <3> HIDE DEF c1, a, d
    <3> QED
      BY Zenon, <2>1, <3>5, <3>6
  <2> HIDE DEF a, d
  <2> QED
    BY Zenon, <1>6, <2>2, <2>3 DEF OwnEntries
<1> HIDE DEF a
<1> QED
  BY Zenon, <1>1, <1>4, <1>5, <1>6

-----------------------------------------------------------------------------
(* One zone. The trips of a zone keep the shape they were loaded with, and *)
(* a device that only one trip uses is held by no other trip.              *)

NumTrips(z) == Len(BootTrips(z))

NumBindings(z, i) == Len(BootTrips(z)[i].cdevs)

\* The device of binding k of trip i of zone z.
Name(z, i, k) == BootTrips(z)[i].cdevs[k].cdev

Uses(z, i, n) == \E k \in 1 .. NumBindings(z, i) : Name(z, i, k) = n

\* No trip but trip i of zone z uses device n.
Sole(z, i, n) ==
    \A y \in DOMAIN Zones : \A j \in 1 .. NumTrips(y) : Uses(y, j, n) => y = z /\ j = i

\* Trip t is trip x of the configuration; only set_trip moves a trip.
Like(t, x) ==
    /\ t \in TripType
    /\ t.index = x.index /\ t.type = x.type /\ t.sensor = x.sensor
    /\ t.control_type = x.control_type /\ t.depend = x.depend
    /\ t.temp = x.temp \/ (x.type = "PASSIVE" /\ t.temp \in NewTemps)
    /\ Len(t.cdevs) = Len(x.cdevs)
    /\ \A k \in 1 .. Len(x.cdevs) : t.cdevs[k].cdev = x.cdevs[k].cdev

Shape(ts, z) ==
    /\ ts \in Seq(TripType)
    /\ Len(ts) = NumTrips(z)
    /\ \A i \in 1 .. NumTrips(z) : Like(ts[i], BootTrips(z)[i])

IsCdevs(cd) ==
    /\ cd = [n \in DOMAIN Devices |-> cd[n]]
    /\ \A n \in DOMAIN Devices : IsCdev(cd[n])

Owned(cd) ==
    \A z \in DOMAIN Zones : \A i \in 1 .. NumTrips(z) : \A n \in DOMAIN Devices :
        Uses(z, i, n) /\ Sole(z, i, n) => OwnEntries(cd[n], z, BootTrips(z)[i].index)

WorldFields == {"cdevs", "trips", "threshold", "sent", "power"}

IsWorld(w) == w = [f \in WorldFields |-> w[f]]

Base(w, z) == IsWorld(w) /\ Shape(w.trips, z) /\ IsCdevs(w.cdevs) /\ Owned(w.cdevs)

\* Polling switches, counters and power are as before.
SameFlags(w, v) ==
    /\ v.power = w.power
    /\ \A j \in 1 .. Len(w.trips) :
         /\ v.trips[j].poll_on = w.trips[j].poll_on
         /\ v.trips[j].crit_trip_count = w.trips[j].crit_trip_count

\* Only device n may have changed.
OnlyCdev(w, v, n) == \A m \in DOMAIN Devices \ {n} : v.cdevs[m] = w.cdevs[m]

\* What the provers need to know of a trip of the right shape.
LEMMA ShapeFacts ==
    ASSUME NEW z, NEW ts, Shape(ts, z), NEW i \in 1 .. NumTrips(z)
    PROVE  /\ ts \in Seq(TripType) /\ Len(ts) \in Nat /\ Len(ts) = NumTrips(z)
           /\ i \in DOMAIN ts /\ i \in 1 .. Len(ts)
           /\ ts[i] \in TripType /\ Like(ts[i], BootTrips(z)[i])
           /\ ts[i].cdevs \in Seq(BindingType) /\ Len(ts[i].cdevs) = NumBindings(z, i)
           /\ NumBindings(z, i) \in Nat
           /\ \A k \in 1 .. NumBindings(z, i) : /\ ts[i].cdevs[k] \in BindingType
                                                 /\ ts[i].cdevs[k].cdev = Name(z, i, k)
                                                 /\ Name(z, i, k) \in DOMAIN Devices
<1>1. ts \in Seq(TripType) /\ Len(ts) = NumTrips(z) /\ Like(ts[i], BootTrips(z)[i])
  BY DEF Shape
<1>2. Len(ts) \in Nat /\ DOMAIN ts = 1 .. Len(ts)
  BY <1>1, ElementOfList
<1>3. ts[i] \in TripType /\ Len(ts[i].cdevs) = NumBindings(z, i)
  BY <1>1 DEF Like, NumBindings
<1>4. ts[i].cdevs \in Seq(BindingType)
  BY <1>3 DEF TripType
<1>5. /\ Len(ts[i].cdevs) \in Nat
      /\ \A k \in 1 .. Len(ts[i].cdevs) : ts[i].cdevs[k] \in BindingType
  BY <1>4, ElementOfList
<1>6. \A k \in 1 .. NumBindings(z, i) : ts[i].cdevs[k].cdev = Name(z, i, k)
  BY Zenon, <1>1 DEF Like, Name, NumBindings
<1>7. \A k \in 1 .. NumBindings(z, i) : ts[i].cdevs[k] \in BindingType
  BY <1>3, <1>5
<1>8. \A b \in BindingType : b.cdev \in DOMAIN Devices
  BY DEF BindingType
<1>9. i \in DOMAIN ts /\ i \in 1 .. Len(ts)
  BY <1>1, <1>2
<1>10. NumBindings(z, i) \in Nat
  BY Zenon, <1>3, <1>5
<1>11. \A k \in 1 .. NumBindings(z, i) : Name(z, i, k) \in DOMAIN Devices
  BY Zenon, <1>6, <1>7, <1>8
<1> QED
  BY Zenon, <1>1, <1>2, <1>3, <1>4, <1>6, <1>7, <1>9, <1>10, <1>11

\* Trip t takes the place of trip i, which it is like, and ts becomes us.
SwapsTrip(z, ts, i, t, us) ==
    /\ Shape(ts, z) /\ i \in 1 .. NumTrips(z)
    /\ Like(t, BootTrips(z)[i])
    /\ us = [ts EXCEPT ![i] = t]

TripSwapped(z, ts, i, t, us) ==
    /\ Shape(us, z) /\ us[i] = t
    /\ \A j \in 1 .. NumTrips(z) : j # i => us[j] = ts[j]

\* Replacing a trip by one like it keeps the shape.
LEMMA ShapeReplaced ==
    ASSUME NEW z, NEW ts, NEW i, NEW t, NEW us, SwapsTrip(z, ts, i, t, us)
    PROVE  TripSwapped(z, ts, i, t, us)
<1>0. /\ Shape(ts, z) /\ i \in 1 .. NumTrips(z)
      /\ Like(t, BootTrips(z)[i])
      /\ us = [ts EXCEPT ![i] = t]
  BY Zenon DEF SwapsTrip
<1>1. ts \in Seq(TripType) /\ i \in 1 .. Len(ts) /\ t \in TripType /\ Len(ts) = NumTrips(z)
  BY Zenon, <1>0, ShapeFacts DEF Like
<1>2. us \in Seq(TripType) /\ Len(us) = Len(ts) /\ us[i] = t
  BY <1>0, <1>1
<1>3. \A j \in 1 .. NumTrips(z) : j # i => us[j] = ts[j]
  BY <1>0, <1>1
<1>4. \A j \in 1 .. NumTrips(z) : Like(us[j], BootTrips(z)[j])
  BY Zenon, <1>0, <1>2, <1>3 DEF Shape
<1>5. Shape(us, z)
  BY Zenon, <1>1, <1>2, <1>4 DEF Shape
<1> QED
  BY Zenon, <1>2, <1>3, <1>5 DEF TripSwapped

\* Binding b takes the place of binding k of trip i, and w becomes v.
SwapsBinding(z, w, i, k, b, v) ==
    /\ Base(w, z) /\ i \in 1 .. NumTrips(z) /\ k \in 1 .. NumBindings(z, i)
    /\ b \in BindingType /\ b.cdev = Name(z, i, k)
    /\ v = SetBinding(w, i, k, b)

\* No more than a binding of trip i has changed.
BindingSwapped(z, w, i, v) ==
    /\ Base(v, z) /\ SameFlags(w, v) /\ v.cdevs = w.cdevs
    /\ v.trips[i].index = w.trips[i].index

\* Replacing a binding by one to the same device keeps the shape.
LEMMA BindingReplaced ==
    ASSUME NEW z, NEW w, NEW i, NEW k, NEW b, NEW v, SwapsBinding(z, w, i, k, b, v)
    PROVE  BindingSwapped(z, w, i, v)
<1> DEFINE t  == w.trips[i]
           cs == [t.cdevs EXCEPT ![k] = b]
           u  == [t EXCEPT !.cdevs = cs]
           us == [w.trips EXCEPT ![i] = u]
           ts == w.trips
<1>0. /\ Base(w, z) /\ i \in 1 .. NumTrips(z) /\ k \in 1 .. NumBindings(z, i)
      /\ b \in BindingType /\ b.cdev = Name(z, i, k)
      /\ v = SetBinding(w, i, k, b)
  BY Zenon DEF SwapsBinding
<1>1. v = [w EXCEPT !.trips = us]
  BY Zenon, <1>0 DEF SetBinding
<1>2. /\ t \in TripType /\ Like(t, BootTrips(z)[i])
      /\ t.cdevs \in Seq(BindingType) /\ Len(t.cdevs) = NumBindings(z, i)
      /\ \A j \in 1 .. NumBindings(z, i) : t.cdevs[j].cdev = Name(z, i, j)
  BY Zenon, <1>0, ShapeFacts DEF Base
<1>3. cs \in Seq(BindingType) /\ Len(cs) = NumBindings(z, i)
  BY <1>0, <1>2
<1>4. \A j \in 1 .. NumBindings(z, i) : cs[j] = IF j = k THEN b ELSE t.cdevs[j]
  BY <1>0, <1>2
<1> HIDE DEF cs
<1>5. \A j \in 1 .. NumBindings(z, i) : cs[j].cdev = Name(z, i, j)
  BY Zenon, <1>0, <1>2, <1>4
<1>6. /\ u \in TripType /\ u.cdevs = cs /\ u.index = t.index /\ u.type = t.type
      /\ u.sensor = t.sensor /\ u.control_type = t.control_type /\ u.temp = t.temp
      /\ u.depend = t.depend
      /\ u.poll_on = t.poll_on /\ u.crit_trip_count = t.crit_trip_count
  BY Zenon, <1>2, <1>3 DEF TripType
<1> HIDE DEF u
<1>7. Like(u, BootTrips(z)[i])
  <2> DEFINE x == BootTrips(z)[i]
  <2>1. /\ Len(u.cdevs) = Len(x.cdevs)
        /\ \A j \in 1 .. Len(x.cdevs) : u.cdevs[j].cdev = x.cdevs[j].cdev
    BY Zenon, <1>3, <1>5, <1>6 DEF Name, NumBindings
  <2>2. /\ u.index = x.index /\ u.type = x.type /\ u.sensor = x.sensor
        /\ u.control_type = x.control_type /\ u.depend = x.depend
        /\ u.temp = x.temp \/ (x.type = "PASSIVE" /\ u.temp \in NewTemps)
    BY Zenon, <1>2, <1>6 DEF Like
  <2> HIDE DEF x
  <2>3. Like(u, x)
    BY Zenon, <1>6, <2>1, <2>2 DEF Like
  <2> QED
    BY Zenon, <2>3 DEF x
<1>8. /\ Shape(us, z) /\ us[i] = u
      /\ \A j \in 1 .. NumTrips(z) : j # i => us[j] = ts[j]
  <2>1. SwapsTrip(z, ts, i, u, us)
    BY Zenon, <1>0, <1>7 DEF Base, SwapsTrip
  <2> HIDE DEF us, ts
  <2>2. TripSwapped(z, ts, i, u, us)
    BY Zenon, <2>1, ShapeReplaced
  <2> QED
    BY Zenon, <2>2 DEF TripSwapped
<1> HIDE DEF us
<1>9. IsWorld(v) /\ v.trips = us /\ v.cdevs = w.cdevs /\ v.power = w.power
  BY Zenon, <1>0, <1>1 DEF Base, IsWorld, WorldFields
<1>10. Base(v, z)
  BY Zenon, <1>0, <1>8, <1>9 DEF Base
<1>11. Len(w.trips) = NumTrips(z)
  BY Zenon, <1>0 DEF Base, Shape
<1>12. \A j \in 1 .. NumTrips(z) : /\ us[j].poll_on = w.trips[j].poll_on
                                   /\ us[j].crit_trip_count = w.trips[j].crit_trip_count
  BY Zenon, <1>6, <1>8
<1>13. SameFlags(w, v)
  BY Zenon, <1>9, <1>11, <1>12 DEF SameFlags
<1>14. v.trips[i].index = w.trips[i].index
  BY Zenon, <1>6, <1>8, <1>9
<1> QED
  BY Zenon, <1>9, <1>10, <1>13, <1>14 DEF BindingSwapped

\* The object c of a device is held by its only user at most.
HeldByUser(n, c) ==
    \A y \in DOMAIN Zones : \A j \in 1 .. NumTrips(y) :
        Uses(y, j, n) /\ Sole(y, j, n) => OwnEntries(c, y, BootTrips(y)[j].index)

\* Device n becomes c, and w becomes v.
SwapsCdev(z, w, n, c, v) ==
    /\ Base(w, z) /\ n \in DOMAIN Devices /\ IsCdev(c) /\ HeldByUser(n, c)
    /\ v = SetCdev(w, n, c)

\* No more than device n has changed.
CdevSwapped(z, w, n, c, v) ==
    /\ Base(v, z) /\ v.trips = w.trips /\ v.power = w.power /\ v.cdevs[n] = c
    /\ OnlyCdev(w, v, n)

\* Changing a device that keeps to its holder.
LEMMA CdevReplaced ==
    ASSUME NEW z, NEW w, NEW n, NEW c, NEW v, SwapsCdev(z, w, n, c, v)
    PROVE  CdevSwapped(z, w, n, c, v)
<1> DEFINE cd == [w.cdevs EXCEPT ![n] = c]
<1>0. /\ Base(w, z) /\ n \in DOMAIN Devices /\ IsCdev(c) /\ HeldByUser(n, c)
      /\ v = SetCdev(w, n, c)
  BY Zenon DEF SwapsCdev
<1>1. v = [w EXCEPT !.cdevs = cd]
  BY Zenon, <1>0 DEF SetCdev
<1>2. /\ cd = [m \in DOMAIN Devices |-> cd[m]] /\ cd[n] = c
      /\ \A m \in DOMAIN Devices \ {n} : cd[m] = w.cdevs[m]
  BY Zenon, <1>0 DEF Base, IsCdevs
<1> HIDE DEF cd
<1>3. IsCdevs(cd)
  BY Zenon, <1>0, <1>2 DEF Base, IsCdevs
<1>4. Owned(cd)
  BY Zenon, <1>0, <1>2 DEF Base, Owned, HeldByUser
<1>5. IsWorld(v) /\ v.trips = w.trips /\ v.power = w.power /\ v.cdevs = cd
  BY Zenon, <1>0, <1>1 DEF Base, IsWorld, WorldFields
<1> QED
  BY Zenon, <1>0, <1>2, <1>3, <1>4, <1>5 DEF Base, CdevSwapped, OnlyCdev

\* Binding k of trip i of zone z is to device n.
Binds(z, i, k, n) ==
    /\ z \in DOMAIN Zones /\ i \in 1 .. NumTrips(z) /\ k \in 1 .. NumBindings(z, i)
    /\ n = Name(z, i, k) /\ n \in DOMAIN Devices

\* Trip i of zone z turns its device n from w.cdevs[n] into c.
Turns(z, i, k, n, w, c) ==
    /\ Binds(z, i, k, n) /\ Base(w, z)
    /\ OwnEntries(w.cdevs[n], z, w.trips[i].index) => OwnEntries(c, z, w.trips[i].index)

\* What a device that trip i of zone z uses becomes belongs to its holder.
LEMMA CallerOwns ==
    ASSUME NEW z, NEW i, NEW k, NEW n, NEW w, NEW c, Turns(z, i, k, n, w, c)
    PROVE  HeldByUser(n, c)
<1>0. /\ z \in DOMAIN Zones /\ i \in 1 .. NumTrips(z) /\ k \in 1 .. NumBindings(z, i)
      /\ n = Name(z, i, k) /\ n \in DOMAIN Devices /\ Base(w, z)
      /\ OwnEntries(w.cdevs[n], z, w.trips[i].index) => OwnEntries(c, z, w.trips[i].index)
  BY Zenon DEF Turns, Binds
<1>1. Uses(z, i, n)
  BY Zenon, <1>0 DEF Uses
<1>2. w.trips[i].index = BootTrips(z)[i].index
  <2>1. Like(w.trips[i], BootTrips(z)[i])
    BY Zenon, <1>0 DEF Base, Shape
  <2> QED
    BY Zenon, <2>1 DEF Like
<1>3. ASSUME NEW y \in DOMAIN Zones, NEW j \in 1 .. NumTrips(y), Uses(y, j, n), Sole(y, j, n)
      PROVE  OwnEntries(c, y, BootTrips(y)[j].index)
  <2>1. z = y /\ i = j
    BY Zenon, <1>0, <1>1, <1>3 DEF Sole
  <2>2. OwnEntries(w.cdevs[n], y, BootTrips(y)[j].index)
    BY Zenon, <1>0, <1>3 DEF Base, Owned
  <2> QED
    BY Zenon, <1>0, <1>2, <2>1, <2>2
<1> QED
  BY Zenon, <1>3 DEF HeldByUser

\* A binding stays one when it is timed or resolved.
LEMMA BindingKept ==
    ASSUME NEW n \in DOMAIN Devices, NEW b \in BindingType
    PROVE  /\ Timed(b) \in BindingType /\ Timed(b).cdev = b.cdev
           /\ Resolved(Devices[n], b) \in BindingType /\ Resolved(Devices[n], b).cdev = b.cdev
<1>1. Devices[n].min_state \in Int
  BY DeviceAssumption
<1>2. Timed(b) \in BindingType /\ Timed(b).cdev = b.cdev
  BY DEF Timed, BindingType
<1>3. Resolved(Devices[n], b) \in BindingType /\ Resolved(Devices[n], b).cdev = b.cdev
  BY <1>1 DEF Resolved, BindingType
<1> QED
  BY Zenon, <1>2, <1>3

IsPass(acc) == acc = [w |-> acc.w, stop |-> acc.stop] /\ acc.stop \in BOOLEAN

\* A round of a loop over the bindings of trip i, at binding k, to device n.
Round(z, i, k, n, acc) == Binds(z, i, k, n) /\ IsPass(acc) /\ Base(acc.w, z)

\* No more than the bindings of trip i and device n have changed.
Kept(z, w, n, v) == Base(v, z) /\ SameFlags(w, v) /\ OnlyCdev(w, v, n)

AtBinding(z, w, i, k, n) ==
    LET t == w.trips[i]
        b == t.cdevs[k]
    IN  /\ Base(w, z) /\ b \in BindingType /\ b.cdev = n /\ n \in DOMAIN Devices
        /\ IsCdev(w.cdevs[n])
        /\ t.control_type = BootTrips(z)[i].control_type

\* A binding that is reached is reached in a state of the right shape.
LEMMA RoundFacts ==
    ASSUME NEW z, NEW i, NEW k, NEW n, NEW acc, Round(z, i, k, n, acc)
    PROVE  AtBinding(z, acc.w, i, k, n)
<1> DEFINE w == acc.w
           t == w.trips[i]
           b == t.cdevs[k]
<1>1. /\ z \in DOMAIN Zones /\ i \in 1 .. NumTrips(z) /\ k \in 1 .. NumBindings(z, i)
      /\ n = Name(z, i, k) /\ n \in DOMAIN Devices /\ Base(w, z)
  BY Zenon DEF Round, Binds
<1>2. b \in BindingType /\ b.cdev = n /\ Like(t, BootTrips(z)[i])
  BY Zenon, <1>1, ShapeFacts DEF Base
<1>3. t.control_type = BootTrips(z)[i].control_type
  BY Zenon, <1>2 DEF Like
<1>4. IsCdev(w.cdevs[n])
  BY Zenon, <1>1 DEF Base, IsCdevs
<1> QED
  BY Zenon, <1>1, <1>2, <1>3, <1>4 DEF AtBinding

\* A round that resolves binding k into b2 and turns device n into c2.
LEMMA RoundTurns ==
    ASSUME NEW z, NEW i, NEW k, NEW n, NEW acc, Round(z, i, k, n, acc), NEW b2, NEW c2,
           b2 \in BindingType, b2.cdev = n, IsCdev(c2),
           OwnEntries(acc.w.cdevs[n], z, acc.w.trips[i].index) => OwnEntries(c2, z, acc.w.trips[i].index)
    PROVE  Kept(z, acc.w, n, SetCdev(SetBinding(acc.w, i, k, b2), n, c2))
<1> DEFINE w  == acc.w
           w2 == SetBinding(w, i, k, b2)
           w3 == SetCdev(w2, n, c2)
<1>1. SwapsBinding(z, w, i, k, b2, w2)
  BY Zenon DEF Round, Binds, SwapsBinding
<1>2. Turns(z, i, k, n, w, c2)
  BY Zenon DEF Round, Turns
<1>3. n \in DOMAIN Devices
  BY Zenon DEF Round, Binds
<1> HIDE DEF w, w2
<1>4. BindingSwapped(z, w, i, w2) /\ HeldByUser(n, c2)
  BY Zenon, <1>1, <1>2, BindingReplaced, CallerOwns
<1>5. SwapsCdev(z, w2, n, c2, w3)
  BY Zenon, <1>3, <1>4 DEF SwapsCdev, BindingSwapped
<1> HIDE DEF w3
<1>6. CdevSwapped(z, w2, n, c2, w3)
  BY Zenon, <1>5, CdevReplaced
<1>7. SameFlags(w, w3) /\ OnlyCdev(w, w3, n)
  BY Zenon, <1>4, <1>6 DEF BindingSwapped, CdevSwapped, SameFlags, OnlyCdev
<1>8. Kept(z, w, n, w3)
  BY Zenon, <1>6, <1>7 DEF Kept, CdevSwapped
<1> QED
  BY Zenon, <1>8 DEF w, w2, w3

\* A round of the activation loop that turned acc into r.
Raises(z, i, n, acc, r) ==
    /\ IsPass(r) /\ Kept(z, acc.w, n, r.w)
    /\ \/ /\ r.w.cdevs = acc.w.cdevs
          /\ r.stop \/ (~acc.stop /\ in_max_state(Devices[n], acc.w.cdevs[n]))
       \/ /\ ~acc.stop /\ ~in_max_state(Devices[n], acc.w.cdevs[n])
          /\ r.stop = (BootTrips(z)[i].control_type = "SEQUENTIAL")

\* One round of the activation loop: a device that is not full is raised, and
\* a sequential trip leaves it at that.
LEMMA ActivateRound ==
    ASSUME NEW z, NEW i, NEW k, NEW n, NEW acc, Round(z, i, k, n, acc)
    PROVE  Raises(z, i, n, acc, ActivateBinding(z, i, acc, k))
<1> DEFINE w  == acc.w
           t  == w.trips[i]
           b  == t.cdevs[k]
           d  == Devices[n]
           c  == w.cdevs[n]
           q  == RequestFor(z, t, Resolved(d, b))
           b1 == Timed(b)
           b2 == Resolved(d, Timed(b))
           w1 == SetBinding(w, i, k, b1)
           c2 == ActivateState(d, c, q, d.min_state)
           w3 == SetCdev(SetBinding(w, i, k, b2), n, c2)
           r  == ActivateBinding(z, i, acc, k)
           sq == t.control_type = "SEQUENTIAL"
<1>1. /\ Base(w, z) /\ b \in BindingType /\ b.cdev = n /\ n \in DOMAIN Devices /\ IsCdev(c)
      /\ t.control_type = BootTrips(z)[i].control_type
  <2>1. AtBinding(z, w, i, k, n)
    BY Zenon, RoundFacts
  <2> QED
    BY Zenon, <2>1 DEF AtBinding
<1>2. \/ acc.stop /\ r = acc
      \/ ~acc.stop /\ r = [w |-> w, stop |-> TRUE]
      \/ ~acc.stop /\ in_max_state(d, c) /\ r = [w |-> w1, stop |-> FALSE]
      \/ ~acc.stop /\ ~in_max_state(d, c) /\ r = [w |-> w3, stop |-> sq]
  BY Zenon, <1>1 DEF ActivateBinding
<1>3. q.zone = z /\ q.trip = t.index
  BY Zenon DEF RequestFor
<1>4. b1 \in BindingType /\ b2 \in BindingType /\ b1.cdev = n /\ b2.cdev = n
  <2>1. b1 \in BindingType /\ b1.cdev = n
    BY Zenon, <1>1, BindingKept
  <2> QED
    BY Zenon, <1>1, <2>1, BindingKept
<1> HIDE DEF q, r, b1, b2
<1>5. IsCdev(c2) /\ (OwnEntries(c, z, t.index) => OwnEntries(c2, z, t.index))
  <2>1. IsCdev(c2) /\ (OwnEntries(c, q.zone, q.trip) => OwnEntries(c2, q.zone, q.trip))
    BY Zenon, <1>1, ActivateKeepsOwn
  <2> HIDE DEF c2
  <2> QED
    BY Zenon, <1>3, <2>1
<1> HIDE DEF c2
<1>6. Kept(z, w, n, w3)
  BY Zenon, <1>4, <1>5, RoundTurns
<1>7. Kept(z, w, n, w1) /\ w1.cdevs = w.cdevs
  <2>1. SwapsBinding(z, w, i, k, b1, w1)
    BY Zenon, <1>1, <1>4 DEF Round, Binds, SwapsBinding
  <2> HIDE DEF w1, w
  <2>2. BindingSwapped(z, w, i, w1)
    BY Zenon, <2>1, BindingReplaced
  <2> QED
    BY Zenon, <2>2 DEF BindingSwapped, Kept, OnlyCdev
<1>8. Kept(z, w, n, w)
  BY Zenon, <1>1 DEF Kept, SameFlags, OnlyCdev
<1>9. sq = (BootTrips(z)[i].control_type = "SEQUENTIAL") /\ sq \in BOOLEAN
  BY Zenon, <1>1
<1>10. IsPass(acc)
  BY Zenon DEF Round
<1> HIDE DEF sq, w1, w3
<1>11. CASE acc.stop /\ r = acc
  <2>1. Raises(z, i, n, acc, r)
    BY Zenon, <1>8, <1>10, <1>11 DEF Raises
  <2> QED
    BY Zenon, <2>1 DEF r
<1>12. CASE ~acc.stop /\ r = [w |-> w, stop |-> TRUE]
  <2>1. r.w = w /\ r.stop = TRUE /\ IsPass(r)
    BY Zenon, <1>12 DEF IsPass
  <2>2. Raises(z, i, n, acc, r)
    BY Zenon, <1>8, <2>1 DEF Raises
  <2> QED
    BY Zenon, <2>2 DEF r
<1>13. CASE ~acc.stop /\ in_max_state(d, c) /\ r = [w |-> w1, stop |-> FALSE]
  <2>1. r.w = w1 /\ r.stop = FALSE /\ IsPass(r)
    BY Zenon, <1>13 DEF IsPass
  <2>2. Raises(z, i, n, acc, r)
    BY Zenon, <1>7, <1>13, <2>1 DEF Raises
  <2> QED
    BY Zenon, <2>2 DEF r
<1>14. CASE ~acc.stop /\ ~in_max_state(d, c) /\ r = [w |-> w3, stop |-> sq]
  <2>1. r.w = w3 /\ r.stop = sq /\ IsPass(r)
    BY Zenon, <1>9, <1>14 DEF IsPass
  <2>2. Raises(z, i, n, acc, r)
    BY Zenon, <1>6, <1>9, <1>14, <2>1 DEF Raises
  <2> QED
    BY Zenon, <2>2 DEF r
<1> QED
  BY Zenon, <1>2, <1>11, <1>12, <1>13, <1>14

\* A round of the deactivation loop that turned acc into r.
Lowers(z, i, n, acc, r) ==
    /\ IsPass(r) /\ Kept(z, acc.w, n, r.w)
    /\ \/ r = acc /\ (acc.stop \/ in_min_state(Devices[n], acc.w.cdevs[n]))
       \/ /\ ~acc.stop /\ ~in_min_state(Devices[n], acc.w.cdevs[n])
          /\ r.stop = (BootTrips(z)[i].control_type = "SEQUENTIAL")

\* One round of the deactivation loop: a device that is in use is lowered, and
\* a sequential trip leaves it at that.
LEMMA DeactivateRound ==
    ASSUME NEW z, NEW i, NEW k, NEW n, NEW acc, Round(z, i, k, n, acc)
    PROVE  Lowers(z, i, n, acc, DeactivateBinding(z, i, acc, k))
<1> DEFINE w  == acc.w
           t  == w.trips[i]
           b  == t.cdevs[k]
           d  == Devices[n]
           c  == w.cdevs[n]
           q  == RequestFor(z, t, Resolved(d, b))
           b2 == Resolved(d, b)
           c2 == DeactivateState(d, c, q, d.min_state)
           w3 == SetCdev(SetBinding(w, i, k, b2), n, c2)
           r  == DeactivateBinding(z, i, acc, k)
           sq == t.control_type = "SEQUENTIAL"
<1>1. /\ Base(w, z) /\ b \in BindingType /\ b.cdev = n /\ n \in DOMAIN Devices /\ IsCdev(c)
      /\ t.control_type = BootTrips(z)[i].control_type
  <2>1. AtBinding(z, w, i, k, n)
    BY Zenon, RoundFacts
  <2> QED
    BY Zenon, <2>1 DEF AtBinding
<1>2. \/ (acc.stop \/ in_min_state(d, c)) /\ r = acc
      \/ ~acc.stop /\ ~in_min_state(d, c) /\ r = [w |-> w3, stop |-> sq]
  BY Zenon, <1>1 DEF DeactivateBinding
<1>3. q.zone = z /\ q.trip = t.index
  BY Zenon DEF RequestFor
<1>4. b2 \in BindingType /\ b2.cdev = n
  BY Zenon, <1>1, BindingKept
<1> HIDE DEF q, r, b2
<1>5. IsCdev(c2) /\ (OwnEntries(c, z, t.index) => OwnEntries(c2, z, t.index))
  <2>1. IsCdev(c2) /\ (OwnEntries(c, q.zone, q.trip) => OwnEntries(c2, q.zone, q.trip))
    BY Zenon, <1>1, DeactivateKeepsOwn
  <2> HIDE DEF c2
  <2> QED
    BY Zenon, <1>3, <2>1
<1> HIDE DEF c2
<1>6. Kept(z, w, n, w3)
  BY Zenon, <1>4, <1>5, RoundTurns
<1>8. Kept(z, w, n, w)
  BY Zenon, <1>1 DEF Kept, SameFlags, OnlyCdev
<1>9. sq = (BootTrips(z)[i].control_type = "SEQUENTIAL") /\ sq \in BOOLEAN
  BY Zenon, <1>1
<1>10. IsPass(acc)
  BY Zenon DEF Round
<1> HIDE DEF sq, w3
<1>11. CASE (acc.stop \/ in_min_state(d, c)) /\ r = acc
  <2>1. Lowers(z, i, n, acc, r)
    BY Zenon, <1>8, <1>10, <1>11 DEF Lowers
  <2> QED
    BY Zenon, <2>1 DEF r
<1>14. CASE ~acc.stop /\ ~in_min_state(d, c) /\ r = [w |-> w3, stop |-> sq]
  <2>1. r.w = w3 /\ r.stop = sq /\ IsPass(r)
    BY Zenon, <1>9, <1>14 DEF IsPass
  <2>2. Lowers(z, i, n, acc, r)
    BY Zenon, <1>6, <1>9, <1>14, <2>1 DEF Lowers
  <2> QED
    BY Zenon, <2>2 DEF r
<1> QED
  BY Zenon, <1>2, <1>11, <1>14

-----------------------------------------------------------------------------
(* One trip.                                                               *)

\* Only devices of trip i of zone z may have changed.
OnlyTripCdevs(z, i, w, v) ==
    \A n \in DOMAIN Devices : ~Uses(z, i, n) => v.cdevs[n] = w.cdevs[n]

TripKept(z, w, i, v) == Base(v, z) /\ SameFlags(w, v) /\ OnlyTripCdevs(z, i, w, v)

AtTrip(z, w, i) == z \in DOMAIN Zones /\ i \in 1 .. NumTrips(z) /\ Base(w, z)

IdleIn(cd, n) == in_min_state(Devices[n], cd[n])

FullIn(cd, n) == in_max_state(Devices[n], cd[n])

Sequential(z, i) == BootTrips(z)[i].control_type = "SEQUENTIAL"

\* The bindings of a trip are to different devices.
Apart(z, i) ==
    \A k, l \in 1 .. NumBindings(z, i) : Name(z, i, k) = Name(z, i, l) => k = l

OrderedTrip(cd, z, i) ==
    \A k, l \in 1 .. NumBindings(z, i) :
        k < l /\ ~IdleIn(cd, Name(z, i, l)) => FullIn(cd, Name(z, i, k))

\* A visit of binding k of trip i in a loop that began in w and is now in a.
Reaches(z, w, i, k, a) ==
    AtTrip(z, w, i) /\ k \in 1 .. NumBindings(z, i) /\ IsPass(a) /\ TripKept(z, w, i, a.w)

\* Such a visit is a round.
LEMMA ReachesRound ==
    ASSUME NEW z, NEW w, NEW i, NEW k, NEW a, Reaches(z, w, i, k, a)
    PROVE  Round(z, i, k, Name(z, i, k), a)
<1> DEFINE v == a.w
<1>1. z \in DOMAIN Zones /\ i \in 1 .. NumTrips(z) /\ k \in 1 .. NumBindings(z, i) /\ IsPass(a)
  BY Zenon DEF Reaches, AtTrip
<1>2. Base(v, z)
  BY Zenon DEF Reaches, TripKept
<1>3. Name(z, i, k) \in DOMAIN Devices
  BY Zenon, <1>1, <1>2, ShapeFacts DEF Base
<1> QED
  BY Zenon, <1>1, <1>2, <1>3 DEF Round, Binds

\* What it keeps is kept since w.
LEMMA ReachesKeeps ==
    ASSUME NEW z, NEW w, NEW i, NEW k, NEW a, Reaches(z, w, i, k, a),
           NEW v, Kept(z, a.w, Name(z, i, k), v)
    PROVE  TripKept(z, w, i, v)
<1> DEFINE n == Name(z, i, k)
           u == a.w
<1>1. /\ k \in 1 .. NumBindings(z, i) /\ Base(u, z) /\ SameFlags(w, u)
      /\ OnlyTripCdevs(z, i, w, u)
  BY Zenon DEF Reaches, TripKept
<1>2. Base(v, z) /\ SameFlags(u, v) /\ OnlyCdev(u, v, n)
  BY Zenon DEF Kept
<1>3. Len(u.trips) = NumTrips(z)
  BY Zenon, <1>1 DEF Base, Shape
<1>4. Len(w.trips) = NumTrips(z)
  BY Zenon DEF Reaches, AtTrip, Base, Shape
<1>5. Uses(z, i, n)
  BY Zenon, <1>1 DEF Uses
<1> HIDE DEF u, n
<1>6. SameFlags(w, v)
  BY Zenon, <1>1, <1>2, <1>3, <1>4 DEF SameFlags
<1>7. OnlyTripCdevs(z, i, w, v)
  <2>1. ASSUME NEW m \in DOMAIN Devices, ~Uses(z, i, m) PROVE v.cdevs[m] = w.cdevs[m]
    <3>1. m # n
      BY Zenon, <1>5, <2>1
    <3>2. u.cdevs[m] = w.cdevs[m]
      BY Zenon, <1>1, <2>1 DEF OnlyTripCdevs
    <3>3. v.cdevs[m] = u.cdevs[m]
      BY Zenon, <1>2, <3>1 DEF OnlyCdev
    <3> QED
      BY Zenon, <3>2, <3>3
  <2> QED
    BY Zenon, <2>1 DEF OnlyTripCdevs
<1> QED
  BY Zenon, <1>2, <1>6, <1>7 DEF TripKept

\* Device m of the trip has been raised: the first that was not full.
OneRaised(z, i, m, w, v) ==
    /\ OnlyCdev(w, v, Name(z, i, m)) /\ ~FullIn(w.cdevs, Name(z, i, m))
    /\ \A j \in 1 .. NumBindings(z, i) : j < m => FullIn(w.cdevs, Name(z, i, j))

\* The activation loop that began in w has passed k bindings.
Activating(z, w, i, k, a) ==
    /\ IsPass(a) /\ TripKept(z, w, i, a.w)
    /\ Sequential(z, i) =>
         \/ a.stop /\ a.w.cdevs = w.cdevs
         \/ /\ ~a.stop /\ a.w.cdevs = w.cdevs
            /\ \A j \in 1 .. k : FullIn(w.cdevs, Name(z, i, j))
         \/ a.stop /\ \E m \in 1 .. NumBindings(z, i) : OneRaised(z, i, m, w, a.w)

\* A round of the loop.
LEMMA ActivatingStep ==
    ASSUME NEW z, NEW w, NEW i, AtTrip(z, w, i), NEW k \in Nat, k \in 1 .. NumBindings(z, i),
           NEW a, Activating(z, w, i, k - 1, a), NEW r, r = ActivateBinding(z, i, a, k)
    PROVE  Activating(z, w, i, k, r)
<1> DEFINE n == Name(z, i, k)
           N == NumBindings(z, i)
<1>1. Reaches(z, w, i, k, a)
  BY Zenon DEF Reaches, Activating
<1>2. Round(z, i, k, n, a)
  BY Zenon, <1>1, ReachesRound
<1> HIDE DEF n
<1>3. Raises(z, i, n, a, r)
  BY Zenon, <1>2, ActivateRound
<1>4. IsPass(r) /\ Kept(z, a.w, n, r.w)
  BY Zenon, <1>3 DEF Raises
<1>5. TripKept(z, w, i, r.w)
  BY Zenon, <1>1, <1>4, ReachesKeeps DEF n
<1>6. ASSUME Sequential(z, i)
      PROVE  \/ r.stop /\ r.w.cdevs = w.cdevs
             \/ /\ ~r.stop /\ r.w.cdevs = w.cdevs
                /\ \A j \in 1 .. k : FullIn(w.cdevs, Name(z, i, j))
             \/ r.stop /\ \E m \in 1 .. N : OneRaised(z, i, m, w, r.w)
  <2>1. \/ r.w.cdevs = a.w.cdevs /\ (r.stop \/ (~a.stop /\ FullIn(a.w.cdevs, n)))
        \/ ~a.stop /\ ~FullIn(a.w.cdevs, n) /\ r.stop
    BY Zenon, <1>3, <1>6 DEF Raises, FullIn, Sequential
  <2>2. \A j \in 1 .. k : j \in 1 .. k - 1 \/ j = k
    OBVIOUS
  <2>3. \A j \in 1 .. N : j < k => j \in 1 .. k - 1
    OBVIOUS
  <2>4. CASE a.stop /\ a.w.cdevs = w.cdevs
    BY Zenon, <2>1, <2>4
  <2>5. CASE a.stop /\ \E m \in 1 .. N : OneRaised(z, i, m, w, a.w)
    <3>1. PICK m \in 1 .. N : OneRaised(z, i, m, w, a.w)
      BY Zenon, <2>5
    <3>2. r.stop /\ r.w.cdevs = a.w.cdevs
      BY Zenon, <2>1, <2>5
    <3>3. OneRaised(z, i, m, w, r.w)
      BY Zenon, <3>1, <3>2 DEF OneRaised, OnlyCdev
    <3> QED
      BY Zenon, <3>2, <3>3
  <2>6. CASE /\ ~a.stop /\ a.w.cdevs = w.cdevs
             /\ \A j \in 1 .. k - 1 : FullIn(w.cdevs, Name(z, i, j))
    <3>1. CASE r.w.cdevs = a.w.cdevs /\ r.stop
      BY Zenon, <2>6, <3>1
    <3>2. CASE r.w.cdevs = a.w.cdevs /\ ~r.stop
      <4>1. FullIn(w.cdevs, n)
        BY Zenon, <2>1, <2>6, <3>2
      <4> QED
        BY Zenon, <2>2, <2>6, <3>2, <4>1 DEF n
    <3>3. CASE ~FullIn(a.w.cdevs, n) /\ r.stop
      <4>1. OnlyCdev(w, r.w, n)
        BY Zenon, <1>4, <2>6 DEF Kept, OnlyCdev
      <4>2. OneRaised(z, i, k, w, r.w)
        BY Zenon, <2>3, <2>6, <3>3, <4>1 DEF OneRaised, n
      <4> QED
        BY Zenon, <3>3, <4>2
    <3> QED
      BY Zenon, <2>1, <3>1, <3>2, <3>3
  <2> QED
    BY Zenon, <1>6, <2>4, <2>5, <2>6 DEF Activating
<1> QED
  BY Zenon, <1>4, <1>5, <1>6 DEF Activating

\* Raising the first device that is not full keeps the order.
LEMMA RaisedInOrder ==
    ASSUME NEW z, NEW i, NEW m \in 1 .. NumBindings(z, i), NEW w, NEW v, NumBindings(z, i) \in Nat,
           \A k \in 1 .. NumBindings(z, i) : Name(z, i, k) \in DOMAIN Devices,
           OneRaised(z, i, m, w, v), Apart(z, i), OrderedTrip(w.cdevs, z, i)
    PROVE  OrderedTrip(v.cdevs, z, i)
<1> DEFINE N == NumBindings(z, i)
<1>1. ASSUME NEW k \in 1 .. N, k # m
      PROVE  v.cdevs[Name(z, i, k)] = w.cdevs[Name(z, i, k)]
  BY Zenon, <1>1 DEF OneRaised, OnlyCdev, Apart
<1>2. \A l \in 1 .. N : m < l => IdleIn(w.cdevs, Name(z, i, l))
  BY Zenon DEF OneRaised, OrderedTrip
<1>3. ASSUME NEW k \in 1 .. N, NEW l \in 1 .. N, k < l, ~IdleIn(v.cdevs, Name(z, i, l))
      PROVE  FullIn(v.cdevs, Name(z, i, k))
  <2>1. l = m \/ ~IdleIn(w.cdevs, Name(z, i, l))
    BY Zenon, <1>1, <1>3 DEF IdleIn
  <2>2. ~(m < l)
    <3>1. m < l => l # m
      OBVIOUS
    <3> QED
      BY Zenon, <1>2, <2>1, <3>1
  <2>3. k < m /\ k # m
    BY <1>3, <2>2
  <2>4. FullIn(w.cdevs, Name(z, i, k))
    BY Zenon, <2>3 DEF OneRaised
  <2> QED
    BY Zenon, <1>1, <2>3, <2>4 DEF FullIn
<1> QED
  BY Zenon, <1>3 DEF OrderedTrip

\* The result of visiting a trip: the devices of a sequential trip stay in order.
TripVisited(z, w, i, v) ==
    /\ TripKept(z, w, i, v)
    /\ Sequential(z, i) /\ Apart(z, i) /\ OrderedTrip(w.cdevs, z, i) => OrderedTrip(v.cdevs, z, i)

TripReady(z, w, i) ==
    /\ NumBindings(z, i) \in Nat /\ NumBindings(z, i) = Len(w.trips[i].cdevs)
    /\ \A k \in 1 .. NumBindings(z, i) : Name(z, i, k) \in DOMAIN Devices
    /\ TripKept(z, w, i, w)

\* What every visit of a trip knows about it.
LEMMA AtTripFacts ==
    ASSUME NEW z, NEW w, NEW i, AtTrip(z, w, i)
    PROVE  TripReady(z, w, i)
<1>1. z \in DOMAIN Zones /\ i \in 1 .. NumTrips(z) /\ Base(w, z)
  BY Zenon DEF AtTrip
<1>2. Shape(w.trips, z)
  BY Zenon, <1>1 DEF Base
<1>3. TripKept(z, w, i, w)
  BY Zenon, <1>1 DEF TripKept, SameFlags, OnlyTripCdevs
<1> QED
  BY Zenon, <1>1, <1>2, <1>3, ShapeFacts DEF TripReady

\* The first pass of a loop.
LEMMA FirstPass ==
    ASSUME NEW w, NEW a, a = [w |-> w, stop |-> FALSE]
    PROVE  a.w = w /\ a.stop = FALSE /\ IsPass(a)
  BY Zenon DEF IsPass

\* A trip whose temperature is reached raises its devices in order.
LEMMA ActivateTripVisits ==
    ASSUME NEW z, NEW w, NEW i, AtTrip(z, w, i)
    PROVE  TripVisited(z, w, i, ActivateTrip(w, z, i))
<1> DEFINE N == NumBindings(z, i)
<1>1. /\ N \in Nat /\ N = Len(w.trips[i].cdevs) /\ TripKept(z, w, i, w)
      /\ \A k \in 1 .. N : Name(z, i, k) \in DOMAIN Devices
  BY Zenon, AtTripFacts DEF TripReady
<1> HIDE DEF N
<1>2. PICK g : ActivateRounds(w, z, i, N, g)
  BY Zenon, <1>1, ActivateLoop
<1>20. /\ g[0] = [w |-> w, stop |-> FALSE]
       /\ \A k \in 1 .. N : g[k] = ActivateBinding(z, i, g[k - 1], k)
       /\ ActivateTrip(w, z, i) = g[N].w
  BY Zenon, <1>2 DEF ActivateRounds
<1> DEFINE T == {k \in 0 .. N : Activating(z, w, i, k, g[k])}
<1>3. 0 \in T
  <2>1. g[0].w = w /\ g[0].stop = FALSE /\ IsPass(g[0])
    BY Zenon, <1>20, FirstPass
  <2>2. \A j \in 1 .. 0 : FALSE
    OBVIOUS
  <2>3. Activating(z, w, i, 0, g[0])
    BY Zenon, <1>1, <2>1, <2>2 DEF Activating
  <2>4. 0 \in 0 .. N
    BY <1>1
  <2> QED
    BY Zenon, <2>3, <2>4
<1>4. ASSUME NEW k \in 1 .. N, k - 1 \in T PROVE k \in T
  <2>1. k \in Nat /\ k \in 0 .. N
    BY <1>1
  <2>2. Activating(z, w, i, k - 1, g[k - 1]) /\ g[k] = ActivateBinding(z, i, g[k - 1], k)
    BY Zenon, <1>20, <1>4
  <2>3. Activating(z, w, i, k, g[k])
    BY Zenon, <2>1, <2>2, ActivatingStep DEF N
  <2> QED
    BY Zenon, <2>1, <2>3
<1>5. N \in T
  <2>1. N \in 0 .. N
    BY <1>1
  <2> HIDE DEF T
  <2> QED
    BY Zenon, <1>1, <1>3, <1>4, <2>1, LoopInduction
<1> DEFINE v == g[N].w
<1>6. Activating(z, w, i, N, g[N])
  BY Zenon, <1>5
<1>7. ASSUME Sequential(z, i), Apart(z, i), OrderedTrip(w.cdevs, z, i)
      PROVE  OrderedTrip(v.cdevs, z, i)
  <2>1. v.cdevs = w.cdevs \/ \E m \in 1 .. N : OneRaised(z, i, m, w, v)
    BY Zenon, <1>6, <1>7 DEF Activating, N
  <2>2. CASE v.cdevs = w.cdevs
    BY Zenon, <1>7, <2>2
  <2>3. ASSUME NEW m \in 1 .. N, OneRaised(z, i, m, w, v) PROVE OrderedTrip(v.cdevs, z, i)
    <3> HIDE DEF v
    <3> QED
      BY Zenon, <1>1, <1>7, <2>3, RaisedInOrder DEF N
  <2> QED
    BY Zenon, <2>1, <2>2, <2>3
<1>8. TripVisited(z, w, i, v)
  BY Zenon, <1>6, <1>7 DEF Activating, TripVisited
<1> QED
  BY Zenon, <1>20, <1>8

\* Device m of the trip has been lowered: the last that was in use.
OneLowered(z, i, m, w, v) ==
    /\ OnlyCdev(w, v, Name(z, i, m)) /\ ~IdleIn(w.cdevs, Name(z, i, m))
    /\ \A j \in 1 .. NumBindings(z, i) : m < j => IdleIn(w.cdevs, Name(z, i, j))

\* A device that was idle is as it was.
IdleUntouched(w, v) ==
    \A n \in DOMAIN Devices : IdleIn(w.cdevs, n) => v.cdevs[n] = w.cdevs[n]

\* The deactivation loop that began in w has passed the last k bindings.
Deactivating(z, w, i, k, a) ==
    /\ IsPass(a) /\ TripKept(z, w, i, a.w) /\ IdleUntouched(w, a.w)
    /\ Sequential(z, i) =>
         \/ /\ ~a.stop /\ a.w.cdevs = w.cdevs
            /\ \A j \in 1 .. NumBindings(z, i) :
                 NumBindings(z, i) - k < j => IdleIn(w.cdevs, Name(z, i, j))
         \/ a.stop /\ \E m \in 1 .. NumBindings(z, i) : OneLowered(z, i, m, w, a.w)

\* A round of the loop.
LEMMA DeactivatingStep ==
    ASSUME NEW z, NEW w, NEW i, AtTrip(z, w, i), NEW k \in Nat, k \in 1 .. NumBindings(z, i),
           NEW a, Deactivating(z, w, i, k - 1, a),
           NEW r, r = DeactivateBinding(z, i, a, NumBindings(z, i) + 1 - k)
    PROVE  Deactivating(z, w, i, k, r)
<1> DEFINE N == NumBindings(z, i)
           p == N + 1 - k
           n == Name(z, i, p)
<1>1. N \in Nat
  BY Zenon, AtTripFacts DEF TripReady
<1>2. p \in 1 .. N
  BY <1>1
<1>3. \A j \in 1 .. N : N - k < j => j = p \/ N - (k - 1) < j
  BY <1>1
<1>4. \A j \in 1 .. N : p < j => N - (k - 1) < j
  BY <1>1
<1> HIDE DEF p
<1>5. Reaches(z, w, i, p, a)
  BY Zenon, <1>2 DEF Reaches, Deactivating
<1>6. Round(z, i, p, n, a)
  BY Zenon, <1>5, ReachesRound
<1> HIDE DEF n
<1>7. Lowers(z, i, n, a, r)
  BY Zenon, <1>6, DeactivateRound DEF p
<1>8. IsPass(r) /\ Kept(z, a.w, n, r.w)
  BY Zenon, <1>7 DEF Lowers
<1>9. TripKept(z, w, i, r.w)
  BY Zenon, <1>5, <1>8, ReachesKeeps DEF n
<1>10. \/ r = a /\ (a.stop \/ IdleIn(a.w.cdevs, n))
       \/ ~a.stop /\ ~IdleIn(a.w.cdevs, n) /\ r.stop = Sequential(z, i)
  BY Zenon, <1>7 DEF Lowers, IdleIn, Sequential
<1>11. IdleUntouched(w, a.w)
  BY Zenon DEF Deactivating
<1>12. IdleUntouched(w, r.w)
  <2>1. ASSUME NEW m \in DOMAIN Devices, IdleIn(w.cdevs, m) PROVE r.w.cdevs[m] = w.cdevs[m]
    <3>1. a.w.cdevs[m] = w.cdevs[m]
      BY Zenon, <1>11, <2>1 DEF IdleUntouched
    <3>2. IdleIn(a.w.cdevs, m)
      BY Zenon, <2>1, <3>1 DEF IdleIn
    <3>3. r = a \/ m # n
      BY Zenon, <1>10, <3>2
    <3>4. m # n => r.w.cdevs[m] = a.w.cdevs[m]
      BY Zenon, <1>8 DEF Kept, OnlyCdev
    <3> QED
      BY Zenon, <3>1, <3>3, <3>4
  <2> QED
    BY Zenon, <2>1 DEF IdleUntouched
<1>13. ASSUME Sequential(z, i)
       PROVE  \/ /\ ~r.stop /\ r.w.cdevs = w.cdevs
                 /\ \A j \in 1 .. N : N - k < j => IdleIn(w.cdevs, Name(z, i, j))
              \/ r.stop /\ \E m \in 1 .. N : OneLowered(z, i, m, w, r.w)
  <2>1. CASE a.stop /\ \E m \in 1 .. N : OneLowered(z, i, m, w, a.w)
    BY Zenon, <1>10, <2>1
  <2>2. CASE /\ ~a.stop /\ a.w.cdevs = w.cdevs
             /\ \A j \in 1 .. N : N - (k - 1) < j => IdleIn(w.cdevs, Name(z, i, j))
    <3>1. CASE r = a
      <4>1. IdleIn(w.cdevs, n)
        BY Zenon, <1>10, <1>13, <2>2, <3>1
      <4> QED
        BY Zenon, <1>3, <2>2, <3>1, <4>1 DEF n
    <3>2. CASE ~IdleIn(a.w.cdevs, n) /\ r.stop
      <4>1. OnlyCdev(w, r.w, n)
        BY Zenon, <1>8, <2>2 DEF Kept, OnlyCdev
      <4>2. OneLowered(z, i, p, w, r.w)
        BY Zenon, <1>4, <2>2, <3>2, <4>1 DEF OneLowered, n
      <4> QED
        BY Zenon, <1>2, <3>2, <4>2
    <3> QED
      BY Zenon, <1>10, <1>13, <3>1, <3>2
  <2> QED
    BY Zenon, <1>13, <2>1, <2>2 DEF Deactivating
<1> QED
  BY Zenon, <1>8, <1>9, <1>12, <1>13 DEF Deactivating

\* Lowering the last device in use keeps the order.
LEMMA LoweredInOrder ==
    ASSUME NEW z, NEW i, NEW m \in 1 .. NumBindings(z, i), NEW w, NEW v, NumBindings(z, i) \in Nat,
           \A k \in 1 .. NumBindings(z, i) : Name(z, i, k) \in DOMAIN Devices,
           OneLowered(z, i, m, w, v), Apart(z, i), OrderedTrip(w.cdevs, z, i)
    PROVE  OrderedTrip(v.cdevs, z, i)
<1> DEFINE N == NumBindings(z, i)
<1>1. ASSUME NEW k \in 1 .. N, k # m
      PROVE  v.cdevs[Name(z, i, k)] = w.cdevs[Name(z, i, k)]
  BY Zenon, <1>1 DEF OneLowered, OnlyCdev, Apart
<1>2. ASSUME NEW k \in 1 .. N, NEW l \in 1 .. N, k < l, ~IdleIn(v.cdevs, Name(z, i, l))
      PROVE  FullIn(v.cdevs, Name(z, i, k))
  <2>1. l = m \/ ~IdleIn(w.cdevs, Name(z, i, l))
    BY Zenon, <1>1, <1>2 DEF IdleIn
  <2>2. ~(m < l)
    <3>1. m < l => l # m
      OBVIOUS
    <3> QED
      BY Zenon, <2>1, <3>1 DEF OneLowered
  <2>3. k < m /\ k # m
    BY <1>2, <2>2
  <2>4. FullIn(w.cdevs, Name(z, i, k))
    BY Zenon, <2>3 DEF OneLowered, OrderedTrip
  <2> QED
    BY Zenon, <1>1, <2>3, <2>4 DEF FullIn
<1> QED
  BY Zenon, <1>2 DEF OrderedTrip

\* A trip whose temperature is left lowers its devices in reverse order.
LEMMA DeactivateTripVisits ==
    ASSUME NEW z, NEW w, NEW i, AtTrip(z, w, i)
    PROVE  /\ TripVisited(z, w, i, DeactivateTrip(w, z, i))
           /\ IdleUntouched(w, DeactivateTrip(w, z, i))
<1> DEFINE N == NumBindings(z, i)
<1>1. /\ N \in Nat /\ N = Len(w.trips[i].cdevs) /\ TripKept(z, w, i, w)
      /\ \A k \in 1 .. N : Name(z, i, k) \in DOMAIN Devices
  BY Zenon, AtTripFacts DEF TripReady
<1> HIDE DEF N
<1>2. PICK g : DeactivateRounds(w, z, i, N, g)
  BY Zenon, <1>1, DeactivateLoop
<1>3. /\ g[0] = [w |-> w, stop |-> FALSE]
      /\ \A k \in 1 .. N : g[k] = DeactivateBinding(z, i, g[k - 1], N + 1 - k)
      /\ DeactivateTrip(w, z, i) = g[N].w
  BY Zenon, <1>2 DEF DeactivateRounds
<1> DEFINE T == {k \in 0 .. N : Deactivating(z, w, i, k, g[k])}
<1>4. 0 \in T
  <2>1. g[0].w = w /\ g[0].stop = FALSE /\ IsPass(g[0])
    BY Zenon, <1>3, FirstPass
  <2>2. \A j \in 1 .. N : ~(N - 0 < j)
    BY <1>1
  <2>3. IdleUntouched(w, w)
    BY Zenon DEF IdleUntouched
  <2>4. Deactivating(z, w, i, 0, g[0])
    BY Zenon, <1>1, <2>1, <2>2, <2>3 DEF Deactivating, N
  <2>5. 0 \in 0 .. N
    BY <1>1
  <2> QED
    BY Zenon, <2>4, <2>5
<1>5. ASSUME NEW k \in 1 .. N, k - 1 \in T PROVE k \in T
  <2>1. k \in Nat /\ k \in 0 .. N
    BY <1>1
  <2>2. Deactivating(z, w, i, k - 1, g[k - 1]) /\ g[k] = DeactivateBinding(z, i, g[k - 1], N + 1 - k)
    BY Zenon, <1>3, <1>5
  <2>3. Deactivating(z, w, i, k, g[k])
    BY Zenon, <2>1, <2>2, DeactivatingStep DEF N
  <2> QED
    BY Zenon, <2>1, <2>3
<1>6. N \in T
  <2>1. N \in 0 .. N
    BY <1>1
  <2> HIDE DEF T
  <2> QED
    BY Zenon, <1>1, <1>4, <1>5, <2>1, LoopInduction
<1> DEFINE v == g[N].w
<1>7. Deactivating(z, w, i, N, g[N])
  BY Zenon, <1>6
<1>8. ASSUME Sequential(z, i), Apart(z, i), OrderedTrip(w.cdevs, z, i)
      PROVE  OrderedTrip(v.cdevs, z, i)
  <2>1. v.cdevs = w.cdevs \/ \E m \in 1 .. N : OneLowered(z, i, m, w, v)
    BY Zenon, <1>7, <1>8 DEF Deactivating, N
  <2>2. CASE v.cdevs = w.cdevs
    BY Zenon, <1>8, <2>2
  <2>3. ASSUME NEW m \in 1 .. N, OneLowered(z, i, m, w, v) PROVE OrderedTrip(v.cdevs, z, i)
    <3> HIDE DEF v
    <3> QED
      BY Zenon, <1>1, <1>8, <2>3, LoweredInOrder DEF N
  <2> QED
    BY Zenon, <2>1, <2>2, <2>3
<1>9. TripVisited(z, w, i, v) /\ IdleUntouched(w, v)
  BY Zenon, <1>7, <1>8 DEF Deactivating, TripVisited
<1> QED
  BY Zenon, <1>3, <1>9

-----------------------------------------------------------------------------
(* A zone that is reset.                                                   *)

\* Trip i of zone z has device n to itself, and n has more than one state.
Owns(z, i, n) == Sole(z, i, n) /\ Devices[n].min_state # Devices[n].max_state

\* Nothing but devices has changed.
SameTrips(z, w, v) == Base(v, z) /\ v.trips = w.trips /\ v.power = w.power

\* A reset of device n, bound by trip i, turned w into v.
CdevReset(z, i, n, w, v) ==
    /\ SameTrips(z, w, v) /\ OnlyCdev(w, v, n)
    /\ Owns(z, i, n) => IdleIn(v.cdevs, n)

\* A round of the loop that resets a trip.
LEMMA ResetRound ==
    ASSUME NEW z, NEW i, NEW k, NEW n, NEW w, Binds(z, i, k, n), Base(w, z), NEW force
    PROVE  CdevReset(z, i, n, w, ResetBinding(z, i, w, k, force))
<1> DEFINE acc == [w |-> w, stop |-> FALSE]
           t == w.trips[i]
           b == t.cdevs[k]
           c == w.cdevs[n]
           c2 == thd_cdev_set_min_state(Devices[n], c, RequestFor(z, t, b))
           v == ResetBinding(z, i, w, k, force)
<1>1. b.cdev = n /\ n \in DOMAIN Devices /\ IsCdev(c)
  <2>1. acc.w = w /\ IsPass(acc)
    BY Zenon, FirstPass
  <2> HIDE DEF acc
  <2>2. Round(z, i, k, n, acc)
    BY Zenon, <2>1 DEF Round
  <2>3. AtBinding(z, w, i, k, n)
    BY Zenon, <2>1, <2>2, RoundFacts
  <2> QED
    BY Zenon, <2>3 DEF AtBinding
<1>2. \/ v = w /\ IdleIn(w.cdevs, n)
      \/ v = SetCdev(w, n, c2)
  BY Zenon, <1>1 DEF ResetBinding, IdleIn
<1>3. /\ IsCdev(c2)
      /\ OwnEntries(c, z, t.index) => OwnEntries(c2, z, t.index)
      /\ OwnEntries(c, z, t.index) /\ Devices[n].min_state # Devices[n].max_state
           => in_min_state(Devices[n], c2)
  BY Zenon, <1>1, ResetReleases
<1> HIDE DEF c2, v
<1>4. CASE v = w /\ IdleIn(w.cdevs, n)
  <2>1. CdevReset(z, i, n, w, v)
    BY Zenon, <1>4 DEF CdevReset, SameTrips, OnlyCdev
  <2> QED
    BY Zenon, <2>1 DEF v
<1>5. CASE v = SetCdev(w, n, c2)
  <2>1. Turns(z, i, k, n, w, c2)
    BY Zenon, <1>3 DEF Turns
  <2>2. HeldByUser(n, c2)
    BY Zenon, <2>1, CallerOwns
  <2>3. SwapsCdev(z, w, n, c2, v)
    BY Zenon, <1>1, <1>3, <1>5, <2>2 DEF SwapsCdev
  <2>4. CdevSwapped(z, w, n, c2, v)
    BY Zenon, <2>3, CdevReplaced
  <2>5. ASSUME Owns(z, i, n) PROVE IdleIn(v.cdevs, n)
    <3>1. z \in DOMAIN Zones /\ i \in 1 .. NumTrips(z) /\ Uses(z, i, n)
      BY Zenon DEF Binds, Uses
    <3>2. OwnEntries(c, z, BootTrips(z)[i].index)
      BY Zenon, <1>1, <2>5, <3>1 DEF Base, Owned, Owns
    <3>3. t.index = BootTrips(z)[i].index
      BY Zenon, <3>1 DEF Base, Shape, Like
    <3>4. in_min_state(Devices[n], c2)
      BY Zenon, <1>3, <2>5, <3>2, <3>3 DEF Owns
    <3> QED
      BY Zenon, <2>4, <3>4 DEF CdevSwapped, IdleIn
  <2>6. CdevReset(z, i, n, w, v)
    BY Zenon, <2>4, <2>5 DEF CdevReset, CdevSwapped, SameTrips
  <2> QED
    BY Zenon, <2>6 DEF v
<1> QED
  BY Zenon, <1>2, <1>4, <1>5

\* The loop that resets trip i has passed its last k bindings.
Resetting(z, w, i, k, v) ==
    /\ SameTrips(z, w, v) /\ OnlyTripCdevs(z, i, w, v)
    /\ \A j \in 1 .. NumBindings(z, i) :
         NumBindings(z, i) - k < j /\ Owns(z, i, Name(z, i, j)) => IdleIn(v.cdevs, Name(z, i, j))

\* A round of the loop.
LEMMA ResettingStep ==
    ASSUME NEW z, NEW w, NEW i, AtTrip(z, w, i), NEW k \in Nat, k \in 1 .. NumBindings(z, i),
           NEW v, Resetting(z, w, i, k - 1, v), NEW force,
           NEW u, u = ResetBinding(z, i, v, NumBindings(z, i) + 1 - k, force)
    PROVE  Resetting(z, w, i, k, u)
<1> DEFINE N == NumBindings(z, i)
           p == N + 1 - k
           n == Name(z, i, p)
<1>1. N \in Nat /\ \A j \in 1 .. N : Name(z, i, j) \in DOMAIN Devices
  BY Zenon, AtTripFacts DEF TripReady
<1>2. p \in 1 .. N
  BY <1>1
<1>3. \A j \in 1 .. N : N - k < j => j = p \/ N - (k - 1) < j
  BY <1>1
<1> HIDE DEF p
<1>4. Binds(z, i, p, n) /\ Base(v, z)
  BY Zenon, <1>1, <1>2 DEF Binds, AtTrip, Resetting, SameTrips
<1> HIDE DEF n
<1>5. CdevReset(z, i, n, v, u)
  BY Zenon, <1>4, ResetRound DEF p
<1>6. SameTrips(z, w, u)
  BY Zenon, <1>5 DEF CdevReset, Resetting, SameTrips
<1>7. OnlyTripCdevs(z, i, w, u)
  <2>1. ASSUME NEW m \in DOMAIN Devices, ~Uses(z, i, m) PROVE u.cdevs[m] = w.cdevs[m]
    <3>1. m # n
      BY Zenon, <1>2, <2>1 DEF Uses, n
    <3>2. v.cdevs[m] = w.cdevs[m]
      BY Zenon, <2>1 DEF OnlyTripCdevs, Resetting
    <3>3. u.cdevs[m] = v.cdevs[m]
      BY Zenon, <1>5, <3>1 DEF OnlyCdev, CdevReset
    <3> QED
      BY Zenon, <3>2, <3>3
  <2> QED
    BY Zenon, <2>1 DEF OnlyTripCdevs
<1>8. ASSUME NEW j \in 1 .. N, N - k < j, Owns(z, i, Name(z, i, j))
      PROVE  IdleIn(u.cdevs, Name(z, i, j))
  <2> DEFINE m == Name(z, i, j)
  <2>1. CASE m = n
    BY Zenon, <1>5, <1>8, <2>1 DEF CdevReset
  <2>2. CASE m # n
    <3>1. N - (k - 1) < j
      BY Zenon, <1>3, <1>8, <2>2 DEF n
    <3>2. IdleIn(v.cdevs, m)
      BY Zenon, <1>8, <3>1 DEF Resetting
    <3>3. u.cdevs[m] = v.cdevs[m]
      BY Zenon, <1>1, <1>5, <2>2 DEF OnlyCdev, CdevReset
    <3> QED
      BY Zenon, <3>2, <3>3 DEF IdleIn
  <2> QED
    BY Zenon, <2>1, <2>2
<1> QED
  BY Zenon, <1>6, <1>7, <1>8 DEF Resetting

\* The devices that trip i of zone z owns are idle.
TripIdle(z, i, v) ==
    \A n \in DOMAIN Devices : Uses(z, i, n) /\ Owns(z, i, n) => IdleIn(v.cdevs, n)

TripReset(z, w, i, v) ==
    SameTrips(z, w, v) /\ OnlyTripCdevs(z, i, w, v) /\ TripIdle(z, i, v)

\* A trip that is reset lets go of its devices.
LEMMA ResetTripIdles ==
    ASSUME NEW z, NEW w, NEW i, AtTrip(z, w, i), NEW force
    PROVE  TripReset(z, w, i, thd_trip_cdev_state_reset(w, z, i, force))
<1> DEFINE N == NumBindings(z, i)
<1>1. N \in Nat /\ N = Len(w.trips[i].cdevs)
  BY Zenon, AtTripFacts DEF TripReady
<1> HIDE DEF N
<1>2. PICK g : ResetRounds(w, z, i, force, N, g)
  BY Zenon, <1>1, ResetTripLoop
<1>3. /\ g[0] = w
      /\ \A k \in 1 .. N : g[k] = ResetBinding(z, i, g[k - 1], N + 1 - k, force)
      /\ thd_trip_cdev_state_reset(w, z, i, force) = g[N]
  BY Zenon, <1>2 DEF ResetRounds
<1> DEFINE T == {k \in 0 .. N : Resetting(z, w, i, k, g[k])}
<1>4. 0 \in T
  <2>1. \A j \in 1 .. N : ~(N - 0 < j)
    BY <1>1
  <2>2. SameTrips(z, w, w) /\ OnlyTripCdevs(z, i, w, w)
    BY Zenon DEF SameTrips, OnlyTripCdevs, AtTrip
  <2>3. Resetting(z, w, i, 0, g[0])
    BY Zenon, <1>3, <2>1, <2>2 DEF Resetting, N
  <2>4. 0 \in 0 .. N
    BY <1>1
  <2> QED
    BY Zenon, <2>3, <2>4
<1>5. ASSUME NEW k \in 1 .. N, k - 1 \in T PROVE k \in T
  <2>1. k \in Nat /\ k \in 0 .. N
    BY <1>1
  <2>2. Resetting(z, w, i, k - 1, g[k - 1]) /\ g[k] = ResetBinding(z, i, g[k - 1], N + 1 - k, force)
    BY Zenon, <1>3, <1>5
  <2>3. Resetting(z, w, i, k, g[k])
    BY Zenon, <2>1, <2>2, ResettingStep DEF N
  <2> QED
    BY Zenon, <2>1, <2>3
<1>6. N \in T
  <2>1. N \in 0 .. N
    BY <1>1
  <2> HIDE DEF T
  <2> QED
    BY Zenon, <1>1, <1>4, <1>5, <2>1, LoopInduction
<1>7. Resetting(z, w, i, N, g[N])
  BY Zenon, <1>6
<1>8. \A j \in 1 .. N : N - N < j
  BY <1>1
<1>9. TripIdle(z, i, g[N])
  BY Zenon, <1>7, <1>8 DEF TripIdle, Uses, Resetting, N
<1>10. TripReset(z, w, i, g[N])
  BY Zenon, <1>7, <1>9 DEF Resetting, TripReset
<1> QED
  BY Zenon, <1>3, <1>10

UsedBy(z, n) == \E i \in 1 .. NumTrips(z) : Uses(z, i, n)

\* Only devices of zone z may have changed.
OnlyZoneCdevs(z, w, v) == \A n \in DOMAIN Devices : ~UsedBy(z, n) => v.cdevs[n] = w.cdevs[n]

\* The loop that resets zone z has passed its last k trips.
ZoneResetting(z, w, k, v) ==
    /\ SameTrips(z, w, v) /\ OnlyZoneCdevs(z, w, v)
    /\ \A i \in 1 .. NumTrips(z) : NumTrips(z) - k < i => TripIdle(z, i, v)

\* A round of the loop.
LEMMA ZoneResettingStep ==
    ASSUME NEW z, z \in DOMAIN Zones, NumTrips(z) \in Nat, NEW w, NEW k \in Nat, k \in 1 .. NumTrips(z),
           NEW v, ZoneResetting(z, w, k - 1, v), NEW force,
           NEW u, u = thd_trip_cdev_state_reset(v, z, NumTrips(z) + 1 - k, force)
    PROVE  ZoneResetting(z, w, k, u)
<1> DEFINE M == NumTrips(z)
           p == M + 1 - k
<1>1. p \in 1 .. M
  OBVIOUS
<1>2. \A j \in 1 .. M : M - k < j => j = p \/ M - (k - 1) < j
  OBVIOUS
<1> HIDE DEF p
<1>3. AtTrip(z, v, p)
  BY Zenon, <1>1 DEF AtTrip, ZoneResetting, SameTrips
<1>4. TripReset(z, v, p, u)
  BY Zenon, <1>3, ResetTripIdles DEF p
<1>5. SameTrips(z, w, u)
  BY Zenon, <1>4 DEF TripReset, ZoneResetting, SameTrips
<1>6. OnlyZoneCdevs(z, w, u)
  <2>1. ASSUME NEW n \in DOMAIN Devices, ~UsedBy(z, n) PROVE u.cdevs[n] = w.cdevs[n]
    <3>1. ~Uses(z, p, n)
      BY Zenon, <1>1, <2>1 DEF UsedBy
    <3>2. v.cdevs[n] = w.cdevs[n]
      BY Zenon, <2>1 DEF OnlyZoneCdevs, ZoneResetting
    <3>3. u.cdevs[n] = v.cdevs[n]
      BY Zenon, <1>4, <3>1 DEF OnlyTripCdevs, TripReset
    <3> QED
      BY Zenon, <3>2, <3>3
  <2> QED
    BY Zenon, <2>1 DEF OnlyZoneCdevs
<1>7. ASSUME NEW j \in 1 .. M, M - k < j PROVE TripIdle(z, j, u)
  <2>1. CASE j = p
    BY Zenon, <1>4, <2>1 DEF TripReset
  <2>2. ASSUME j # p, NEW n \in DOMAIN Devices, Uses(z, j, n), Owns(z, j, n)
        PROVE  IdleIn(u.cdevs, n)
    <3>1. IdleIn(v.cdevs, n)
      BY Zenon, <1>2, <1>7, <2>2 DEF ZoneResetting, TripIdle
    <3>2. ~Uses(z, p, n)
      BY Zenon, <1>1, <2>2 DEF Owns, Sole
    <3>3. u.cdevs[n] = v.cdevs[n]
      BY Zenon, <1>4, <3>2 DEF OnlyTripCdevs, TripReset
    <3> QED
      BY Zenon, <3>1, <3>3 DEF IdleIn
  <2> QED
    BY Zenon, <2>1, <2>2 DEF TripIdle
<1> QED
  BY Zenon, <1>5, <1>6, <1>7 DEF ZoneResetting

\* The devices that the trips of zone z own are idle.
ZoneIdle(z, v) == \A i \in 1 .. NumTrips(z) : TripIdle(z, i, v)

ZoneReset(z, w, v) == SameTrips(z, w, v) /\ OnlyZoneCdevs(z, w, v) /\ ZoneIdle(z, v)

\* A zone that is reset lets go of its devices.
LEMMA ZoneResetIdles ==
    ASSUME NEW z, z \in DOMAIN Zones, NEW w, Base(w, z), NEW force
    PROVE  ZoneReset(z, w, zone_reset(w, z, force))
<1> DEFINE M == NumTrips(z)
<1>1. M \in Nat /\ M = Len(w.trips)
  BY ElementOfList DEF Base, Shape
<1> HIDE DEF M
<1>2. PICK g : ZoneResetRounds(w, z, force, M, g)
  BY Zenon, <1>1, ResetZoneLoop
<1>3. /\ g[0] = w
      /\ \A k \in 1 .. M : g[k] = thd_trip_cdev_state_reset(g[k - 1], z, M + 1 - k, force)
      /\ zone_reset(w, z, force) = g[M]
  BY Zenon, <1>2 DEF ZoneResetRounds
<1> DEFINE T == {k \in 0 .. M : ZoneResetting(z, w, k, g[k])}
<1>4. 0 \in T
  <2>1. \A j \in 1 .. M : ~(M - 0 < j)
    BY <1>1
  <2>2. SameTrips(z, w, w) /\ OnlyZoneCdevs(z, w, w)
    BY Zenon DEF SameTrips, OnlyZoneCdevs
  <2>3. ZoneResetting(z, w, 0, g[0])
    BY Zenon, <1>3, <2>1, <2>2 DEF ZoneResetting, M
  <2>4. 0 \in 0 .. M
    BY <1>1
  <2> QED
    BY Zenon, <2>3, <2>4
<1>5. ASSUME NEW k \in 1 .. M, k - 1 \in T PROVE k \in T
  <2>1. k \in Nat /\ k \in 0 .. M
    BY <1>1
  <2>2. ZoneResetting(z, w, k - 1, g[k - 1]) /\ g[k] = thd_trip_cdev_state_reset(g[k - 1], z, M + 1 - k, force)
    BY Zenon, <1>3, <1>5
  <2>3. ZoneResetting(z, w, k, g[k])
    BY Zenon, <1>1, <2>1, <2>2, ZoneResettingStep DEF M
  <2> QED
    BY Zenon, <2>1, <2>3
<1>6. M \in T
  <2>1. M \in 0 .. M
    BY <1>1
  <2> HIDE DEF T
  <2> QED
    BY Zenon, <1>1, <1>4, <1>5, <2>1, LoopInduction
<1>7. ZoneResetting(z, w, M, g[M])
  BY Zenon, <1>6
<1>8. \A j \in 1 .. M : M - M < j
  BY <1>1
<1>9. ZoneReset(z, w, g[M])
  BY Zenon, <1>7, <1>8 DEF ZoneReset, ZoneIdle, ZoneResetting, M
<1> QED
  BY Zenon, <1>3, <1>9

-----------------------------------------------------------------------------
(* A trip that is checked.                                                 *)

\* Trip i of zone z becomes t, and w becomes v.
Touches(z, w, i, t, v) ==
    /\ AtTrip(z, w, i) /\ Like(t, BootTrips(z)[i])
    /\ IsWorld(v) /\ v.cdevs = w.cdevs /\ v.trips = [w.trips EXCEPT ![i] = t]

TripTouched(z, w, i, t, v) ==
    /\ Base(v, z) /\ v.cdevs = w.cdevs /\ v.trips[i] = t
    /\ \A j \in 1 .. NumTrips(z) : j # i => v.trips[j] = w.trips[j]

\* The switches and the counter of a trip do not change its shape.
LEMMA TouchKeeps ==
    ASSUME NEW z, NEW w, NEW i, NEW t, NEW v, Touches(z, w, i, t, v)
    PROVE  TripTouched(z, w, i, t, v)
<1> DEFINE ts == w.trips
           us == v.trips
<1>1. SwapsTrip(z, ts, i, t, us)
  BY Zenon DEF Touches, AtTrip, Base, SwapsTrip
<1>2. IsWorld(v) /\ v.cdevs = w.cdevs /\ IsCdevs(w.cdevs) /\ Owned(w.cdevs)
  BY Zenon DEF Touches, AtTrip, Base
<1> HIDE DEF ts, us
<1>3. TripSwapped(z, ts, i, t, us)
  BY Zenon, <1>1, ShapeReplaced
<1>4. Shape(us, z) /\ us[i] = t /\ \A j \in 1 .. NumTrips(z) : j # i => us[j] = ts[j]
  BY Zenon, <1>3 DEF TripSwapped
<1>5. Base(v, z)
  BY Zenon, <1>2, <1>4 DEF Base, us
<1> QED
  BY Zenon, <1>2, <1>4, <1>5 DEF TripTouched, us, ts

\* A trip with other switches is like the trip.
LEMMA SwitchesLike ==
    ASSUME NEW t, NEW x, Like(t, x), NEW s \in BOOLEAN, NEW m \in Nat
    PROVE  /\ Like([t EXCEPT !.trip_on = s], x) /\ [t EXCEPT !.trip_on = s].poll_on = t.poll_on
           /\ Like([t EXCEPT !.poll_on = s], x) /\ [t EXCEPT !.poll_on = s].poll_on = s
           /\ Like([t EXCEPT !.crit_trip_count = m], x)
           /\ [t EXCEPT !.crit_trip_count = m].poll_on = t.poll_on
<1>1. t \in TripType
  BY Zenon DEF Like
<1> DEFINE t1 == [t EXCEPT !.trip_on = s]
           t2 == [t EXCEPT !.poll_on = s]
           t3 == [t EXCEPT !.crit_trip_count = m]
           Same(u) == /\ u.index = t.index /\ u.type = t.type /\ u.sensor = t.sensor
                      /\ u.control_type = t.control_type /\ u.depend = t.depend
                      /\ u.temp = t.temp /\ u.cdevs = t.cdevs
<1>2. t1 \in TripType /\ Same(t1) /\ t1.poll_on = t.poll_on
  BY Zenon, <1>1 DEF TripType
<1>3. t2 \in TripType /\ Same(t2) /\ t2.poll_on = s
  BY Zenon, <1>1 DEF TripType
<1>4. t3 \in TripType /\ Same(t3) /\ t3.poll_on = t.poll_on
  BY Zenon, <1>1 DEF TripType
<1> HIDE DEF t1, t2, t3
<1>5. ASSUME NEW u \in TripType, Same(u) PROVE Like(u, x)
  BY Zenon, <1>5 DEF Like
<1>6. Like(t1, x) /\ Like(t2, x) /\ Like(t3, x)
  BY Zenon, <1>2, <1>3, <1>4, <1>5
<1> QED
  BY Zenon, <1>2, <1>3, <1>4, <1>6 DEF t1, t2, t3

SamePolls(z, w, v) == \A j \in 1 .. NumTrips(z) : v.trips[j].poll_on = w.trips[j].poll_on

\* A CRITICAL or HOT trip only counts, and asks for power.
LEMMA CriticalKeeps ==
    ASSUME NEW z, NEW w, NEW i, AtTrip(z, w, i), NEW x
    PROVE  LET v == CheckCritical(w, i, x)
           IN  Base(v, z) /\ v.cdevs = w.cdevs /\ SamePolls(z, w, v)
<1> DEFINE t == w.trips[i]
           v == CheckCritical(w, i, x)
<1>1. Like(t, BootTrips(z)[i])
  BY Zenon DEF AtTrip, Base, Shape
<1>2. \E m \in Nat : \/ v = [w EXCEPT !.trips[i].crit_trip_count = m]
                     \/ \E pw : v = [w EXCEPT !.trips[i].crit_trip_count = m, !.power = pw]
  <2>1. t.crit_trip_count \in Nat
    BY Zenon, <1>1 DEF Like, TripType
  <2>2. 0 \in Nat /\ t.crit_trip_count + 1 \in Nat
    BY <2>1
  <2> QED
    BY Zenon, <2>2 DEF CheckCritical
<1>3. PICK m \in Nat : \/ v = [w EXCEPT !.trips[i].crit_trip_count = m]
                       \/ \E pw : v = [w EXCEPT !.trips[i].crit_trip_count = m, !.power = pw]
  BY Zenon, <1>2
<1> DEFINE t1 == [t EXCEPT !.crit_trip_count = m]
<1>4. Like(t1, BootTrips(z)[i]) /\ t1.poll_on = t.poll_on
  BY Zenon, <1>1, SwitchesLike
<1>5. IsWorld(v) /\ v.cdevs = w.cdevs /\ v.trips = [w.trips EXCEPT ![i] = t1]
  <2>1. IsWorld(w)
    BY Zenon DEF AtTrip, Base
  <2> HIDE DEF v
  <2> QED
    BY Zenon, <1>3, <2>1 DEF IsWorld, WorldFields
<1> HIDE DEF v, t1
<1>6. Touches(z, w, i, t1, v)
  BY Zenon, <1>4, <1>5 DEF Touches
<1>7. TripTouched(z, w, i, t1, v)
  BY Zenon, <1>6, TouchKeeps
<1>8. SamePolls(z, w, v)
  BY Zenon, <1>4, <1>7 DEF TripTouched, SamePolls
<1> QED
  BY Zenon, <1>7, <1>8 DEF TripTouched, v

Noted(w, v) == IsWorld(v) /\ v.cdevs = w.cdevs /\ v.trips = w.trips

\* Messages and thresholds are no part of what is shown here.
LEMMA NotesKept ==
    ASSUME NEW w, IsWorld(w), NEW ids, NEW s, NEW x
    PROVE  Noted(w, set_threshold(Send(w, ids, s), s, x))
<1> DEFINE u == Send(w, ids, s)
           v == set_threshold(u, s, x)
<1>1. IsWorld(u) /\ u.cdevs = w.cdevs /\ u.trips = w.trips
  BY Zenon DEF Send, IsWorld, WorldFields
<1> HIDE DEF u
<1>2. v = u \/ \E y : v = [u EXCEPT !.threshold = y]
  BY Zenon DEF set_threshold
<1> HIDE DEF v
<1>3. IsWorld(v) /\ v.cdevs = u.cdevs /\ v.trips = u.trips
  BY Zenon, <1>1, <1>2 DEF IsWorld, WorldFields
<1> QED
  BY Zenon, <1>1, <1>3 DEF u, v, Noted

\* Trip i, a polling trip, has been shown x.
PollSet(z, w, i, x, v) ==
    /\ Base(v, z) /\ v.cdevs = w.cdevs
    /\ \A j \in 1 .. NumTrips(z) : j # i => v.trips[j].poll_on = w.trips[j].poll_on
    /\ x >= w.trips[i].temp => v.trips[i].poll_on = TRUE
    /\ ~(x >= w.trips[i].temp) => v.trips[i].poll_on = FALSE

\* A polling trip is on after it has been shown its temperature, and only then.
LEMMA PollingSwitches ==
    ASSUME NEW z, NEW w, NEW i, AtTrip(z, w, i), NEW x \in Int
    PROVE  PollSet(z, w, i, x, CheckPolling(w, i, x))
<1> DEFINE t  == w.trips[i]
           v  == CheckPolling(w, i, x)
           T1 == [t EXCEPT !.poll_on = TRUE]
           T0 == [t EXCEPT !.poll_on = FALSE]
           w1 == [w EXCEPT !.trips[i].poll_on = TRUE]
           w0 == [w EXCEPT !.trips[i].poll_on = FALSE]
<1>1. Like(t, BootTrips(z)[i]) /\ IsWorld(w)
  BY Zenon DEF AtTrip, Base, Shape
<1>2. t.temp \in Int /\ t.poll_on \in BOOLEAN
  BY Zenon, <1>1 DEF Like, TripType
<1>3. x < t.temp <=> ~(x >= t.temp)
  BY <1>2
<1>4. \/ ~t.poll_on /\ x >= t.temp
         /\ v = set_threshold(Send(w1, <<"POLL_ENABLE", "FAST_POLL_ENABLE">>, t.sensor), t.sensor, t.temp)
      \/ t.poll_on /\ ~(x >= t.temp)
         /\ v = set_threshold(Send(w0, <<"POLL_DISABLE", "FAST_POLL_DISABLE">>, t.sensor), t.sensor, t.temp)
      \/ (t.poll_on <=> x >= t.temp) /\ v = w
  BY Zenon, <1>3 DEF CheckPolling
<1>5. /\ Like(T1, BootTrips(z)[i]) /\ T1.poll_on = TRUE
      /\ Like(T0, BootTrips(z)[i]) /\ T0.poll_on = FALSE
  <2>1. 0 \in Nat /\ TRUE \in BOOLEAN /\ FALSE \in BOOLEAN
    OBVIOUS
  <2> QED
    BY Zenon, <1>1, <2>1, SwitchesLike
<1>6. /\ IsWorld(w1) /\ w1.cdevs = w.cdevs /\ w1.trips = [w.trips EXCEPT ![i] = T1]
      /\ IsWorld(w0) /\ w0.cdevs = w.cdevs /\ w0.trips = [w.trips EXCEPT ![i] = T0]
  BY Zenon, <1>1 DEF IsWorld, WorldFields
<1> HIDE DEF v, w1, w0, T1, T0
<1>7. ASSUME NEW u, NEW s, IsWorld(v), v.cdevs = w.cdevs, v.trips = [w.trips EXCEPT ![i] = u],
             Like(u, BootTrips(z)[i]), u.poll_on = s
      PROVE  /\ Base(v, z) /\ v.cdevs = w.cdevs /\ v.trips[i].poll_on = s
             /\ \A j \in 1 .. NumTrips(z) : j # i => v.trips[j].poll_on = w.trips[j].poll_on
  <2>1. Touches(z, w, i, u, v)
    BY Zenon, <1>7 DEF Touches
  <2>2. TripTouched(z, w, i, u, v)
    BY Zenon, <2>1, TouchKeeps
  <2> QED
    BY Zenon, <1>7, <2>2 DEF TripTouched
<1>8. CASE ~t.poll_on /\ x >= t.temp
      /\ v = set_threshold(Send(w1, <<"POLL_ENABLE", "FAST_POLL_ENABLE">>, t.sensor), t.sensor, t.temp)
  <2>1. Noted(w1, v)
    BY Zenon, <1>6, <1>8, NotesKept
  <2>2. IsWorld(v) /\ v.cdevs = w.cdevs /\ v.trips = [w.trips EXCEPT ![i] = T1]
    BY Zenon, <1>6, <2>1 DEF Noted
  <2>3. /\ Base(v, z) /\ v.cdevs = w.cdevs /\ v.trips[i].poll_on = TRUE
        /\ \A j \in 1 .. NumTrips(z) : j # i => v.trips[j].poll_on = w.trips[j].poll_on
    BY Zenon, <1>5, <1>7, <2>2
  <2> QED
    BY Zenon, <1>8, <2>3 DEF PollSet, v
<1>9. CASE t.poll_on /\ ~(x >= t.temp)
      /\ v = set_threshold(Send(w0, <<"POLL_DISABLE", "FAST_POLL_DISABLE">>, t.sensor), t.sensor, t.temp)
  <2>1. Noted(w0, v)
    BY Zenon, <1>6, <1>9, NotesKept
  <2>2. IsWorld(v) /\ v.cdevs = w.cdevs /\ v.trips = [w.trips EXCEPT ![i] = T0]
    BY Zenon, <1>6, <2>1 DEF Noted
  <2>3. /\ Base(v, z) /\ v.cdevs = w.cdevs /\ v.trips[i].poll_on = FALSE
        /\ \A j \in 1 .. NumTrips(z) : j # i => v.trips[j].poll_on = w.trips[j].poll_on
    BY Zenon, <1>5, <1>7, <2>2
  <2> QED
    BY Zenon, <1>9, <2>3 DEF PollSet, v
<1>10. CASE (t.poll_on <=> x >= t.temp) /\ v = w
  <2>1. /\ x >= t.temp => v.trips[i].poll_on = TRUE
        /\ ~(x >= t.temp) => v.trips[i].poll_on = FALSE
    BY Zenon, <1>2, <1>10
  <2>2. Base(w, z)
    BY Zenon DEF AtTrip
  <2> QED
    BY Zenon, <1>10, <2>1, <2>2 DEF PollSet, v
<1> QED
  BY Zenon, <1>4, <1>8, <1>9, <1>10

\* A control trip of zone z has been shown x: what it raises, it is reached.
Controlled(z, w, i, x, v) ==
    /\ Base(v, z) /\ OnlyTripCdevs(z, i, w, v) /\ SamePolls(z, w, v)
    /\ Sequential(z, i) /\ Apart(z, i) /\ OrderedTrip(w.cdevs, z, i) => OrderedTrip(v.cdevs, z, i)
    /\ IdleUntouched(w, v) \/ x >= w.trips[i].temp

\* A passive, active or max trip.
LEMMA ControlKeeps ==
    ASSUME NEW z, NEW w, NEW i, AtTrip(z, w, i), NEW x
    PROVE  Controlled(z, w, i, x, CheckControl(w, z, i, x))
<1> DEFINE t  == w.trips[i]
           v  == CheckControl(w, z, i, x)
           T1 == [t EXCEPT !.trip_on = TRUE]
           T0 == [t EXCEPT !.trip_on = FALSE]
           w1 == [w EXCEPT !.trips[i].trip_on = TRUE]
           w0 == [w EXCEPT !.trips[i].trip_on = FALSE]
<1>1. Like(t, BootTrips(z)[i]) /\ IsWorld(w) /\ Base(w, z) /\ z \in DOMAIN Zones /\ i \in 1 .. NumTrips(z)
  BY Zenon DEF AtTrip, Base, Shape
<1>2. \/ x >= t.temp /\ v = ActivateTrip(w1, z, i)
      \/ v = DeactivateTrip(w0, z, i)
      \/ v = w
  BY Zenon DEF CheckControl
<1>3. /\ Like(T1, BootTrips(z)[i]) /\ T1.poll_on = t.poll_on
      /\ Like(T0, BootTrips(z)[i]) /\ T0.poll_on = t.poll_on
  <2>1. 0 \in Nat /\ TRUE \in BOOLEAN /\ FALSE \in BOOLEAN
    OBVIOUS
  <2> QED
    BY Zenon, <1>1, <2>1, SwitchesLike
<1>4. /\ IsWorld(w1) /\ w1.cdevs = w.cdevs /\ w1.trips = [w.trips EXCEPT ![i] = T1]
      /\ IsWorld(w0) /\ w0.cdevs = w.cdevs /\ w0.trips = [w.trips EXCEPT ![i] = T0]
  BY Zenon, <1>1 DEF IsWorld, WorldFields
<1> HIDE DEF v, w1, w0, T1, T0
<1>5. AtTrip(z, w1, i) /\ SamePolls(z, w, w1) /\ AtTrip(z, w0, i) /\ SamePolls(z, w, w0)
  <2>1. Touches(z, w, i, T1, w1) /\ Touches(z, w, i, T0, w0)
    BY Zenon, <1>3, <1>4 DEF Touches
  <2>2. TripTouched(z, w, i, T1, w1) /\ TripTouched(z, w, i, T0, w0)
    BY Zenon, <2>1, TouchKeeps
  <2>3. SamePolls(z, w, w1) /\ SamePolls(z, w, w0)
    BY Zenon, <1>3, <2>2 DEF SamePolls, TripTouched
  <2> QED
    BY Zenon, <1>1, <2>2, <2>3 DEF AtTrip, TripTouched
<1>6. ASSUME NEW u, AtTrip(z, u, i), SamePolls(z, w, u), u.cdevs = w.cdevs, TripVisited(z, u, i, v)
      PROVE  /\ Base(v, z) /\ OnlyTripCdevs(z, i, w, v) /\ SamePolls(z, w, v)
             /\ Sequential(z, i) /\ Apart(z, i) /\ OrderedTrip(w.cdevs, z, i) => OrderedTrip(v.cdevs, z, i)
  <2>1. Base(v, z) /\ SameFlags(u, v) /\ OnlyTripCdevs(z, i, u, v)
    BY Zenon, <1>6 DEF TripVisited, TripKept
  <2>2. Len(u.trips) = NumTrips(z)
    BY Zenon, <1>6 DEF AtTrip, Base, Shape
  <2>3. SamePolls(z, w, v)
    BY Zenon, <1>6, <2>1, <2>2 DEF SamePolls, SameFlags
  <2>4. OnlyTripCdevs(z, i, w, v)
    BY Zenon, <1>6, <2>1 DEF OnlyTripCdevs
  <2>5. Sequential(z, i) /\ Apart(z, i) /\ OrderedTrip(w.cdevs, z, i) => OrderedTrip(v.cdevs, z, i)
    BY Zenon, <1>6 DEF TripVisited
  <2> QED
    BY Zenon, <2>1, <2>3, <2>4, <2>5
<1>7. CASE x >= t.temp /\ v = ActivateTrip(w1, z, i)
  <2>1. TripVisited(z, w1, i, v)
    BY Zenon, <1>5, <1>7, ActivateTripVisits
  <2> QED
    BY Zenon, <1>4, <1>5, <1>6, <1>7, <2>1 DEF Controlled, v
<1>8. CASE v = DeactivateTrip(w0, z, i)
  <2>1. TripVisited(z, w0, i, v) /\ IdleUntouched(w0, v)
    BY Zenon, <1>5, <1>8, DeactivateTripVisits
  <2>2. IdleUntouched(w, v)
    BY Zenon, <1>4, <2>1 DEF IdleUntouched
  <2> QED
    BY Zenon, <1>4, <1>5, <1>6, <2>1, <2>2 DEF Controlled, v
<1>9. CASE v = w
  <2>1. IdleUntouched(w, w) /\ OnlyTripCdevs(z, i, w, w) /\ SamePolls(z, w, w)
    BY Zenon DEF IdleUntouched, OnlyTripCdevs, SamePolls
  <2> QED
    BY Zenon, <1>1, <1>9, <2>1 DEF Controlled, v
<1> QED
  BY Zenon, <1>2, <1>7, <1>8, <1>9

-----------------------------------------------------------------------------
(* The trips a zone starts with.                                           *)

\* Bindings to different devices.
DistinctCdevs(bs) ==
    /\ bs \in Seq(BindingType)
    /\ \A k, l \in 1 .. Len(bs) : bs[k].cdev = bs[l].cdev => k = l

\* The least element of a set of positions is one of them.
LEMMA MinInSet ==
    ASSUME NEW S \in SUBSET Nat, S # {}
    PROVE  Min(S) \in S
<1>1. \E x \in S : \A y \in S : x <= y
  BY Zenon, LeastNatural
<1> QED
  BY Zenon, <1>1 DEF Min

\* Sorting keeps the bindings of a trip.
LEMMA SortKeepsDistinct ==
    ASSUME Sorting, NEW bs, DistinctCdevs(bs), NEW key \in [DOMAIN bs -> Int]
    PROVE  DistinctCdevs(SortByKey(bs, key))
<1> DEFINE n == Len(bs)
<1>1. bs \in Seq(BindingType) /\ n \in Nat /\ DOMAIN bs = 1 .. n
  BY ElementOfList DEF DistinctCdevs
<1>2. PICK p \in Bijection(1 .. n, 1 .. n) : SortByKey(bs, key) = [k \in 1 .. n |-> bs[p[k]]]
  BY Zenon, <1>1 DEF Sorting
<1> DEFINE s == [k \in 1 .. n |-> bs[p[k]]]
<1>3. p \in [1 .. n -> 1 .. n] /\ \A k, l \in 1 .. n : p[k] = p[l] => k = l
  BY <1>2 DEF Bijection, Injection, Surjection, IsInjective
<1>4. \A k \in 1 .. n : bs[k] \in BindingType
  BY <1>1, ElementOfList
<1>5. s \in Seq(BindingType) /\ Len(s) = n
  BY <1>1, <1>3, <1>4
<1>6. \A k \in 1 .. n : s[k] = bs[p[k]]
  OBVIOUS
<1> HIDE DEF s
<1>7. \A k, l \in 1 .. n : s[k].cdev = s[l].cdev => k = l
  <2> SUFFICES ASSUME NEW k \in 1 .. n, NEW l \in 1 .. n, s[k].cdev = s[l].cdev PROVE k = l
    OBVIOUS
  <2>1. p[k] \in 1 .. n /\ p[l] \in 1 .. n
    BY <1>3
  <2>2. bs[p[k]].cdev = bs[p[l]].cdev
    BY Zenon, <1>6
  <2>3. p[k] = p[l]
    BY Zenon, <2>1, <2>2 DEF DistinctCdevs
  <2> QED
    BY Zenon, <1>3, <2>3
<1>8. DistinctCdevs(s)
  BY Zenon, <1>5, <1>7 DEF DistinctCdevs
<1> QED
  BY Zenon, <1>2, <1>8 DEF s

\* A trip binds a device once.
LEMMA AddKeepsDistinct ==
    ASSUME Sorting, NEW bs, DistinctCdevs(bs), NEW b \in BindingType
    PROVE  DistinctCdevs(trip_cdev_add(bs, b))
<1> DEFINE same  == {i \in DOMAIN bs : bs[i].cdev = b.cdev}
           added == IF same = {} THEN Append(bs, b)
                    ELSE [bs EXCEPT ![Min(same)].influence = b.influence]
           n     == Len(bs)
           key   == [i \in DOMAIN added |-> -added[i].influence]
<1>1. bs \in Seq(BindingType) /\ n \in Nat /\ DOMAIN bs = 1 .. n
  BY ElementOfList DEF DistinctCdevs
<1>2. \A k \in 1 .. n : bs[k] \in BindingType
  BY <1>1, ElementOfList
<1>3. ASSUME same = {} PROVE DistinctCdevs(added)
  <2>1. \A k \in 1 .. n : bs[k].cdev # b.cdev
    BY <1>1, <1>3
  <2>2. added = Append(bs, b)
    BY Zenon, <1>3
  <2> HIDE DEF added, same
  <2>3. added \in Seq(BindingType) /\ Len(added) = n + 1 /\ added[n + 1] = b
    BY <1>1, <2>2
  <2>4. \A k \in 1 .. n : added[k] = bs[k]
    BY <1>1, <2>2
  <2>5. \A k \in 1 .. n + 1 : k \in 1 .. n \/ k = n + 1
    BY <1>1
  <2> HIDE DEF n
  <2>6. \A k, l \in 1 .. Len(added) : added[k].cdev = added[l].cdev => k = l
    <3> SUFFICES ASSUME NEW k \in 1 .. n + 1, NEW l \in 1 .. n + 1,
                        added[k].cdev = added[l].cdev
                 PROVE  k = l
      BY Zenon, <2>3
    <3>1. CASE k \in 1 .. n /\ l \in 1 .. n
      <4>1. bs[k].cdev = bs[l].cdev
        BY Zenon, <2>4, <3>1
      <4> QED
        BY Zenon, <3>1, <4>1 DEF DistinctCdevs, n
    <3>2. CASE k = n + 1 /\ l \in 1 .. n
      BY Zenon, <2>1, <2>3, <2>4, <3>2
    <3>3. CASE k \in 1 .. n /\ l = n + 1
      BY Zenon, <2>1, <2>3, <2>4, <3>3
    <3> QED
      BY Zenon, <2>5, <3>1, <3>2, <3>3
  <2> QED
    BY Zenon, <2>3, <2>6 DEF DistinctCdevs
<1>4. ASSUME same # {} PROVE DistinctCdevs(added)
  <2> DEFINE m == Min(same)
             c == [bs[m] EXCEPT !.influence = b.influence]
  <2>1. same \in SUBSET Nat
    BY <1>1
  <2>2. m \in same
    BY Zenon, <1>4, <2>1, MinInSet
  <2>3. m \in 1 .. n
    BY <1>1, <2>2
  <2>4. c \in BindingType /\ c.cdev = bs[m].cdev
    <3>1. bs[m] \in BindingType
      BY <1>2, <2>3
    <3> HIDE DEF m
    <3> QED
      BY Zenon, <3>1 DEF BindingType
  <2>5. added = [bs EXCEPT ![m] = c]
    BY Zenon, <1>4
  <2> HIDE DEF m, c, added, same
  <2>6. added \in Seq(BindingType) /\ Len(added) = n
    BY <1>1, <2>3, <2>4, <2>5
  <2>7. \A k \in 1 .. n : added[k] = IF k = m THEN c ELSE bs[k]
    BY <1>1, <2>3, <2>5
  <2>8. \A k \in 1 .. n : added[k].cdev = bs[k].cdev
    BY Zenon, <2>4, <2>7
  <2>9. \A k, l \in 1 .. Len(added) : added[k].cdev = added[l].cdev => k = l
    <3> SUFFICES ASSUME NEW k \in 1 .. n, NEW l \in 1 .. n, added[k].cdev = added[l].cdev
                 PROVE  k = l
      BY Zenon, <2>6
    <3>1. bs[k].cdev = bs[l].cdev
      BY Zenon, <2>8
    <3> QED
      BY Zenon, <3>1 DEF DistinctCdevs
  <2> QED
    BY Zenon, <2>6, <2>9 DEF DistinctCdevs
<1> HIDE DEF added
<1>5. DistinctCdevs(added)
  BY Zenon, <1>3, <1>4
<1>6. key \in [DOMAIN added -> Int]
  <2>1. \A i \in DOMAIN added : added[i] \in BindingType
    BY <1>5, ElementOfList DEF DistinctCdevs
  <2>2. \A i \in DOMAIN added : added[i].influence \in Int
    BY Zenon, <2>1 DEF BindingType
  <2> QED
    BY <2>2
<1>7. DistinctCdevs(SortByKey(added, key))
  <2> HIDE DEF key
  <2> QED
    BY Zenon, <1>5, <1>6, SortKeepsDistinct
<1> QED
  BY Zenon, <1>7 DEF trip_cdev_add, added, same

\* Trip u is trip t once its devices are bound.
BoundFrom(t, u) ==
    /\ u \in TripType
    /\ u.type = t.type /\ u.temp = t.temp /\ u.poll_on = t.poll_on
    /\ DistinctCdevs(u.cdevs)

\* Loading a trip's bindings one by one leaves one binding per device.
LEMMA BoundTyped ==
    ASSUME Sorting, NEW t \in TripType
    PROVE  BoundFrom(t, Bound(t))
<1> DEFINE n == Len(t.cdevs)
<1>1. t.cdevs \in Seq(BindingType)
  BY Zenon DEF TripType
<1>2. n \in Nat
  BY <1>1
<1>3. PICK g : BoundRounds(t, n, g)
  BY Zenon, <1>2, BoundLoop
<1>4. g[0] = << >> /\ Bound(t) = [t EXCEPT !.cdevs = g[n]]
  BY Zenon, <1>3 DEF BoundRounds
<1>5. \A k \in 1 .. n : t.cdevs[k] \in BindingType
  BY <1>1, ElementOfList
<1> DEFINE T == {k \in 0 .. n : DistinctCdevs(g[k])}
<1>6. 0 \in T
  <2>1. << >> \in Seq(BindingType) /\ Len(<< >>) = 0 /\ \A k \in 1 .. 0 : FALSE
    OBVIOUS
  <2>2. DistinctCdevs(<< >>)
    BY Zenon, <2>1 DEF DistinctCdevs
  <2> QED
    BY <1>2, <1>4, <2>2
<1>7. \A k \in 1 .. n : k - 1 \in T => k \in T
  <2> SUFFICES ASSUME NEW k \in 1 .. n, k - 1 \in T PROVE k \in T
    OBVIOUS
  <2>1. DistinctCdevs(g[k - 1])
    OBVIOUS
  <2>2. g[k] = trip_cdev_add(g[k - 1], t.cdevs[k])
    BY Zenon, <1>3 DEF BoundRounds
  <2>3. DistinctCdevs(trip_cdev_add(g[k - 1], t.cdevs[k]))
    BY Zenon, <1>5, <2>1, AddKeepsDistinct
  <2> QED
    BY <1>2, <2>2, <2>3
<1>8. \A k \in 0 .. n : k \in T
  <2> HIDE DEF T, n
  <2> QED
    BY Zenon, <1>2, <1>6, <1>7, LoopInduction
<1>9. DistinctCdevs(g[n])
  BY <1>2, <1>8
<1> HIDE DEF n
<1>10. g[n] \in Seq(BindingType)
  BY Zenon, <1>9 DEF DistinctCdevs
<1>11. DOMAIN t = {"index", "type", "temp", "hyst", "sensor", "control_type", "trip_on",
                   "poll_on", "crit_trip_count", "depend", "cdevs"}
  BY Zenon DEF TripType
<1>12. Bound(t).type = t.type /\ Bound(t).temp = t.temp /\ Bound(t).poll_on = t.poll_on
  BY <1>4, <1>11
<1>13. Bound(t).cdevs = g[n]
  BY <1>4, <1>11
<1>14. Bound(t) \in TripType
  BY Zenon, <1>4, <1>10 DEF TripType
<1>15. DistinctCdevs(Bound(t).cdevs)
  BY Zenon, <1>9, <1>13
<1> QED
  BY Zenon, <1>12, <1>14, <1>15 DEF BoundFrom

\* A trip as a zone starts with it.
BootTrip(t) == t \in TripType /\ t.poll_on = FALSE /\ DistinctCdevs(t.cdevs)

\* The first c trips of zone z are the configured ones, and a polling trip
\* for each sensor follows, all at one temperature.
PollingLast(z, c) ==
    /\ c \in Nat /\ NumTrips(z) = c + Len(Zones[z].sensors)
    /\ \A i \in 1 .. c : BootTrips(z)[i].type # "POLLING"
    /\ \A k \in 1 .. Len(Zones[z].sensors) :
         BootTrips(z)[c + k].type = "POLLING" /\ BootTrips(z)[c + k].sensor = Zones[z].sensors[k]
         /\ BootTrips(z)[c + k].depend = NoDepend
    /\ \A k, l \in 1 .. Len(Zones[z].sensors) : BootTrips(z)[c + k].temp = BootTrips(z)[c + l].temp

\* A polling trip has its type.
LEMMA PollingTyped ==
    ASSUME NEW m \in Nat, NEW x \in Int, NEW s \in Nat
    PROVE  /\ BootTrip(PollingTrip(m, x, s))
           /\ PollingTrip(m, x, s).type = "POLLING" /\ PollingTrip(m, x, s).sensor = s
           /\ PollingTrip(m, x, s).depend = NoDepend /\ PollingTrip(m, x, s).temp = x
<1> DEFINE t == PollingTrip(m, x, s)
<1>1. << >> \in Seq(BindingType) /\ Len(<< >>) = 0 /\ (\A k \in 1 .. 0 : FALSE) /\ 0 \in Int /\ 0 \in Nat
  OBVIOUS
<1>2. t \in TripType
  BY <1>1 DEF PollingTrip, TripType
<1>3. t.poll_on = FALSE /\ t.type = "POLLING" /\ t.sensor = s /\ t.depend = NoDepend /\ t.cdevs = << >>
      /\ t.temp = x
  BY DEF PollingTrip
<1>4. DistinctCdevs(<< >>)
  BY Zenon, <1>1 DEF DistinctCdevs
<1> HIDE DEF t
<1>5. BootTrip(t)
  BY Zenon, <1>2, <1>3, <1>4 DEF BootTrip
<1> QED
  BY Zenon, <1>3, <1>5 DEF t

\* What is known of the configured trips of a zone once they are bound.
LEMMA ConfiguredTrips ==
    ASSUME Sorting, NEW z \in DOMAIN Zones
    PROVE  /\ Zones[z].sensors \in Seq(Nat)
           /\ [i \in DOMAIN Zones[z].trips |-> Bound(Zones[z].trips[i])]
                \in Seq({t \in TripType : BootTrip(t) /\ t.type # "POLLING"})
<1> DEFINE C == {t \in TripType : t.type # "POLLING" /\ ~t.poll_on}
           B == {t \in TripType : BootTrip(t) /\ t.type # "POLLING"}
           cs == Zones[z].trips
<1> DEFINE R == [sensors : Seq(Nat), corelated : BOOLEAN, trips : Seq(C)]
<1>0. Zones \in Seq(R)
  BY Zenon, ZoneAssumption
<1> HIDE DEF C, R
<1>1. Zones[z] \in R
  BY <1>0, ElementOfList
<1> USE DEF R
<1>2. Zones[z].sensors \in Seq(Nat) /\ cs \in Seq(C)
  BY Zenon, <1>1
<1>3. \A i \in DOMAIN cs : cs[i] \in C
  BY <1>2, ElementOfList
<1>4. \A i \in DOMAIN cs : Bound(cs[i]) \in B
  <2> SUFFICES ASSUME NEW i \in DOMAIN cs PROVE Bound(cs[i]) \in B
    OBVIOUS
  <2> DEFINE t == cs[i]
  <2>1. t \in TripType /\ t.type # "POLLING" /\ ~t.poll_on
    BY Zenon, <1>3 DEF C
  <2> HIDE DEF t
  <2>2. BoundFrom(t, Bound(t))
    BY Zenon, <2>1, BoundTyped
  <2>3. t.poll_on \in BOOLEAN
    BY Zenon, <2>1 DEF TripType
  <2>4. t.poll_on = FALSE
    BY Zenon, <2>1, <2>3
  <2>5. BootTrip(Bound(t)) /\ Bound(t) \in TripType /\ Bound(t).type # "POLLING"
    BY Zenon, <2>1, <2>2, <2>4 DEF BoundFrom, BootTrip
  <2> QED
    BY Zenon, <2>5 DEF t
<1> HIDE DEF B
<1>5. [i \in DOMAIN cs |-> Bound(cs[i])] \in Seq(B)
  BY <1>2, <1>4
<1> QED
  BY Zenon, <1>2, <1>5 DEF B

\* A zone starts with well-formed trips, each with one binding per device and
\* polling off; the polling trips come last, one for each sensor.
LEMMA BootShape ==
    ASSUME Sorting, NEW z \in DOMAIN Zones
    PROVE  /\ BootTrips(z) \in Seq(TripType)
           /\ \A i \in 1 .. NumTrips(z) : BootTrip(BootTrips(z)[i])
           /\ NumTrips(z) = 0 \/ \E c \in Nat : PollingLast(z, c)
<1> DEFINE B       == {t \in TripType : BootTrip(t) /\ t.type # "POLLING"}
           bt      == [i \in DOMAIN Zones[z].trips |-> Bound(Zones[z].trips[i])]
           w       == [trips |-> bt, threshold |-> [s \in Sensors |-> 0]]
           sensors == Zones[z].sensors
           polling == {i \in DOMAIN w.trips : w.trips[i].type = "POLLING"}
           first   == Min(polling)
           kept    == IF polling = {} THEN w.trips
                      ELSE SubSeq(w.trips, 1, first - 1) \o SubSeq(w.trips, first + 1, Len(w.trips))
           sorted  == SortByKey(kept, [i \in DOMAIN kept |-> kept[i].temp])
           lowest  == sorted[1].temp
           offset  == Larger((lowest * def_async_trip_offset_pct) \div 100,
                             def_async_trip_offset)
           tm      == (lowest - offset) % 2 ^ IntBits
           polls   == [k \in DOMAIN sensors |-> PollingTrip(Len(kept) + k - 1, tm, sensors[k])]
           thr     == [s \in DOMAIN w.threshold |->
                          IF s \in AsyncSensors \cap Range(sensors) THEN tm ELSE w.threshold[s]]
<1>1. BootTrips(z) = (IF kept = << >> THEN [w EXCEPT !.trips = kept]
                      ELSE [w EXCEPT !.trips = sorted \o polls, !.threshold = thr]).trips
  BY Zenon DEF BootTrips, sort_and_update_poll_trip
<1>2. sensors \in Seq(Nat) /\ bt \in Seq(B)
  BY Zenon, ConfiguredTrips
<1>3. w.trips = bt
  OBVIOUS
<1>4. kept = bt
  <2>1. \A i \in DOMAIN bt : bt[i] \in B
    <3> HIDE DEF B, bt
    <3> QED
      BY <1>2, ElementOfList
  <2>2. \A i \in DOMAIN bt : bt[i].type # "POLLING"
    <3> HIDE DEF bt
    <3> QED
      BY Zenon, <2>1
  <2>3. polling = {}
    <3> HIDE DEF bt, w
    <3> QED
      BY Zenon, <1>3, <2>2
  <2> QED
    BY Zenon, <1>3, <2>3
<1>5. BootTrips(z) = IF bt = << >> THEN << >> ELSE sorted \o polls
  <2> HIDE DEF kept, bt, sorted, polls, thr
  <2>1. DOMAIN w = {"trips", "threshold"}
    OBVIOUS
  <2> HIDE DEF w
  <2>2. [w EXCEPT !.trips = kept].trips = kept
    BY <2>1
  <2>3. [w EXCEPT !.trips = sorted \o polls, !.threshold = thr].trips = sorted \o polls
    BY <2>1
  <2> QED
    BY Zenon, <1>1, <1>4, <2>2, <2>3
<1> HIDE DEF kept, bt, w
<1>6. CASE bt = << >>
  <2>1. BootTrips(z) = << >>
    BY Zenon, <1>5, <1>6
  <2>2. << >> \in Seq(TripType) /\ Len(<< >>) = 0 /\ \A i \in 1 .. 0 : FALSE
    OBVIOUS
  <2> QED
    BY Zenon, <2>1, <2>2 DEF NumTrips
<1>7. CASE bt # << >>
  <2> DEFINE c == Len(bt)
             q == Len(sensors)
  <2>1. c \in Nat /\ c # 0 /\ 1 \in 1 .. c /\ DOMAIN bt = 1 .. c /\ q \in Nat /\ DOMAIN sensors = 1 .. q
    <3> HIDE DEF B
    <3> QED
      BY <1>2, <1>7
  <2>2. \A i \in 1 .. c : bt[i] \in B
    <3> HIDE DEF B
    <3> QED
      BY <1>2, ElementOfList
  <2>3. \A i \in 1 .. c : bt[i].temp \in Int
    BY Zenon, <2>2 DEF TripType
  <2> DEFINE key == [i \in DOMAIN bt |-> bt[i].temp]
  <2>4. key \in [DOMAIN bt -> Int]
    BY <2>1, <2>3
  <2>5. PICK p \in Bijection(1 .. c, 1 .. c) : SortByKey(bt, key) = [k \in 1 .. c |-> bt[p[k]]]
    <3> HIDE DEF key, B
    <3> QED
      BY Zenon, <1>2, <2>1, <2>4 DEF Sorting
  <2>6. p \in [1 .. c -> 1 .. c]
    BY <2>5 DEF Bijection, Injection
  <2>7. sorted = [k \in 1 .. c |-> bt[p[k]]]
    BY Zenon, <1>4, <2>5
  <2> HIDE DEF sorted, B, c
  <2>8. sorted \in Seq(B) /\ Len(sorted) = c /\ \A i \in 1 .. c : sorted[i] \in B
    <3> HIDE DEF bt
    <3>1. \A k \in 1 .. c : bt[p[k]] \in B
      BY Zenon, <2>2, <2>6
    <3>2. sorted \in [1 .. c -> B]
      BY Zenon, <2>7, <3>1
    <3>3. c \in Nat
      BY <2>1
    <3> QED
      BY <3>2, <3>3
  <2>9. lowest \in Int
    <3>1. sorted[1] \in TripType
      BY Zenon, <2>1, <2>8 DEF B
    <3> QED
      BY Zenon, <3>1 DEF TripType
  <2>10. tm \in Int
    <3>1. \A x, y \in Int : Larger(x, y) \in Int
      BY DEF Larger
    <3>2. \A x \in Int, m \in Int : (x * m) \div 100 \in Int
      OBVIOUS
    <3> HIDE DEF lowest
    <3>3. offset \in Int
      BY <2>9, <3>1, <3>2, OffsetAssumption
    <3> HIDE DEF offset
    <3>4. lowest - offset \in Int
      BY <2>9, <3>3
    <3>5. \A x \in Int, m \in Nat \ {0} : x % m \in Int
      OBVIOUS
    <3> QED
      BY <3>4, <3>5, OffsetAssumption
  <2> HIDE DEF tm
  <2>11. \A k \in 1 .. q : sensors[k] \in Nat /\ c + k - 1 \in Nat
    BY <1>2, <2>1, ElementOfList
  <2>12. polls = [k \in 1 .. q |-> PollingTrip(c + k - 1, tm, sensors[k])]
    BY Zenon, <1>4, <2>1 DEF c
  <2> DEFINE Q(k, t) == /\ BootTrip(t) /\ t.type = "POLLING" /\ t.sensor = sensors[k]
                        /\ t.depend = NoDepend /\ t.temp = tm
  <2>13. \A k \in 1 .. q : Q(k, polls[k])
    <3> SUFFICES ASSUME NEW k \in 1 .. q PROVE Q(k, polls[k])
      BY Zenon
    <3>1. polls[k] = PollingTrip(c + k - 1, tm, sensors[k])
      BY <2>12
    <3> DEFINE m == c + k - 1
               s == sensors[k]
    <3>2. m \in Nat /\ s \in Nat
      BY Zenon, <2>11
    <3> HIDE DEF m, s
    <3>3. /\ BootTrip(PollingTrip(m, tm, s))
          /\ PollingTrip(m, tm, s).type = "POLLING" /\ PollingTrip(m, tm, s).sensor = s
          /\ PollingTrip(m, tm, s).depend = NoDepend /\ PollingTrip(m, tm, s).temp = tm
      BY Zenon, <2>10, <3>2, PollingTyped
    <3> QED
      BY Zenon, <3>1, <3>3 DEF m, s
  <2> HIDE DEF polls
  <2>14. \A k \in 1 .. q : polls[k] \in TripType
    BY Zenon, <2>13 DEF BootTrip
  <2>15. polls \in Seq(TripType) /\ Len(polls) = q
    <3>1. polls = [k \in 1 .. q |-> polls[k]]
      BY <2>12
    <3> HIDE DEF q
    <3> QED
      BY <2>1, <2>14, <3>1
  <2>16. sorted \in Seq(TripType)
    BY <2>8, \A t \in B : t \in TripType DEF B
  <2>17. BootTrips(z) = sorted \o polls
    BY Zenon, <1>5, <1>7
  <2>18. BootTrips(z) \in Seq(TripType) /\ NumTrips(z) = c + q
    BY <2>8, <2>15, <2>16, <2>17 DEF NumTrips
  <2>19. \A i \in 1 .. c : BootTrips(z)[i] = sorted[i]
    BY <2>1, <2>8, <2>15, <2>16, <2>17
  <2>20. \A k \in 1 .. q : BootTrips(z)[c + k] = polls[k]
    BY <2>1, <2>8, <2>15, <2>16, <2>17
  <2>21. \A i \in 1 .. c : BootTrip(BootTrips(z)[i]) /\ BootTrips(z)[i].type # "POLLING"
    BY Zenon, <2>8, <2>19 DEF B
  <2>22. \A k \in 1 .. q : Q(k, BootTrips(z)[c + k])
    BY Zenon, <2>13, <2>20
  <2>23. \A i \in 1 .. c + q : i \in 1 .. c \/ \E k \in 1 .. q : i = c + k
    <3> SUFFICES ASSUME NEW i \in 1 .. c + q, i \notin 1 .. c PROVE \E k \in 1 .. q : i = c + k
      OBVIOUS
    <3>1. i - c \in 1 .. q /\ i = c + (i - c)
      BY <2>1
    <3> QED
      BY Zenon, <3>1
  <2>24. \A i \in 1 .. NumTrips(z) : BootTrip(BootTrips(z)[i])
    BY Zenon, <2>18, <2>21, <2>22, <2>23
  <2>25. PollingLast(z, c)
    BY Zenon, <2>1, <2>18, <2>21, <2>22 DEF PollingLast
  <2> QED
    BY Zenon, <2>1, <2>18, <2>24, <2>25
<1> QED
  BY Zenon, <1>6, <1>7

-----------------------------------------------------------------------------
(* A reading of a sensor, shown to the trips of a zone.                    *)

\* The check of trip i of zone z against the reading x of sensor id turned
\* w into v.
Checked(z, w, i, id, x, v) ==
    /\ Base(v, z) /\ OnlyTripCdevs(z, i, w, v)
    /\ Sequential(z, i) /\ Apart(z, i) /\ OrderedTrip(w.cdevs, z, i) => OrderedTrip(v.cdevs, z, i)
    /\ BootTrips(z)[i].type # "POLLING" =>
         SamePolls(z, w, v) /\ (IdleUntouched(w, v) \/ x >= w.trips[i].temp)
    /\ BootTrips(z)[i].type = "POLLING" =>
         \/ PollSet(z, w, i, x, v)
         \/ v = w /\ (BootTrips(z)[i].sensor # id \/ BootTrips(z)[i].depend # NoDepend)

\* thd_trip_point_check moves only devices of its trip, in order, raises one
\* only when the trip's temperature is reached, and sets a polling trip on
\* and off as the reading says.
LEMMA TripChecked ==
    ASSUME NEW z, NEW w, NEW i, AtTrip(z, w, i), NEW id, NEW x \in Int, NEW pref
    PROVE  Checked(z, w, i, id, x, thd_trip_point_check(w, z, i, id, x, pref))
<1> DEFINE t  == w.trips[i]
           v  == thd_trip_point_check(w, z, i, id, x, pref)
           no == \/ t.depend # NoDepend /\ x >= t.temp /\ ~DependencyHolds(w, t)
                 \/ t.sensor \notin {DEFAULT_SENSOR_ID, id}
<1>1. v = IF no THEN w
          ELSE IF t.type \in {"CRITICAL", "HOT"} THEN CheckCritical(w, i, x)
          ELSE IF t.type = "POLLING" THEN CheckPolling(w, i, x)
          ELSE IF Applicable(t, pref) THEN CheckControl(w, z, i, x)
          ELSE w
  BY Zenon DEF thd_trip_point_check
<1>2. Base(w, z) /\ i \in 1 .. NumTrips(z)
  BY Zenon DEF AtTrip
<1>3. Like(t, BootTrips(z)[i])
  BY Zenon, <1>2 DEF Base, Shape
<1>4. /\ t.type = BootTrips(z)[i].type /\ t.sensor = BootTrips(z)[i].sensor
      /\ t.depend = BootTrips(z)[i].depend
  BY Zenon, <1>3 DEF Like
<1> DEFINE kept == /\ BootTrips(z)[i].type = "POLLING" =>
                        BootTrips(z)[i].sensor # id \/ BootTrips(z)[i].depend # NoDepend
<1>5. no => kept
  BY Zenon, <1>4
<1> HIDE DEF v, no
<1>6. ASSUME v = w, kept PROVE Checked(z, w, i, id, x, v)
  <2>1. SamePolls(z, w, w) /\ IdleUntouched(w, w) /\ OnlyTripCdevs(z, i, w, w)
    BY Zenon DEF SamePolls, IdleUntouched, OnlyTripCdevs
  <2> QED
    BY Zenon, <1>2, <1>6, <2>1 DEF Checked
<1>7. CASE no
  BY Zenon, <1>1, <1>5, <1>6, <1>7 DEF v
<1>8. CASE ~no /\ t.type \in {"CRITICAL", "HOT"}
  <2> DEFINE u == CheckCritical(w, i, x)
  <2>1. Base(u, z) /\ u.cdevs = w.cdevs /\ SamePolls(z, w, u)
    BY Zenon, CriticalKeeps
  <2>2. v = u
    BY Zenon, <1>1, <1>8
  <2> HIDE DEF u
  <2>3. OnlyTripCdevs(z, i, w, u) /\ IdleUntouched(w, u)
    BY Zenon, <2>1 DEF OnlyTripCdevs, IdleUntouched
  <2>4. OrderedTrip(w.cdevs, z, i) => OrderedTrip(u.cdevs, z, i)
    BY Zenon, <2>1
  <2>5. BootTrips(z)[i].type # "POLLING"
    BY <1>4, <1>8
  <2>6. Checked(z, w, i, id, x, u)
    BY Zenon, <2>1, <2>3, <2>4, <2>5 DEF Checked
  <2> QED
    BY Zenon, <2>2, <2>6 DEF v
<1>9. CASE ~no /\ t.type = "POLLING"
  <2> DEFINE u == CheckPolling(w, i, x)
  <2>1. PollSet(z, w, i, x, u)
    BY Zenon, PollingSwitches
  <2>2. v = u
    BY <1>1, <1>9
  <2> HIDE DEF u
  <2>3. Base(u, z) /\ u.cdevs = w.cdevs
    BY Zenon, <2>1 DEF PollSet
  <2>4. OnlyTripCdevs(z, i, w, u)
    BY Zenon, <2>3 DEF OnlyTripCdevs
  <2>5. OrderedTrip(w.cdevs, z, i) => OrderedTrip(u.cdevs, z, i)
    BY Zenon, <2>3
  <2>6. Checked(z, w, i, id, x, u)
    BY Zenon, <1>4, <1>9, <2>1, <2>3, <2>4, <2>5 DEF Checked
  <2> QED
    BY Zenon, <2>2, <2>6 DEF v
<1>10. CASE ~no /\ t.type \notin {"CRITICAL", "HOT", "POLLING"} /\ Applicable(t, pref)
  <2> DEFINE u == CheckControl(w, z, i, x)
  <2>1. Controlled(z, w, i, x, u)
    BY Zenon, ControlKeeps
  <2>2. v = u
    BY <1>1, <1>10
  <2> HIDE DEF u
  <2>3. BootTrips(z)[i].type # "POLLING"
    BY <1>4, <1>10
  <2>4. Checked(z, w, i, id, x, u)
    BY Zenon, <2>1, <2>3 DEF Checked, Controlled
  <2> QED
    BY Zenon, <2>2, <2>4 DEF v
<1>11. CASE ~no /\ t.type \notin {"CRITICAL", "HOT", "POLLING"} /\ ~Applicable(t, pref)
  <2>1. v = w
    BY <1>1, <1>11
  <2>2. kept
    BY <1>4, <1>11
  <2> QED
    BY Zenon, <1>6, <2>1, <2>2 DEF v
<1> QED
  BY <1>7, <1>8, <1>9, <1>10, <1>11

\* The trips of a zone at boot, and the devices they name.
LEMMA BootNames ==
    ASSUME Sorting, NEW z \in DOMAIN Zones, NEW i \in 1 .. NumTrips(z)
    PROVE  /\ DOMAIN BootTrips(z) = 1 .. NumTrips(z) /\ NumTrips(z) \in Nat
           /\ DOMAIN BootTrips(z)[i].cdevs = 1 .. NumBindings(z, i)
           /\ \A k \in 1 .. NumBindings(z, i) : Name(z, i, k) \in DOMAIN Devices
           /\ Apart(z, i)
<1> DEFINE t == BootTrips(z)[i]
<1>1. BootTrips(z) \in Seq(TripType) /\ BootTrip(t)
  BY Zenon, BootShape
<1>2. DOMAIN BootTrips(z) = 1 .. NumTrips(z) /\ NumTrips(z) \in Nat
  BY <1>1 DEF NumTrips
<1>3. DistinctCdevs(t.cdevs)
  BY Zenon, <1>1 DEF BootTrip
<1>4. t.cdevs \in Seq(BindingType)
  BY Zenon, <1>3 DEF DistinctCdevs
<1>5. DOMAIN t.cdevs = 1 .. NumBindings(z, i)
  BY <1>4 DEF NumBindings
<1>6. \A k \in 1 .. NumBindings(z, i) : t.cdevs[k] \in BindingType
  <2> DEFINE bs == t.cdevs
  <2> HIDE DEF bs
  <2>1. \A k \in DOMAIN bs : bs[k] \in BindingType
    BY <1>4, ElementOfList DEF bs
  <2> QED
    BY Zenon, <1>5, <2>1 DEF bs
<1>7. \A k \in 1 .. NumBindings(z, i) : Name(z, i, k) \in DOMAIN Devices
  <2> SUFFICES ASSUME NEW k \in 1 .. NumBindings(z, i) PROVE t.cdevs[k].cdev \in DOMAIN Devices
    BY Zenon DEF Name
  <2>1. t.cdevs[k] \in BindingType
    BY Zenon, <1>6
  <2> QED
    BY Zenon, <2>1 DEF BindingType
<1>8. Apart(z, i)
  BY Zenon, <1>3 DEF Apart, DistinctCdevs, Name, NumBindings
<1> QED
  BY Zenon, <1>2, <1>5, <1>7, <1>8

\* A trip uses the devices it is bound to.
LEMMA UsesBound ==
    ASSUME Sorting, NEW z \in DOMAIN Zones, NEW i \in 1 .. NumTrips(z), NEW n
    PROVE  Uses(z, i, n) <=> n \in BoundBy(z, i)
<1> DEFINE bs == BootTrips(z)[i].cdevs
<1>1. DOMAIN bs = 1 .. NumBindings(z, i)
  BY Zenon, BootNames
<1>2. Range(bs) = {bs[k] : k \in 1 .. NumBindings(z, i)}
  BY Zenon, <1>1 DEF Range
<1>3. n \in BoundBy(z, i) <=> \E k \in 1 .. NumBindings(z, i) : bs[k].cdev = n
  BY <1>2 DEF BoundBy
<1> QED
  BY Zenon, <1>3 DEF Uses, Name

\* A device a trip has to itself.
LEMMA OwnedByTrip ==
    ASSUME Sorting, NEW z \in DOMAIN Zones, NEW i \in 1 .. NumTrips(z), NEW n, OwnDevice(z, i, n)
    PROVE  Owns(z, i, n)
<1>1. \A y \in DOMAIN Zones : \A j \in 1 .. NumTrips(y) : Uses(y, j, n) => y = z /\ j = i
  <2> SUFFICES ASSUME NEW y \in DOMAIN Zones, NEW j \in 1 .. NumTrips(y), Uses(y, j, n)
               PROVE  y = z /\ j = i
    BY Zenon
  <2>1. n \in BoundBy(y, j)
    BY Zenon, UsesBound
  <2>2. j \in DOMAIN BootTrips(y)
    BY Zenon, BootNames
  <2> QED
    BY Zenon, <2>1, <2>2 DEF OwnDevice
<1>2. Devices[n].min_state # Devices[n].max_state
  BY Zenon DEF OwnDevice
<1> QED
  BY Zenon, <1>1, <1>2 DEF Owns, Sole

\* The devices of every sequential trip are in order.
InOrder(cd) ==
    \A z \in DOMAIN Zones : \A i \in 1 .. NumTrips(z) : Sequential(z, i) => OrderedTrip(cd, z, i)

\* Trip i of zone z is sequential.
SequentialTrip(z, i) == z \in DOMAIN Zones /\ i \in 1 .. NumTrips(z) /\ Sequential(z, i)

\* A sequential trip owns the devices it uses.
LEMMA SequentialOwns ==
    ASSUME Sorting, NEW z, NEW i, SequentialTripsOwnDevices, SequentialTrip(z, i), NEW n, Uses(z, i, n)
    PROVE  Owns(z, i, n)
<1>1. z \in DOMAIN Zones /\ i \in 1 .. NumTrips(z) /\ Sequential(z, i)
  BY Zenon DEF SequentialTrip
<1>2. i \in DOMAIN BootTrips(z)
  BY Zenon, <1>1, BootNames
<1>3. n \in BoundBy(z, i)
  BY Zenon, <1>1, UsesBound
<1>4. OwnDevice(z, i, n)
  BY Zenon, <1>1, <1>2, <1>3 DEF SequentialTripsOwnDevices, Sequential
<1> QED
  BY Zenon, <1>1, <1>4, OwnedByTrip

\* The devices of trip i of zone z are the same in cd and ce.
SameDevices(z, i, cd, ce) ==
    \A k \in 1 .. NumBindings(z, i) : ce[Name(z, i, k)] = cd[Name(z, i, k)]

\* A trip whose devices have not moved stays in order.
LEMMA OrderStays ==
    ASSUME NEW z, NEW i, NEW cd, NEW ce, SameDevices(z, i, cd, ce), OrderedTrip(cd, z, i)
    PROVE  OrderedTrip(ce, z, i)
<1> SUFFICES ASSUME NEW k \in 1 .. NumBindings(z, i), NEW l \in 1 .. NumBindings(z, i),
                    k < l, ~IdleIn(ce, Name(z, i, l))
             PROVE  FullIn(ce, Name(z, i, k))
  BY Zenon DEF OrderedTrip
<1>1. ce[Name(z, i, k)] = cd[Name(z, i, k)] /\ ce[Name(z, i, l)] = cd[Name(z, i, l)]
  BY Zenon DEF SameDevices
<1>2. ~IdleIn(cd, Name(z, i, l))
  BY Zenon, <1>1 DEF IdleIn
<1>3. FullIn(cd, Name(z, i, k))
  BY Zenon, <1>2 DEF OrderedTrip
<1> QED
  BY Zenon, <1>1, <1>3 DEF FullIn

\* The check of a trip keeps every sequential trip in order.
LEMMA CheckKeepsOrder ==
    ASSUME Sorting, NEW z, NEW w, NEW i, AtTrip(z, w, i), NEW id, NEW x, NEW v,
           Checked(z, w, i, id, x, v), SequentialTripsOwnDevices, InOrder(w.cdevs)
    PROVE  InOrder(v.cdevs)
<1> SUFFICES ASSUME NEW y, NEW j, SequentialTrip(y, j) PROVE OrderedTrip(v.cdevs, y, j)
  BY Zenon DEF InOrder, SequentialTrip
<1>1. y \in DOMAIN Zones /\ j \in 1 .. NumTrips(y) /\ Sequential(y, j)
  BY Zenon DEF SequentialTrip
<1>2. OrderedTrip(w.cdevs, y, j)
  BY Zenon, <1>1 DEF InOrder
<1>3. CASE y = z /\ j = i
  <2>1. Apart(y, j)
    BY Zenon, <1>1, BootNames
  <2> QED
    BY Zenon, <1>1, <1>2, <1>3, <2>1 DEF Checked
<1>4. CASE ~(y = z /\ j = i)
  <2>1. SameDevices(y, j, w.cdevs, v.cdevs)
    <3> SUFFICES ASSUME NEW k \in 1 .. NumBindings(y, j)
                 PROVE  v.cdevs[Name(y, j, k)] = w.cdevs[Name(y, j, k)]
      BY Zenon DEF SameDevices
    <3> DEFINE n == Name(y, j, k)
    <3>1. Uses(y, j, n)
      BY Zenon DEF Uses
    <3>2. n \in DOMAIN Devices
      BY Zenon, <1>1, BootNames
    <3> HIDE DEF n
    <3>3. Owns(y, j, n)
      BY Zenon, <3>1, SequentialOwns
    <3>4. ~Uses(z, i, n)
      BY Zenon, <1>4, <3>3 DEF Owns, Sole, AtTrip
    <3>5. v.cdevs[n] = w.cdevs[n]
      BY Zenon, <3>2, <3>4 DEF Checked, OnlyTripCdevs
    <3> QED
      BY Zenon, <3>5 DEF n
  <2> QED
    BY Zenon, <1>2, <2>1, OrderStays
<1> QED
  BY Zenon, <1>3, <1>4

\* Zone z was visited: devices it does not use are as they were.
LEMMA OtherZonesOrder ==
    ASSUME Sorting, NEW z \in DOMAIN Zones, NEW w, NEW v, OnlyZoneCdevs(z, w, v), NEW y, NEW j,
           SequentialTrip(y, j), SequentialTripsOwnDevices, InOrder(w.cdevs), y # z
    PROVE  OrderedTrip(v.cdevs, y, j)
<1>1. y \in DOMAIN Zones /\ j \in 1 .. NumTrips(y) /\ Sequential(y, j)
  BY Zenon DEF SequentialTrip
<1>2. OrderedTrip(w.cdevs, y, j)
  BY Zenon, <1>1 DEF InOrder
<1>3. SameDevices(y, j, w.cdevs, v.cdevs)
  <2> SUFFICES ASSUME NEW k \in 1 .. NumBindings(y, j)
               PROVE  v.cdevs[Name(y, j, k)] = w.cdevs[Name(y, j, k)]
    BY Zenon DEF SameDevices
  <2> DEFINE n == Name(y, j, k)
  <2>1. Uses(y, j, n)
    BY Zenon DEF Uses
  <2>2. n \in DOMAIN Devices
    BY Zenon, <1>1, BootNames
  <2> HIDE DEF n
  <2>3. Owns(y, j, n)
    BY Zenon, <2>1, SequentialOwns
  <2>4. ~UsedBy(z, n)
    BY Zenon, <2>3 DEF Owns, Sole, UsedBy
  <2>5. v.cdevs[n] = w.cdevs[n]
    BY Zenon, <2>2, <2>4 DEF OnlyZoneCdevs
  <2> QED
    BY Zenon, <2>5 DEF n
<1> QED
  BY Zenon, <1>2, <1>3, OrderStays

\* A reset keeps every sequential trip in order: the zone's are idle.
LEMMA ResetKeepsOrder ==
    ASSUME Sorting, NEW z \in DOMAIN Zones, NEW w, NEW v, ZoneReset(z, w, v),
           SequentialTripsOwnDevices, InOrder(w.cdevs)
    PROVE  InOrder(v.cdevs)
<1> SUFFICES ASSUME NEW y, NEW j, SequentialTrip(y, j) PROVE OrderedTrip(v.cdevs, y, j)
  BY Zenon DEF InOrder, SequentialTrip
<1>1. y \in DOMAIN Zones /\ j \in 1 .. NumTrips(y) /\ Sequential(y, j)
  BY Zenon DEF SequentialTrip
<1>2. CASE y = z
  <2>1. \A k \in 1 .. NumBindings(y, j) : IdleIn(v.cdevs, Name(y, j, k))
    <3> SUFFICES ASSUME NEW k \in 1 .. NumBindings(y, j) PROVE IdleIn(v.cdevs, Name(y, j, k))
      BY Zenon
    <3> DEFINE n == Name(y, j, k)
    <3>1. Uses(y, j, n)
      BY Zenon DEF Uses
    <3>2. n \in DOMAIN Devices
      BY Zenon, <1>1, BootNames
    <3> HIDE DEF n
    <3>3. Owns(y, j, n)
      BY Zenon, <3>1, SequentialOwns
    <3>4. TripIdle(y, j, v)
      BY Zenon, <1>1, <1>2 DEF ZoneReset, ZoneIdle
    <3>5. IdleIn(v.cdevs, n)
      BY Zenon, <3>1, <3>2, <3>3, <3>4 DEF TripIdle
    <3> QED
      BY Zenon, <3>5 DEF n
  <2> QED
    BY Zenon, <2>1 DEF OrderedTrip
<1>3. CASE y # z
  <2>1. OnlyZoneCdevs(z, w, v)
    BY Zenon DEF ZoneReset
  <2> QED
    BY Zenon, <1>3, <2>1, OtherZonesOrder
<1> QED
  BY Zenon, <1>2, <1>3

-----------------------------------------------------------------------------
(* Polling.                                                                *)

\* Device n is used by trip i of zone z alone, which stays above the polling trips.
Guarded(z, i, n) ==
    /\ z \in DOMAIN Zones /\ i \in 1 .. NumTrips(z) /\ n \in DOMAIN Devices
    /\ Uses(z, i, n) /\ Owns(z, i, n) /\ PolledBelow(z, i)

\* Device n is not in use unless a polling trip of zone z is on.
Polled(z, n, w) ==
    \/ \E j \in 1 .. NumTrips(z) : w.trips[j].poll_on = TRUE
    \/ IdleIn(w.cdevs, n)

\* Trip p of zone z is the polling trip of sensor id.
PollsFor(z, p, id) ==
    /\ p \in 1 .. NumTrips(z)
    /\ BootTrips(z)[p].type = "POLLING" /\ BootTrips(z)[p].sensor = id
    /\ BootTrips(z)[p].depend = NoDepend

\* Reading x is above polling trip p, which comes after trip k.
HotBefore(z, p, x, k) == x >= BootTrips(z)[p].temp /\ k < p

\* Polling trips are level, and stay where they are.
Level(z, w, i, p) ==
    BootTrips(z)[i].type = "POLLING" => w.trips[i].temp = BootTrips(z)[p].temp

LEMMA PollingLevel ==
    ASSUME Sorting, NEW z, NEW w, NEW i, AtTrip(z, w, i), NEW p, NEW id, PollsFor(z, p, id)
    PROVE  Level(z, w, i, p)
<1> SUFFICES ASSUME BootTrips(z)[i].type = "POLLING" PROVE w.trips[i].temp = BootTrips(z)[p].temp
  BY Zenon DEF Level
<1>1. z \in DOMAIN Zones /\ i \in 1 .. NumTrips(z) /\ Base(w, z)
  BY Zenon DEF AtTrip
<1>2. p \in 1 .. NumTrips(z) /\ BootTrips(z)[p].type = "POLLING"
  BY Zenon DEF PollsFor
<1>3. NumTrips(z) \in Nat /\ NumTrips(z) # 0
  BY BootNames, <1>1
<1>4. PICK c \in Nat : PollingLast(z, c)
  BY Zenon, <1>1, <1>3, BootShape
<1> DEFINE q == Len(Zones[z].sensors)
<1>5. /\ NumTrips(z) = c + q
      /\ \A k \in 1 .. c : BootTrips(z)[k].type # "POLLING"
      /\ \A k, l \in 1 .. q : BootTrips(z)[c + k].temp = BootTrips(z)[c + l].temp
  BY Zenon, <1>4 DEF PollingLast
<1>6. q \in Nat
  BY <1>1, ConfiguredTrips
<1> HIDE DEF q
<1>7. i \notin 1 .. c /\ p \notin 1 .. c
  BY Zenon, <1>2, <1>5
<1>8. i - c \in 1 .. q /\ c + (i - c) = i /\ p - c \in 1 .. q /\ c + (p - c) = p
  BY <1>1, <1>2, <1>3, <1>5, <1>6, <1>7
<1>9. BootTrips(z)[i].temp = BootTrips(z)[p].temp
  <2>1. BootTrips(z)[c + (i - c)].temp = BootTrips(z)[c + (p - c)].temp
    BY Zenon, <1>5, <1>8
  <2> QED
    BY Zenon, <1>8, <2>1
<1>10. Like(w.trips[i], BootTrips(z)[i])
  BY Zenon, <1>1 DEF Base, Shape
<1>11. w.trips[i].temp = BootTrips(z)[i].temp
  <2>1. "POLLING" # "PASSIVE"
    OBVIOUS
  <2> QED
    BY Zenon, <1>10, <2>1 DEF Like
<1> QED
  BY Zenon, <1>9, <1>11

\* Trip i is not below polling trip p.
NotBelow(z, w, i, p) ==
    /\ BootTrips(z)[p].temp \in Int /\ w.trips[i].temp \in Int
    /\ BootTrips(z)[p].temp <= w.trips[i].temp

LEMMA PollingLowest ==
    ASSUME Sorting, NEW z, NEW w, NEW i, AtTrip(z, w, i), PolledBelow(z, i), NEW p, NEW id, PollsFor(z, p, id)
    PROVE  NotBelow(z, w, i, p)
<1> DEFINE b == BootTrips(z)[p]
           c == BootTrips(z)[i]
           t == w.trips[i]
<1>1. z \in DOMAIN Zones /\ i \in 1 .. NumTrips(z) /\ Base(w, z) /\ p \in 1 .. NumTrips(z)
  BY Zenon DEF AtTrip, PollsFor
<1>2. b.type = "POLLING"
  BY Zenon DEF PollsFor
<1>3. DOMAIN BootTrips(z) = 1 .. NumTrips(z)
  BY Zenon, <1>1, BootNames
<1>4. b.temp <= c.temp /\ (c.type = "PASSIVE" => \A x \in NewTemps : b.temp <= x)
  BY Zenon, <1>1, <1>2, <1>3 DEF PolledBelow
<1>5. BootTrip(b)
  BY Zenon, <1>1, BootShape
<1>6. b.temp \in Int
  BY Zenon, <1>5 DEF BootTrip, TripType
<1>7. Like(t, c)
  BY Zenon, <1>1 DEF Base, Shape
<1>8. t \in TripType /\ (t.temp = c.temp \/ (c.type = "PASSIVE" /\ t.temp \in NewTemps))
  BY Zenon, <1>7 DEF Like
<1>9. t.temp \in Int
  BY Zenon, <1>8 DEF TripType
<1> HIDE DEF b, c, t
<1>10. b.temp <= t.temp
  BY Zenon, <1>4, <1>8
<1> QED
  BY Zenon, <1>6, <1>9, <1>10 DEF NotBelow, b, c, t

\* A device that was idle and is not touched needs no polling.
LEMMA PolledStays ==
    ASSUME NEW z, NEW n, NEW w, NEW v, Polled(z, n, w), SamePolls(z, w, v),
           IdleIn(w.cdevs, n) => v.cdevs[n] = w.cdevs[n]
    PROVE  Polled(z, n, v)
<1>1. CASE \E j \in 1 .. NumTrips(z) : w.trips[j].poll_on = TRUE
  <2>1. \E j \in 1 .. NumTrips(z) : v.trips[j].poll_on = TRUE
    BY Zenon, <1>1 DEF SamePolls
  <2> QED
    BY Zenon, <2>1 DEF Polled
<1>2. CASE IdleIn(w.cdevs, n)
  <2>1. IdleIn(v.cdevs, n)
    BY Zenon, <1>2 DEF IdleIn
  <2> QED
    BY Zenon, <2>1 DEF Polled
<1> QED
  BY Zenon, <1>1, <1>2 DEF Polled

\* Polling trips follow all others.
LEMMA PollingFollows ==
    ASSUME Sorting, NEW z \in DOMAIN Zones, NEW i \in 1 .. NumTrips(z), NEW p, NEW id,
           PollsFor(z, p, id), BootTrips(z)[i].type # "POLLING"
    PROVE  i < p
<1>1. p \in 1 .. NumTrips(z) /\ BootTrips(z)[p].type = "POLLING"
  BY Zenon DEF PollsFor
<1>2. NumTrips(z) \in Nat /\ NumTrips(z) # 0
  BY BootNames, <1>1
<1>3. PICK c \in Nat : PollingLast(z, c)
  BY Zenon, <1>2, BootShape
<1> DEFINE q == Len(Zones[z].sensors)
<1>4. /\ NumTrips(z) = c + q
      /\ \A k \in 1 .. c : BootTrips(z)[k].type # "POLLING"
      /\ \A k \in 1 .. q : BootTrips(z)[c + k].type = "POLLING"
  BY Zenon, <1>3 DEF PollingLast
<1>5. q \in Nat
  BY ConfiguredTrips
<1> HIDE DEF q
<1>6. p \notin 1 .. c
  BY Zenon, <1>1, <1>4
<1>7. i \in 1 .. c
  <2> SUFFICES ASSUME i \notin 1 .. c PROVE FALSE
    BY Zenon
  <2>1. i - c \in 1 .. q /\ c + (i - c) = i
    BY <1>2, <1>4, <1>5
  <2> QED
    BY Zenon, <1>4, <2>1
<1> QED
  BY <1>1, <1>2, <1>6, <1>7

\* The check of trip i leaves the device of trip j polled, or asks for a
\* reset, or the polling trip that will switch polling on is still to come.
LEMMA CheckKeepsPolled ==
    ASSUME Sorting, NEW z, NEW w, NEW i, AtTrip(z, w, i), NEW id, NEW x \in Int, NEW v,
           Checked(z, w, i, id, x, v), NEW j, NEW n, Guarded(z, j, n), NEW p, PollsFor(z, p, id),
           Polled(z, n, w) \/ HotBefore(z, p, x, i - 1)
    PROVE  Resets(w, v, i) \/ Polled(z, n, v) \/ HotBefore(z, p, x, i)
<1> DEFINE low == BootTrips(z)[p].temp
           y   == w.trips[i].temp
<1>1. z \in DOMAIN Zones /\ i \in 1 .. NumTrips(z) /\ Base(w, z) /\ p \in 1 .. NumTrips(z)
  BY Zenon DEF AtTrip, PollsFor
<1>2. n \in DOMAIN Devices /\ Owns(z, j, n) /\ PolledBelow(z, j)
  BY Zenon DEF Guarded
<1>3. NumTrips(z) \in Nat
  BY Zenon, <1>1, BootNames
<1>4. HotBefore(z, p, x, i - 1) => x >= low /\ i - 1 < p
  BY Zenon DEF HotBefore
<1>5. x >= low /\ i < p => HotBefore(z, p, x, i)
  BY Zenon DEF HotBefore
<1> HIDE DEF low, y
<1>6. CASE BootTrips(z)[i].type # "POLLING"
  <2>1. i < p
    BY Zenon, <1>1, <1>6, PollingFollows
  <2>2. SamePolls(z, w, v) /\ (IdleUntouched(w, v) \/ x >= y) /\ OnlyTripCdevs(z, i, w, v)
    BY Zenon, <1>6 DEF Checked, y
  <2>3. CASE HotBefore(z, p, x, i - 1)
    BY Zenon, <1>4, <1>5, <2>1, <2>3
  <2>4. CASE i = j /\ x >= y
    <3>1. NotBelow(z, w, i, p)
      BY Zenon, <1>2, <2>4, PollingLowest
    <3>2. low \in Int /\ y \in Int /\ low <= y
      BY Zenon, <3>1 DEF NotBelow, low, y
    <3>3. x >= low
      BY <2>4, <3>2
    <3> QED
      BY Zenon, <1>5, <2>1, <3>3
  <2>5. CASE Polled(z, n, w) /\ IdleUntouched(w, v)
    <3>1. IdleIn(w.cdevs, n) => v.cdevs[n] = w.cdevs[n]
      BY Zenon, <1>2, <2>5 DEF IdleUntouched
    <3> QED
      BY Zenon, <2>2, <2>5, <3>1, PolledStays
  <2>6. CASE Polled(z, n, w) /\ i # j
    <3>1. ~Uses(z, i, n)
      BY Zenon, <1>1, <1>2, <2>6 DEF Owns, Sole
    <3>2. v.cdevs[n] = w.cdevs[n]
      BY Zenon, <1>2, <2>2, <3>1 DEF OnlyTripCdevs
    <3> QED
      BY Zenon, <2>2, <2>6, <3>2, PolledStays
  <2> QED
    BY Zenon, <2>2, <2>3, <2>4, <2>5, <2>6
<1>7. CASE BootTrips(z)[i].type = "POLLING" /\ ~PollSet(z, w, i, x, v)
  <2>1. v = w /\ (BootTrips(z)[i].sensor # id \/ BootTrips(z)[i].depend # NoDepend)
    BY Zenon, <1>7 DEF Checked
  <2>2. i # p
    BY Zenon, <2>1 DEF PollsFor
  <2>3. i - 1 < p => i < p
    BY <1>1, <1>3, <2>2
  <2> QED
    BY Zenon, <1>4, <1>5, <2>1, <2>3
<1>8. CASE BootTrips(z)[i].type = "POLLING" /\ PollSet(z, w, i, x, v)
  <2>1. CASE x >= y
    <3>1. v.trips[i].poll_on = TRUE
      BY Zenon, <1>8, <2>1 DEF PollSet, y
    <3> QED
      BY Zenon, <1>1, <3>1 DEF Polled
  <2>2. CASE ~(x >= y)
    <3>1. Polled(z, n, w)
      <4>1. Level(z, w, i, p)
        BY Zenon, PollingLevel
      <4>2. ~(x >= low)
        BY Zenon, <1>8, <2>2, <4>1 DEF Level, low, y
      <4> QED
        BY Zenon, <1>4, <4>2
    <3>2. v.trips[i].poll_on = FALSE /\ v.cdevs = w.cdevs
      BY Zenon, <1>8, <2>2 DEF PollSet, y
    <3>3. Like(w.trips[i], BootTrips(z)[i])
      BY Zenon, <1>1 DEF Base, Shape
    <3>4. w.trips[i].type = "POLLING" /\ w.trips[i] \in TripType
      BY Zenon, <1>8, <3>3 DEF Like
    <3>5. w.trips[i].poll_on \in BOOLEAN
      BY Zenon, <3>4 DEF TripType
    <3>6. CASE w.trips[i].poll_on = TRUE
      BY Zenon, <3>2, <3>4, <3>6 DEF Resets
    <3>7. CASE w.trips[i].poll_on = FALSE
      <4>1. SamePolls(z, w, v)
        BY Zenon, <1>8, <3>2, <3>7 DEF PollSet, SamePolls
      <4> QED
        BY Zenon, <3>1, <3>2, <4>1, PolledStays
    <3> QED
      BY Zenon, <3>5, <3>6, <3>7
  <2> QED
    BY Zenon, <2>1, <2>2
<1> QED
  BY Zenon, <1>6, <1>7, <1>8

\* A device of a zone that was reset is idle.
LEMMA ResetPolls ==
    ASSUME NEW z, NEW w, NEW v, ZoneReset(z, w, v), NEW i, NEW n, Guarded(z, i, n)
    PROVE  Polled(z, n, v)
BY Zenon DEF Guarded, ZoneReset, ZoneIdle, TripIdle, Polled

\* The state a after k trips have been shown the reading x of sensor id, with
\* w before.
Passing(z, w, id, x, k, a) ==
    /\ IsPass(a) /\ Base(a.w, z) /\ OnlyZoneCdevs(z, w, a.w)
    /\ SequentialTripsOwnDevices /\ InOrder(w.cdevs) => InOrder(a.w.cdevs)
    /\ \A p, i, n : Guarded(z, i, n) /\ PollsFor(z, p, id) /\ Polled(z, n, w) =>
         Polled(z, n, a.w) \/ (a.stop = FALSE /\ HotBefore(z, p, x, k))

\* One more trip is shown the reading.
LEMMA PassingStep ==
    ASSUME Sorting, NEW z \in DOMAIN Zones, NEW w, NEW id, NEW x \in Int, NEW pref,
           NEW k \in 1 .. NumTrips(z), NEW a, Passing(z, w, id, x, k - 1, a)
    PROVE  Passing(z, w, id, x, k, CheckTrip(a, z, k, id, x, pref))
<1> DEFINE u == a.w
           v == thd_trip_point_check(u, z, k, id, x, pref)
           r == CheckTrip(a, z, k, id, x, pref)
<1>1. IsPass(a) /\ Base(u, z) /\ OnlyZoneCdevs(z, w, u)
  BY Zenon DEF Passing
<1>2. SequentialTripsOwnDevices /\ InOrder(w.cdevs) => InOrder(u.cdevs)
  BY Zenon DEF Passing
<1>3. \A p, i, n : Guarded(z, i, n) /\ PollsFor(z, p, id) /\ Polled(z, n, w) =>
        Polled(z, n, u) \/ (a.stop = FALSE /\ HotBefore(z, p, x, k - 1))
  BY Zenon DEF Passing
<1>4. a.stop \in BOOLEAN
  BY Zenon, <1>1 DEF IsPass
<1>5. r = IF a.stop THEN a ELSE IF Resets(u, v, k) THEN [w |-> zone_reset(v, z, FALSE), stop |-> TRUE]
                                ELSE [w |-> v, stop |-> FALSE]
  BY Zenon DEF CheckTrip, AfterCheck
<1>6. AtTrip(z, u, k)
  BY Zenon, <1>1 DEF AtTrip
<1> HIDE DEF u
<1>7. Checked(z, u, k, id, x, v)
  BY Zenon, <1>6, TripChecked
<1> HIDE DEF v, r
<1>8. Base(v, z)
  BY Zenon, <1>7 DEF Checked
<1>9. OnlyZoneCdevs(z, w, v)
  <2>1. OnlyTripCdevs(z, k, u, v)
    BY Zenon, <1>7 DEF Checked
  <2> QED
    BY Zenon, <1>1, <2>1 DEF OnlyZoneCdevs, OnlyTripCdevs, UsedBy
<1>10. SequentialTripsOwnDevices /\ InOrder(w.cdevs) => InOrder(v.cdevs)
  BY Zenon, <1>2, <1>6, <1>7, CheckKeepsOrder
<1>11. CASE a.stop = TRUE
  <2>1. r = a
    BY Zenon, <1>5, <1>11
  <2>2. \A p, i, n : Guarded(z, i, n) /\ PollsFor(z, p, id) /\ Polled(z, n, w) => Polled(z, n, u)
    BY Zenon, <1>3, <1>11, TRUE # FALSE
  <2>3. Passing(z, w, id, x, k, a)
    BY Zenon, <1>1, <1>2, <2>2 DEF Passing, u
  <2> QED
    BY Zenon, <2>1, <2>3 DEF r
<1>12. CASE a.stop = FALSE /\ Resets(u, v, k)
  <2> DEFINE y == zone_reset(v, z, FALSE)
  <2>1. r = [w |-> y, stop |-> TRUE]
    BY <1>5, <1>12
  <2>2. ZoneReset(z, v, y)
    BY Zenon, <1>8, ZoneResetIdles
  <2> HIDE DEF y
  <2>3. r.w = y /\ r.stop = TRUE /\ IsPass(r)
    BY <2>1 DEF IsPass
  <2>4. Base(y, z)
    BY Zenon, <2>2 DEF ZoneReset, SameTrips
  <2>5. OnlyZoneCdevs(z, w, y)
    BY Zenon, <1>9, <2>2 DEF ZoneReset, OnlyZoneCdevs
  <2>6. SequentialTripsOwnDevices /\ InOrder(w.cdevs) => InOrder(y.cdevs)
    BY Zenon, <1>10, <2>2, ResetKeepsOrder
  <2>7. \A i, n : Guarded(z, i, n) => Polled(z, n, y)
    BY Zenon, <2>2, ResetPolls
  <2>8. Passing(z, w, id, x, k, r)
    BY Zenon, <2>3, <2>4, <2>5, <2>6, <2>7 DEF Passing
  <2> QED
    BY Zenon, <2>8 DEF r
<1>13. CASE a.stop = FALSE /\ ~Resets(u, v, k)
  <2>1. r = [w |-> v, stop |-> FALSE]
    BY <1>5, <1>13
  <2>2. r.w = v /\ r.stop = FALSE /\ IsPass(r)
    BY <2>1 DEF IsPass
  <2>3. ASSUME NEW p, NEW i, NEW n, Guarded(z, i, n), PollsFor(z, p, id), Polled(z, n, w)
        PROVE  Polled(z, n, v) \/ HotBefore(z, p, x, k)
    <3>1. Polled(z, n, u) \/ HotBefore(z, p, x, k - 1)
      BY Zenon, <1>3, <2>3
    <3> QED
      BY Zenon, <1>6, <1>7, <1>13, <2>3, <3>1, CheckKeepsPolled
  <2>4. Passing(z, w, id, x, k, r)
    BY Zenon, <1>8, <1>9, <1>10, <2>2, <2>3 DEF Passing
  <2> QED
    BY Zenon, <2>4 DEF r
<1> QED
  BY Zenon, <1>4, <1>11, <1>12, <1>13

-----------------------------------------------------------------------------
(* A visit to a zone.                                                      *)
=============================================================================
