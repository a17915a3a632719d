------------------------ MODULE CdevArbitrationProofs ------------------------
(***************************************************************************)
(* Proofs about CdevArbitration for every device, every set of trips and   *)
(* every width of int.                                                     *)
(***************************************************************************)
EXTENDS CdevArbitration, FiniteSetTheorems, SequenceTheorems, TLAPS

-----------------------------------------------------------------------------
(* The sort of the activation list.                                        *)

\* Whether element j of a list with these keys is placed at or before i.
Precedes(key, j, i) == key[j] < key[i] \/ (key[j] = key[i] /\ j <= i)

\* The sort used on zone_trip_limits returns a rearrangement of its input
\* with ascending keys: no entry is lost, duplicated or invented.
LEMMA SortPermutes ==
    ASSUME NEW S, NEW s \in Seq(S), NEW key \in [DOMAIN s -> Int]
    PROVE  \E p \in Bijection(1 .. Len(s), 1 .. Len(s)) :
              /\ SortByKey(s, key) = [k \in 1 .. Len(s) |-> s[p[k]]]
              /\ \A k, l \in 1 .. Len(s) : k <= l => key[p[k]] <= key[p[l]]
<1> DEFINE n == Len(s)
           D == 1 .. n
           Down(i) == {j \in D : Precedes(key, j, i)}
           place == [i \in D |-> Cardinality(Down(i))]
           p == [k \in D |-> CHOOSE i \in D : place[i] = k]
<1>1. n \in Nat /\ DOMAIN s = D /\ s \in [D -> S]
  BY LenProperties
<1>2. IsFiniteSet(D) /\ Cardinality(D) = n
  <2>1. 1 \in Int /\ n \in Int /\ n >= 0
    BY <1>1
  <2>2. IsFiniteSet(D) /\ Cardinality(D) = IF 1 > n THEN 0 ELSE n - 1 + 1
    <3> HIDE DEF n
    <3> QED
      BY <2>1, FS_Interval
  <2> HIDE DEF n, D
  <2> QED
    BY <2>1, <2>2
<1>3. \A i \in D : key[i] \in Int
  BY <1>1
<1>4. \A i \in D : /\ IsFiniteSet(Down(i))
                   /\ Cardinality(Down(i)) \in Nat
                   /\ Cardinality(Down(i)) <= n
  BY <1>2, FS_Subset, FS_CardinalityType
<1>5. \A i \in D : Cardinality(Down(i)) # 0
  <2> SUFFICES ASSUME NEW i \in D PROVE Cardinality(Down(i)) # 0
    OBVIOUS
  <2>1. i \in Down(i)
    BY <1>1, <1>3 DEF Precedes
  <2> QED
    BY Zenon, <2>1, <1>4, FS_EmptySet
<1>6. \A i, j \in D : i # j /\ Precedes(key, i, j) =>
                         Cardinality(Down(i)) < Cardinality(Down(j))
  <2> SUFFICES ASSUME NEW i \in D, NEW j \in D, i # j, Precedes(key, i, j)
               PROVE  Cardinality(Down(i)) < Cardinality(Down(j))
    OBVIOUS
  <2>1. Down(i) \subseteq Down(j)
    BY <1>1, <1>3 DEF Precedes
  <2>2. j \in Down(j) /\ j \notin Down(i)
    BY <1>1, <1>3 DEF Precedes
  <2>3. /\ Cardinality(Down(i)) <= Cardinality(Down(j))
        /\ Cardinality(Down(j)) = Cardinality(Down(i)) => Down(j) = Down(i)
    <3> HIDE DEF Down
    <3> QED
      BY <2>1, <1>4, FS_Subset
  <2>4. Cardinality(Down(i)) # Cardinality(Down(j))
    BY <2>2, <2>3
  <2> HIDE DEF Down
  <2> QED
    BY <2>3, <2>4, <1>4
<1>7. \A i, j \in D : Precedes(key, i, j) \/ Precedes(key, j, i)
  BY <1>1, <1>3 DEF Precedes
<1>8. place \in Injection(D, D)
  <2>1. place \in [D -> D]
    <3> HIDE DEF Down
    <3> QED
      BY <1>1, <1>4, <1>5
  <2>2. \A i, j \in D : place[i] = place[j] => i = j
    <3> HIDE DEF Down
    <3> SUFFICES ASSUME NEW i \in D, NEW j \in D, i # j
                 PROVE  place[i] # place[j]
      OBVIOUS
    <3>1. \/ Cardinality(Down(i)) < Cardinality(Down(j))
          \/ Cardinality(Down(j)) < Cardinality(Down(i))
      BY <1>6, <1>7
    <3> QED
      BY <3>1, <1>4
  <2> QED
    BY Zenon, <2>1, <2>2 DEF Injection, IsInjective
<1>9. place \in Surjection(D, D)
  BY <1>8, <1>2, FS_Injection
<1>10. \A k \in D : \E i \in D : place[i] = k
  BY Zenon, <1>9 DEF Surjection
<1>11. \A k \in D : p[k] \in D /\ place[p[k]] = k
  <2> HIDE DEF place
  <2> QED
    BY Zenon, <1>10
<1>12. p \in Bijection(D, D)
  <2> HIDE DEF place
  <2>1. p \in [D -> D]
    BY <1>11
  <2>2. \A k, l \in D : p[k] = p[l] => k = l
    BY <1>11
  <2>3. \A i \in D : \E k \in D : p[k] = i
    <3> SUFFICES ASSUME NEW i \in D PROVE \E k \in D : p[k] = i
      OBVIOUS
    <3>1. place[i] \in D /\ place[p[place[i]]] = place[i]
      BY <1>8, <1>11 DEF Injection
    <3> QED
      BY <3>1, <1>8, <1>11 DEF Injection, IsInjective
  <2> HIDE DEF p
  <2> QED
    BY <2>1, <2>2, <2>3 DEF Bijection, Injection, Surjection, IsInjective
<1>13. SortByKey(s, key) = [k \in D |-> s[p[k]]]
  <2>1. \A i \in D : place[i] = Cardinality({j \in DOMAIN s :
                        \/ key[j] < key[i]
                        \/ key[j] = key[i] /\ j <= i})
    BY <1>1 DEF Precedes
  <2>2. \A k \in D : p[k] = CHOOSE i \in DOMAIN s : Cardinality({j \in DOMAIN s :
                        \/ key[j] < key[i]
                        \/ key[j] = key[i] /\ j <= i}) = k
    BY Zenon, <1>1 DEF Precedes
  <2>3. SortByKey(s, key) =
           [k \in DOMAIN s |-> s[CHOOSE i \in DOMAIN s : Cardinality({j \in DOMAIN s :
                        \/ key[j] < key[i]
                        \/ key[j] = key[i] /\ j <= i}) = k]]
    BY DEF SortByKey
  <2> HIDE DEF p
  <2> QED
    BY Zenon, <1>1, <2>2, <2>3
<1>14. \A k, l \in D : k <= l => key[p[k]] <= key[p[l]]
  <2> SUFFICES ASSUME NEW k \in D, NEW l \in D, k <= l
               PROVE  key[p[k]] <= key[p[l]]
    BY Zenon
  <2> DEFINE i == p[k]
             j == p[l]
  <2>1. i \in D /\ j \in D /\ place[i] = k /\ place[j] = l
    BY Zenon, <1>11
  <2> HIDE DEF p
  <2>2. CASE i = j
    BY <2>1, <2>2, <1>3
  <2>3. CASE i # j
    <3>1. ~Precedes(key, j, i)
      <4> HIDE DEF Down, i, j
      <4> SUFFICES ASSUME Precedes(key, j, i) PROVE FALSE
        OBVIOUS
      <4>1. Cardinality(Down(j)) < Cardinality(Down(i))
        BY <2>1, <2>3, <1>6
      <4>2. l < k
        BY <4>1, <2>1
      <4> QED
        BY <4>2, <1>1
    <3>2. Precedes(key, i, j)
      BY <3>1, <2>1, <1>7
    <3> QED
      BY <3>2, <2>1, <1>3 DEF Precedes
  <2> QED
    BY <2>2, <2>3
<1> HIDE DEF p
<1> QED
  BY <1>12, <1>13, <1>14

-----------------------------------------------------------------------------

\* The argument list of thd_cdev_set_state.
RequestType ==
    [zone : Int, trip : Int, hard_target : BOOLEAN,
     target_state_valid : BOOLEAN, target_value : Int, pid : BOOLEAN,
     min_max_valid : BOOLEAN, min_state : Int, max_state : Int, force : BOOLEAN]

-----------------------------------------------------------------------------
(* Types of the operators of Cdev.                                         *)

\* Wrapping an int gives an int of the width of the build.
LEMMA WrapType ==
    ASSUME NEW x \in Int
    PROVE  Wrap(x) \in Int
<1> DEFINE half == 2 ^ (IntBits - 1)
<1>1. half \in Nat \ {0}
  BY WidthAssumption
<1>2. 2 * half \in Nat \ {0}
  <2> HIDE DEF half
  <2> QED
    BY <1>1
<1>3. (x + half) % (2 * half) \in Int
  <2> HIDE DEF half
  <2> QED
    BY <1>1, <1>2
<1> HIDE DEF half
<1>4. Wrap(x) = ((x + half) % (2 * half)) - half
  BY DEF Wrap, half
<1> QED
  BY <1>1, <1>3, <1>4

\* Clamping to limits keeps a state an integer.
LEMMA ClampType ==
    ASSUME NEW state \in Int, NEW limit \in Int
    PROVE  /\ thd_clamp_state_min(Device, state, limit) \in Int
           /\ thd_clamp_state_max(Device, state, limit) \in Int
BY DeviceAssumption
   DEF thd_clamp_state_min, thd_clamp_state_max, Larger, Smaller, Ascending

\* Writing a state keeps the device object one.
LEMMA SetRawType ==
    ASSUME NEW c \in CdevType, NEW state \in Int
    PROVE  /\ set_curr_state(Device, c, state) \in CdevType
           /\ set_curr_state_raw(Device, c, state) \in CdevType
           /\ \E s \in Int : set_curr_state_raw(Device, c, state) = set_curr_state(Device, c, s)
           /\ [set_curr_state_raw(Device, c, state) EXCEPT !.curr_state = state] \in CdevType
<1>1. RawClamp(Device, state) \in Int /\ \A s \in Int : LimitClamp(Device, s) \in Int
  BY DeviceAssumption DEF RawClamp, LimitClamp
<1>2. \A s \in Int : set_curr_state(Device, c, s) \in CdevType
  BY Zenon, <1>1 DEF set_curr_state, CdevType
<1>3. \E s \in Int : set_curr_state_raw(Device, c, state) = set_curr_state(Device, c, s)
  BY <1>1 DEF set_curr_state_raw
<1>4. set_curr_state_raw(Device, c, state) \in CdevType
  BY <1>2, <1>3
<1> QED
  BY Zenon, <1>2, <1>3, <1>4 DEF CdevType

\* The part of a device object that setting a state leaves alone.
SameHold(a, c) == /\ a.zone_trip_limits = c.zone_trip_limits
                  /\ a.last_state = c.last_state
                  /\ a.since = c.since

\* Writing a state leaves the holds alone.
LEMMA SetKeepsHold ==
    ASSUME NEW c \in CdevType, NEW state \in Int
    PROVE  /\ SameHold(set_curr_state(Device, c, state), c)
           /\ SameHold(set_curr_state_raw(Device, c, state), c)
           /\ SameHold([set_curr_state_raw(Device, c, state) EXCEPT !.curr_state = state], c)
<1>1. \A s \in Int : SameHold(set_curr_state(Device, c, s), c)
  BY DEF set_curr_state, SameHold, CdevType
<1>2. SameHold(set_curr_state_raw(Device, c, state), c)
  BY Zenon, <1>1, SetRawType
<1>3. set_curr_state_raw(Device, c, state) \in CdevType
  BY Zenon, SetRawType
<1> QED
  BY <1>1, <1>2, <1>3 DEF SameHold, CdevType

\* A step of the exponential controller up keeps the device object one.
LEMMA ExponentialUpType ==
    ASSUME NEW c \in CdevType, NEW temp_min \in Int, NEW temp_max \in Int
    PROVE  /\ ExponentialUp(Device, c, temp_min, temp_max) \in CdevType
           /\ SameHold(ExponentialUp(Device, c, temp_min, temp_max), c)
<1> DEFINE curr   == thd_clamp_state_min(Device, c.curr_state, temp_min)
           step   == IF Device.inc_val # 0 THEN Device.inc_val ELSE Device.inc_dec_val
           base   == IF c.trend_increase /\ c.curr_pow = 0
                     THEN curr ELSE c.base_pow_state
           pow    == IF c.trend_increase
                     THEN Smaller(c.curr_pow + 1, default_max_exponent) ELSE 0
           raised == Wrap(base + 2 ^ pow * step)
           wrapped == \/ Device.inc_val < 0 /\ base < raised
                      \/ Device.inc_val > 0 /\ base > raised
           first  == Wrap(curr + step)
           state  == IF ~c.trend_increase THEN first
                     ELSE IF wrapped THEN Device.max_state ELSE raised
           c1     == [c EXCEPT !.curr_pow = pow, !.base_pow_state = base,
                               !.trend_increase = TRUE]
           to     == thd_clamp_state_max(Device, state, temp_max)
<1>1. c.curr_state \in Int /\ c.curr_pow \in 0 .. default_max_exponent
      /\ c.base_pow_state \in Int /\ c.trend_increase \in BOOLEAN
  BY DEF CdevType
<1>2. curr \in Int
  BY Zenon, <1>1, ClampType
<1>3. step \in Int
  BY DeviceAssumption
<1>4. base \in Int
  <2> HIDE DEF curr
  <2> QED
    BY <1>1, <1>2
<1>5. pow \in 0 .. default_max_exponent
  BY <1>1, WidthAssumption DEF Smaller
<1>6. raised \in Int
  <2> HIDE DEF pow, base, step
  <2>1. 2 ^ pow \in Int
    BY <1>5
  <2>2. base + 2 ^ pow * step \in Int
    BY <2>1, <1>3, <1>4
  <2> QED
    BY <2>2, WrapType
<1>7. state \in Int
  <2>1. first \in Int
    <3> HIDE DEF curr, step
    <3> QED
      BY <1>2, <1>3, WrapType
  <2> HIDE DEF first, raised, wrapped
  <2> QED
    BY <2>1, <1>6, DeviceAssumption
<1>8. to \in Int
  <2> HIDE DEF state
  <2> QED
    BY <1>7, ClampType
<1>9. c1 \in CdevType /\ SameHold(c1, c)
  <2> HIDE DEF pow, base
  <2> QED
    BY Zenon, <1>4, <1>5 DEF CdevType, SameHold
<1>10. ExponentialUp(Device, c, temp_min, temp_max) = set_curr_state(Device, c1, to)
  BY DEF ExponentialUp, NextPow, SeriesBase
<1> HIDE DEF c1, to
<1>11. set_curr_state(Device, c1, to) \in CdevType /\ SameHold(set_curr_state(Device, c1, to), c1)
  BY Zenon, <1>8, <1>9, SetRawType, SetKeepsHold
<1> QED
  BY <1>9, <1>10, <1>11 DEF SameHold

\* And so does a step down.
LEMMA ExponentialDownType ==
    ASSUME NEW c \in CdevType
    PROVE  /\ ExponentialDown(Device, c) \in CdevType
           /\ SameHold(ExponentialDown(Device, c), c)
<1> DEFINE curr  == thd_clamp_state_max(Device, get_curr_state(Device, c), 0)
           step  == Magnitude(IF Device.dec_val # 0 THEN Device.dec_val
                                                    ELSE Device.inc_dec_val)
           lower == IF Device.auto_down_adjust THEN Device.min_state
                    ELSE IF Ascending(Device) THEN curr - step ELSE curr + step
           to    == thd_clamp_state_max(Device, thd_clamp_state_min(Device, lower, 0), 0)
           c1    == [c EXCEPT !.curr_pow = 0, !.trend_increase = FALSE]
<1>1. get_curr_state(Device, c) \in Int
  BY DEF get_curr_state, CdevType
<1>2. curr \in Int
  BY <1>1, ClampType
<1>3. step \in Int
  BY DeviceAssumption DEF Magnitude
<1>4. lower \in Int
  <2> HIDE DEF curr, step
  <2> QED
    BY <1>2, <1>3, DeviceAssumption
<1>5. to \in Int
  <2> HIDE DEF lower
  <2>1. thd_clamp_state_min(Device, lower, 0) \in Int
    BY <1>4, ClampType
  <2> QED
    BY <2>1, ClampType
<1>6. c1 \in CdevType /\ SameHold(c1, c)
  <2>1. 0 \in 0 .. default_max_exponent /\ FALSE \in BOOLEAN
    BY WidthAssumption
  <2>2. c1 \in CdevType
    BY Zenon, <2>1 DEF CdevType
  <2> QED
    BY <2>2 DEF CdevType, SameHold
<1>7. ExponentialDown(Device, c) = set_curr_state(Device, c1, to)
  BY DEF ExponentialDown
<1> HIDE DEF c1, to
<1>8. set_curr_state(Device, c1, to) \in CdevType /\ SameHold(set_curr_state(Device, c1, to), c1)
  BY Zenon, <1>5, <1>6, SetRawType, SetKeepsHold
<1> QED
  BY <1>6, <1>7, <1>8 DEF SameHold

\* Whatever branch picks the state, the object stays one and its holds stay.
LEMMA ApplyStateType ==
    ASSUME NEW c \in CdevType, NEW r \in RequestType, NEW state \in {0, 1},
           NEW valid \in BOOLEAN, NEW target \in Int, NEW temp_min \in Int,
           NEW temp_max \in Int, NEW pid_output \in Int
    PROVE  LET a == ApplyState(Device, c, r, state, valid, target,
                               temp_min, temp_max, pid_output)
           IN  /\ a \in CdevType
               /\ a.zone_trip_limits = c.zone_trip_limits
               /\ a.last_state = state
<1> DEFINE now == [c EXCEPT !.since = 0, !.last_state = state,
                            !.curr_state = get_curr_state(Device, c)]
           c1  == IF now.curr_state = Device.min_state
                  THEN [now EXCEPT !.curr_pow = 0, !.trend_increase = FALSE]
                  ELSE now
           a   == ApplyState(Device, c, r, state, valid, target,
                             temp_min, temp_max, pid_output)
<1>0. c1 = Acting(Device, c, state)
  BY DEF Acting
<1>1. get_curr_state(Device, c) \in Int
  BY DEF get_curr_state, CdevType
<1>2. 0 \in 0 .. default_max_exponent /\ 0 \in 0 .. Device.debounce_interval + 1
  BY WidthAssumption, DeviceAssumption
<1>3. now \in CdevType
  BY Zenon, <1>1, <1>2 DEF CdevType
<1>4. now.zone_trip_limits = c.zone_trip_limits /\ now.last_state = state
  BY DEF CdevType
<1>5. c1 \in CdevType
  <2> HIDE DEF now
  <2> QED
    BY Zenon, <1>2, <1>3 DEF CdevType
<1>6. c1.zone_trip_limits = c.zone_trip_limits /\ c1.last_state = state
  <2> HIDE DEF now
  <2> QED
    BY <1>3, <1>4 DEF CdevType
<1>7. a \in CdevType /\ SameHold(a, c1)
  <2> HIDE DEF c1, a
  <2>1. CASE valid
    <3>1. a = [set_curr_state_raw(Device, c1, target) EXCEPT !.curr_state = target]
      BY <2>1, <1>0 DEF a, ApplyState
    <3> QED
      BY <3>1, <1>5, SetRawType, SetKeepsHold
  <2>2. CASE ~valid /\ r.hard_target
    <3>1. a = set_curr_state_raw(Device, c1, Device.max_state)
      BY <2>2, <1>0 DEF a, ApplyState
    <3> QED
      BY Zenon, <3>1, <1>5, DeviceAssumption, SetRawType, SetKeepsHold
  <2>3. CASE ~valid /\ ~r.hard_target /\ (r.pid \/ Device.pid_enable)
    <3>1. a = set_curr_state_raw(Device, c1, pid_output)
      BY <2>3, <1>0 DEF a, ApplyState
    <3> QED
      BY Zenon, <3>1, <1>5, SetRawType, SetKeepsHold
  <2>4. CASE ~valid /\ ~r.hard_target /\ ~(r.pid \/ Device.pid_enable) /\ state = 1
    <3>1. a = ExponentialUp(Device, c1, temp_min, temp_max)
      BY <2>4, <1>0 DEF a, ApplyState
    <3> QED
      BY <3>1, <1>5, ExponentialUpType
  <2>5. CASE ~valid /\ ~r.hard_target /\ ~(r.pid \/ Device.pid_enable) /\ state # 1
    <3>1. a = ExponentialDown(Device, c1)
      BY <2>5, <1>0 DEF a, ApplyState
    <3> QED
      BY <3>1, <1>5, ExponentialDownType
  <2> QED
    BY <2>1, <2>2, <2>3, <2>4, <2>5
<1> HIDE DEF c1
<1> QED
  BY <1>6, <1>7 DEF SameHold

\* The entry that a request adds is an entry.
LEMMA LimitOfType ==
    ASSUME NEW r \in RequestType
    PROVE  LimitOf(Device, r) \in LimitType
BY DeviceAssumption DEF LimitOf, NotGiven, LimitType, RequestType

\* Entry k of the sorted list is an entry of the list with the new one
\* appended; both have the same length, and every entry is still there.
Rearranges(s, t) ==
    /\ Len(s) = Len(t)
    /\ \E p \in Bijection(1 .. Len(t), 1 .. Len(t)) :
         s = [k \in 1 .. Len(t) |-> t[p[k]]]

\* The sorts by target and by limits rearrange the entries.
LEMMA SortRearranges ==
    ASSUME NEW s \in Seq(LimitType)
    PROVE  /\ SortByTarget(Device, s) \in Seq(LimitType)
           /\ SortByLimits(Device, s) \in Seq(LimitType)
           /\ Rearranges(SortByTarget(Device, s), s)
           /\ Rearranges(SortByLimits(Device, s), s)
<1>1. Len(s) \in Nat /\ DOMAIN s = 1 .. Len(s) /\ s \in [1 .. Len(s) -> LimitType]
  BY LenProperties
<1>2. \A i \in DOMAIN s : /\ s[i].target_value \in Int
                          /\ s[i].min_state \in Int /\ s[i].max_state \in Int
  BY Zenon, <1>1 DEF LimitType
<1>3. ASSUME NEW key \in [DOMAIN s -> Int]
      PROVE  SortByKey(s, key) \in Seq(LimitType) /\ Rearranges(SortByKey(s, key), s)
  <2>1. PICK p \in Bijection(1 .. Len(s), 1 .. Len(s)) :
              SortByKey(s, key) = [k \in 1 .. Len(s) |-> s[p[k]]]
    BY Zenon, SortPermutes
  <2>2. \A k \in 1 .. Len(s) : p[k] \in 1 .. Len(s)
    BY DEF Bijection, Injection
  <2>3. SortByKey(s, key) \in [1 .. Len(s) -> LimitType]
    BY <1>1, <2>1, <2>2
  <2>4. SortByKey(s, key) \in Seq(LimitType)
    BY <2>3, <1>1, SeqDef
  <2>5. Len(SortByKey(s, key)) = Len(s)
    BY <2>3, <2>4, <1>1, LenProperties
  <2> QED
    BY <2>1, <2>4, <2>5 DEF Rearranges
<1> DEFINE byTarget == [i \in DOMAIN s |-> IF Device.min_state < Device.max_state
                                          THEN s[i].target_value
                                          ELSE -s[i].target_value]
           byLimits == [i \in DOMAIN s |-> IF Device.min_state > Device.max_state
                                          THEN -s[i].max_state
                                          ELSE s[i].min_state]
<1>4. byTarget \in [DOMAIN s -> Int] /\ byLimits \in [DOMAIN s -> Int]
  BY <1>2
<1>5. SortByTarget(Device, s) = SortByKey(s, byTarget)
      /\ SortByLimits(Device, s) = SortByKey(s, byLimits)
  BY DEF SortByTarget, SortByLimits
<1> HIDE DEF byTarget, byLimits
<1> QED
  BY <1>3, <1>4, <1>5

\* Two rearrangements are one.
LEMMA RearrangesTransitive ==
    ASSUME NEW s \in Seq(LimitType), NEW t \in Seq(LimitType), NEW u \in Seq(LimitType),
           Rearranges(s, t), Rearranges(t, u)
    PROVE  Rearranges(s, u)
<1> DEFINE D == 1 .. Len(u)
<1>1. Len(s) = Len(u) /\ Len(t) = Len(u)
  BY DEF Rearranges
<1>2. PICK p \in Bijection(D, D) : s = [k \in D |-> t[p[k]]]
  BY <1>1 DEF Rearranges
<1>3. PICK q \in Bijection(D, D) : t = [k \in D |-> u[q[k]]]
  BY DEF Rearranges
<1> DEFINE pq == [k \in D |-> q[p[k]]]
<1> HIDE DEF D
<1>4. /\ \A k \in D : p[k] \in D /\ q[k] \in D
      /\ \A k, l \in D : p[k] = p[l] => k = l
      /\ \A k, l \in D : q[k] = q[l] => k = l
      /\ \A i \in D : \E k \in D : p[k] = i
      /\ \A i \in D : \E k \in D : q[k] = i
  BY Zenon DEF Bijection, Injection, Surjection, IsInjective
<1>5. pq \in Bijection(D, D)
  <2>1. pq \in [D -> D] /\ \A k, l \in D : pq[k] = pq[l] => k = l
    BY ZenonT(30), <1>4
  <2>2. ASSUME NEW i \in D PROVE \E k \in D : pq[k] = i
    <3>1. PICK j \in D : q[j] = i
      BY <1>4
    <3>2. PICK k \in D : p[k] = j
      BY <1>4
    <3> QED
      BY <3>1, <3>2
  <2> QED
    BY <2>1, <2>2 DEF Bijection, Injection, Surjection, IsInjective
<1>6. s = [k \in D |-> u[pq[k]]]
  BY Zenon, <1>2, <1>3, <1>4
<1> QED
  BY <1>1, <1>5, <1>6 DEF Rearranges, D

\* No rearrangement is one.
LEMMA RearrangesReflexive ==
    ASSUME NEW s \in Seq(LimitType)
    PROVE  Rearranges(s, s)
<1> DEFINE id == [k \in 1 .. Len(s) |-> k]
<1>1. id \in Bijection(1 .. Len(s), 1 .. Len(s))
  BY DEF Bijection, Injection, Surjection, IsInjective
<1>2. s = [k \in 1 .. Len(s) |-> s[id[k]]]
  BY LenProperties
<1> HIDE DEF id
<1> QED
  BY <1>1, <1>2 DEF Rearranges

\* AddLimit adds exactly the new entry.
LEMMA AddLimitFacts ==
    ASSUME NEW limits \in Seq(LimitType), NEW r \in RequestType
    PROVE  /\ Append(limits, LimitOf(Device, r)) \in Seq(LimitType)
           /\ AddLimit(Device, limits, r) \in Seq(LimitType)
           /\ Rearranges(AddLimit(Device, limits, r), Append(limits, LimitOf(Device, r)))
<1> DEFINE pushed   == Append(limits, LimitOf(Device, r))
           byTarget == IF r.target_state_valid THEN SortByTarget(Device, pushed) ELSE pushed
           all      == IF r.min_max_valid THEN SortByLimits(Device, byTarget) ELSE byTarget
<1>1. pushed \in Seq(LimitType)
  BY LimitOfType, AppendProperties
<1> HIDE DEF pushed
<1>2. byTarget \in Seq(LimitType) /\ Rearranges(byTarget, pushed)
  BY <1>1, SortRearranges, RearrangesReflexive
<1> HIDE DEF byTarget
<1>3. all \in Seq(LimitType) /\ Rearranges(all, byTarget)
  BY <1>2, SortRearranges, RearrangesReflexive
<1> HIDE DEF all
<1>4. Rearranges(all, pushed)
  BY <1>1, <1>2, <1>3, RearrangesTransitive
<1>5. AddLimit(Device, limits, r) = all
  BY DEF AddLimit, all, byTarget, pushed
<1> QED
  BY <1>1, <1>3, <1>4, <1>5 DEF pushed

-----------------------------------------------------------------------------
(* What a list of holds must be for OneHoldPerTrip and HoldsAreRequests.   *)

GoodList(s) ==
    /\ s \in Seq(LimitType)
    /\ \A i, j \in DOMAIN s : s[i].zone = s[j].zone /\ s[i].trip = s[j].trip => i = j
    /\ \A i \in DOMAIN s : \E r \in Requests : s[i] = LimitOf(Device, Mapped(r))

\* A rearrangement of good holds is good.
LEMMA GoodRearranged ==
    ASSUME NEW s \in Seq(LimitType), NEW t, GoodList(t), Rearranges(s, t)
    PROVE  GoodList(s)
<1> DEFINE D == 1 .. Len(t)
<1>1. DOMAIN t = D
  BY LenProperties DEF GoodList
<1>2. PICK p \in Bijection(D, D) : s = [k \in D |-> t[p[k]]]
  BY DEF Rearranges
<1> HIDE DEF D
<1>3. DOMAIN s = D /\ \A k \in D : p[k] \in D /\ s[k] = t[p[k]]
  BY <1>2 DEF Bijection, Injection
<1>4. \A k, l \in D : p[k] = p[l] => k = l
  BY DEF Bijection, Injection, IsInjective
<1>5. \A i, j \in D : s[i].zone = s[j].zone /\ s[i].trip = s[j].trip => i = j
  BY SMTT(30), <1>1, <1>3, <1>4 DEF GoodList
<1>6. \A i \in D : \E r \in Requests : s[i] = LimitOf(Device, Mapped(r))
  BY <1>1, <1>3 DEF GoodList
<1> QED
  BY <1>3, <1>5, <1>6 DEF GoodList

\* A request as passed on, or as thd_cdev_set_min_state makes it, is of its trip.
LEMMA MappedType ==
    ASSUME NEW r \in Requests
    PROVE  /\ r \in RequestType
           /\ Mapped(r) \in RequestType
           /\ Mapped(r).zone = r.zone
           /\ Mapped(r).trip = r.trip
           /\ Mapped(r).force = FALSE
           /\ MinStateRequest(Device, Mapped(r)) \in RequestType
           /\ MinStateRequest(Device, Mapped(r)).zone = r.zone
           /\ MinStateRequest(Device, Mapped(r)).trip = r.trip
<1>1. r \in RequestType /\ r.force = FALSE
  BY Zenon, RequestAssumption DEF RequestType
<1>2. map_target_state(Device, r.target_state_valid, r.target_value) \in Int
  BY <1>1, DeviceAssumption DEF map_target_state, RequestType
<1>3. /\ Mapped(r) \in RequestType
      /\ Mapped(r).zone = r.zone
      /\ Mapped(r).trip = r.trip
      /\ Mapped(r).force = FALSE
  BY <1>1, <1>2 DEF Mapped, RequestType
<1> DEFINE m == Mapped(r)
<1>4. m \in RequestType
  BY <1>3
<1> HIDE DEF m
<1>5. /\ MinStateRequest(Device, m) \in RequestType
      /\ MinStateRequest(Device, m).zone = m.zone
      /\ MinStateRequest(Device, m).trip = m.trip
  <2>1. Device.min_state \in Int /\ FALSE \in BOOLEAN /\ TRUE \in BOOLEAN /\ 0 \in Int
    BY DeviceAssumption
  <2>2. MinStateRequest(Device, m) \in RequestType
    BY Zenon, <1>4, <2>1 DEF MinStateRequest, RequestType
  <2> QED
    BY <1>4, <2>2 DEF MinStateRequest, RequestType
<1> QED
  BY <1>1, <1>3, <1>5 DEF m

\* The entry of a trip that holds nothing yet may be added.
LEMMA GoodAdded ==
    ASSUME NEW s, GoodList(s), NEW r \in Requests,
           \A i \in DOMAIN s : ~HeldBy(s[i], Mapped(r))
    PROVE  GoodList(AddLimit(Device, s, Mapped(r)))
<1> DEFINE e == LimitOf(Device, Mapped(r))
           t == Append(s, e)
<1>1. s \in Seq(LimitType) /\ Mapped(r) \in RequestType
  BY Zenon, MappedType DEF GoodList
<1>2. /\ t \in Seq(LimitType)
      /\ AddLimit(Device, s, Mapped(r)) \in Seq(LimitType)
      /\ Rearranges(AddLimit(Device, s, Mapped(r)), t)
  BY <1>1, AddLimitFacts
<1>3. e.zone = Mapped(r).zone /\ e.trip = Mapped(r).trip
  BY DEF LimitOf
<1>4. e \in LimitType
  BY <1>1, LimitOfType
<1> HIDE DEF e
<1>5. /\ Len(s) \in Nat /\ DOMAIN s = 1 .. Len(s)
      /\ DOMAIN t = 1 .. Len(s) + 1
      /\ \A i \in 1 .. Len(s) : t[i] = s[i]
      /\ t[Len(s) + 1] = e
  <2>1. Len(t) = Len(s) + 1
    BY <1>1, <1>4, AppendProperties
  <2> QED
    BY <1>1, <1>2, <1>4, <2>1, AppendProperties, LenProperties
<1> HIDE DEF t
<1>6. GoodList(t)
  <2>1. \A i \in DOMAIN t : i \in DOMAIN s \/ i = Len(s) + 1
    BY <1>5
  <2>2. ASSUME NEW i \in DOMAIN t, NEW j \in DOMAIN t,
               t[i].zone = t[j].zone, t[i].trip = t[j].trip
        PROVE  i = j
    BY <2>1, <2>2, <1>3, <1>5 DEF GoodList, HeldBy
  <2>3. \A i \in DOMAIN t : \E q \in Requests : t[i] = LimitOf(Device, Mapped(q))
    BY <2>1, <1>5 DEF GoodList, e
  <2> QED
    BY <1>2, <2>2, <2>3 DEF GoodList
<1> QED
  BY <1>2, <1>6, GoodRearranged DEF e, t

\* Erasing the last entry leaves good holds.
LEMMA GoodPrefix ==
    ASSUME NEW s, GoodList(s), s # << >>
    PROVE  /\ GoodList(SubSeq(s, 1, Len(s) - 1))
           /\ Len(s) \in DOMAIN s
           /\ Len(s) \in Nat /\ DOMAIN s = 1 .. Len(s)
           /\ Len(SubSeq(s, 1, Len(s) - 1)) = Len(s) - 1
           /\ \A i \in 1 .. Len(s) - 1 : SubSeq(s, 1, Len(s) - 1)[i] = s[i]
<1> DEFINE t == SubSeq(s, 1, Len(s) - 1)
<1>1. s \in Seq(LimitType) /\ Len(s) \in Nat /\ DOMAIN s = 1 .. Len(s) /\ Len(s) # 0
  BY LenProperties, EmptySeq DEF GoodList
<1>2. t \in Seq(LimitType) /\ Len(t) = Len(s) - 1
      /\ \A i \in 1 .. Len(s) - 1 : t[i] = s[i]
  BY <1>1, SubSeqProperties
<1>3. DOMAIN t = 1 .. Len(s) - 1
  BY <1>2, LenProperties
<1> HIDE DEF t
<1>4. GoodList(t)
  BY SMTT(30), <1>1, <1>2, <1>3 DEF GoodList
<1> QED
  BY <1>1, <1>2, <1>4 DEF t

-----------------------------------------------------------------------------
(* The inductive invariant, and the three calls a trip makes.              *)

GoodCdev(c) ==
    /\ c \in CdevType
    /\ GoodList(c.zone_trip_limits)
    /\ c.zone_trip_limits = << >> => c.last_state = 0

\* The entry that decides is an entry, with integers in it.
LEMMA LimitFields ==
    ASSUME NEW s, GoodList(s), s # << >>
    PROVE  /\ LastLimit(s) \in LimitType
           /\ LastLimit(s).target_state_valid \in BOOLEAN
           /\ LastLimit(s).target_value \in Int
           /\ LastLimit(s).min_state \in Int
           /\ LastLimit(s).max_state \in Int
<1>1. LastLimit(s) \in LimitType
  BY GoodPrefix, ElementOfSeq DEF GoodList, LastLimit
<1> QED
  BY <1>1 DEF LimitType

\* The list once the caller's entry is in it.
LimitsWith(c, m) ==
    IF Holds(c, m) THEN c.zone_trip_limits ELSE AddLimit(Device, c.zone_trip_limits, m)

\* The holds once the caller is among them.
LEMMA LimitsWithCaller ==
    ASSUME NEW c, GoodCdev(c), NEW r \in Requests
    PROVE  /\ GoodList(LimitsWith(c, Mapped(r)))
           /\ LimitsWith(c, Mapped(r)) # << >>
<1> DEFINE m      == Mapped(r)
           limits == IF Holds(c, m) THEN c.zone_trip_limits
                     ELSE AddLimit(Device, c.zone_trip_limits, m)
<1>1. m \in RequestType
  BY Zenon, MappedType
<1>2. GoodList(limits)
  <2>1. CASE Holds(c, m)
    BY <2>1 DEF GoodCdev
  <2>2. CASE ~Holds(c, m)
    BY <2>2, GoodAdded DEF GoodCdev, Holds
  <2> QED
    BY <2>1, <2>2
<1>3. limits # << >>
  <2>1. CASE Holds(c, m)
    BY <2>1 DEF Holds
  <2>2. CASE ~Holds(c, m)
    <3> DEFINE t == Append(c.zone_trip_limits, LimitOf(Device, m))
               l == AddLimit(Device, c.zone_trip_limits, m)
    <3>1. c.zone_trip_limits \in Seq(LimitType)
      BY DEF GoodCdev, GoodList
    <3>2. Len(t) = Len(c.zone_trip_limits) + 1
      BY <3>1, <1>1, LimitOfType, AppendProperties
    <3>3. Len(l) = Len(t)
      BY <3>1, <1>1, AddLimitFacts DEF Rearranges
    <3>4. Len(c.zone_trip_limits) \in Nat
      BY <3>1, LenProperties
    <3>5. Len(l) # 0
      BY <3>2, <3>3, <3>4
    <3> QED
      BY <2>2, <3>5, EmptySeq
  <2> QED
    BY <2>1, <2>2
<1> QED
  BY <1>2, <1>3 DEF LimitsWith

\* An activation keeps the invariant.
LEMMA ActivateKeeps ==
    ASSUME NEW c, GoodCdev(c), NEW r \in Requests, NEW out \in Int
    PROVE  /\ GoodCdev(ActivateState(Device, c, Mapped(r), out))
           /\ ActivateState(Device, c, Mapped(r), out).zone_trip_limits # << >>
<1> DEFINE m      == Mapped(r)
           limits == IF Holds(c, m) THEN c.zone_trip_limits
                     ELSE AddLimit(Device, c.zone_trip_limits, m)
           limit  == LastLimit(limits)
           c1     == [c EXCEPT !.zone_trip_limits = limits]
           a      == ActivateState(Device, c, m, out)
           b      == ApplyState(Device, c1, m, 1, limit.target_state_valid,
                                limit.target_value, limit.min_state,
                                limit.max_state, out)
<1>1. m \in RequestType
  BY Zenon, MappedType
<1>2. GoodList(limits)
  BY LimitsWithCaller DEF LimitsWith
<1>3. limits # << >>
  BY LimitsWithCaller DEF LimitsWith
<1> HIDE DEF limits, m
<1>4. c1 \in CdevType /\ c1.zone_trip_limits = limits
  BY Zenon, <1>2 DEF GoodCdev, GoodList, CdevType
<1>5. /\ limit.target_state_valid \in BOOLEAN /\ limit.target_value \in Int
      /\ limit.min_state \in Int /\ limit.max_state \in Int
  BY <1>2, <1>3, LimitFields
<1>6. a = c1 \/ a = b
  BY Zenon DEF ActivateState, m, limits
<1> HIDE DEF c1, limit
<1>7. b \in CdevType /\ b.zone_trip_limits = limits
  BY <1>1, <1>4, <1>5, ApplyStateType
<1> HIDE DEF a, b
<1> QED
  BY <1>2, <1>3, <1>4, <1>6, <1>7 DEF GoodCdev, a, m

\* A deactivation keeps it.
LEMMA DeactivateKeeps ==
    ASSUME NEW c, GoodCdev(c), NEW q \in RequestType, NEW out \in Int
    PROVE  GoodCdev(DeactivateState(Device, c, q, out))
<1> DEFINE limits == c.zone_trip_limits
           last   == LastLimit(limits)
           rest   == SubSeq(limits, 1, Len(limits) - 1)
           c1     == [c EXCEPT !.zone_trip_limits = rest]
<1>1. c \in CdevType /\ GoodList(limits)
  BY DEF GoodCdev
<1>2. CASE limits # << >>
  <2> HIDE DEF limits
  <2>1. GoodList(rest)
    BY <1>1, <1>2, GoodPrefix
  <2>2. last.target_state_valid \in BOOLEAN
    BY <1>1, <1>2, LimitFields
  <2> HIDE DEF rest, last
  <2>3. c1 \in CdevType /\ c1.zone_trip_limits = rest
    BY Zenon, <1>1, <2>1 DEF GoodList, CdevType
  <2> HIDE DEF c1
  <2>4. q.target_state_valid \in BOOLEAN /\ q.target_value \in Int /\ q.force \in BOOLEAN
    BY DEF RequestType
  <2>5. DeactivateState(Device, c, q, out) = ReleaseLimit(Device, c, q, out)
    BY <1>2 DEF DeactivateState, limits
  <2>6. CASE ~HeldBy(last, q)
    BY <2>5, <2>6 DEF ReleaseLimit, last, limits
  <2>7. CASE HeldBy(last, q)
    <3> DEFINE after == AfterRelease(Device, q, last, rest)
               b     == ApplyState(Device, c1, q, 0, after.valid, after.target, 0, 0, out)
    <3>1. after.valid \in BOOLEAN /\ after.target \in Int
      <4>1. CASE rest # << >>
        BY <2>1, <4>1, LimitFields DEF AfterRelease
      <4>2. CASE rest = << >>
        BY <2>2, <2>4, <4>2, DeviceAssumption DEF AfterRelease
      <4> QED
        BY <4>1, <4>2
    <3>2. DeactivateState(Device, c, q, out) = b
      BY <2>5, <2>7 DEF ReleaseLimit, last, rest, c1, limits
    <3> HIDE DEF after
    <3>3. b \in CdevType /\ b.zone_trip_limits = rest /\ b.last_state = 0
      BY <2>3, <3>1, ApplyStateType
    <3> HIDE DEF b
    <3> QED
      BY <2>1, <3>2, <3>3 DEF GoodCdev
  <2> QED
    BY <2>6, <2>7
<1>3. CASE limits = << >>
  <2> DEFINE b == ApplyState(Device, c, q, 0, q.force, Device.min_state, 0, 0, out)
  <2>1. DeactivateState(Device, c, q, out) \in {c, b}
    BY <1>3 DEF DeactivateState
  <2>2. q.force \in BOOLEAN /\ Device.min_state \in Int
    BY DeviceAssumption DEF RequestType
  <2>3. b \in CdevType /\ b.zone_trip_limits = limits /\ b.last_state = 0
    BY <1>1, <2>2, ApplyStateType
  <2> HIDE DEF b
  <2> QED
    BY <1>1, <2>1, <2>3 DEF GoodCdev
<1> QED
  BY <1>2, <1>3

\* A release by thd_cdev_set_min_state keeps it.
LEMMA SetMinKeeps ==
    ASSUME NEW c, GoodCdev(c), NEW r \in Requests
    PROVE  GoodCdev(thd_cdev_set_min_state(Device, c, Mapped(r)))
<1> DEFINE c1 == [c EXCEPT !.trend_increase = FALSE]
<1>1. GoodCdev(c1)
  <2>1. c1 \in CdevType
    BY Zenon DEF GoodCdev, CdevType
  <2>2. c1.zone_trip_limits = c.zone_trip_limits /\ c1.last_state = c.last_state
    BY DEF GoodCdev, CdevType
  <2> HIDE DEF c1
  <2> QED
    BY <2>1, <2>2 DEF GoodCdev
<1> HIDE DEF c1
<1> QED
  BY Zenon, <1>1, MappedType, DeviceAssumption, DeactivateKeeps
     DEF thd_cdev_set_min_state, c1

\* The passing of time keeps it.
LEMMA ElapseKeeps ==
    ASSUME NEW c, GoodCdev(c)
    PROVE  GoodCdev(Elapse(Device, c))
<1> DEFINE later == Smaller(c.since + 1, Device.debounce_interval + 1)
<1>1. later \in 0 .. Device.debounce_interval + 1
  <2>1. c.since \in 0 .. Device.debounce_interval + 1
    BY DEF GoodCdev, CdevType
  <2> QED
    BY <2>1, DeviceAssumption DEF Smaller
<1> HIDE DEF later
<1>2. Elapse(Device, c) = [c EXCEPT !.since = later]
  BY DEF Elapse, later
<1>3. Elapse(Device, c) \in CdevType
  BY <1>1, <1>2 DEF GoodCdev, CdevType
<1>4. /\ Elapse(Device, c).zone_trip_limits = c.zone_trip_limits
      /\ Elapse(Device, c).last_state = c.last_state
  BY <1>2 DEF GoodCdev, CdevType
<1> QED
  BY <1>3, <1>4 DEF GoodCdev

-----------------------------------------------------------------------------

IndInv == GoodCdev(cdev) /\ hot \subseteq Requests

\* It holds at the start.
LEMMA IndInvInit == Init => IndInv
<1> SUFFICES ASSUME Init PROVE IndInv
  OBVIOUS
<1>1. PICK s \in BootStates : cdev = BootCdev(s)
  BY DEF Init
<1>2. s \in Int
  BY BootAssumption, DeviceAssumption DEF StateRange
<1>3. << >> \in Seq(LimitType) /\ DOMAIN << >> = {}
  BY EmptySeq
<1>4. /\ 0 \in 0 .. default_max_exponent
      /\ Device.debounce_interval + 1 \in 0 .. Device.debounce_interval + 1
  BY WidthAssumption, DeviceAssumption
<1>5. cdev \in CdevType
  BY <1>1, <1>2, <1>3, <1>4 DEF BootCdev, CdevType
<1>6. cdev.zone_trip_limits = << >> /\ cdev.last_state = 0
  BY <1>1 DEF BootCdev
<1>7. GoodList(cdev.zone_trip_limits)
  BY <1>3, <1>6 DEF GoodList
<1> QED
  BY <1>5, <1>6, <1>7 DEF Init, IndInv, GoodCdev

\* The PID controller returns integers.
LEMMA PidOutputsType == \A r \in Requests : PidOutputs(r) \subseteq Int
BY DeviceAssumption DEF PidOutputs, StateRange

\* Every step keeps it.
LEMMA IndInvStep == IndInv /\ [Next]_vars => IndInv'
<1> SUFFICES ASSUME IndInv, [Next]_vars PROVE IndInv'
  OBVIOUS
<1>1. GoodCdev(cdev) /\ hot \subseteq Requests
  BY DEF IndInv
<1>2. ASSUME GoodCdev(cdev'), hot' \subseteq Requests PROVE IndInv'
  BY <1>2 DEF IndInv, GoodCdev, GoodList
<1>3. ASSUME NEW r \in Requests, Heat(r) PROVE IndInv'
  BY <1>1, <1>2, <1>3 DEF Heat
<1>4. ASSUME NEW r \in Requests, Cool(r) PROVE IndInv'
  BY <1>1, <1>2, <1>4 DEF Cool
<1>5. ASSUME NEW r \in Requests, Activate(r) PROVE IndInv'
  <2>1. PICK out \in PidOutputs(r) : cdev' = ActivateState(Device, cdev, Mapped(r), out)
    BY <1>5 DEF Activate
  <2>2. out \in Int
    BY PidOutputsType
  <2>3. GoodCdev(cdev')
    BY <1>1, <2>1, <2>2, ActivateKeeps
  <2> QED
    BY <1>1, <1>2, <1>5, <2>3 DEF Activate
<1>6. ASSUME NEW r \in Requests, Deactivate(r) PROVE IndInv'
  <2>1. PICK out \in PidOutputs(r) : cdev' = DeactivateState(Device, cdev, Mapped(r), out)
    BY <1>6 DEF Deactivate
  <2>2. out \in Int /\ Mapped(r) \in RequestType
    BY Zenon, PidOutputsType, MappedType
  <2>3. GoodCdev(cdev')
    BY <1>1, <2>1, <2>2, DeactivateKeeps
  <2> QED
    BY <1>1, <1>2, <1>6, <2>3 DEF Deactivate
<1>7. ASSUME NEW r \in Requests, Reset(r) PROVE IndInv'
  BY <1>1, <1>2, <1>7, SetMinKeeps DEF Reset
<1>8. CASE Tick
  BY <1>1, <1>2, <1>8, ElapseKeeps DEF Tick
<1>9. CASE UNCHANGED vars
  BY <1>1, <1>2, <1>9 DEF vars
<1> QED
  BY <1>3, <1>4, <1>5, <1>6, <1>7, <1>8, <1>9 DEF Next

\* So it always holds.
LEMMA IndInvAlways == Spec => []IndInv
BY IndInvInit, IndInvStep, PTL DEF Spec

\* The device object keeps its type under every interleaving of trips.
THEOREM TypeCorrect == Spec => []TypeOK
<1>1. IndInv => TypeOK
  BY DEF IndInv, GoodCdev, TypeOK
<1> QED
  BY <1>1, IndInvAlways, PTL

\* zone_trip_limits never has two entries of one trip, for any number of
\* zones and trips.
THEOREM HoldsAreUnique == Spec => []OneHoldPerTrip
<1>1. IndInv => OneHoldPerTrip
  BY DEF IndInv, GoodCdev, GoodList, OneHoldPerTrip, Limits
<1> QED
  BY <1>1, IndInvAlways, PTL

\* An entry of zone_trip_limits always carries its own trip's values.
THEOREM HoldsAreFaithful == Spec => []HoldsAreRequests
<1>1. IndInv => HoldsAreRequests
  BY DEF IndInv, GoodCdev, GoodList, HoldsAreRequests, Limits
<1> QED
  BY <1>1, IndInvAlways, PTL

\* The debounce never swallows the first activation of an idle device.
THEOREM IdleDeactivated == Spec => []IdleIsDeactivated
<1>1. IndInv => IdleIsDeactivated
  BY DEF IndInv, GoodCdev, IdleIsDeactivated, Limits
<1> QED
  BY <1>1, IndInvAlways, PTL
=============================================================================
