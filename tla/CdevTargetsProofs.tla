-------------------------- MODULE CdevTargetsProofs --------------------------
(***************************************************************************)
(* A device whose trips all ask for target states: the order of its list,  *)
(* what a release leaves behind, and that it implements SharedDevice, for  *)
(* every device and every set of trips.                                    *)
(***************************************************************************)
EXTENDS CdevTargets, CdevArbitrationProofs

\* The order by which SortByTarget sorts: ascending means more restrictive.
Weight(v) == IF Device.min_state < Device.max_state THEN v ELSE -v

Sorted(s) ==
    \A i, j \in DOMAIN s : i <= j => Weight(s[i].target_value) <= Weight(s[j].target_value)

\* The trips that have an entry in a list.
Who(s) == {r \in Requests : \E i \in DOMAIN s : HeldBy(s[i], r)}

-----------------------------------------------------------------------------
(* Requests and levels.                                                    *)

\* These devices get a request as it is, with a target of their range.
LEMMA MappedSame ==
    ASSUME NEW r \in Requests
    PROVE  /\ Mapped(r) = r
           /\ r \in RequestType
           /\ r.target_state_valid = TRUE /\ r.min_max_valid = FALSE /\ r.force = FALSE
           /\ r.target_value \in Int
           /\ r.target_value \in StateRange(Device)
           /\ LimitOf(Device, r).zone = r.zone
           /\ LimitOf(Device, r).trip = r.trip
           /\ LimitOf(Device, r).target_value = r.target_value
           /\ LimitOf(Device, r).target_state_valid = TRUE
<1>1. r \in RequestType /\ r.force = FALSE
  BY Zenon, RequestAssumption DEF RequestType
<1>2. r.target_state_valid = TRUE /\ r.min_max_valid = FALSE /\ r.target_value \in StateRange(Device)
  BY <1>1, TargetsAssumption DEF RequestType
<1>3. map_target_state(Device, r.target_state_valid, r.target_value) = r.target_value
  BY TargetsAssumption DEF map_target_state
<1>4. Mapped(r) = r
  BY <1>1, <1>3 DEF Mapped, RequestType
<1>5. r.target_value \in Int
  BY <1>1 DEF RequestType
<1> QED
  BY <1>1, <1>2, <1>4, <1>5 DEF LimitOf

\* How restrictive a state is, as a number.
LEMMA LevelFacts ==
    ASSUME NEW v \in StateRange(Device), NEW w \in StateRange(Device)
    PROVE  /\ v \in Int
           /\ Level(v) \in Nat
           /\ Weight(v) \in Int
           /\ Weight(v) <= Weight(w) <=> Level(v) <= Level(w)
           /\ MoreRestrictive(Device, v, w) <=> Weight(v) > Weight(w)
           /\ Level(v) = 0 <=> v = Device.min_state
           /\ Level(v) = Level(w) <=> v = w
           /\ Level(Device.min_state) = 0
           /\ Device.min_state \in StateRange(Device)
<1>1. Device.min_state \in Int /\ Device.max_state \in Int
  BY DeviceAssumption
<1>2. CASE Ascending(Device)
  BY <1>1, <1>2, SMTT(30) DEF Level, Weight, Magnitude, StateRange, Ascending, MoreRestrictive
<1>3. CASE ~Ascending(Device)
  BY <1>1, <1>3, SMTT(30) DEF Level, Weight, Magnitude, StateRange, Ascending, MoreRestrictive
<1> QED
  BY <1>2, <1>3

\* An entry is that of the trip it names.
LEMMA EntryOfTrip ==
    ASSUME NEW s, GoodList(s), NEW i \in DOMAIN s
    PROVE  /\ s[i].target_state_valid = TRUE
           /\ s[i].target_value \in StateRange(Device)
           /\ \E r \in Requests : HeldBy(s[i], r) /\ s[i] = LimitOf(Device, r)
           /\ \A r \in Requests : HeldBy(s[i], r) => s[i] = LimitOf(Device, r)
<1>1. PICK r \in Requests : s[i] = LimitOf(Device, Mapped(r))
  BY DEF GoodList
<1>2. s[i] = LimitOf(Device, r) /\ s[i].zone = r.zone /\ s[i].trip = r.trip
  <2>1. Mapped(r) = r /\ LimitOf(Device, r).zone = r.zone /\ LimitOf(Device, r).trip = r.trip
    BY Zenon, MappedSame
  <2> QED
    BY <1>1, <2>1
<1>3. s[i].target_state_valid = TRUE /\ s[i].target_value \in StateRange(Device)
  BY ZenonT(30), <1>2, MappedSame
<1>4. ASSUME NEW t \in Requests, HeldBy(s[i], t) PROVE t = r
  BY Zenon, <1>2, <1>4, RequestAssumption DEF HeldBy
<1> QED
  BY <1>2, <1>3, <1>4 DEF HeldBy

-----------------------------------------------------------------------------
(* The list stays sorted.                                                  *)

\* The sort by target puts the most restrictive entry last.
LEMMA SortByTargetSorts ==
    ASSUME NEW s \in Seq(LimitType)
    PROVE  Sorted(SortByTarget(Device, s))
<1> DEFINE key == [i \in DOMAIN s |-> IF Device.min_state < Device.max_state
                                      THEN s[i].target_value ELSE -s[i].target_value]
           t   == SortByTarget(Device, s)
<1>1. Len(s) \in Nat /\ DOMAIN s = 1 .. Len(s) /\ s \in [1 .. Len(s) -> LimitType]
  BY LenProperties
<1>2. key \in [DOMAIN s -> Int]
  <2>1. \A i \in DOMAIN s : s[i].target_value \in Int /\ -s[i].target_value \in Int
    BY SMTT(30), <1>1 DEF LimitType
  <2> QED
    BY Zenon, <2>1
<1>3. t = SortByKey(s, key)
  BY DEF SortByTarget
<1>4. \A i \in 1 .. Len(s) : key[i] = Weight(s[i].target_value)
  BY <1>1 DEF Weight
<1> HIDE DEF key
<1>5. PICK p \in Bijection(1 .. Len(s), 1 .. Len(s)) :
              /\ SortByKey(s, key) = [k \in 1 .. Len(s) |-> s[p[k]]]
              /\ \A k, l \in 1 .. Len(s) : k <= l => key[p[k]] <= key[p[l]]
  BY Zenon, <1>2, SortPermutes
<1>6. \A k \in 1 .. Len(s) : p[k] \in 1 .. Len(s)
  BY DEF Bijection, Injection
<1> HIDE DEF t
<1>7. DOMAIN t = 1 .. Len(s) /\ \A k \in 1 .. Len(s) : t[k] = s[p[k]]
  BY <1>3, <1>5
<1>8. ASSUME NEW i \in 1 .. Len(s), NEW j \in 1 .. Len(s), i <= j
      PROVE  Weight(t[i].target_value) <= Weight(t[j].target_value)
  <2>1. key[p[i]] <= key[p[j]]
    BY Zenon, <1>5, <1>8
  <2>2. key[p[i]] = Weight(t[i].target_value) /\ key[p[j]] = Weight(t[j].target_value)
    BY Zenon, <1>4, <1>6, <1>7
  <2> QED
    BY Zenon, <2>1, <2>2
<1> QED
  BY Zenon, <1>7, <1>8 DEF Sorted, t

\* A new entry finds its place.
LEMMA AddKeepsSorted ==
    ASSUME NEW s \in Seq(LimitType), NEW r \in Requests
    PROVE  Sorted(AddLimit(Device, s, r))
<1> DEFINE pushed == Append(s, LimitOf(Device, r))
<1>1. pushed \in Seq(LimitType)
  BY Zenon, MappedSame, LimitOfType, AppendProperties
<1>2. AddLimit(Device, s, r) = SortByTarget(Device, pushed)
  BY Zenon, MappedSame DEF AddLimit
<1> HIDE DEF pushed
<1> QED
  BY <1>1, <1>2, SortByTargetSorts

\* Erasing the last entry leaves the others sorted.
LEMMA PrefixSorted ==
    ASSUME NEW s, GoodList(s), s # << >>, Sorted(s)
    PROVE  Sorted(SubSeq(s, 1, Len(s) - 1))
<1> DEFINE t == SubSeq(s, 1, Len(s) - 1)
<1>1. /\ GoodList(t) /\ Len(s) \in Nat /\ DOMAIN s = 1 .. Len(s) /\ Len(t) = Len(s) - 1
      /\ \A i \in 1 .. Len(s) - 1 : t[i] = s[i]
  BY GoodPrefix
<1>2. DOMAIN t = 1 .. Len(s) - 1
  BY <1>1, LenProperties DEF GoodList
<1> HIDE DEF t
<1> QED
  BY <1>1, <1>2 DEF Sorted, t

-----------------------------------------------------------------------------
(* Who holds the device, and what the holders need together.               *)

\* A rearrangement has the same holders.
LEMMA WhoRearranged ==
    ASSUME NEW s \in Seq(LimitType), NEW t \in Seq(LimitType), Rearranges(s, t)
    PROVE  Who(s) = Who(t)
<1> DEFINE D == 1 .. Len(t)
<1>1. DOMAIN t = D
  BY LenProperties
<1>2. PICK p \in Bijection(D, D) : s = [k \in D |-> t[p[k]]]
  BY DEF Rearranges
<1> HIDE DEF D
<1>3. p \in [D -> D] /\ \A i \in D : \E k \in D : p[k] = i
  BY Zenon, <1>2 DEF Bijection, Injection, Surjection
<1>4. DOMAIN s = D /\ \A k \in D : p[k] \in D /\ s[k] = t[p[k]]
  BY Zenon, <1>2, <1>3
<1>5. ASSUME NEW r
      PROVE  (\E k \in D : HeldBy(s[k], r)) <=> (\E i \in D : HeldBy(t[i], r))
  <2>1. ASSUME NEW k \in D, HeldBy(s[k], r) PROVE \E i \in D : HeldBy(t[i], r)
    BY Zenon, <1>4, <2>1
  <2>2. ASSUME NEW i \in D, HeldBy(t[i], r) PROVE \E k \in D : HeldBy(s[k], r)
    <3>1. PICK k \in D : p[k] = i
      BY <1>3
    <3> QED
      BY <1>4, <2>2, <3>1
  <2> QED
    BY Zenon, <2>1, <2>2
<1> QED
  BY Zenon, <1>1, <1>4, <1>5 DEF Who

\* A new entry adds its trip to the holders.
LEMMA WhoAdded ==
    ASSUME NEW s \in Seq(LimitType), NEW r \in Requests
    PROVE  Who(AddLimit(Device, s, r)) = Who(s) \cup {r}
<1> DEFINE e == LimitOf(Device, r)
           t == Append(s, e)
<1>1. /\ t \in Seq(LimitType) /\ AddLimit(Device, s, r) \in Seq(LimitType)
      /\ Rearranges(AddLimit(Device, s, r), t)
  BY Zenon, MappedSame, AddLimitFacts
<1>2. e \in LimitType /\ e.zone = r.zone /\ e.trip = r.trip
  BY Zenon, MappedSame, LimitOfType
<1> HIDE DEF e
<1>3. /\ Len(s) \in Nat /\ DOMAIN s = 1 .. Len(s)
      /\ DOMAIN t = 1 .. Len(s) + 1
      /\ \A i \in 1 .. Len(s) : t[i] = s[i]
      /\ t[Len(s) + 1] = e
  <2>1. Len(t) = Len(s) + 1
    BY <1>2, AppendProperties
  <2> QED
    BY SMTT(30), <1>1, <1>2, <2>1, AppendProperties, LenProperties
<1> HIDE DEF t
<1>4. \A q \in Requests : HeldBy(e, q) <=> q = r
  BY <1>2, RequestAssumption DEF HeldBy
<1>5. Who(t) = Who(s) \cup {r}
  BY <1>3, <1>4 DEF Who
<1> QED
  BY <1>1, <1>5, WhoRearranged

\* Erasing the last entry takes its trip away.
LEMMA WhoReleased ==
    ASSUME NEW s, GoodList(s), s # << >>, NEW r \in Requests, HeldBy(LastLimit(s), r)
    PROVE  /\ r \in Who(s)
           /\ Who(SubSeq(s, 1, Len(s) - 1)) = Who(s) \ {r}
<1> DEFINE t == SubSeq(s, 1, Len(s) - 1)
<1>1. /\ GoodList(t) /\ Len(s) \in Nat /\ DOMAIN s = 1 .. Len(s) /\ Len(t) = Len(s) - 1
      /\ \A i \in 1 .. Len(s) - 1 : t[i] = s[i]
      /\ Len(s) \in DOMAIN s
  BY GoodPrefix
<1>2. DOMAIN t = 1 .. Len(s) - 1
  BY <1>1, LenProperties DEF GoodList
<1> HIDE DEF t
<1>3. \A q \in Requests : HeldBy(s[Len(s)], q) <=> q = r
  BY RequestAssumption DEF HeldBy, LastLimit
<1>4. \A i \in DOMAIN s : HeldBy(s[i], r) => i = Len(s)
  BY <1>1 DEF GoodList, HeldBy, LastLimit
<1>5. r \in Who(s)
  BY <1>1 DEF Who, LastLimit
<1>6. ASSUME NEW q \in Who(t) PROVE q \in Who(s) \ {r}
  <2>1. PICK i \in 1 .. Len(s) - 1 : HeldBy(s[i], q)
    BY SMTT(30), <1>1, <1>2 DEF Who
  <2>2. i \in DOMAIN s /\ i # Len(s)
    <3> DEFINE n == Len(s)
    <3>1. n \in Nat /\ DOMAIN s = 1 .. n /\ i \in 1 .. n - 1
      BY <1>1
    <3> HIDE DEF n
    <3>2. i \in 1 .. n /\ i # n
      BY <3>1
    <3> QED
      BY Zenon, <3>1, <3>2 DEF n
  <2> QED
    BY <2>1, <2>2, <1>4 DEF Who
<1>7. ASSUME NEW q \in Who(s), q # r PROVE q \in Who(t)
  <2>1. PICK i \in DOMAIN s : HeldBy(s[i], q)
    BY DEF Who
  <2>2. i # Len(s)
    BY <1>3, <1>7, <2>1 DEF Who
  <2>3. i \in 1 .. Len(s) - 1
    BY <1>1, <2>2
  <2> QED
    BY Zenon, <1>1, <1>2, <2>1, <2>3 DEF Who
<1> QED
  BY <1>5, <1>6, <1>7 DEF t

\* The last entry of a sorted list is the strongest wish of its trips.
LEMMA LastIsStrongest ==
    ASSUME NEW s, GoodList(s), Sorted(s), s # << >>, NEW r \in Who(s)
    PROVE  /\ LastLimit(s).target_value \in StateRange(Device)
           /\ Level(r.target_value) <= Level(LastLimit(s).target_value)
           /\ ~MoreRestrictive(Device, r.target_value, LastLimit(s).target_value)
<1>1. Len(s) \in Nat /\ DOMAIN s = 1 .. Len(s) /\ Len(s) \in DOMAIN s
  BY GoodPrefix
<1>2. PICK i \in DOMAIN s : HeldBy(s[i], r)
  BY DEF Who
<1>3. r \in Requests
  BY DEF Who
<1>4. s[i] = LimitOf(Device, r)
  BY Zenon, <1>2, <1>3, EntryOfTrip
<1>5. s[i].target_value = r.target_value /\ r.target_value \in StateRange(Device)
  BY Zenon, <1>3, <1>4, MappedSame
<1>6. s[Len(s)].target_value \in StateRange(Device)
  BY Zenon, <1>1, EntryOfTrip
<1>7. Weight(s[i].target_value) <= Weight(s[Len(s)].target_value)
  BY <1>1 DEF Sorted
<1> QED
  BY <1>5, <1>6, <1>7, LevelFacts DEF LastLimit

Wishes == [r \in Requests |-> Level(r.target_value)]

\* What the holders need together is what the last entry asks for.
LEMMA NeedIsLast ==
    ASSUME NEW s, GoodList(s), Sorted(s), s # << >>
    PROVE  Shared!Need(Who(s)) = Level(LastLimit(s).target_value)
<1> DEFINE S == {Wishes[r] : r \in Who(s)}
           m == Level(LastLimit(s).target_value)
<1>1. Len(s) \in DOMAIN s
  BY GoodPrefix
<1>2. PICK r \in Requests : HeldBy(s[Len(s)], r) /\ s[Len(s)] = LimitOf(Device, r)
  BY Zenon, <1>1, EntryOfTrip
<1>3. r \in Who(s)
  BY <1>1, <1>2 DEF Who
<1>4. LastLimit(s).target_value = r.target_value
  BY Zenon, <1>2, MappedSame DEF LastLimit
<1>5. m = Wishes[r] /\ m \in S
  BY <1>2, <1>3, <1>4 DEF Wishes
<1>6. \A x \in S : x <= m
  BY LastIsStrongest DEF Wishes, Who
<1>7. m \in Nat /\ S \subseteq Nat
  BY ZenonT(30), <1>2, <1>4, MappedSame, LevelFacts DEF Wishes, Who
<1>8. Shared!Need(Who(s)) = CHOOSE x \in S : \A y \in S : x >= y
  BY DEF Shared!Need, Shared!Max, Wishes
<1> HIDE DEF S, m
<1>9. \A x \in S : (\A y \in S : x >= y) <=> x = m
  BY <1>5, <1>6, <1>7
<1>10. (CHOOSE x \in S : \A y \in S : x >= y) = m
  BY <1>5, <1>9
<1> QED
  BY <1>8, <1>10 DEF m

-----------------------------------------------------------------------------
(* What the calls of a trip do to the list and to the state.               *)

\* An object that is about to act is one.
LEMMA ActingType ==
    ASSUME NEW c \in CdevType, NEW state \in {0, 1}
    PROVE  /\ Acting(Device, c, state) \in CdevType
           /\ Acting(Device, c, state).curr_state = c.curr_state
<1> DEFINE now == [c EXCEPT !.since = 0, !.last_state = state,
                            !.curr_state = get_curr_state(Device, c)]
           c1  == IF now.curr_state = Device.min_state
                  THEN [now EXCEPT !.curr_pow = 0, !.trend_increase = FALSE]
                  ELSE now
<1>1. get_curr_state(Device, c) = c.curr_state
  BY TargetsAssumption DEF get_curr_state
<1>2. 0 \in 0 .. default_max_exponent /\ 0 \in 0 .. Device.debounce_interval + 1 /\ FALSE \in BOOLEAN
  BY WidthAssumption, DeviceAssumption
<1>3. now \in CdevType /\ now.curr_state = c.curr_state
  BY Zenon, <1>1, <1>2 DEF CdevType
<1> HIDE DEF now
<1>4. c1 \in CdevType /\ c1.curr_state = now.curr_state
  BY Zenon, <1>2, <1>3 DEF CdevType
<1>5. c1 = Acting(Device, c, state)
  BY DEF Acting, now
<1> HIDE DEF c1
<1> QED
  BY <1>3, <1>4, <1>5

\* What ApplyState does with a target.
OnTarget(c, state, target) ==
    [set_curr_state_raw(Device, Acting(Device, c, state), target) EXCEPT !.curr_state = target]

\* A valid target is set as it is.
LEMMA TargetIsSet ==
    ASSUME NEW c \in CdevType, NEW state \in {0, 1}, NEW target \in Int
    PROVE  OnTarget(c, state, target).curr_state = target
<1> DEFINE b == set_curr_state_raw(Device, Acting(Device, c, state), target)
<1>1. b \in CdevType
  BY Zenon, ActingType, SetRawType
<1>2. OnTarget(c, state, target) = [b EXCEPT !.curr_state = target]
  BY DEF OnTarget
<1> HIDE DEF b
<1> QED
  BY <1>1, <1>2 DEF CdevType

\* What an activation does to the holders and to the state.
LEMMA ActivateEffect ==
    ASSUME NEW c, GoodCdev(c), Sorted(c.zone_trip_limits), NEW r \in Requests, NEW out \in Int
    PROVE  LET a == ActivateState(Device, c, Mapped(r), out)
           IN  /\ GoodCdev(a)
               /\ a.zone_trip_limits # << >>
               /\ Sorted(a.zone_trip_limits)
               /\ Who(a.zone_trip_limits) = Who(c.zone_trip_limits) \cup {r}
               /\ \/ a.curr_state = LastLimit(a.zone_trip_limits).target_value
                  \/ a.curr_state = c.curr_state /\ c.zone_trip_limits # << >>
<1> DEFINE held   == c.zone_trip_limits
           limits == LimitsWith(c, r)
           limit  == LastLimit(limits)
           c1     == [c EXCEPT !.zone_trip_limits = limits]
           a      == ActivateState(Device, c, r, out)
           b      == ApplyState(Device, c1, r, 1, limit.target_state_valid,
                                limit.target_value, limit.min_state,
                                limit.max_state, out)
<1>1. Mapped(r) = r /\ r \in RequestType /\ r.force = FALSE
  BY Zenon, MappedSame
<1>2. GoodCdev(a) /\ a.zone_trip_limits # << >>
  <2>1. GoodCdev(ActivateState(Device, c, Mapped(r), out))
        /\ ActivateState(Device, c, Mapped(r), out).zone_trip_limits # << >>
    BY ActivateKeeps
  <2> QED
    BY <1>1, <2>1
<1>3. GoodList(limits) /\ limits # << >>
  <2>1. GoodList(LimitsWith(c, Mapped(r))) /\ LimitsWith(c, Mapped(r)) # << >>
    BY LimitsWithCaller
  <2> QED
    BY <1>1, <2>1
<1>4. held \in Seq(LimitType) /\ c \in CdevType /\ (held = << >> => c.last_state = 0)
  BY DEF GoodCdev, GoodList
<1>5. Sorted(limits) /\ Who(limits) = Who(held) \cup {r}
  <2>1. CASE Holds(c, r)
    BY <2>1 DEF LimitsWith, Holds, Who
  <2>2. CASE ~Holds(c, r)
    BY Zenon, <1>4, <2>2, AddKeepsSorted, WhoAdded DEF LimitsWith
  <2> QED
    BY <2>1, <2>2
<1>6. /\ a = c1 \/ a = b
      /\ held = << >> => a = b
  <2>1. /\ a = c1 \/ a = b
        /\ held = << >> /\ c.last_state # 1 => a = b
    BY Zenon DEF ActivateState, LimitsWith
  <2> HIDE DEF a, b, c1
  <2> QED
    BY SMTT(30), <1>4, <2>1
<1> HIDE DEF limits
<1>7. c1 \in CdevType /\ c1.zone_trip_limits = limits /\ c1.curr_state = c.curr_state
  BY <1>3, <1>4 DEF GoodList, CdevType
<1>8. limit.target_state_valid = TRUE /\ limit.target_value \in Int
      /\ limit.min_state \in Int /\ limit.max_state \in Int
  <2>1. limit.target_state_valid = TRUE
    BY Zenon, <1>3, GoodPrefix, EntryOfTrip DEF LastLimit
  <2> QED
    BY <2>1, <1>3, LimitFields
<1> HIDE DEF c1, limit
<1>9. b.zone_trip_limits = limits /\ b.curr_state = limit.target_value
  <2>1. limit.target_state_valid = TRUE
    BY <1>8
  <2>2. limit.target_state_valid \in BOOLEAN
    BY Zenon, <2>1
  <2>3. b.zone_trip_limits = c1.zone_trip_limits
    <3>1. 1 \in {0, 1} /\ c1 \in CdevType /\ r \in RequestType
      BY Zenon, <1>1, <1>7
    <3>2. limit.max_state \in Int /\ limit.target_value \in Int /\ limit.min_state \in Int
      BY Zenon, <1>8
    <3> QED
      BY SMTT(30), <2>2, <3>1, <3>2, ApplyStateType
  <2>4. b = OnTarget(c1, 1, limit.target_value)
    BY <2>1 DEF ApplyState, OnTarget
  <2>5. b.curr_state = limit.target_value
    BY <1>7, <1>8, <2>4, TargetIsSet
  <2> QED
    BY <1>7, <2>3, <2>5
<1> HIDE DEF a, b
<1>10. a.zone_trip_limits = limits
  BY <1>6, <1>7, <1>9
<1>11. a.curr_state = limit.target_value \/ (a.curr_state = c.curr_state /\ held # << >>)
  BY <1>6, <1>7, <1>9
<1>12. a = ActivateState(Device, c, Mapped(r), out)
  BY Zenon, <1>1 DEF a
<1> QED
  BY Zenon, <1>2, <1>5, <1>10, <1>11, <1>12 DEF limit

\* A call with state 0 for trip r, whatever else it asks for: it does nothing, or it
\* erases the entry of r, or it finds that nobody holds the device.
LEMMA DeactivateEffect ==
    ASSUME NEW c, GoodCdev(c), NEW q \in RequestType, q.target_state_valid = TRUE,
           NEW out \in Int
    PROVE  LET held == c.zone_trip_limits
               rest == SubSeq(held, 1, Len(held) - 1)
               a    == DeactivateState(Device, c, q, out)
           IN  /\ GoodCdev(a)
               /\ \/ a = c
                  \/ /\ held # << >> /\ HeldBy(LastLimit(held), q)
                     /\ a.zone_trip_limits = rest
                     /\ a.curr_state = IF rest = << >> THEN Device.min_state
                                       ELSE LastLimit(rest).target_value
                  \/ /\ held = << >> /\ a.zone_trip_limits = << >>
                     /\ ~in_min_state(Device, c)
                     /\ a = ApplyState(Device, c, q, 0, q.force, Device.min_state, 0, 0, out)
<1> DEFINE held == c.zone_trip_limits
           last == LastLimit(held)
           rest == SubSeq(held, 1, Len(held) - 1)
           c1   == [c EXCEPT !.zone_trip_limits = rest]
           a    == DeactivateState(Device, c, q, out)
<1>1. c \in CdevType /\ GoodList(held)
  BY DEF GoodCdev
<1>2. GoodCdev(a)
  BY DeactivateKeeps
<1>3. CASE held # << >> /\ HeldBy(last, q)
  <2> DEFINE after == AfterRelease(Device, q, last, rest)
             b     == ApplyState(Device, c1, q, 0, after.valid, after.target, 0, 0, out)
  <2>1. a = b
    BY <1>3 DEF DeactivateState, ReleaseLimit
  <2> HIDE DEF held
  <2>2. GoodList(rest)
    BY SMTT(30), <1>1, <1>3, GoodPrefix
  <2>3. last.target_state_valid = TRUE
    BY Zenon, <1>1, <1>3, GoodPrefix, EntryOfTrip DEF LastLimit
  <2> HIDE DEF rest, last
  <2>4. /\ after.valid = TRUE
        /\ after.target = IF rest = << >> THEN Device.min_state ELSE LastLimit(rest).target_value
    <3>1. CASE rest # << >>
      <4>1. LastLimit(rest).target_state_valid = TRUE
        BY Zenon, <2>2, <3>1, GoodPrefix, EntryOfTrip DEF LastLimit
      <4> QED
        BY <3>1, <4>1 DEF AfterRelease
    <3>2. CASE rest = << >>
      BY Zenon, <2>3, <3>2 DEF AfterRelease
    <3> QED
      BY Zenon, <3>1, <3>2
  <2> HIDE DEF after
  <2>5. after.target \in Int
    BY SMTT(30), <2>2, <2>4, LimitFields, DeviceAssumption
  <2>6. c1 \in CdevType /\ c1.zone_trip_limits = rest
    BY Zenon, <1>1, <2>2 DEF GoodList, CdevType
  <2> HIDE DEF c1
  <2>7. after.valid \in BOOLEAN /\ b = OnTarget(c1, 0, after.target)
    <3>1. after.valid = TRUE
      BY <2>4
    <3>2. b = OnTarget(c1, 0, after.target)
      BY <3>1 DEF ApplyState, OnTarget
    <3> QED
      BY Zenon, <3>1, <3>2
  <2>8. b.zone_trip_limits = rest
    BY SMTT(30), <2>5, <2>6, <2>7, ApplyStateType
  <2>9. b.curr_state = after.target
    BY Zenon, <2>5, <2>6, <2>7, TargetIsSet
  <2> HIDE DEF a, b
  <2> QED
    BY Zenon, <1>2, <1>3, <2>1, <2>4, <2>8, <2>9 DEF held, rest, last, a
<1>4. CASE held # << >> /\ ~HeldBy(last, q)
  <2>1. a = c
    BY <1>4 DEF DeactivateState, ReleaseLimit
  <2> QED
    BY <1>2, <2>1
<1>5. CASE held = << >>
  <2> DEFINE b == ApplyState(Device, c, q, 0, q.force, Device.min_state, 0, 0, out)
  <2>1. a = IF in_min_state(Device, c) THEN c ELSE b
    BY <1>5 DEF DeactivateState
  <2>2. q.force \in BOOLEAN /\ Device.min_state \in Int
    BY DeviceAssumption DEF RequestType
  <2>3. b.zone_trip_limits = held
    BY SMTT(30), <1>1, <2>2, ApplyStateType
  <2> HIDE DEF a, b
  <2> QED
    BY Zenon, <1>2, <1>5, <2>1, <2>3 DEF a, b
<1> QED
  BY <1>3, <1>4, <1>5

\* A step of the controller on a device nobody holds only takes cooling back.
LEMMA DownRelaxes ==
    ASSUME NEW c \in CdevType, c.curr_state \in StateRange(Device)
    PROVE  LET a == ExponentialDown(Device, c)
           IN  /\ a.curr_state \in StateRange(Device)
               /\ Level(a.curr_state) <= Level(c.curr_state)
<1> DEFINE s     == c.curr_state
           curr  == thd_clamp_state_max(Device, get_curr_state(Device, c), 0)
           step  == Magnitude(IF Device.dec_val # 0 THEN Device.dec_val
                                                    ELSE Device.inc_dec_val)
           lower == IF Device.auto_down_adjust THEN Device.min_state
                    ELSE IF Ascending(Device) THEN curr - step ELSE curr + step
           inner == thd_clamp_state_min(Device, lower, 0)
           to    == thd_clamp_state_max(Device, inner, 0)
           new   == IF Device.raw = "limit" THEN LimitClamp(Device, to) ELSE to
           c1    == [c EXCEPT !.curr_pow = 0, !.trend_increase = FALSE]
           a     == ExponentialDown(Device, c)
<1>1. s \in Int /\ s \in StateRange(Device)
  BY DEF CdevType
<1> HIDE DEF s
<1>2. curr = s
  BY SMTT(30), <1>1, TargetsAssumption, DeviceAssumption
     DEF get_curr_state, thd_clamp_state_max, StateRange, Ascending, Larger, Smaller, s
<1> HIDE DEF curr
<1>3. step \in Nat
  BY DeviceAssumption DEF Magnitude
<1> HIDE DEF step
<1>4. to \in StateRange(Device) /\ Level(to) <= Level(s)
  <2> DEFINE lo == Device.min_state
             hi == Device.max_state
  <2>1. lo \in Int /\ hi \in Int
    BY DeviceAssumption
  <2>2. s \in IF lo <= hi THEN lo .. hi ELSE hi .. lo
    BY <1>1 DEF StateRange, Ascending
  <2>3. lower \in Int /\ IF lo <= hi THEN lower <= s ELSE lower >= s
    BY SMTT(30), <1>1, <1>2, <1>3, <2>1, <2>2 DEF Ascending
  <2>4. inner = IF lo <= hi THEN Larger(lower, lo) ELSE Smaller(lower, lo)
    BY DEF thd_clamp_state_min, Ascending
  <2> HIDE DEF lower
  <2>5. to = IF lo <= hi THEN Smaller(inner, hi) ELSE Larger(inner, hi)
    BY DEF thd_clamp_state_max, Ascending
  <2> HIDE DEF inner, to, lo, hi
  <2>6. inner \in Int /\ IF lo <= hi THEN lo <= inner /\ inner <= s ELSE s <= inner /\ inner <= lo
    BY SMTT(30), <1>1, <2>1, <2>2, <2>3, <2>4 DEF Larger, Smaller
  <2>7. to = inner
    BY SMTT(30), <1>1, <2>1, <2>2, <2>5, <2>6 DEF Larger, Smaller
  <2>8. to \in StateRange(Device)
    BY SMTT(30), <1>1, <2>1, <2>2, <2>6, <2>7 DEF StateRange, Ascending, lo, hi
  <2>9. Level(to) <= Level(s)
    BY SMTT(30), <1>1, <2>1, <2>2, <2>6, <2>7 DEF Level, Magnitude, lo
  <2> QED
    BY <2>8, <2>9
<1> HIDE DEF to
<1>5. new \in StateRange(Device) /\ Level(new) <= Level(s)
  <2>1. new \in {to, Device.min_state}
    BY <1>4, DeviceAssumption DEF LimitClamp, StateRange, Ascending
  <2>2. Level(Device.min_state) = 0 /\ Device.min_state \in StateRange(Device) /\ Level(s) \in Nat
    BY <1>1, LevelFacts
  <2> HIDE DEF new
  <2> QED
    BY SMTT(30), <1>4, <2>1, <2>2
<1>6. c1 \in CdevType
  <2>1. 0 \in 0 .. default_max_exponent /\ FALSE \in BOOLEAN
    BY WidthAssumption
  <2> QED
    BY Zenon, <2>1 DEF CdevType
<1>7. a = set_curr_state(Device, c1, to)
  BY DEF ExponentialDown, to, inner, lower, curr, step
<1> HIDE DEF c1, a
<1>8. a = [c1 EXCEPT !.curr_state = new, !.hw = new]
  BY <1>7 DEF set_curr_state
<1> HIDE DEF new
<1>9. a.curr_state = new
  BY <1>6, <1>8 DEF CdevType
<1> QED
  BY <1>5, <1>9 DEF a, s

\* A device nobody holds is only relaxed by a trip that lets go of it.
LEMMA IdleRelaxes ==
    ASSUME NEW c \in CdevType, c.curr_state \in StateRange(Device),
           NEW r \in Requests, NEW q \in {r, MinStateRequest(Device, r)}, NEW out \in Int
    PROVE  LET a == ApplyState(Device, c, q, 0, q.force, Device.min_state, 0, 0, out)
           IN  /\ a.curr_state \in StateRange(Device)
               /\ Level(a.curr_state) <= Level(c.curr_state)
<1> DEFINE a == ApplyState(Device, c, q, 0, q.force, Device.min_state, 0, 0, out)
<1>1. r \in RequestType /\ r.force = FALSE
  BY Zenon, MappedSame
<1>2. /\ Device.min_state \in Int /\ Device.min_state \in StateRange(Device)
      /\ Level(Device.min_state) = 0 /\ Level(c.curr_state) \in Nat
  BY DeviceAssumption, LevelFacts
<1>3. CASE q = r
  <2>1. r.hard_target = FALSE /\ r.pid = FALSE /\ Device.pid_enable = FALSE
    BY <1>1, SteppedAssumption, DeviceAssumption DEF RequestType
  <2>2. a = ExponentialDown(Device, Acting(Device, c, 0))
    BY <1>1, <1>3, <2>1 DEF ApplyState
  <2> HIDE DEF a
  <2>3. Acting(Device, c, 0) \in CdevType /\ Acting(Device, c, 0).curr_state = c.curr_state
    BY ActingType
  <2> QED
    BY <2>2, <2>3, DownRelaxes DEF a
<1>4. CASE q = MinStateRequest(Device, r)
  <2>1. q.force = TRUE
    BY <1>1, <1>4 DEF MinStateRequest, RequestType
  <2>2. a = OnTarget(c, 0, Device.min_state)
    BY <2>1 DEF ApplyState, OnTarget
  <2> HIDE DEF a
  <2>3. a.curr_state = Device.min_state
    BY Zenon, <1>2, <2>2, TargetIsSet
  <2> QED
    BY <1>2, <2>3 DEF a
<1> QED
  BY <1>3, <1>4

-----------------------------------------------------------------------------
(* The list is sorted and the state is one of the device.                  *)

TargetInv ==
    /\ Sorted(Limits)
    /\ cdev.curr_state \in StateRange(Device)

\* What a call that lets go does, for the two requests a trip makes.
LEMMA LetGoKeeps ==
    ASSUME NEW c, GoodCdev(c), Sorted(c.zone_trip_limits), c.curr_state \in StateRange(Device),
           NEW r \in Requests, NEW q \in {r, MinStateRequest(Device, r)}, NEW out \in Int
    PROVE  LET held == c.zone_trip_limits
               a    == DeactivateState(Device, c, q, out)
               kept == a.zone_trip_limits
           IN  /\ GoodCdev(a)
               /\ Sorted(kept)
               /\ a.curr_state \in StateRange(Device)
               /\ \/ a.curr_state = c.curr_state /\ kept = held
                  \/ /\ held # << >> /\ r \in Who(held) /\ Who(kept) = Who(held) \ {r}
                     /\ a.curr_state = IF kept = << >> THEN Device.min_state
                                       ELSE LastLimit(kept).target_value
                  \/ /\ held = << >> /\ kept = << >>
                     /\ Level(a.curr_state) <= Level(c.curr_state)
<1> DEFINE held == c.zone_trip_limits
           rest == SubSeq(held, 1, Len(held) - 1)
           a    == DeactivateState(Device, c, q, out)
           kept == a.zone_trip_limits
<1>1. c \in CdevType /\ GoodList(held)
  BY DEF GoodCdev
<1>2. /\ q \in RequestType /\ q.zone = r.zone /\ q.trip = r.trip
      /\ q.target_state_valid = TRUE
  <2>1. r \in RequestType /\ Mapped(r) = r /\ r.target_state_valid = TRUE
    BY Zenon, MappedSame
  <2>2. /\ MinStateRequest(Device, Mapped(r)) \in RequestType
        /\ MinStateRequest(Device, Mapped(r)).zone = r.zone
        /\ MinStateRequest(Device, Mapped(r)).trip = r.trip
    BY Zenon, MappedType
  <2>3. MinStateRequest(Device, r).target_state_valid = TRUE
    BY <2>1 DEF MinStateRequest, RequestType
  <2> QED
    BY Zenon, <2>1, <2>2, <2>3
<1>3. /\ GoodCdev(a)
      /\ \/ a = c
         \/ /\ held # << >> /\ HeldBy(LastLimit(held), q)
            /\ kept = rest
            /\ a.curr_state = IF rest = << >> THEN Device.min_state
                              ELSE LastLimit(rest).target_value
         \/ /\ held = << >> /\ kept = << >>
            /\ a = ApplyState(Device, c, q, 0, q.force, Device.min_state, 0, 0, out)
  BY ZenonT(30), <1>2, DeactivateEffect
<1> HIDE DEF a
<1>4. CASE a = c
  BY Zenon, <1>3, <1>4 DEF a
<1>5. CASE /\ held # << >> /\ HeldBy(LastLimit(held), q)
           /\ kept = rest
           /\ a.curr_state = IF rest = << >> THEN Device.min_state
                             ELSE LastLimit(rest).target_value
  <2> HIDE DEF held, kept
  <2>1. GoodList(rest) /\ Len(held) \in DOMAIN held
    BY Zenon, <1>1, <1>5, GoodPrefix
  <2>2. Sorted(rest)
    BY Zenon, <1>1, <1>5, PrefixSorted DEF held
  <2>3. HeldBy(LastLimit(held), r)
    BY Zenon, <1>2, <1>5 DEF HeldBy
  <2>4. r \in Who(held) /\ Who(rest) = Who(held) \ {r}
    BY Zenon, <1>1, <1>5, <2>3, WhoReleased
  <2>5. a.curr_state \in StateRange(Device)
    <3>1. CASE rest = << >>
      BY SMTT(30), <1>5, <3>1, DeviceAssumption DEF StateRange, Ascending
    <3>2. CASE rest # << >>
      <4>1. Len(rest) \in DOMAIN rest
        BY SMTT(30), <2>1, <3>2, GoodPrefix
      <4>2. LastLimit(rest).target_value \in StateRange(Device)
        BY ZenonT(30), <2>1, <4>1, EntryOfTrip DEF LastLimit
      <4> QED
        BY Zenon, <1>5, <3>2, <4>2
    <3> QED
      BY Zenon, <3>1, <3>2
  <2> HIDE DEF rest
  <2>6. /\ held # << >> /\ Sorted(kept) /\ Who(kept) = Who(held) \ {r}
        /\ a.curr_state = IF kept = << >> THEN Device.min_state ELSE LastLimit(kept).target_value
    BY Zenon, <1>5, <2>2, <2>4
  <2>7. GoodCdev(a)
    BY Zenon, <1>3
  <2> QED
    BY Zenon, <2>4, <2>5, <2>6, <2>7 DEF held, kept, a
<1>6. CASE /\ held = << >> /\ kept = << >>
           /\ a = ApplyState(Device, c, q, 0, q.force, Device.min_state, 0, 0, out)
  <2>1. a.curr_state \in StateRange(Device) /\ Level(a.curr_state) <= Level(c.curr_state)
    BY Zenon, <1>1, <1>6, IdleRelaxes
  <2> HIDE DEF held, kept
  <2>2. Sorted(kept)
    BY <1>6 DEF held
  <2> QED
    BY Zenon, <1>3, <1>6, <2>1, <2>2 DEF a, held, kept
<1> QED
  BY ZenonT(30), <1>3, <1>4, <1>5, <1>6 DEF a

\* The request of a trip that cools down, and the record it makes it with.
LEMMA ResetRequest ==
    ASSUME NEW r \in Requests, GoodCdev(cdev), TargetInv
    PROVE  LET c1 == [cdev EXCEPT !.trend_increase = FALSE]
           IN  /\ thd_cdev_set_min_state(Device, cdev, Mapped(r))
                    = DeactivateState(Device, c1, MinStateRequest(Device, r), Device.min_state)
               /\ GoodCdev(c1)
               /\ c1.zone_trip_limits = cdev.zone_trip_limits
               /\ c1.curr_state = cdev.curr_state
<1> DEFINE c1 == [cdev EXCEPT !.trend_increase = FALSE]
<1>1. Mapped(r) = r
  BY Zenon, MappedSame
<1>2. /\ c1 \in CdevType /\ c1.zone_trip_limits = cdev.zone_trip_limits
      /\ c1.last_state = cdev.last_state /\ c1.curr_state = cdev.curr_state
  BY Zenon DEF GoodCdev, CdevType
<1>3. thd_cdev_set_min_state(Device, cdev, Mapped(r))
          = DeactivateState(Device, c1, MinStateRequest(Device, r), Device.min_state)
  BY <1>1 DEF thd_cdev_set_min_state
<1> HIDE DEF c1
<1>4. GoodCdev(c1)
  BY SMTT(30), <1>2 DEF GoodCdev
<1> QED
  BY SMTT(30), <1>2, <1>3, <1>4 DEF c1

\* Everything a step can do to the device, in the terms of SharedDevice.
LEMMA StepEffect ==
    ASSUME IndInv, TargetInv, [Next]_vars
    PROVE  LET held == cdev.zone_trip_limits
               kept == cdev'.zone_trip_limits
               s    == cdev.curr_state
           IN  /\ Sorted(kept)
               /\ cdev'.curr_state \in StateRange(Device)
               /\ \/ kept = held /\ cdev'.curr_state = s
                     /\ \/ hot' = hot
                        \/ \E r \in Requests : hot' = hot \cup {r} \/ hot' = hot \ {r}
                  \/ \E r \in Requests :
                       /\ r \in hot /\ hot' = hot
                       /\ kept # << >> /\ Who(kept) = Who(held) \cup {r}
                       /\ \/ cdev'.curr_state = LastLimit(kept).target_value
                          \/ cdev'.curr_state = s /\ held # << >>
                  \/ \E r \in Requests :
                       /\ r \notin hot /\ hot' = hot
                       /\ held # << >> /\ r \in Who(held) /\ Who(kept) = Who(held) \ {r}
                       /\ cdev'.curr_state = IF kept = << >> THEN Device.min_state
                                             ELSE LastLimit(kept).target_value
                  \/ /\ hot' = hot /\ held = << >> /\ kept = << >>
                     /\ Level(cdev'.curr_state) <= Level(s)
<1> DEFINE held == cdev.zone_trip_limits
           kept == cdev'.zone_trip_limits
           s    == cdev.curr_state
<1>1. GoodCdev(cdev) /\ Sorted(held) /\ s \in StateRange(Device)
  BY DEF IndInv, TargetInv, Limits
<1>2. \A r \in Requests : PidOutputs(r) \subseteq Int
  BY PidOutputsType
<1>3. ASSUME NEW r \in Requests, Heat(r) \/ Cool(r)
      PROVE  /\ Sorted(kept) /\ cdev'.curr_state \in StateRange(Device)
             /\ kept = held /\ cdev'.curr_state = s
             /\ hot' = hot \cup {r} \/ hot' = hot \ {r}
  BY Zenon, <1>1, <1>3 DEF Heat, Cool
<1>4. ASSUME NEW r \in Requests, Activate(r)
      PROVE  /\ Sorted(kept) /\ cdev'.curr_state \in StateRange(Device)
             /\ r \in hot /\ hot' = hot
             /\ kept # << >> /\ Who(kept) = Who(held) \cup {r}
             /\ \/ cdev'.curr_state = LastLimit(kept).target_value
                \/ cdev'.curr_state = s /\ held # << >>
  <2>1. PICK out \in PidOutputs(r) : cdev' = ActivateState(Device, cdev, Mapped(r), out)
    BY Zenon, <1>4 DEF Activate
  <2>2. /\ GoodCdev(cdev') /\ Sorted(kept)
        /\ kept # << >> /\ Who(kept) = Who(held) \cup {r}
        /\ \/ cdev'.curr_state = LastLimit(kept).target_value
           \/ cdev'.curr_state = s /\ held # << >>
    BY Zenon, <1>1, <1>2, <2>1, ActivateEffect
  <2>3. GoodList(kept)
    BY SMTT(30), <2>2 DEF GoodCdev
  <2> HIDE DEF kept
  <2>4. LastLimit(kept).target_value \in StateRange(Device)
    BY ZenonT(30), <2>2, <2>3, GoodPrefix, EntryOfTrip DEF LastLimit
  <2> QED
    BY Zenon, <1>1, <1>4, <2>2, <2>4 DEF Activate
<1> DEFINE LetGo(r) ==
             /\ Sorted(kept) /\ cdev'.curr_state \in StateRange(Device)
             /\ r \notin hot /\ hot' = hot
             /\ \/ cdev'.curr_state = s /\ kept = held
                \/ /\ held # << >> /\ r \in Who(held) /\ Who(kept) = Who(held) \ {r}
                   /\ cdev'.curr_state = IF kept = << >> THEN Device.min_state
                                         ELSE LastLimit(kept).target_value
                \/ /\ held = << >> /\ kept = << >>
                   /\ Level(cdev'.curr_state) <= Level(s)
<1>5. ASSUME NEW r \in Requests, Deactivate(r) PROVE LetGo(r)
  <2>1. PICK out \in PidOutputs(r) : cdev' = DeactivateState(Device, cdev, Mapped(r), out)
    BY <1>5 DEF Deactivate
  <2>2. cdev' = DeactivateState(Device, cdev, r, out)
    BY Zenon, <2>1, MappedSame
  <2>3. r \notin hot /\ hot' = hot
    BY <1>5 DEF Deactivate
  <2>4. out \in Int /\ r \in {r, MinStateRequest(Device, r)}
    BY <1>2
  <2> DEFINE a == DeactivateState(Device, cdev, r, out)
             k == a.zone_trip_limits
  <2>5. /\ Sorted(k) /\ a.curr_state \in StateRange(Device)
        /\ \/ a.curr_state = cdev.curr_state /\ k = held
           \/ /\ held # << >> /\ r \in Who(held) /\ Who(k) = Who(held) \ {r}
              /\ a.curr_state = IF k = << >> THEN Device.min_state
                                ELSE LastLimit(k).target_value
           \/ /\ held = << >> /\ k = << >>
              /\ Level(a.curr_state) <= Level(cdev.curr_state)
    BY ZenonT(30), <1>1, <2>4, LetGoKeeps
  <2> HIDE DEF a
  <2>6. cdev' = a
    BY Zenon, <2>2 DEF a
  <2> QED
    BY Zenon, <2>3, <2>5, <2>6
<1>6. ASSUME NEW r \in Requests, Reset(r) PROVE LetGo(r)
  <2> DEFINE c1 == [cdev EXCEPT !.trend_increase = FALSE]
             q  == MinStateRequest(Device, r)
  <2>1. /\ cdev' = DeactivateState(Device, c1, q, Device.min_state)
        /\ GoodCdev(c1) /\ c1.zone_trip_limits = held /\ c1.curr_state = s
    BY ZenonT(30), <1>1, <1>6, ResetRequest DEF Reset
  <2>2. r \notin hot /\ hot' = hot /\ Device.min_state \in Int
    BY <1>6, DeviceAssumption DEF Reset
  <2>3. q \in {r, MinStateRequest(Device, r)}
    OBVIOUS
  <2> HIDE DEF c1, q
  <2> DEFINE a == DeactivateState(Device, c1, q, Device.min_state)
             k == a.zone_trip_limits
             h == c1.zone_trip_limits
  <2>4. /\ Sorted(k) /\ a.curr_state \in StateRange(Device)
        /\ \/ a.curr_state = c1.curr_state /\ k = h
           \/ /\ h # << >> /\ r \in Who(h) /\ Who(k) = Who(h) \ {r}
              /\ a.curr_state = IF k = << >> THEN Device.min_state
                                ELSE LastLimit(k).target_value
           \/ /\ h = << >> /\ k = << >>
              /\ Level(a.curr_state) <= Level(c1.curr_state)
    BY ZenonT(30), <1>1, <2>1, <2>2, <2>3, LetGoKeeps
  <2>5. cdev' = a
    BY <2>1
  <2> HIDE DEF a
  <2> QED
    BY Zenon, <2>1, <2>2, <2>4, <2>5
<1>7. CASE Tick
  <2> DEFINE later == Smaller(cdev.since + 1, Device.debounce_interval + 1)
  <2>1. cdev' = [cdev EXCEPT !.since = later] /\ hot' = hot
    BY <1>7 DEF Tick, Elapse
  <2> HIDE DEF later
  <2>2. kept = held /\ cdev'.curr_state = s
    BY Zenon, <1>1, <2>1 DEF GoodCdev, CdevType
  <2> HIDE DEF held, kept, s
  <2> QED
    BY Zenon, <1>1, <2>1, <2>2 DEF held, kept, s
<1>8. CASE UNCHANGED vars
  BY Zenon, <1>1, <1>8 DEF vars
<1> QED
  BY ZenonT(30), <1>3, <1>4, <1>5, <1>6, <1>7, <1>8 DEF Next

\* The invariant holds at the start.
LEMMA TargetInvInit == Init => TargetInv
<1> SUFFICES ASSUME Init PROVE TargetInv
  OBVIOUS
<1>1. PICK s \in BootStates : cdev = BootCdev(s)
  BY DEF Init
<1>2. cdev.zone_trip_limits = << >> /\ cdev.curr_state = s
  BY SMTT(30), <1>1 DEF BootCdev
<1> QED
  BY <1>2, BootAssumption DEF TargetInv, Sorted, Limits

\* Every step keeps it.
LEMMA TargetInvStep == IndInv /\ TargetInv /\ [Next]_vars => TargetInv'
<1> SUFFICES ASSUME IndInv, TargetInv, [Next]_vars PROVE TargetInv'
  OBVIOUS
<1>1. Sorted(cdev'.zone_trip_limits) /\ cdev'.curr_state \in StateRange(Device)
  BY StepEffect
<1> QED
  BY <1>1 DEF TargetInv, Sorted, Limits, Weight, StateRange, Ascending

\* So it always holds.
LEMMA TargetInvAlways == Spec => []TargetInv
BY TargetInvInit, TargetInvStep, IndInvAlways, PTL DEF Spec

\* The entry thd_cdev_set_state obeys is the most restrictive one of the list.
THEOREM LastIsMostRestrictive == Spec => []MostRestrictiveLast
<1>1. IndInv /\ TargetInv => MostRestrictiveLast
  <2> SUFFICES ASSUME IndInv, TargetInv, NEW i \in DOMAIN Limits
               PROVE  ~MoreRestrictive(Device, Target(i), Target(Len(Limits)))
    BY DEF MostRestrictiveLast
  <2>1. GoodList(Limits) /\ Sorted(Limits)
    BY DEF IndInv, GoodCdev, TargetInv, Limits
  <2>2. Limits \in Seq(LimitType) /\ DOMAIN Limits = 1 .. Len(Limits) /\ Len(Limits) \in Nat
    BY <2>1, LenProperties DEF GoodList
  <2>3. Len(Limits) \in DOMAIN Limits /\ i <= Len(Limits)
    BY <2>2
  <2>4. Target(i) \in StateRange(Device) /\ Target(Len(Limits)) \in StateRange(Device)
    BY ZenonT(30), <2>1, <2>3, EntryOfTrip DEF Target
  <2>5. Weight(Target(i)) <= Weight(Target(Len(Limits)))
    BY <2>1, <2>3 DEF Sorted, Target
  <2> QED
    BY SMTT(30), <2>4, <2>5, LevelFacts
<1> QED
  BY <1>1, IndInvAlways, TargetInvAlways, PTL

\* The call that erases the last entry brings the device back to its minimum.
THEOREM ReleasedAtOnce == Spec => ReleasedWithLastHold
<1>1. IndInv /\ TargetInv /\ [Next]_vars =>
          [Limits # << >> /\ Limits' = << >> => cdev'.curr_state = Device.min_state]_vars
  BY StepEffect DEF Limits
<1> QED
  BY <1>1, IndInvAlways, TargetInvAlways, PTL DEF Spec, ReleasedWithLastHold

-----------------------------------------------------------------------------
(* The device implements SharedDevice.                                     *)

\* The list is empty when nobody holds the device, and only then.
LEMMA NobodyHolds ==
    ASSUME NEW s, GoodList(s)
    PROVE  s = << >> <=> Who(s) = {}
<1>1. CASE s = << >>
  BY <1>1 DEF Who
<1>2. CASE s # << >>
  <2>1. Len(s) \in DOMAIN s
    BY <1>2, GoodPrefix
  <2>2. \E r \in Requests : HeldBy(s[Len(s)], r)
    BY Zenon, <2>1, EntryOfTrip
  <2> QED
    BY Zenon, <1>2, <2>1, <2>2 DEF Who
<1> QED
  BY <1>1, <1>2

\* What one holder alone needs is what it asks for.
LEMMA NeedOfOne ==
    ASSUME NEW r \in Requests
    PROVE  Shared!Need({r}) = Wishes[r]
<1>1. Wishes[r] \in Nat
  BY LevelFacts, TargetsAssumption DEF Wishes
<1>2. {Wishes[t] : t \in {r}} = {Wishes[r]}
  OBVIOUS
<1>3. Shared!Need({r}) = CHOOSE x \in {Wishes[r]} : \A y \in {Wishes[r]} : x >= y
  BY <1>2 DEF Shared!Need, Shared!Max, Wishes
<1> HIDE DEF Wishes
<1>4. \A x \in {Wishes[r]} : (\A y \in {Wishes[r]} : x >= y) <=> x = Wishes[r]
  BY <1>1
<1> QED
  BY <1>3, <1>4

\* The initial states are those of the abstract device.
LEMMA SharedInit == Init => Shared!Init
<1> SUFFICES ASSUME Init PROVE Shared!Init
  OBVIOUS
<1>1. PICK s \in BootStates : cdev = BootCdev(s)
  BY DEF Init
<1>2. cdev.zone_trip_limits = << >> /\ cdev.curr_state = s
  BY <1>1 DEF BootCdev
<1>3. \A r \in Requests : ~Holds(cdev, r)
  BY SMTT(30), <1>2 DEF Holds
<1> QED
  BY Zenon, <1>2, <1>3 DEF Shared!Init, Init

\* Every step is one of the abstract device, or none.
LEMMA SharedStep ==
    IndInv /\ IndInv' /\ TargetInv /\ TargetInv' /\ [Next]_vars => [Shared!Next]_(Shared!vars)
<1> SUFFICES ASSUME IndInv, IndInv', TargetInv, TargetInv', [Next]_vars
             PROVE  [Shared!Next]_(Shared!vars)
  OBVIOUS
<1> DEFINE held == cdev.zone_trip_limits
           kept == cdev'.zone_trip_limits
           H    == {r \in Requests : Holds(cdev, r)}
           L    == Level(cdev.curr_state)
<1>1. H = Who(held) /\ H' = Who(kept)
  BY DEF Holds, Who
<1>2. GoodList(held) /\ GoodList(kept) /\ Sorted(held) /\ Sorted(kept)
  <2>1. GoodList(held) /\ Sorted(held) /\ Sorted(kept)
    BY Zenon, StepEffect DEF IndInv, GoodCdev, TargetInv, Limits
  <2>2. GoodList(kept)
    BY DEF IndInv, GoodCdev, GoodList
  <2> QED
    BY Zenon, <2>1, <2>2
<1>3. /\ cdev.curr_state \in StateRange(Device) /\ cdev'.curr_state \in StateRange(Device)
      /\ L \in Nat /\ L' \in Nat /\ L' = Level(cdev'.curr_state) /\ Level(Device.min_state) = 0
  <2>1. cdev.curr_state \in StateRange(Device) /\ cdev'.curr_state \in StateRange(Device)
    BY StepEffect DEF TargetInv
  <2>2. L' = Level(cdev'.curr_state)
    BY DEF Level
  <2> QED
    BY Zenon, <2>1, <2>2, LevelFacts
<1>4. /\ held = << >> <=> H = {}
      /\ kept = << >> <=> H' = {}
      /\ held # << >> => Shared!Need(H) = Level(LastLimit(held).target_value)
      /\ kept # << >> => Shared!Need(H') = Level(LastLimit(kept).target_value)
  BY ZenonT(30), <1>1, <1>2, NobodyHolds, NeedIsLast
<1>5. [Shared!Next]_(Shared!vars) <=>
        \/ \E t \in Requests :
             \/ hot' = hot \cup {t} /\ H' = H /\ L' = L
             \/ hot' = hot \ {t} /\ H' = H /\ L' = L
             \/ /\ t \in hot \ H /\ H' = H \cup {t}
                /\ L' \in IF H = {} THEN {Wishes[t]} ELSE {L, Shared!Need(H')}
                /\ hot' = hot
             \/ /\ t \in H \ hot /\ H' = H \ {t}
                /\ L' = IF H' = {} THEN 0 ELSE Shared!Need(H')
                /\ hot' = hot
        \/ hot \cap H # {} /\ L' = Shared!Need(H) /\ hot' = hot /\ H' = H
        \/ H = {} /\ L' < L /\ hot' = hot /\ H' = H
        \/ hot' = hot /\ H' = H /\ L' = L
  BY DEF Shared!Next, Shared!vars, Shared!Ask, Shared!Cease, Shared!Hold, Shared!Grant,
         Shared!Release, Shared!Relax, Wishes, Shared!Need
<1>6. \A r \in Requests : Wishes[r] = Level(r.target_value) /\ Shared!Need({r}) = Wishes[r]
  BY NeedOfOne DEF Wishes
<1>7. /\ hot' = hot
         \/ \E r \in Requests : hot' = hot \cup {r} \/ hot' = hot \ {r}
      /\ kept = held /\ cdev'.curr_state = cdev.curr_state
      => [Shared!Next]_(Shared!vars)
  <2>1. kept = held /\ cdev'.curr_state = cdev.curr_state => H' = H /\ L' = L
    BY <1>1, <1>3
  <2> HIDE DEF H, L
  <2> QED
    BY Zenon, <1>5, <2>1
<1>8. ASSUME NEW r \in Requests, r \in hot, hot' = hot,
             kept # << >>, Who(kept) = Who(held) \cup {r},
             \/ cdev'.curr_state = LastLimit(kept).target_value
             \/ cdev'.curr_state = cdev.curr_state /\ held # << >>
      PROVE  [Shared!Next]_(Shared!vars)
  <2>1. H' = H \cup {r}
    BY Zenon, <1>1, <1>8
  <2>2. L' = Shared!Need(H') \/ (L' = L /\ H # {})
    BY Zenon, <1>3, <1>4, <1>8
  <2>3. H = {} => Shared!Need(H') = Wishes[r]
    BY Zenon, <1>6, <2>1
  <2>4. r \in H => H' = H /\ hot \cap H # {}
    BY Zenon, <1>8, <2>1
  <2>5. H' = H => Shared!Need(H') = Shared!Need(H)
    BY Zenon
  <2> HIDE DEF H, L
  <2>6. CASE r \in H
    BY Zenon, <1>5, <1>8, <2>2, <2>4, <2>5, <2>6
  <2>7. CASE r \notin H
    <3>1. r \in hot \ H
      BY Zenon, <1>8, <2>7
    <3>2. L' \in IF H = {} THEN {Wishes[r]} ELSE {L, Shared!Need(H')}
      BY Zenon, <2>2, <2>3
    <3> QED
      BY Zenon, <1>5, <1>8, <2>1, <3>1, <3>2
  <2> QED
    BY Zenon, <2>6, <2>7
<1>9. ASSUME NEW r \in Requests, r \notin hot, hot' = hot,
             held # << >>, r \in Who(held), Who(kept) = Who(held) \ {r},
             cdev'.curr_state = IF kept = << >> THEN Device.min_state
                                ELSE LastLimit(kept).target_value
      PROVE  [Shared!Next]_(Shared!vars)
  <2>1. r \in H \ hot /\ H' = H \ {r}
    BY ZenonT(30), <1>1, <1>9
  <2>2. L' = IF H' = {} THEN 0 ELSE Shared!Need(H')
    BY Zenon, <1>3, <1>4, <1>9
  <2> HIDE DEF H, L
  <2> QED
    BY Zenon, <1>5, <1>9, <2>1, <2>2
<1>10. ASSUME hot' = hot, held = << >>, kept = << >>,
              Level(cdev'.curr_state) <= Level(cdev.curr_state)
       PROVE  [Shared!Next]_(Shared!vars)
  <2>1. H = {} /\ H' = H /\ L' <= L
    BY Zenon, <1>1, <1>3, <1>4, <1>10
  <2>2. L' < L \/ L' = L
    <3>1. L \in Nat /\ L' \in Nat
      BY <1>3
    <3> HIDE DEF L
    <3> QED
      BY SMTT(30), <2>1, <3>1
  <2> HIDE DEF H, L
  <2> QED
    BY Zenon, <1>5, <1>10, <2>1, <2>2
<1> HIDE DEF H, L
<1> QED
  BY Zenon, <1>7, <1>8, <1>9, <1>10, StepEffect

\* The activation list and its debounce implement the device that SharedDevice
\* describes, for every number of trips, every device and every set of targets.
THEOREM ImplementsSharedDevice == Spec => DeviceIsShared
<1>1. Spec => []IndInv /\ []TargetInv
  BY IndInvAlways, TargetInvAlways
<1> QED
  BY <1>1, SharedInit, SharedStep, PTL DEF Spec, DeviceIsShared, Shared!Spec
=============================================================================
