--------------------------- MODULE CdevRangeProofs ---------------------------
(***************************************************************************)
(* The device stays within its range, and a series of the exponential      *)
(* controller only goes up, proved for every device, every set of trips    *)
(* and every width of int that RangeAssumption allows.                     *)
(***************************************************************************)
EXTENDS CdevExponential, CdevArbitrationProofs

Span == StateRange(Device)

\* What the states of the device must satisfy: the base of a series counts only from
\* its second step on.
InSpan(c) ==
    /\ c.curr_state \in Span
    /\ c.hw \in Span
    /\ c.trend_increase /\ c.curr_pow > 0 => c.base_pow_state \in Span

\* An entry of the list asks for nothing outside the range.
SaneLimit(limit) ==
    /\ limit.target_state_valid => limit.target_value \in Span
    /\ limit.min_state \in Span \cup {0}
    /\ limit.max_state \in Span \cup {0}

SaneRequest(q) == q.target_state_valid => q.target_value \in Span

-----------------------------------------------------------------------------
(* The clamps.                                                             *)

\* The range of the device: integers, with its minimum and its maximum.
LEMMA SpanFacts ==
    /\ Span \subseteq Int
    /\ Device.min_state \in Span
    /\ Device.max_state \in Span
BY DeviceAssumption DEF Span, StateRange, Ascending

\* The lower clamp stays in the range, and does not go below the minimum.
LEMMA ClampMin ==
    ASSUME NEW s \in Int, NEW limit \in Span \cup {0}
    PROVE  /\ s \in Span => thd_clamp_state_min(Device, s, limit) \in Span
           /\ ~MoreRestrictive(Device, Device.min_state, thd_clamp_state_min(Device, s, 0))
           /\ thd_clamp_state_min(Device, s, 0) \in Int
BY DeviceAssumption
   DEF Span, StateRange, Ascending, thd_clamp_state_min, Larger, Smaller, MoreRestrictive

\* The upper clamp of what is not below the minimum is in the range.
LEMMA ClampMax ==
    ASSUME NEW s \in Int, NEW limit \in Span \cup {0},
           ~MoreRestrictive(Device, Device.min_state, s)
    PROVE  thd_clamp_state_max(Device, s, limit) \in Span
BY DeviceAssumption
   DEF Span, StateRange, Ascending, thd_clamp_state_max, Larger, Smaller, MoreRestrictive

\* What is not less restrictive than a state of the range is not less restrictive
\* than the minimum.
LEMMA AtLeastMin ==
    ASSUME NEW b \in Span, NEW s \in Int, ~MoreRestrictive(Device, b, s)
    PROVE  ~MoreRestrictive(Device, Device.min_state, s)
BY DeviceAssumption DEF Span, StateRange, Ascending, MoreRestrictive

\* Writing a state of the range stays in it.
LEMMA SetInSpan ==
    ASSUME NEW c \in CdevType, InSpan(c), NEW s \in Span
    PROVE  /\ InSpan(set_curr_state(Device, c, s))
           /\ InSpan(set_curr_state_raw(Device, c, s))
           /\ InSpan([set_curr_state_raw(Device, c, s) EXCEPT !.curr_state = s])
<1>1. s \in Int
  BY SpanFacts
<1>2. \A z \in Span : LimitClamp(Device, z) \in Span /\ RawClamp(Device, z) \in Span
  BY DeviceAssumption DEF LimitClamp, RawClamp, Span, StateRange, Ascending
<1>3. ASSUME NEW z \in Span PROVE InSpan(set_curr_state(Device, c, z))
  <2> DEFINE n == IF Device.raw = "limit" THEN LimitClamp(Device, z) ELSE z
             a == [c EXCEPT !.curr_state = n, !.hw = n]
  <2>1. n \in Span
    BY <1>2
  <2>2. set_curr_state(Device, c, z) = a
    BY DEF set_curr_state
  <2> HIDE DEF n
  <2>3. /\ a.curr_state = n /\ a.hw = n /\ a.trend_increase = c.trend_increase
        /\ a.curr_pow = c.curr_pow /\ a.base_pow_state = c.base_pow_state
    BY DEF CdevType
  <2> HIDE DEF a
  <2> QED
    BY <2>1, <2>2, <2>3 DEF InSpan
<1> DEFINE z == IF Device.raw = "base" THEN RawClamp(Device, s) ELSE s
           b == set_curr_state(Device, c, z)
<1>4. z \in Span
  BY <1>2
<1>5. set_curr_state_raw(Device, c, s) = b
  BY DEF set_curr_state_raw
<1> HIDE DEF z
<1>6. InSpan(b)
  BY <1>3, <1>4
<1>7. b \in CdevType
  BY Zenon, <1>1, <1>5, SetRawType
<1> HIDE DEF b
<1>8. InSpan([b EXCEPT !.curr_state = s])
  <2> DEFINE a == [b EXCEPT !.curr_state = s]
  <2>1. /\ a.curr_state = s /\ a.hw = b.hw /\ a.trend_increase = b.trend_increase
        /\ a.curr_pow = b.curr_pow /\ a.base_pow_state = b.base_pow_state
    BY <1>7 DEF CdevType
  <2> HIDE DEF a
  <2> QED
    BY <1>6, <2>1 DEF InSpan, a
<1> QED
  BY <1>3, <1>5, <1>6, <1>8

-----------------------------------------------------------------------------
(* The exponential controller.                                             *)

\* A step of a series leads towards max_state, or is caught by the overflow check.
LEMMA StepUp ==
    ASSUME NEW b \in Span, NEW pow \in 0 .. default_max_exponent,
           LET raised == Wrap(b + 2 ^ pow * Step)
           IN  \/ pow = 0
               \/ ~(Device.inc_val < 0 /\ b < raised) /\ ~(Device.inc_val > 0 /\ b > raised)
    PROVE  /\ Wrap(b + 2 ^ pow * Step) \in Int
           /\ ~MoreRestrictive(Device, b, Wrap(b + 2 ^ pow * Step))
<1> DEFINE raised == Wrap(b + 2 ^ pow * Step)
<1>1. b \in Int /\ Step \in Int /\ Device.inc_val \in Int
  BY SpanFacts, DeviceAssumption DEF Step
<1>2. raised \in Int
  <2>1. 2 ^ pow \in Int
    OBVIOUS
  <2>2. b + 2 ^ pow * Step \in Int
    BY <1>1, <2>1
  <2> QED
    BY <2>2, WrapType
<1>3. CASE pow = 0 \/ Device.inc_val = 0
  BY <1>2, <1>3, RangeAssumption DEF Span
<1>4. CASE pow # 0 /\ Device.inc_val # 0
  <2> HIDE DEF raised
  <2>1. Step = Device.inc_val
    BY <1>4 DEF Step
  <2>2. ~(Device.inc_val < 0 /\ b < raised) /\ ~(Device.inc_val > 0 /\ b > raised)
    BY <1>4 DEF raised
  <2>3. IF Ascending(Device) THEN Step > 0 ELSE Step < 0
    BY RangeAssumption
  <2> QED
    BY <1>1, <1>2, <2>1, <2>2, <2>3 DEF MoreRestrictive, raised
<1> QED
  BY <1>3, <1>4

\* A step up ends in the range, the wrap of int included.
LEMMA ExponentialUpInSpan ==
    ASSUME NEW c \in CdevType, InSpan(c),
           NEW temp_min \in Span \cup {0}, NEW temp_max \in Span \cup {0}
    PROVE  InSpan(ExponentialUp(Device, c, temp_min, temp_max))
<1> DEFINE curr   == thd_clamp_state_min(Device, c.curr_state, temp_min)
           base   == SeriesBase(c, curr)
           pow    == NextPow(c)
           raised == Wrap(base + 2 ^ pow * Step)
           wrapped == \/ Device.inc_val < 0 /\ base < raised
                      \/ Device.inc_val > 0 /\ base > raised
           first  == Wrap(curr + Step)
           state  == IF ~c.trend_increase THEN first
                     ELSE IF wrapped THEN Device.max_state ELSE raised
           c1     == [c EXCEPT !.curr_pow = pow, !.base_pow_state = base,
                               !.trend_increase = TRUE]
           to     == thd_clamp_state_max(Device, state, temp_max)
<1>1. /\ c.curr_state \in Span /\ c.curr_state \in Int
      /\ c.curr_pow \in 0 .. default_max_exponent /\ c.base_pow_state \in Int
      /\ c.trend_increase \in BOOLEAN
  BY SpanFacts DEF CdevType, InSpan
<1>2. curr \in Span /\ curr \in Int
  <2>1. curr \in Span
    BY <1>1, ClampMin
  <2> QED
    BY Zenon, <2>1, SpanFacts
<1> HIDE DEF curr
<1>3. /\ pow \in 0 .. default_max_exponent
      /\ ~c.trend_increase => pow = 0
      /\ base \in Int
      /\ c.trend_increase => base \in Span
  BY <1>1, <1>2, WidthAssumption DEF NextPow, SeriesBase, Smaller, InSpan
<1> HIDE DEF pow, base
<1>4. state \in Int /\ ~MoreRestrictive(Device, Device.min_state, state)
  <2>1. CASE ~c.trend_increase
    <3>1. 0 \in 0 .. default_max_exponent
      BY WidthAssumption
    <3>2. 2 ^ 0 = 1
      OBVIOUS
    <3>3. Step \in Int
      BY DeviceAssumption DEF Step
    <3>4. curr + 2 ^ 0 * Step = curr + Step
      BY <1>2, <3>2, <3>3
    <3>5. first \in Int /\ ~MoreRestrictive(Device, curr, first)
      BY Zenon, <1>2, <3>1, <3>4, StepUp
    <3> HIDE DEF first, raised, wrapped
    <3> QED
      BY <1>2, <2>1, <3>5, AtLeastMin
  <2>2. CASE c.trend_increase /\ wrapped
    <3>1. state = Device.max_state
      BY <2>2
    <3> HIDE DEF state
    <3> QED
      BY <3>1, DeviceAssumption DEF MoreRestrictive, Ascending
  <2>3. CASE c.trend_increase /\ ~wrapped
    <3>1. raised \in Int /\ ~MoreRestrictive(Device, base, raised)
      BY <1>3, <2>3, StepUp
    <3> HIDE DEF raised
    <3>2. state = raised
      BY <2>3
    <3> HIDE DEF state
    <3> QED
      BY Zenon, <1>3, <2>3, <3>1, <3>2, AtLeastMin
  <2> QED
    BY <2>1, <2>2, <2>3, <1>1
<1>5. to \in Span
  <2> HIDE DEF state
  <2> QED
    BY <1>4, ClampMax
<1>6. c1 \in CdevType /\ InSpan(c1)
  <2>1. TRUE \in BOOLEAN
    OBVIOUS
  <2>2. c1 \in CdevType
    BY Zenon, <1>3, <2>1 DEF CdevType
  <2>3. /\ c1.curr_state = c.curr_state /\ c1.hw = c.hw /\ c1.curr_pow = pow
        /\ c1.base_pow_state = base
    BY DEF CdevType
  <2>4. pow > 0 => base \in Span
    BY <1>1, <1>3
  <2> HIDE DEF c1
  <2> QED
    BY <2>2, <2>3, <2>4 DEF InSpan
<1>7. ExponentialUp(Device, c, temp_min, temp_max) = set_curr_state(Device, c1, to)
  BY DEF ExponentialUp, Step, curr, base, pow
<1> HIDE DEF c1, to
<1> QED
  BY Zenon, <1>5, <1>6, <1>7, SetInSpan

\* A step down ends in the range.
LEMMA ExponentialDownInSpan ==
    ASSUME NEW c \in CdevType, InSpan(c)
    PROVE  InSpan(ExponentialDown(Device, c))
<1> DEFINE curr  == thd_clamp_state_max(Device, get_curr_state(Device, c), 0)
           step  == Magnitude(IF Device.dec_val # 0 THEN Device.dec_val
                                                    ELSE Device.inc_dec_val)
           lower == IF Device.auto_down_adjust THEN Device.min_state
                    ELSE IF Ascending(Device) THEN curr - step ELSE curr + step
           kept  == thd_clamp_state_min(Device, lower, 0)
           to    == thd_clamp_state_max(Device, kept, 0)
           c1    == [c EXCEPT !.curr_pow = 0, !.trend_increase = FALSE]
<1>1. get_curr_state(Device, c) \in Int
  BY DEF get_curr_state, CdevType
<1>2. curr \in Int
  BY <1>1, ClampType
<1>3. step \in Int
  BY DeviceAssumption DEF Magnitude
<1>4. lower \in Int
  <2> HIDE DEF curr, step
  <2> QED
    BY <1>2, <1>3, DeviceAssumption
<1> HIDE DEF lower
<1>5. kept \in Int /\ ~MoreRestrictive(Device, Device.min_state, kept)
  BY <1>4, ClampMin
<1> HIDE DEF kept
<1>6. to \in Span
  BY <1>5, ClampMax
<1>7. c1 \in CdevType /\ InSpan(c1)
  <2>1. 0 \in 0 .. default_max_exponent /\ FALSE \in BOOLEAN
    BY WidthAssumption
  <2>2. c1 \in CdevType
    BY Zenon, <2>1 DEF CdevType
  <2>3. c1.curr_state = c.curr_state /\ c1.hw = c.hw /\ c1.trend_increase = FALSE
    BY DEF CdevType
  <2> HIDE DEF c1
  <2> QED
    BY <2>2, <2>3 DEF InSpan
<1>8. ExponentialDown(Device, c) = set_curr_state(Device, c1, to)
  BY DEF ExponentialDown, kept, lower
<1> HIDE DEF c1, to
<1> QED
  BY Zenon, <1>6, <1>7, <1>8, SetInSpan

-----------------------------------------------------------------------------
(* The calls of a trip.                                                    *)

\* Whatever branch picks the state, it is in the range.
LEMMA ApplyInSpan ==
    ASSUME NEW c \in CdevType, InSpan(c), NEW q \in RequestType, NEW state \in {0, 1},
           NEW valid \in BOOLEAN, NEW target \in Int, valid => target \in Span,
           NEW temp_min \in Span \cup {0}, NEW temp_max \in Span \cup {0},
           NEW pid_output \in Span
    PROVE  InSpan(ApplyState(Device, c, q, state, valid, target,
                             temp_min, temp_max, pid_output))
<1> DEFINE now == [c EXCEPT !.since = 0, !.last_state = state,
                            !.curr_state = get_curr_state(Device, c)]
           c1  == IF now.curr_state = Device.min_state
                  THEN [now EXCEPT !.curr_pow = 0, !.trend_increase = FALSE]
                  ELSE now
           a   == ApplyState(Device, c, q, state, valid, target,
                             temp_min, temp_max, pid_output)
<1>0. c1 = Acting(Device, c, state)
  BY DEF Acting
<1>1. get_curr_state(Device, c) \in Span /\ get_curr_state(Device, c) \in Int
  BY Zenon, SpanFacts DEF get_curr_state, InSpan
<1>2. 0 \in 0 .. default_max_exponent /\ 0 \in 0 .. Device.debounce_interval + 1
  BY WidthAssumption, DeviceAssumption
<1>3. now \in CdevType
  BY Zenon, <1>1, <1>2 DEF CdevType
<1>4. InSpan(now)
  <2>1. /\ now.curr_state = get_curr_state(Device, c) /\ now.hw = c.hw
        /\ now.trend_increase = c.trend_increase /\ now.curr_pow = c.curr_pow
        /\ now.base_pow_state = c.base_pow_state
    BY DEF CdevType
  <2> HIDE DEF now
  <2> QED
    BY <1>1, <2>1 DEF InSpan
<1>5. c1 \in CdevType /\ InSpan(c1)
  <2> HIDE DEF now
  <2> DEFINE z == [now EXCEPT !.curr_pow = 0, !.trend_increase = FALSE]
  <2>1. z \in CdevType
    BY Zenon, <1>2, <1>3 DEF CdevType
  <2>2. z.curr_state = now.curr_state /\ z.hw = now.hw /\ z.trend_increase = FALSE
    BY <1>3 DEF CdevType
  <2> HIDE DEF z
  <2>3. InSpan(z)
    BY <1>4, <2>2 DEF InSpan
  <2> QED
    BY <1>3, <1>4, <2>1, <2>3 DEF z
<1> HIDE DEF c1
<1>6. CASE valid
  <2>1. a = [set_curr_state_raw(Device, c1, target) EXCEPT !.curr_state = target]
    BY <1>6, <1>0 DEF ApplyState
  <2> HIDE DEF a
  <2> QED
    BY <2>1, <1>5, <1>6, SetInSpan DEF a
<1>7. CASE ~valid /\ q.hard_target
  <2>1. a = set_curr_state_raw(Device, c1, Device.max_state)
    BY <1>7, <1>0 DEF ApplyState
  <2> HIDE DEF a
  <2> QED
    BY Zenon, <2>1, <1>5, SpanFacts, SetInSpan DEF a
<1>8. CASE ~valid /\ ~q.hard_target /\ (q.pid \/ Device.pid_enable)
  <2>1. a = set_curr_state_raw(Device, c1, pid_output)
    BY <1>8, <1>0 DEF ApplyState
  <2> HIDE DEF a
  <2> QED
    BY Zenon, <2>1, <1>5, SetInSpan DEF a
<1>9. CASE ~valid /\ ~q.hard_target /\ ~(q.pid \/ Device.pid_enable) /\ state = 1
  <2>1. a = ExponentialUp(Device, c1, temp_min, temp_max)
    BY <1>9, <1>0 DEF ApplyState
  <2> HIDE DEF a
  <2> QED
    BY <2>1, <1>5, ExponentialUpInSpan DEF a
<1>10. CASE ~valid /\ ~q.hard_target /\ ~(q.pid \/ Device.pid_enable) /\ state # 1
  <2>1. a = ExponentialDown(Device, c1)
    BY <1>10, <1>0 DEF ApplyState
  <2> HIDE DEF a
  <2> QED
    BY <2>1, <1>5, ExponentialDownInSpan DEF a
<1> QED
  BY <1>6, <1>7, <1>8, <1>9, <1>10

\* The requests ask for states of the range.
LEMMA RequestsAreSane ==
    ASSUME NEW r \in Requests
    PROVE  /\ SaneRequest(Mapped(r))
           /\ SaneLimit(LimitOf(Device, Mapped(r)))
           /\ SaneRequest(MinStateRequest(Device, Mapped(r)))
<1>1. r \in RequestType /\ Mapped(r) \in RequestType
  BY Zenon, MappedType
<1> DEFINE m == Mapped(r)
<1>2. /\ m.target_state_valid = r.target_state_valid /\ m.min_max_valid = r.min_max_valid
      /\ m.min_state = r.min_state /\ m.max_state = r.max_state
  BY <1>1 DEF Mapped, RequestType
<1> HIDE DEF m
<1>3. /\ m.target_state_valid => m.target_value \in Span
      /\ m.min_max_valid => m.min_state \in Span \cup {0} /\ m.max_state \in Span \cup {0}
  BY <1>2, RangeAssumption DEF Span, m
<1>4. SaneLimit(LimitOf(Device, m))
  BY <1>3, SpanFacts DEF SaneLimit, LimitOf, NotGiven
<1>5. MinStateRequest(Device, m).target_value = Device.min_state
  BY <1>1 DEF MinStateRequest, RequestType, m
<1> QED
  BY <1>3, <1>4, <1>5, SpanFacts DEF SaneRequest, m

\* The entry that decides asks for a state of the range.
LEMMA LastIsSane ==
    ASSUME NEW s, GoodList(s), s # << >>
    PROVE  SaneLimit(LastLimit(s))
<1>1. Len(s) \in DOMAIN s
  BY GoodPrefix
<1>2. PICK r \in Requests : s[Len(s)] = LimitOf(Device, Mapped(r))
  BY <1>1 DEF GoodList
<1> QED
  BY <1>2, RequestsAreSane DEF LastLimit

\* An activation stays in the range.
LEMMA ActivateInSpan ==
    ASSUME NEW c, GoodCdev(c), InSpan(c), NEW r \in Requests, NEW out \in Span
    PROVE  InSpan(ActivateState(Device, c, Mapped(r), out))
<1> DEFINE m      == Mapped(r)
           limits == LimitsWith(c, m)
           limit  == LastLimit(limits)
           c1     == [c EXCEPT !.zone_trip_limits = limits]
           a      == ActivateState(Device, c, m, out)
           b      == ApplyState(Device, c1, m, 1, limit.target_state_valid,
                                limit.target_value, limit.min_state,
                                limit.max_state, out)
<1>1. m \in RequestType /\ c \in CdevType
  BY Zenon, MappedType DEF GoodCdev
<1>2. GoodList(limits) /\ limits # << >>
  BY LimitsWithCaller
<1>3. a = c1 \/ a = b
  BY Zenon DEF ActivateState, LimitsWith
<1> HIDE DEF limits, m
<1>4. c1 \in CdevType /\ InSpan(c1)
  <2>1. c1 \in CdevType
    BY Zenon, <1>1, <1>2 DEF GoodList, CdevType
  <2>2. /\ c1.curr_state = c.curr_state /\ c1.hw = c.hw /\ c1.curr_pow = c.curr_pow
        /\ c1.trend_increase = c.trend_increase /\ c1.base_pow_state = c.base_pow_state
    BY <1>1 DEF CdevType
  <2> HIDE DEF c1
  <2> QED
    BY <2>1, <2>2 DEF InSpan
<1>5. SaneLimit(limit) /\ limit.target_state_valid \in BOOLEAN /\ limit.target_value \in Int
  BY <1>2, LastIsSane, LimitFields
<1> HIDE DEF c1, limit
<1>6. InSpan(b)
  BY ZenonT(30), <1>1, <1>4, <1>5, ApplyInSpan DEF SaneLimit
<1> HIDE DEF a, b
<1> QED
  BY <1>3, <1>4, <1>6 DEF a, m

\* A deactivation stays in the range.
LEMMA DeactivateInSpan ==
    ASSUME NEW c, GoodCdev(c), InSpan(c), NEW q \in RequestType, SaneRequest(q),
           NEW out \in Span
    PROVE  InSpan(DeactivateState(Device, c, q, out))
<1> DEFINE limits == c.zone_trip_limits
           last   == LastLimit(limits)
           rest   == SubSeq(limits, 1, Len(limits) - 1)
           c1     == [c EXCEPT !.zone_trip_limits = rest]
           a      == DeactivateState(Device, c, q, out)
<1>1. c \in CdevType /\ GoodList(limits)
  BY DEF GoodCdev
<1>2. q.target_state_valid \in BOOLEAN /\ q.target_value \in Int /\ q.force \in BOOLEAN
  BY DEF RequestType
<1>3. 0 \in Span \cup {0} /\ Device.min_state \in Span /\ Device.min_state \in Int
  BY SpanFacts, DeviceAssumption
<1>4. CASE limits # << >> /\ HeldBy(last, q)
  <2> DEFINE after == AfterRelease(Device, q, last, rest)
             b     == ApplyState(Device, c1, q, 0, after.valid, after.target, 0, 0, out)
  <2>1. a = b
    BY <1>4 DEF DeactivateState, ReleaseLimit
  <2> HIDE DEF limits
  <2>2. GoodList(rest)
    BY <1>1, <1>4, GoodPrefix
  <2>3. last.target_state_valid \in BOOLEAN
    BY <1>1, <1>4, LimitFields
  <2> HIDE DEF rest, last
  <2>4. after.valid \in BOOLEAN /\ after.target \in Int /\ (after.valid => after.target \in Span)
    <3>1. CASE rest # << >>
      <4>1. SaneLimit(LastLimit(rest))
        BY <2>2, <3>1, LastIsSane
      <4>2. LastLimit(rest).target_state_valid \in BOOLEAN /\ LastLimit(rest).target_value \in Int
        BY <2>2, <3>1, LimitFields
      <4>3. after.valid = LastLimit(rest).target_state_valid /\ after.target = LastLimit(rest).target_value
        BY <3>1 DEF AfterRelease
      <4> HIDE DEF after
      <4> QED
        BY <4>1, <4>2, <4>3 DEF SaneLimit
    <3>2. CASE rest = << >>
      <4>1. /\ after.valid = (q.target_state_valid \/ (~last.target_state_valid /\ q.force))
            /\ after.target = IF last.target_state_valid \/ q.force
                              THEN Device.min_state ELSE q.target_value
        BY <3>2 DEF AfterRelease
      <4> HIDE DEF after
      <4> QED
        BY <4>1, <1>2, <1>3, <2>3 DEF SaneRequest
    <3> QED
      BY <3>1, <3>2
  <2> HIDE DEF after
  <2>5. c1 \in CdevType /\ InSpan(c1)
    <3>1. c1 \in CdevType
      BY Zenon, <1>1, <2>2 DEF GoodList, CdevType
    <3>2. /\ c1.curr_state = c.curr_state /\ c1.hw = c.hw /\ c1.curr_pow = c.curr_pow
          /\ c1.trend_increase = c.trend_increase /\ c1.base_pow_state = c.base_pow_state
      BY <1>1 DEF CdevType
    <3> HIDE DEF c1
    <3> QED
      BY <3>1, <3>2 DEF InSpan
  <2> HIDE DEF c1
  <2>6. InSpan(b)
    BY Zenon, <1>3, <2>4, <2>5, ApplyInSpan
  <2> HIDE DEF a, b
  <2> QED
    BY <2>1, <2>6 DEF a
<1>5. CASE limits # << >> /\ ~HeldBy(last, q)
  BY <1>5 DEF DeactivateState, ReleaseLimit
<1>6. CASE limits = << >>
  <2> DEFINE b == ApplyState(Device, c, q, 0, q.force, Device.min_state, 0, 0, out)
  <2>1. a \in {c, b}
    BY <1>6 DEF DeactivateState
  <2>2. InSpan(b)
    BY <1>1, <1>2, <1>3, ApplyInSpan
  <2> HIDE DEF a, b
  <2> QED
    BY <2>1, <2>2 DEF a
<1> QED
  BY <1>4, <1>5, <1>6

\* The device starts in the range.
LEMMA InSpanInit == Init => InSpan(cdev)
<1> SUFFICES ASSUME Init PROVE InSpan(cdev)
  OBVIOUS
<1>1. PICK s \in BootStates : cdev = BootCdev(s)
  BY DEF Init
<1> QED
  BY <1>1, BootAssumption DEF BootCdev, InSpan, Span

\* Every step stays in the range.
LEMMA InSpanStep == IndInv /\ InSpan(cdev) /\ [Next]_vars => InSpan(cdev)'
<1> SUFFICES ASSUME IndInv, InSpan(cdev), [Next]_vars PROVE InSpan(cdev')
  BY DEF InSpan, Span, StateRange, Ascending
<1>1. GoodCdev(cdev) /\ cdev \in CdevType
  BY DEF IndInv, GoodCdev
<1>2. \A r \in Requests : PidOutputs(r) \subseteq Span
  BY SpanFacts DEF PidOutputs, Span
<1>3. ASSUME NEW r \in Requests, Heat(r) \/ Cool(r) PROVE InSpan(cdev')
  BY <1>3 DEF Heat, Cool
<1>4. ASSUME NEW r \in Requests, Activate(r) PROVE InSpan(cdev')
  <2>1. PICK out \in PidOutputs(r) : cdev' = ActivateState(Device, cdev, Mapped(r), out)
    BY <1>4 DEF Activate
  <2> QED
    BY <1>1, <1>2, <2>1, ActivateInSpan
<1>5. ASSUME NEW r \in Requests, Deactivate(r) PROVE InSpan(cdev')
  <2>1. PICK out \in PidOutputs(r) : cdev' = DeactivateState(Device, cdev, Mapped(r), out)
    BY <1>5 DEF Deactivate
  <2>2. Mapped(r) \in RequestType /\ SaneRequest(Mapped(r))
    BY Zenon, MappedType, RequestsAreSane
  <2> QED
    BY <1>1, <1>2, <2>1, <2>2, DeactivateInSpan
<1>6. ASSUME NEW r \in Requests, Reset(r) PROVE InSpan(cdev')
  <2> DEFINE c1 == [cdev EXCEPT !.trend_increase = FALSE]
             q  == MinStateRequest(Device, Mapped(r))
  <2>1. cdev' = DeactivateState(Device, c1, q, Device.min_state)
    BY <1>6 DEF Reset, thd_cdev_set_min_state
  <2>2. q \in RequestType /\ SaneRequest(q)
    BY Zenon, MappedType, RequestsAreSane
  <2>3. /\ c1 \in CdevType /\ c1.zone_trip_limits = cdev.zone_trip_limits
        /\ c1.last_state = cdev.last_state
    BY Zenon, <1>1 DEF CdevType
  <2>4. c1.curr_state = cdev.curr_state /\ c1.hw = cdev.hw /\ c1.trend_increase = FALSE
    BY <1>1 DEF CdevType
  <2> HIDE DEF c1, q
  <2>5. GoodCdev(c1) /\ InSpan(c1)
    BY <1>1, <2>3, <2>4 DEF GoodCdev, InSpan
  <2> QED
    BY Zenon, <2>1, <2>2, <2>5, SpanFacts, DeactivateInSpan
<1>7. CASE Tick
  <2> DEFINE later == Smaller(cdev.since + 1, Device.debounce_interval + 1)
  <2>1. cdev' = [cdev EXCEPT !.since = later]
    BY <1>7 DEF Tick, Elapse
  <2> HIDE DEF later
  <2>2. /\ cdev'.curr_state = cdev.curr_state /\ cdev'.hw = cdev.hw
        /\ cdev'.curr_pow = cdev.curr_pow /\ cdev'.trend_increase = cdev.trend_increase
        /\ cdev'.base_pow_state = cdev.base_pow_state
    BY <1>1, <2>1 DEF CdevType
  <2> QED
    BY <2>2 DEF InSpan
<1>8. CASE UNCHANGED vars
  BY <1>8 DEF vars
<1> QED
  BY Zenon, <1>3, <1>4, <1>5, <1>6, <1>7, <1>8 DEF Next

\* The clamps of thd_cdev.cpp keep the device within [min_state, max_state] for every
\* device, every set of trips and every width of int: the steps of a series either
\* fit in an int or are caught by the overflow check.
THEOREM StaysInRange == Spec => []StateInRange
<1>1. InSpan(cdev) => StateInRange
  BY DEF InSpan, Span, StateInRange
<1> QED
  BY <1>1, IndInvAlways, InSpanInit, InSpanStep, PTL DEF Spec

-----------------------------------------------------------------------------
(* Series of the exponential controller.                                    *)

\* From the second step of a series on the device is where the series puts it, in
\* the integers and not only in an int, or at its maximum.
OnSeries(c) ==
    c.trend_increase /\ c.curr_pow > 0 =>
        \/ c.curr_state = Device.max_state
        \/ c.curr_state = c.base_pow_state + 2 ^ c.curr_pow * Step

\* A distance towards max_state.
Upward(x) == IF Ascending(Device) THEN x > 0 ELSE x < 0

-----------------------------------------------------------------------------
(* Arithmetic.                                                             *)

\* The remainder of a number within one modulus of the residues.
LEMMA NearModulus ==
    ASSUME NEW m \in Nat \ {0}, NEW v \in Int
    PROVE  /\ v \in 0 .. m - 1 => v % m = v
           /\ v \in m .. 2 * m - 1 => v % m = v - m
           /\ v \in -m .. -1 => v % m = v + m
<1>1. ASSUME v \in 0 .. m - 1 PROVE v % m = v
  BY <1>1
<1>2. ASSUME v \in m .. 2 * m - 1 PROVE v % m = v - m
  BY <1>2
<1>3. ASSUME v \in -m .. -1 PROVE v % m = v + m
  BY <1>3
<1> QED
  BY <1>1, <1>2, <1>3

\* What Wrap does to the sum of an int and less than the number of ints.
LEMMA WrapNear ==
    ASSUME NEW half \in Nat \ {0}, half = 2 ^ (IntBits - 1),
           NEW b \in -half .. half - 1, NEW x \in Int, -(2 * half) < x, x < 2 * half
    PROVE  \/ Wrap(b + x) = b + x
           \/ x > 0 /\ Wrap(b + x) = b + x - 2 * half
           \/ x < 0 /\ Wrap(b + x) = b + x + 2 * half
<1> DEFINE m == 2 * half
           v == b + x + half
<1>1. m \in Nat \ {0} /\ v \in Int
  OBVIOUS
<1>2. Wrap(b + x) = (v % m) - half
  BY DEF Wrap
<1>3. CASE v \in 0 .. m - 1
  <2>1. v % m = v
    BY Zenon, <1>1, <1>3, NearModulus
  <2> QED
    BY <1>2, <2>1
<1>4. CASE v >= m
  <2>1. v \in m .. 2 * m - 1 /\ x > 0
    BY <1>4
  <2>2. v % m = v - m
    BY <1>1, <2>1, NearModulus
  <2> QED
    BY <1>2, <2>1, <2>2
<1>5. CASE v < 0
  <2>1. v \in -m .. -1 /\ x < 0
    BY <1>5
  <2>2. v % m = v + m
    BY <1>1, <2>1, NearModulus
  <2> QED
    BY <1>2, <2>1, <2>2
<1> QED
  BY <1>1, <1>3, <1>4, <1>5

\* A step upwards by twice what fits in an int either does not wrap, or ends
\* behind its base.
LEMMA NoHiddenWrap ==
    ASSUME FitsInt, NEW b \in Span, NEW y \in Int, Upward(y),
           Magnitude(y) < 2 ^ (IntBits - 1),
           ~MoreRestrictive(Device, b, Wrap(b + 2 * y))
    PROVE  Wrap(b + 2 * y) = b + 2 * y
<1> DEFINE half == 2 ^ (IntBits - 1)
           to   == Wrap(b + 2 * y)
<1>1. half \in Nat \ {0}
  BY WidthAssumption
<1>2. b \in -half .. half - 1
  BY DEF FitsInt, Span
<1> HIDE DEF half
<1>3. Magnitude(y) < half
  BY DEF half
<1>4. 2 * y \in Int /\ -(2 * half) < 2 * y /\ 2 * y < 2 * half
  BY <1>1, <1>3 DEF Magnitude
<1>5. \/ to = b + 2 * y
      \/ 2 * y > 0 /\ to = b + 2 * y - 2 * half
      \/ 2 * y < 0 /\ to = b + 2 * y + 2 * half
  BY Zenon, <1>1, <1>2, <1>4, WrapNear DEF half
<1> HIDE DEF to
<1>6. ~MoreRestrictive(Device, b, to)
  BY DEF to
<1> QED
  BY <1>1, <1>2, <1>4, <1>5, <1>6 DEF MoreRestrictive, Upward, to

\* The next step of a series that stands at curr: it does not wrap unnoticed, and
\* does not lead back.
LEMMA NextRung ==
    ASSUME FitsInt, NEW base \in Span, NEW curr \in Span,
           NEW p \in 0 .. default_max_exponent,
           \/ p = 0 /\ base = curr
           \/ curr = base + 2 ^ p * Step,
           ~MoreRestrictive(Device, base, Wrap(base + 2 ^ (p + 1) * Step))
    PROVE  /\ Wrap(base + 2 ^ (p + 1) * Step) = base + 2 ^ (p + 1) * Step
           /\ ~MoreRestrictive(Device, curr, Wrap(base + 2 ^ (p + 1) * Step))
<1> DEFINE pow == 2 ^ p
           y   == pow * Step
<1>1. pow \in Int /\ pow > 0 /\ 2 ^ (p + 1) = 2 * pow /\ (p = 0 => pow = 1)
  <2>1. pow \in Int
    OBVIOUS
  <2>2. pow > 0 /\ 2 ^ (p + 1) = 2 * pow
    BY Zenon DEF FitsInt
  <2>3. ASSUME p = 0 PROVE pow = 1
    <3>1. 2 ^ 0 = 1
      OBVIOUS
    <3> QED
      BY <2>3, <3>1
  <2> QED
    BY <2>1, <2>2, <2>3
<1> HIDE DEF pow
<1>2. Step \in Int /\ Upward(Step)
  BY RangeAssumption, DeviceAssumption DEF Step, Upward
<1>3. y \in Int /\ Upward(y)
  BY <1>1, <1>2 DEF Upward
<1>4. 2 ^ (p + 1) * Step = 2 * y
  BY <1>1, <1>2
<1>5. base \in Int /\ curr \in Int /\ Magnitude(curr - base) <= Magnitude(Device.max_state - Device.min_state)
  BY DeviceAssumption DEF Span, StateRange, Ascending, Magnitude
<1>6. p = 0 => y = Step
  BY <1>1, <1>2
<1>7. (p = 0 /\ base = curr) \/ curr = base + y
  BY DEF pow
<1> HIDE DEF y
<1>8. Magnitude(y) < 2 ^ (IntBits - 1)
  <2>1. CASE p = 0
    BY <2>1, <1>6 DEF FitsInt
  <2>2. CASE p # 0
    <3>1. y = curr - base
      BY <2>2, <1>3, <1>5, <1>7
    <3>2. Magnitude(Device.max_state - Device.min_state) < 2 ^ (IntBits - 1)
      BY DEF FitsInt
    <3>3. Magnitude(y) \in Int /\ Magnitude(Device.max_state - Device.min_state) \in Int
      BY <1>3, DeviceAssumption DEF Magnitude
    <3>4. Magnitude(y) <= Magnitude(Device.max_state - Device.min_state)
      BY <3>1, <1>5
    <3>5. 2 ^ (IntBits - 1) \in Int
      BY WidthAssumption
    <3> QED
      BY <3>2, <3>3, <3>4, <3>5
  <2> QED
    BY <2>1, <2>2
<1>9. ~MoreRestrictive(Device, base, Wrap(base + 2 * y))
  BY <1>4
<1>10. Wrap(base + 2 * y) = base + 2 * y
  BY Zenon, <1>3, <1>8, <1>9, NoHiddenWrap
<1>11. ~MoreRestrictive(Device, curr, base + 2 * y)
  BY <1>3, <1>5, <1>7 DEF MoreRestrictive, Upward
<1> QED
  BY Zenon, <1>4, <1>10, <1>11

-----------------------------------------------------------------------------
(* The controller.                                                         *)

\* Writing a state of the range puts the device there, and leaves the series alone.
LEMMA SetReaches ==
    ASSUME PlainTrips, NEW c \in CdevType, NEW s \in Span
    PROVE  /\ set_curr_state(Device, c, s).curr_state = s
           /\ set_curr_state(Device, c, s).curr_pow = c.curr_pow
           /\ set_curr_state(Device, c, s).base_pow_state = c.base_pow_state
           /\ set_curr_state(Device, c, s).trend_increase = c.trend_increase
<1>1. Device.raw = "limit" => LimitClamp(Device, s) = s
  BY DeviceAssumption DEF PlainTrips, LimitClamp, Span, StateRange, Ascending
<1>2. set_curr_state(Device, c, s) = [c EXCEPT !.curr_state = s, !.hw = s]
  BY Zenon, <1>1 DEF set_curr_state
<1> QED
  BY <1>2 DEF CdevType

\* The upper clamp only takes away what is above the maximum.
LEMMA ClampRaised ==
    ASSUME NEW s \in Int, NEW curr \in Span, ~MoreRestrictive(Device, curr, s)
    PROVE  /\ thd_clamp_state_max(Device, s, 0) \in Span
           /\ thd_clamp_state_max(Device, s, 0) \in {s, Device.max_state}
           /\ ~MoreRestrictive(Device, curr, thd_clamp_state_max(Device, s, 0))
BY DeviceAssumption
   DEF Span, StateRange, Ascending, thd_clamp_state_max, Larger, Smaller, MoreRestrictive

\* A step up stays on the series and does not cool less than before.
LEMMA UpOnSeries ==
    ASSUME PlainTrips, FitsInt, NEW c \in CdevType, InSpan(c), OnSeries(c),
           c.curr_state # Device.max_state
    PROVE  LET u == ExponentialUp(Device, c, 0, 0)
           IN  OnSeries(u) /\ ~MoreRestrictive(Device, c.curr_state, u.curr_state)
<1> DEFINE curr   == c.curr_state
           base   == SeriesBase(c, curr)
           pow    == NextPow(c)
           raised == Wrap(base + 2 ^ pow * Step)
           wrapped == \/ Device.inc_val < 0 /\ base < raised
                      \/ Device.inc_val > 0 /\ base > raised
           first  == Wrap(curr + Step)
           state  == IF ~c.trend_increase THEN first
                     ELSE IF wrapped THEN Device.max_state ELSE raised
           c1     == [c EXCEPT !.curr_pow = pow, !.base_pow_state = base,
                               !.trend_increase = TRUE]
           to     == thd_clamp_state_max(Device, state, 0)
           u      == ExponentialUp(Device, c, 0, 0)
<1>1. /\ curr \in Span /\ curr \in Int
      /\ c.curr_pow \in 0 .. default_max_exponent /\ c.base_pow_state \in Int
      /\ c.trend_increase \in BOOLEAN
  BY SpanFacts DEF CdevType, InSpan
<1>2. thd_clamp_state_min(Device, curr, 0) = curr
  <2> HIDE DEF curr
  <2> QED
    BY <1>1, DeviceAssumption
       DEF thd_clamp_state_min, Span, StateRange, Ascending, Larger, Smaller
<1>3. u = set_curr_state(Device, c1, to)
  BY Zenon, <1>2 DEF ExponentialUp, Step
<1>4. /\ pow \in 0 .. default_max_exponent
      /\ ~c.trend_increase => pow = 0
      /\ base \in Int
      /\ c.trend_increase => base \in Span
  <2>1. pow \in 0 .. default_max_exponent /\ (~c.trend_increase => pow = 0)
    BY <1>1, WidthAssumption DEF NextPow, Smaller
  <2>2. c.trend_increase /\ c.curr_pow > 0 => c.base_pow_state \in Span
    BY DEF InSpan
  <2>3. c.curr_pow = 0 \/ c.curr_pow > 0
    BY <1>1
  <2>4. CASE c.trend_increase /\ c.curr_pow = 0
    <3>1. base = curr
      BY Zenon, <2>4 DEF SeriesBase
    <3> QED
      BY Zenon, <1>1, <2>1, <3>1
  <2>5. CASE ~(c.trend_increase /\ c.curr_pow = 0)
    <3>1. base = c.base_pow_state
      BY Zenon, <2>5 DEF SeriesBase
    <3> QED
      BY Zenon, <1>1, <2>1, <2>2, <2>3, <2>5, <3>1
  <2> QED
    BY Zenon, <2>4, <2>5
\* The step before the clamp.
<1>5. /\ state \in Int /\ ~MoreRestrictive(Device, curr, state)
      /\ pow > 0 => state \in {Device.max_state, base + 2 ^ pow * Step}
  <2>1. CASE ~c.trend_increase
    <3>1. 0 \in 0 .. default_max_exponent
      BY WidthAssumption
    <3>2. 2 ^ 0 = 1
      OBVIOUS
    <3>3. Step \in Int
      BY DeviceAssumption DEF Step
    <3>4. curr + 2 ^ 0 * Step = curr + Step
      BY <1>1, <3>2, <3>3
    <3>5. first \in Int /\ ~MoreRestrictive(Device, curr, first)
      BY Zenon, <1>1, <3>1, <3>4, StepUp
    <3>6. state = first /\ pow = 0
      BY <2>1, <1>4
    <3> HIDE DEF state, first, pow
    <3> QED
      BY <3>5, <3>6
  <2>2. CASE c.trend_increase /\ wrapped
    <3>1. state = Device.max_state
      BY <2>2
    <3> HIDE DEF state, curr
    <3> QED
      BY <3>1, <1>1, DeviceAssumption DEF MoreRestrictive, Ascending, Span, StateRange
  <2>3. CASE c.trend_increase /\ ~wrapped
    <3>1. state = raised
      BY <2>3
    <3> HIDE DEF pow, base, curr
    <3>2. raised \in Int /\ ~MoreRestrictive(Device, base, raised)
      BY <1>4, <2>3, StepUp
    <3> HIDE DEF state, raised, wrapped
    <3>3. CASE c.curr_pow = default_max_exponent /\ c.curr_pow > 0
      <4>1. pow = c.curr_pow /\ base = c.base_pow_state
        BY <2>3, <3>3, <1>1 DEF pow, base, NextPow, SeriesBase, Smaller
      <4>2. curr = base + 2 ^ pow * Step
        BY <2>3, <3>3, <4>1 DEF OnSeries, curr
      <4>3. curr \in -2 ^ (IntBits - 1) .. 2 ^ (IntBits - 1) - 1
        BY <1>1 DEF FitsInt, Span
      <4>4. Wrap(curr) = curr
        <5> DEFINE half == 2 ^ (IntBits - 1)
        <5>1. half \in Nat \ {0} /\ curr \in -half .. half - 1
          BY <4>3, WidthAssumption
        <5>2. half = 2 ^ (IntBits - 1)
          OBVIOUS
        <5> HIDE DEF half
        <5>3. 0 \in Int /\ -(2 * half) < 0 /\ 0 < 2 * half /\ curr + 0 = curr
          BY <5>1
        <5>4. \/ Wrap(curr + 0) = curr + 0
              \/ 0 > 0 /\ Wrap(curr + 0) = curr + 0 - 2 * half
              \/ 0 < 0 /\ Wrap(curr + 0) = curr + 0 + 2 * half
          BY Zenon, <5>1, <5>2, <5>3, WrapNear
        <5>5. ~(0 > 0) /\ ~(0 < 0)
          OBVIOUS
        <5> QED
          BY Zenon, <5>3, <5>4, <5>5
      <4>5. raised = curr
        BY <4>2, <4>4 DEF raised
      <4> QED
        BY <3>1, <4>2, <4>5, <1>1 DEF MoreRestrictive
    <3>4. CASE c.curr_pow = default_max_exponent /\ c.curr_pow = 0
      <4>1. pow = 0 /\ base = curr
        BY <2>3, <3>4, <1>1 DEF pow, base, NextPow, SeriesBase, Smaller
      <4> QED
        BY <3>1, <3>2, <4>1
    <3>5. CASE c.curr_pow # default_max_exponent
      <4>1. pow = c.curr_pow + 1
        BY <2>3, <3>5, <1>1, WidthAssumption DEF pow, NextPow, Smaller
      <4>2. (c.curr_pow = 0 /\ base = curr) \/ curr = base + 2 ^ c.curr_pow * Step
        BY <2>3, <1>1 DEF OnSeries, base, SeriesBase, curr
      <4>3. ~MoreRestrictive(Device, base, Wrap(base + 2 ^ (c.curr_pow + 1) * Step))
        BY Zenon, <3>2, <4>1 DEF raised
      <4>4. /\ Wrap(base + 2 ^ (c.curr_pow + 1) * Step) = base + 2 ^ (c.curr_pow + 1) * Step
            /\ ~MoreRestrictive(Device, curr, Wrap(base + 2 ^ (c.curr_pow + 1) * Step))
        BY Zenon, <1>1, <1>4, <2>3, <4>2, <4>3, NextRung
      <4>5. raised = base + 2 ^ pow * Step /\ ~MoreRestrictive(Device, curr, raised)
        BY Zenon, <4>1, <4>4 DEF raised
      <4> QED
        BY Zenon, <3>1, <3>2, <4>5
    <3> QED
      BY <1>1, <3>3, <3>4, <3>5
  <2> QED
    BY Zenon, <2>1, <2>2, <2>3
<1> HIDE DEF state
<1>6. /\ to \in Span /\ to \in {state, Device.max_state}
      /\ ~MoreRestrictive(Device, curr, to)
  BY <1>1, <1>5, ClampRaised
<1>7. /\ c1 \in CdevType
      /\ c1.curr_pow = pow /\ c1.base_pow_state = base /\ c1.trend_increase = TRUE
  <2> HIDE DEF pow, base
  <2>1. TRUE \in BOOLEAN
    OBVIOUS
  <2>2. c1 \in CdevType
    BY Zenon, <1>4, <2>1 DEF CdevType
  <2> QED
    BY <2>2 DEF CdevType
<1> HIDE DEF c1, to, pow, base, u, curr
<1>8. u.curr_state = to /\ u.curr_pow = pow /\ u.base_pow_state = base
  BY <1>3, <1>6, <1>7, SetReaches
<1>9. OnSeries(u)
  BY <1>5, <1>6, <1>8 DEF OnSeries
<1> QED
  BY Zenon, <1>6, <1>8, <1>9 DEF u, curr

\* A step down ends the series.
LEMMA DownEnds ==
    ASSUME NEW c \in CdevType, InSpan(c)
    PROVE  OnSeries(ExponentialDown(Device, c))
<1> DEFINE u == ExponentialDown(Device, c)
<1>1. u.trend_increase = FALSE
  BY DEF ExponentialDown, set_curr_state, CdevType
<1> HIDE DEF u
<1> QED
  BY <1>1 DEF OnSeries, u

\* A MAX trip sets the device to its maximum.
LEMMA MaxReached ==
    ASSUME PlainTrips, NEW c \in CdevType, NEW r \in Requests, r.hard_target
    PROVE  set_curr_state_raw(Device, c, Device.max_state).curr_state = Device.max_state
<1>1. Device.raw = "base" => RawClamp(Device, Device.max_state) = Device.max_state
  BY DeviceAssumption DEF PlainTrips, RawClamp, Ascending
<1>2. set_curr_state_raw(Device, c, Device.max_state) = set_curr_state(Device, c, Device.max_state)
  BY <1>1 DEF set_curr_state_raw
<1> QED
  BY Zenon, <1>2, SpanFacts, SetReaches

\* What Acting leaves: the series, or none.
LEMMA ActingOnSeries ==
    ASSUME PlainTrips, NEW c \in CdevType, InSpan(c), OnSeries(c), NEW state \in {0, 1}
    PROVE  /\ Acting(Device, c, state) \in CdevType
           /\ InSpan(Acting(Device, c, state)) /\ OnSeries(Acting(Device, c, state))
           /\ Acting(Device, c, state).curr_state = c.curr_state
           /\ ~c.trend_increase => ~Acting(Device, c, state).trend_increase
<1> DEFINE now == [c EXCEPT !.since = 0, !.last_state = state,
                            !.curr_state = get_curr_state(Device, c)]
           z   == [now EXCEPT !.curr_pow = 0, !.trend_increase = FALSE]
           a   == Acting(Device, c, state)
<1>1. get_curr_state(Device, c) = c.curr_state /\ c.curr_state \in Int
  BY DEF PlainTrips, get_curr_state, CdevType
<1>2. 0 \in 0 .. default_max_exponent /\ 0 \in 0 .. Device.debounce_interval + 1
  BY WidthAssumption, DeviceAssumption
<1>3. now \in CdevType
  BY Zenon, <1>1, <1>2 DEF CdevType
<1>4. /\ now.curr_state = c.curr_state /\ now.hw = c.hw
      /\ now.trend_increase = c.trend_increase /\ now.curr_pow = c.curr_pow
      /\ now.base_pow_state = c.base_pow_state
  BY <1>1 DEF CdevType
<1>5. a = z \/ a = now
  BY Zenon DEF Acting
<1> HIDE DEF now
<1>6. z \in CdevType
  BY Zenon, <1>2, <1>3 DEF CdevType
<1>7. z.curr_state = now.curr_state /\ z.hw = now.hw /\ z.trend_increase = FALSE
  BY <1>3 DEF CdevType
<1> HIDE DEF z, a
<1>8. CASE a = z
  <2>1. InSpan(z) /\ OnSeries(z)
    BY <1>4, <1>7 DEF InSpan, OnSeries
  <2> QED
    BY Zenon, <1>4, <1>6, <1>7, <1>8, <2>1 DEF a
<1>9. CASE a = now
  BY <1>3, <1>4, <1>9 DEF InSpan, OnSeries, a
<1> QED
  BY <1>5, <1>8, <1>9

\* A call that no entry gives a target: only an activation continues the series, and
\* it does not cool less than before.
LEMMA ApplyOnSeries ==
    ASSUME PlainTrips, FitsInt, NEW c \in CdevType, InSpan(c), OnSeries(c), NEW q,
           NEW state \in {0, 1},
           NEW target, NEW out, ~q.pid, NEW r \in Requests, q.hard_target => r.hard_target,
           state = 1 => c.curr_state # Device.max_state
    PROVE  LET a == ApplyState(Device, c, q, state, FALSE, target, 0, 0, out)
           IN  /\ OnSeries(a)
               /\ state = 1 => ~MoreRestrictive(Device, c.curr_state, a.curr_state)
<1> DEFINE c1 == Acting(Device, c, state)
           a  == ApplyState(Device, c, q, state, FALSE, target, 0, 0, out)
<1>1. c1 \in CdevType /\ InSpan(c1) /\ OnSeries(c1) /\ c1.curr_state = c.curr_state
  BY Zenon, ActingOnSeries
<1>2. ~Device.pid_enable
  BY DEF PlainTrips
<1>3. CASE q.hard_target
  <2>1. a = set_curr_state_raw(Device, c1, Device.max_state)
    BY <1>3 DEF ApplyState
  <2> HIDE DEF a, c1
  <2>2. a.curr_state = Device.max_state
    BY <1>1, <1>3, <2>1, MaxReached
  <2>3. ~MoreRestrictive(Device, c.curr_state, Device.max_state)
    BY DeviceAssumption DEF InSpan, Span, StateRange, Ascending, MoreRestrictive
  <2> QED
    BY Zenon, <2>2, <2>3 DEF OnSeries, a
<1>4. CASE ~q.hard_target /\ state = 1
  <2>1. a = ExponentialUp(Device, c1, 0, 0)
    BY <1>2, <1>4 DEF ApplyState
  <2> HIDE DEF c1
  <2>2. LET u == ExponentialUp(Device, c1, 0, 0)
        IN  OnSeries(u) /\ ~MoreRestrictive(Device, c1.curr_state, u.curr_state)
    BY <1>1, <1>4, UpOnSeries
  <2> QED
    BY Zenon, <1>1, <2>1, <2>2
<1>5. CASE ~q.hard_target /\ state # 1
  <2>1. a = ExponentialDown(Device, c1)
    BY <1>2, <1>5 DEF ApplyState
  <2> HIDE DEF c1
  <2> QED
    BY Zenon, <1>1, <1>5, <2>1, DownEnds
<1> QED
  BY Zenon, <1>3, <1>4, <1>5

-----------------------------------------------------------------------------
(* The calls of a trip.                                                    *)

\* No entry of the list has a target or limits of its own.
LEMMA EntriesArePlain ==
    ASSUME PlainTrips, NEW s, GoodList(s), s # << >>
    PROVE  /\ LastLimit(s).target_state_valid = FALSE
           /\ LastLimit(s).min_state = 0 /\ LastLimit(s).max_state = 0
<1>1. PICK r \in Requests : LastLimit(s) = LimitOf(Device, Mapped(r))
  BY Zenon, GoodPrefix DEF GoodList, LastLimit
<1>2. r \in RequestType
  BY Zenon, MappedType
<1>3. /\ Mapped(r).target_state_valid = r.target_state_valid
      /\ Mapped(r).min_max_valid = r.min_max_valid
  BY <1>2 DEF Mapped, RequestType
<1>4. r.target_state_valid = FALSE /\ r.min_max_valid = FALSE
  BY Zenon, <1>2 DEF PlainTrips, RequestType
<1> QED
  BY <1>1, <1>3, <1>4 DEF LimitOf

\* What a caller asks for.
LEMMA CallerIsPlain ==
    ASSUME PlainTrips, NEW r \in Requests
    PROVE  /\ Mapped(r).hard_target = r.hard_target /\ ~Mapped(r).pid
           /\ ~Mapped(r).target_state_valid
           /\ ~MinStateRequest(Device, Mapped(r)).hard_target
           /\ ~MinStateRequest(Device, Mapped(r)).pid
<1>1. r \in RequestType /\ Mapped(r) \in RequestType
  BY Zenon, MappedType
<1>2. /\ Mapped(r).hard_target = r.hard_target /\ Mapped(r).pid = r.pid
      /\ Mapped(r).target_state_valid = r.target_state_valid
  BY <1>1 DEF Mapped, RequestType
<1>3. ~r.pid /\ ~r.target_state_valid
  BY DEF PlainTrips
<1>4. /\ MinStateRequest(Device, Mapped(r)).hard_target = FALSE
      /\ MinStateRequest(Device, Mapped(r)).pid = FALSE
  BY <1>1 DEF MinStateRequest, RequestType
<1> QED
  BY <1>2, <1>3, <1>4

\* Another list, the same series.
LEMMA ListOnSeries ==
    ASSUME NEW c \in CdevType, InSpan(c), OnSeries(c), NEW limits \in Seq(LimitType)
    PROVE  LET c1 == [c EXCEPT !.zone_trip_limits = limits]
           IN  /\ c1 \in CdevType /\ InSpan(c1) /\ OnSeries(c1)
               /\ c1.curr_state = c.curr_state /\ c1.trend_increase = c.trend_increase
<1> DEFINE c1 == [c EXCEPT !.zone_trip_limits = limits]
<1>1. c1 \in CdevType
  BY Zenon DEF CdevType
<1>2. /\ c1.curr_state = c.curr_state /\ c1.hw = c.hw /\ c1.curr_pow = c.curr_pow
      /\ c1.trend_increase = c.trend_increase /\ c1.base_pow_state = c.base_pow_state
  BY DEF CdevType
<1> HIDE DEF c1
<1>3. InSpan(c1) /\ OnSeries(c1)
  BY <1>2 DEF InSpan, OnSeries
<1> QED
  BY Zenon, <1>1, <1>2, <1>3 DEF c1

\* An activation of a device that is not at its maximum.
LEMMA ActivateOnSeries ==
    ASSUME PlainTrips, FitsInt, NEW c, GoodCdev(c), InSpan(c), OnSeries(c),
           c.curr_state # Device.max_state,
           NEW r \in Requests, NEW out
    PROVE  LET a == ActivateState(Device, c, Mapped(r), out)
           IN  OnSeries(a) /\ ~MoreRestrictive(Device, c.curr_state, a.curr_state)
<1> DEFINE m      == Mapped(r)
           limits == LimitsWith(c, m)
           limit  == LastLimit(limits)
           c1     == [c EXCEPT !.zone_trip_limits = limits]
           a      == ActivateState(Device, c, m, out)
           b      == ApplyState(Device, c1, m, 1, FALSE, limit.target_value, 0, 0, out)
<1>1. m.hard_target = r.hard_target /\ ~m.pid /\ c \in CdevType
  BY Zenon, CallerIsPlain DEF GoodCdev
<1>2. GoodList(limits) /\ limits # << >> /\ limits \in Seq(LimitType)
  BY Zenon, LimitsWithCaller DEF GoodList
<1>3. /\ limit.target_state_valid = FALSE
      /\ limit.min_state = 0 /\ limit.max_state = 0
  BY Zenon, <1>2, EntriesArePlain
<1>4. a = c1 \/ a = b
  BY Zenon, <1>3 DEF ActivateState, LimitsWith
<1> HIDE DEF limits, m, limit
<1>5. c1 \in CdevType /\ InSpan(c1) /\ OnSeries(c1) /\ c1.curr_state = c.curr_state
  BY Zenon, <1>1, <1>2, ListOnSeries
<1> HIDE DEF c1
<1>6. OnSeries(b) /\ ~MoreRestrictive(Device, c.curr_state, b.curr_state)
  <2>1. 1 \in {0, 1} /\ 1 = 1
    OBVIOUS
  <2> QED
    BY Zenon, <1>1, <1>5, <2>1, ApplyOnSeries
<1>7. ~MoreRestrictive(Device, c.curr_state, c.curr_state)
  BY <1>1 DEF MoreRestrictive, CdevType
<1> HIDE DEF a, b
<1> QED
  BY Zenon, <1>4, <1>5, <1>6, <1>7 DEF a, m

\* A target set while no series runs starts none.
LEMMA TargetStartsNone ==
    ASSUME PlainTrips, NEW c \in CdevType, InSpan(c), OnSeries(c),
           ~c.trend_increase, NEW q, NEW out,
           NEW target \in Int
    PROVE  OnSeries(ApplyState(Device, c, q, 0, TRUE, target, 0, 0, out))
<1> DEFINE c1 == Acting(Device, c, 0)
           a  == ApplyState(Device, c, q, 0, TRUE, target, 0, 0, out)
<1>1. c1 \in CdevType /\ ~c1.trend_increase
  <2>1. 0 \in {0, 1}
    OBVIOUS
  <2> QED
    BY Zenon, <2>1, ActingOnSeries
<1>2. a = [set_curr_state_raw(Device, c1, target) EXCEPT !.curr_state = target]
  BY DEF ApplyState
<1> HIDE DEF c1
<1>3. PICK s \in Int : set_curr_state_raw(Device, c1, target) = set_curr_state(Device, c1, s)
  BY Zenon, <1>1, SetRawType
<1> DEFINE n == IF Device.raw = "limit" THEN LimitClamp(Device, s) ELSE s
<1>4. a = [[c1 EXCEPT !.curr_state = n, !.hw = n] EXCEPT !.curr_state = target]
  BY Zenon, <1>2, <1>3 DEF set_curr_state
<1> HIDE DEF n
<1>5. a.trend_increase = c1.trend_increase
  BY Zenon, <1>1, <1>4 DEF CdevType
<1> HIDE DEF a
<1> QED
  BY Zenon, <1>1, <1>5 DEF OnSeries, a

\* A deactivation, and a reset: thd_cdev_set_min_state ends the series first.
LEMMA DeactivateOnSeries ==
    ASSUME PlainTrips, FitsInt, NEW c, GoodCdev(c), InSpan(c), OnSeries(c),
           NEW q \in RequestType, ~q.pid,
           NEW r \in Requests, q.hard_target => r.hard_target,
           q.force \/ q.target_state_valid => ~c.trend_increase, NEW out
    PROVE  OnSeries(DeactivateState(Device, c, q, out))
<1> DEFINE limits == c.zone_trip_limits
           last   == LastLimit(limits)
           rest   == SubSeq(limits, 1, Len(limits) - 1)
           c1     == [c EXCEPT !.zone_trip_limits = rest]
           a      == DeactivateState(Device, c, q, out)
<1>1. c \in CdevType /\ GoodList(limits)
  BY DEF GoodCdev
<1>2. ASSUME NEW e \in CdevType, InSpan(e), OnSeries(e), e.trend_increase = c.trend_increase,
             NEW valid \in BOOLEAN, valid => ~c.trend_increase, NEW target \in Int
      PROVE  OnSeries(ApplyState(Device, e, q, 0, valid, target, 0, 0, out))
  <2>1. 0 \in {0, 1} /\ 0 # 1
    OBVIOUS
  <2>2. CASE valid = TRUE
    BY Zenon, <1>2, <2>2, TargetStartsNone
  <2>3. CASE valid = FALSE
    BY Zenon, <1>2, <2>1, <2>3, ApplyOnSeries
  <2> QED
    BY Zenon, <2>2, <2>3
<1>3. /\ q.target_state_valid \in BOOLEAN /\ q.target_value \in Int /\ q.force \in BOOLEAN
      /\ Device.min_state \in Int
  BY DeviceAssumption DEF RequestType
<1>4. CASE limits # << >> /\ HeldBy(last, q)
  <2> DEFINE after == AfterRelease(Device, q, last, rest)
  <2>1. a = ApplyState(Device, c1, q, 0, after.valid, after.target, 0, 0, out)
    BY <1>4 DEF DeactivateState, ReleaseLimit
  <2> HIDE DEF limits
  <2>2. GoodList(rest) /\ rest \in Seq(LimitType)
    BY Zenon, <1>1, <1>4, GoodPrefix DEF GoodList
  <2>3. last.target_state_valid = FALSE
    BY Zenon, <1>1, <1>4, EntriesArePlain
  <2> HIDE DEF rest, last
  <2>4. after.valid \in BOOLEAN /\ after.target \in Int /\ (after.valid => ~c.trend_increase)
    <3>1. CASE rest # << >>
      <4>1. LastLimit(rest).target_state_valid = FALSE /\ LastLimit(rest).target_value \in Int
        BY Zenon, <2>2, <3>1, EntriesArePlain, LimitFields
      <4> QED
        BY Zenon, <3>1, <4>1 DEF AfterRelease
    <3>2. CASE rest = << >>
      <4>1. /\ after.valid = (q.target_state_valid \/ (~last.target_state_valid /\ q.force))
            /\ after.target = IF last.target_state_valid \/ q.force
                              THEN Device.min_state ELSE q.target_value
        BY <3>2 DEF AfterRelease
      <4> HIDE DEF after
      <4> QED
        BY <4>1, <1>3, <2>3
    <3> QED
      BY <3>1, <3>2
  <2> HIDE DEF after
  <2>5. /\ c1 \in CdevType /\ InSpan(c1) /\ OnSeries(c1)
        /\ c1.trend_increase = c.trend_increase
    BY Zenon, <1>1, <2>2, ListOnSeries
  <2> HIDE DEF c1, a
  <2> QED
    BY Zenon, <1>2, <2>1, <2>4, <2>5 DEF a
<1>5. CASE limits # << >> /\ ~HeldBy(last, q)
  BY <1>5 DEF DeactivateState, ReleaseLimit
<1>6. CASE limits = << >>
  <2>1. a = c \/ a = ApplyState(Device, c, q, 0, q.force, Device.min_state, 0, 0, out)
    BY Zenon, <1>6 DEF DeactivateState
  <2> HIDE DEF a
  <2> QED
    BY Zenon, <1>1, <1>2, <1>3, <2>1 DEF a
<1> QED
  BY Zenon, <1>4, <1>5, <1>6

-----------------------------------------------------------------------------
(* The theorem.                                                            *)

\* No series runs at the start.
LEMMA OnSeriesInit == Init => OnSeries(cdev)
BY DEF Init, BootCdev, OnSeries

\* A device that the activation loop does not skip is not at its maximum.
LEMMA NotSkipped ==
    ASSUME PlainTrips, NEW c \in CdevType, ~in_max_state(Device, c)
    PROVE  c.curr_state # Device.max_state
<1>1. get_curr_state(Device, c) = c.curr_state
  BY Zenon DEF PlainTrips, get_curr_state
<1> QED
  BY <1>1, DeviceAssumption DEF in_max_state

\* Every step keeps the device on its series, and no activation cools less.
LEMMA OnSeriesStep ==
    PlainTrips /\ FitsInt /\ IndInv /\ InSpan(cdev) /\ OnSeries(cdev) /\ [Next]_vars =>
        /\ OnSeries(cdev)'
        /\ \A r \in Requests : Activate(r) =>
              ~MoreRestrictive(Device, cdev.curr_state, cdev'.curr_state)
<1> SUFFICES ASSUME PlainTrips, FitsInt, IndInv, InSpan(cdev), OnSeries(cdev), [Next]_vars
             PROVE  /\ OnSeries(cdev')
                    /\ \A r \in Requests : Activate(r) =>
                          ~MoreRestrictive(Device, cdev.curr_state, cdev'.curr_state)
  BY DEF OnSeries, Step
<1>1. GoodCdev(cdev) /\ cdev \in CdevType
  BY DEF IndInv, GoodCdev
<1>2. ASSUME NEW r \in Requests, Activate(r)
      PROVE  OnSeries(cdev') /\ ~MoreRestrictive(Device, cdev.curr_state, cdev'.curr_state)
  <2>1. PICK out \in PidOutputs(r) : cdev' = ActivateState(Device, cdev, Mapped(r), out)
    BY <1>2 DEF Activate
  <2>2. cdev.curr_state # Device.max_state
    BY Zenon, <1>1, <1>2, NotSkipped DEF Activate
  <2> QED
    BY Zenon, <1>1, <2>1, <2>2, ActivateOnSeries
<1>3. ASSUME NEW r \in Requests, Heat(r) \/ Cool(r) PROVE OnSeries(cdev')
  BY <1>3 DEF Heat, Cool
<1>4. ASSUME NEW r \in Requests, Deactivate(r) PROVE OnSeries(cdev')
  <2>1. PICK out \in PidOutputs(r) : cdev' = DeactivateState(Device, cdev, Mapped(r), out)
    BY <1>4 DEF Deactivate
  <2>2. Mapped(r) \in RequestType /\ Mapped(r).force = FALSE
    BY Zenon, MappedType
  <2>3. Mapped(r).hard_target = r.hard_target /\ ~Mapped(r).pid /\ ~Mapped(r).target_state_valid
    BY Zenon, CallerIsPlain
  <2> QED
    BY Zenon, <1>1, <2>1, <2>2, <2>3, DeactivateOnSeries
<1>5. ASSUME NEW r \in Requests, Reset(r) PROVE OnSeries(cdev')
  <2> DEFINE c1 == [cdev EXCEPT !.trend_increase = FALSE]
             q  == MinStateRequest(Device, Mapped(r))
  <2>1. cdev' = DeactivateState(Device, c1, q, Device.min_state)
    BY <1>5 DEF Reset, thd_cdev_set_min_state
  <2>2. q \in RequestType /\ ~q.hard_target /\ ~q.pid
    BY Zenon, MappedType, CallerIsPlain
  <2>3. /\ c1 \in CdevType /\ c1.zone_trip_limits = cdev.zone_trip_limits
        /\ c1.last_state = cdev.last_state
    BY Zenon, <1>1 DEF CdevType
  <2>4. c1.curr_state = cdev.curr_state /\ c1.hw = cdev.hw /\ c1.trend_increase = FALSE
    BY <1>1 DEF CdevType
  <2> HIDE DEF c1, q
  <2>5. GoodCdev(c1) /\ InSpan(c1) /\ OnSeries(c1)
    BY <1>1, <2>3, <2>4 DEF GoodCdev, InSpan, OnSeries
  <2> QED
    BY Zenon, <2>1, <2>2, <2>4, <2>5, DeactivateOnSeries
<1>6. ASSUME Tick PROVE OnSeries(cdev')
  <2> DEFINE later == Smaller(cdev.since + 1, Device.debounce_interval + 1)
  <2>1. cdev' = [cdev EXCEPT !.since = later]
    BY <1>6 DEF Tick, Elapse
  <2> HIDE DEF later
  <2>2. /\ cdev'.curr_state = cdev.curr_state /\ cdev'.curr_pow = cdev.curr_pow
        /\ cdev'.trend_increase = cdev.trend_increase
        /\ cdev'.base_pow_state = cdev.base_pow_state
    BY <1>1, <2>1 DEF CdevType
  <2> QED
    BY <2>2 DEF OnSeries
<1>7. ASSUME UNCHANGED vars PROVE OnSeries(cdev')
  BY <1>7 DEF vars
<1>8. OnSeries(cdev')
  BY Zenon, <1>2, <1>3, <1>4, <1>5, <1>6, <1>7 DEF Next
<1> QED
  BY Zenon, <1>2, <1>8

\* However trips of several zones interleave their calls, and whatever an earlier
\* series left in base_pow_state and curr_pow, an activation never makes the device
\* cool less: a doubled step either fits in an int or is caught by the overflow check.
THEOREM SeriesNeverTurnsBack ==
    PlainTrips /\ FitsInt => (Spec => ActivationNeverWeakens)
<1> SUFFICES ASSUME PlainTrips, FitsInt PROVE Spec => ActivationNeverWeakens
  OBVIOUS
<1> DEFINE Inv == IndInv /\ InSpan(cdev) /\ OnSeries(cdev)
<1>1. Init => Inv
  BY IndInvInit, InSpanInit, OnSeriesInit
<1>2. Inv /\ [Next]_vars => Inv'
  BY IndInvStep, InSpanStep, OnSeriesStep
<1>3. Inv /\ [Next]_vars =>
        [\A r \in Requests : Activate(r) =>
            ~MoreRestrictive(Device, cdev.curr_state, cdev'.curr_state)]_vars
  BY OnSeriesStep
<1> QED
  BY <1>1, <1>2, <1>3, PTL DEF Spec, ActivationNeverWeakens
=============================================================================
