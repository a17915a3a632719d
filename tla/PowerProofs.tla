---------------------------- MODULE PowerProofs ----------------------------
(***************************************************************************)
(* Proofs about Power for every platform, every range of the energy        *)
(* counter and every gap between two readings that GapAssumption allows.   *)
(***************************************************************************)
EXTENDS Power, TLAPS

-----------------------------------------------------------------------------
(* The meter.  The counter runs ahead of the last reading by the energy    *)
(* used since, which is less than half its range: so a round is seen as a  *)
(* fall from the upper half into the lower one, and is never seen twice.   *)

MeterType ==
    [enabled : BOOLEAN, counter : 0 .. Range - 1, cumulative : Int, half_way : BOOLEAN,
     power : 0 .. MaxPower]

EnvType ==
    [energy : 0 .. Range - 1, elapsed : 0 .. MaxGap, wraps : Nat, sampled : BOOLEAN]

\* Energy u was used since the last reading: the counter went on by u, with a round
\* that the meter has not seen yet or without one.
Ahead(m, x, u) ==
    \/ m.cumulative = Range * x.wraps /\ x.energy = m.counter + u
    \/ m.cumulative + Range = Range * x.wraps /\ x.energy + Range = m.counter + u

MeterInv(m, x) ==
    /\ m \in MeterType
    /\ x \in EnvType
    /\ x.sampled => /\ m.half_way <=> m.counter > Range \div 2
                    /\ \E u \in 0 .. x.elapsed * MaxPower : Ahead(m, x, u)
    /\ ~x.sampled => /\ x.elapsed = 1 /\ x.wraps = 0
                     /\ m.counter = 0 /\ m.cumulative = 0 /\ ~m.half_way

\* What is used between two readings is less than half the range.
LEMMA GapIsSmall ==
    ASSUME NEW t \in 0 .. MaxGap, NEW u \in 0 .. t * MaxPower
    PROVE  u < Range \div 2
<1>1. t * MaxPower <= MaxGap * MaxPower
  <2>1. (MaxGap - t) * MaxPower >= 0
    BY GapAssumption
  <2> QED
    BY <2>1, GapAssumption
<1>2. t * MaxPower \in Int /\ MaxGap * MaxPower \in Int /\ Range \div 2 \in Int
  BY GapAssumption
<1> QED
  BY <1>1, <1>2, GapAssumption

\* Half the range of the counter.
LEMMA HalfRange == Range \div 2 \in Nat /\ 2 * (Range \div 2) <= Range /\ Range < 2 * (Range \div 2) + 2
BY GapAssumption

\* The mean of u over t seconds is not above MaxPower when u is not above t * MaxPower.
LEMMA MeanBounded ==
    ASSUME NEW t \in Nat \ {0}, NEW u \in 0 .. t * MaxPower
    PROVE  u \div t \in 0 .. MaxPower
<1>1. t * MaxPower \in Nat /\ MaxPower \in Nat
  BY GapAssumption
<1> DEFINE q == u \div t
<1>2. q \in Int /\ t * q <= u /\ u < t * q + t
  BY <1>1
<1> HIDE DEF q
<1>3. q >= 0
  <2> SUFFICES ASSUME q <= -1 PROVE FALSE
    BY <1>2
  <2>1. t * (-1 - q) >= 0
    BY <1>2
  <2> QED
    BY <1>1, <1>2, <2>1
<1>4. q <= MaxPower
  <2> SUFFICES ASSUME q >= MaxPower + 1 PROVE FALSE
    BY <1>1, <1>2
  <2>1. t * (q - MaxPower - 1) >= 0
    BY <1>1, <1>2
  <2> QED
    BY <1>1, <1>2, <2>1
<1> QED
  BY <1>1, <1>2, <1>3, <1>4 DEF q

\* The counter after it has gone round.
LEMMA CounterGoesRound ==
    ASSUME NEW e \in 0 .. Range - 1, NEW p \in 0 .. MaxPower
    PROVE  /\ p < Range
           /\ (e + p) % Range = IF e + p >= Range THEN e + p - Range ELSE e + p
<1>1. p < Range
  <2>1. p \in 0 .. 1 * MaxPower /\ 1 \in 0 .. MaxGap
    BY GapAssumption
  <2> QED
    BY <2>1, GapIsSmall, HalfRange, GapAssumption
<1>2. CASE e + p >= Range
  <2>1. e + p = Range * 1 + (e + p - Range) /\ e + p - Range \in 0 .. Range - 1
    BY <1>1, <1>2, GapAssumption
  <2> QED
    BY <1>1, <1>2, <2>1, GapAssumption
<1>3. CASE ~(e + p >= Range)
  BY <1>3, GapAssumption
<1> QED
  BY <1>1, <1>2, <1>3

\* The passing of time keeps the invariant.
LEMMA PassKeeps ==
    ASSUME NEW m, NEW x, MeterInv(m, x), NEW p \in 0 .. MaxPower, MayPass(x, p)
    PROVE  MeterInv(m, SecondPassed(x, p))
<1> DEFINE y == SecondPassed(x, p)
<1>1. /\ x.energy \in 0 .. Range - 1 /\ x.elapsed \in 0 .. MaxGap
      /\ x.wraps \in Nat /\ x.sampled \in BOOLEAN
      /\ m.counter \in 0 .. Range - 1 /\ m.cumulative \in Int
  BY DEF MeterInv, MeterType, EnvType
<1>2. /\ Range \in Nat \ {0} /\ MaxPower \in Nat \ {0} /\ MaxGap \in Nat \ {0}
  BY GapAssumption
<1>3. /\ y.energy = IF x.energy + p >= Range THEN x.energy + p - Range ELSE x.energy + p
      /\ y.elapsed = IF x.sampled THEN x.elapsed + 1 ELSE 1
      /\ y.wraps = IF x.sampled /\ x.energy + p >= Range THEN x.wraps + 1 ELSE x.wraps
      /\ y.sampled = x.sampled
  <2>1. x \in EnvType
    BY DEF MeterInv
  <2>2. y.energy = (x.energy + p) % Range
    BY <2>1 DEF SecondPassed, EnvType
  <2>3. /\ y.elapsed = IF x.sampled THEN x.elapsed + 1 ELSE 1
        /\ y.wraps = IF x.sampled /\ x.energy + p >= Range THEN x.wraps + 1 ELSE x.wraps
        /\ y.sampled = x.sampled
    BY <2>1 DEF SecondPassed, EnvType
  <2> HIDE DEF y
  <2> QED
    BY <1>1, <2>2, <2>3, CounterGoesRound
<1> HIDE DEF y
<1>4. y.energy \in 0 .. Range - 1 /\ y.elapsed \in 0 .. MaxGap /\ y.wraps \in Nat /\ y.sampled \in BOOLEAN
  <2>1. p < Range
    BY <1>1, CounterGoesRound
  <2>2. y.elapsed \in 0 .. MaxGap
    BY <1>1, <1>2, <1>3 DEF MayPass
  <2> QED
    BY <1>1, <1>2, <1>3, <2>1, <2>2
<1>5. y \in EnvType
  <2> DEFINE e == (x.energy + p) % Range
             t == IF x.sampled THEN x.elapsed + 1 ELSE 1
             w == IF x.sampled /\ x.energy + p >= Range THEN x.wraps + 1 ELSE x.wraps
  <2>1. x \in EnvType
    BY DEF MeterInv
  <2>2. y = [x EXCEPT !.energy = e, !.elapsed = t, !.wraps = w]
    BY <2>1 DEF y, SecondPassed, EnvType
  <2>3. e = y.energy /\ t = y.elapsed /\ w = y.wraps
    BY <1>1, <1>3, CounterGoesRound
  <2> HIDE DEF e, t, w
  <2> QED
    BY Zenon, <2>1, <2>2, <2>3, <1>4 DEF EnvType
<1>6. CASE x.sampled
  <2>1. PICK u \in 0 .. x.elapsed * MaxPower : Ahead(m, x, u)
    BY <1>6 DEF MeterInv
  <2>2. x.elapsed * MaxPower \in Nat /\ (x.elapsed + 1) * MaxPower = x.elapsed * MaxPower + MaxPower
    BY <1>1, <1>2
  <2>3. u + p \in 0 .. y.elapsed * MaxPower
    BY <1>1, <1>2, <1>3, <1>6, <2>2
  <2>4. u + p < Range \div 2
    BY <1>4, <2>3, GapIsSmall
  <2>5. Ahead(m, y, u + p)
    <3>1. Range * (x.wraps + 1) = Range * x.wraps + Range /\ Range * x.wraps \in Int
      BY <1>1, <1>2
    <3>2. u \in Nat /\ u + p \in Nat
      BY <2>2
    <3>3. u + p < Range
      BY <3>2, <2>4, <1>2, HalfRange
    <3>4. CASE x.energy + p >= Range
      <4>1. x.energy + Range # m.counter + u
        BY <1>1, <1>2, <3>2, <3>3, <3>4
      <4>2. m.cumulative = Range * x.wraps /\ x.energy = m.counter + u
        BY <4>1, <2>1 DEF Ahead
      <4>3. y.wraps = x.wraps + 1 /\ y.energy = x.energy + p - Range
        BY <1>3, <1>6, <3>4
      <4>4. m.cumulative + Range = Range * y.wraps
        BY <4>2, <4>3, <3>1, <1>1, <1>2
      <4>5. y.energy + Range = m.counter + (u + p)
        BY <4>2, <4>3, <3>2, <1>1, <1>2
      <4> QED
        BY <4>4, <4>5 DEF Ahead
    <3>5. CASE ~(x.energy + p >= Range)
      <4>1. y.wraps = x.wraps /\ y.energy = x.energy + p
        BY <1>3, <3>5
      <4>2. ASSUME x.energy = m.counter + u PROVE y.energy = m.counter + (u + p)
        BY <4>1, <4>2, <1>1, <3>2
      <4>3. ASSUME x.energy + Range = m.counter + u PROVE y.energy + Range = m.counter + (u + p)
        BY <4>1, <4>3, <1>1, <1>2, <3>2
      <4> QED
        BY <4>1, <4>2, <4>3, <2>1 DEF Ahead
    <3> QED
      BY <3>4, <3>5
  <2> QED
    BY <1>3, <1>5, <1>6, <2>3, <2>5 DEF MeterInv, y
<1>7. CASE ~x.sampled
  BY <1>3, <1>5, <1>7 DEF MeterInv, y
<1> QED
  BY <1>1, <1>6, <1>7

\* A reading of the energy counter keeps it.
LEMMA ReadKeeps ==
    ASSUME NEW m, NEW x, MeterInv(m, x)
    PROVE  MeterInv(Looped(m, x), JustRead(m, x))
<1> DEFINE e       == x.energy
           half    == Range \div 2
           wrapped == m.half_way /\ e < half
           counter == IF wrapped THEN 0 ELSE m.counter
           total   == IF wrapped THEN m.cumulative + Range ELSE m.cumulative
           upper   == IF wrapped THEN FALSE ELSE m.half_way \/ e > half
           mean    == IF counter # 0 THEN (e - counter) \div x.elapsed ELSE m.power
           n       == rapl_energy_loop(m, e, x.elapsed)
           y       == [x EXCEPT !.elapsed = 0, !.sampled = TRUE]
<1>1. m \in MeterType /\ x \in EnvType
  BY DEF MeterInv
<1>2. /\ x.energy \in 0 .. Range - 1 /\ x.elapsed \in 0 .. MaxGap
      /\ x.wraps \in Nat /\ x.sampled \in BOOLEAN
      /\ m.counter \in 0 .. Range - 1 /\ m.cumulative \in Int
      /\ m.half_way \in BOOLEAN /\ m.power \in 0 .. MaxPower
  BY <1>1 DEF MeterType, EnvType
<1>3. Range \in Nat \ {0} /\ MaxPower \in Nat \ {0} /\ MaxGap \in Nat \ {0} /\ half \in Nat
  BY GapAssumption, HalfRange
<1>4. CASE ~(m.enabled /\ x.elapsed > 0)
  BY <1>4 DEF Looped, JustRead
<1>5. CASE m.enabled /\ x.elapsed > 0
  <2>1. Looped(m, x) = n /\ JustRead(m, x) = y
    BY <1>5 DEF Looped, JustRead
  <2>2. y \in EnvType /\ y.energy = e /\ y.wraps = x.wraps /\ y.elapsed = 0 /\ y.sampled
    <3>1. 0 \in 0 .. MaxGap /\ TRUE \in BOOLEAN
      BY <1>3
    <3>2. y \in EnvType
      BY Zenon, <1>1, <3>1 DEF EnvType
    <3>3. y.energy = e /\ y.wraps = x.wraps /\ y.elapsed = 0 /\ y.sampled = TRUE
      BY <1>1 DEF EnvType
    <3> QED
      BY <3>2, <3>3
  <2>3. n = [m EXCEPT !.counter = e, !.cumulative = total, !.half_way = upper, !.power = mean]
    BY DEF rapl_energy_loop
  <2>4. /\ mean \in 0 .. MaxPower
        /\ total = Range * x.wraps
        /\ upper <=> e > half
    <3>1. CASE ~x.sampled
      <4>1. ~m.half_way /\ m.counter = 0 /\ m.cumulative = 0 /\ x.wraps = 0
        BY <3>1 DEF MeterInv
      <4> QED
        BY <4>1, <1>2, <1>3
    <3>2. CASE x.sampled
      <4>1. PICK u \in 0 .. x.elapsed * MaxPower : Ahead(m, x, u)
        BY <3>2 DEF MeterInv
      <4>2. m.half_way <=> m.counter > half
        BY <3>2 DEF MeterInv
      <4>3. u < half /\ u \in Nat
        <5>1. x.elapsed * MaxPower \in Nat
          BY <1>2, <1>3
        <5> QED
          BY <5>1, <1>2, GapIsSmall
      <4>4. CASE m.cumulative = Range * x.wraps /\ e = m.counter + u
        <5>1. ~wrapped /\ (upper <=> e > half)
          BY <4>2, <4>3, <4>4, <1>2, <1>3
        <5>2. u \div x.elapsed \in 0 .. MaxPower
          BY <1>2, <1>5, MeanBounded
        <5>3. e - m.counter = u
          BY <4>3, <4>4, <1>2
        <5>4. mean \in 0 .. MaxPower
          <6> HIDE DEF wrapped
          <6> QED
            BY <5>1, <5>2, <5>3, <1>2
        <5> HIDE DEF wrapped, mean
        <5> QED
          BY <5>1, <5>4, <4>4
      <4>5. CASE m.cumulative + Range = Range * x.wraps /\ e + Range = m.counter + u
        <5>1. m.counter > half
          BY <4>3, <4>5, <1>2, <1>3, HalfRange
        <5>2. e < half
          BY <4>3, <4>5, <1>2, <1>3
        <5>3. wrapped /\ ~(e > half)
          BY <5>1, <5>2, <4>2, <1>2, <1>3
        <5> HIDE DEF wrapped
        <5> QED
          BY <5>3, <4>5, <1>2
      <4> QED
        BY <4>1, <4>4, <4>5 DEF Ahead
    <3> QED
      BY <3>1, <3>2, <1>2
  <2>5. total \in Int /\ upper \in BOOLEAN
    <3>1. total \in Int
      BY <1>2, <1>3
    <3>2. upper \in BOOLEAN
      BY Zenon
    <3> QED
      BY Zenon, <3>1, <3>2
  <2> HIDE DEF total, upper, mean
  <2>6. n \in MeterType /\ n.counter = e /\ n.cumulative = total /\ n.half_way = upper
    BY Zenon, <1>1, <1>2, <2>3, <2>4, <2>5 DEF MeterType
  <2> HIDE DEF n, y
  <2>7. Ahead(n, y, 0)
    BY <2>2, <2>4, <2>6, <1>2 DEF Ahead
  <2>8. 0 \in 0 .. y.elapsed * MaxPower
    BY <2>2, <1>3
  <2> QED
    BY <2>1, <2>2, <2>4, <2>6, <2>7, <2>8 DEF MeterInv
<1> QED
  BY <1>4, <1>5

\* Switching the meter on keeps it.
LEMMA StartKeeps ==
    ASSUME NEW m, NEW x, MeterInv(m, x)
    PROVE  LET s == [m EXCEPT !.enabled = TRUE]
           IN  MeterInv(s, x) /\ s.enabled /\ s.power = m.power
<1> DEFINE s == [m EXCEPT !.enabled = TRUE]
<1>1. m \in MeterType
  BY DEF MeterInv
<1>2. /\ s \in MeterType /\ s.enabled /\ s.power = m.power
      /\ s.counter = m.counter /\ s.cumulative = m.cumulative /\ s.half_way = m.half_way
  BY Zenon, <1>1 DEF MeterType
<1> HIDE DEF s
<1> QED
  BY <1>2 DEF MeterInv, Ahead, s

-----------------------------------------------------------------------------
(* The device.  What it restores is what it remembers from the start, and  *)
(* what it does not remember it never touched.                             *)

DeviceType ==
    [min_state : Int, max_state : Int, curr_state : Int, dynamic : BOOLEAN,
     bios_locked : BOOLEAN, constrained : BOOLEAN, min_window : Int, step : Int,
     inc_dec_val : Int, on_pwr : Int, on_window : Int, on_enabled : {0, 1}]

RegisterType == [pl1 : Int, pl2 : Int, window : Int, enabled : {0, 1}]

DeviceInv(d, r) ==
    /\ d \in DeviceType
    /\ r \in RegisterType
    /\ d.on_window = Updated.window
    /\ KnownLimits => d.on_enabled = Updated.enabled /\ d.on_pwr = 0
    /\ plat.locked \/ ~d.constrained => r.window = Updated.window
    /\ KnownLimits /\ (plat.locked \/ ~d.constrained \/ d.on_enabled # 0) =>
           r.enabled = Updated.enabled
    /\ ~plat.locked => ~d.bios_locked

\* The limit in the register is neither above the state of the device nor above its
\* maximum.
Within(d, r) == r.pl1 <= d.curr_state /\ r.pl1 <= d.min_state

\* The calls under set_curr_state, before the limit itself is written.
LEMMA RestoreKeeps ==
    ASSUME NEW d, NEW r, DeviceInv(d, r), plat.locked \in BOOLEAN
    PROVE  /\ DeviceInv(Released(d, r).d, Released(d, r).r)
           /\ Released(d, r).d.min_state = d.min_state
           /\ DeviceInv(Constrained(d, r).d, Constrained(d, r).r)
           /\ Constrained(d, r).d.min_state = d.min_state
<1> DEFINE en1 == IF d.on_enabled = 0 THEN 0 ELSE r.enabled
           en2 == IF d.on_enabled = 0 THEN 1 ELSE r.enabled
           win == IF d.min_window # 0 THEN d.min_window ELSE DefWindow
           r1  == [r EXCEPT !.enabled = en1, !.window = d.on_window]
           r2  == [r EXCEPT !.enabled = en2, !.window = win]
           d1  == [d EXCEPT !.constrained = FALSE]
           d2  == [d EXCEPT !.constrained = TRUE]
<1>1. d \in DeviceType /\ r \in RegisterType
  BY DEF DeviceInv
<1>2. /\ d.on_window \in Int /\ d.min_window \in Int /\ d.on_enabled \in {0, 1}
      /\ d.constrained \in BOOLEAN /\ r.enabled \in {0, 1} /\ DefWindow \in Int
  BY <1>1, PlatformAssumption DEF DeviceType, RegisterType
<1>3. /\ d1 \in DeviceType /\ d1.constrained = FALSE /\ d1.min_state = d.min_state
      /\ d1.on_window = d.on_window /\ d1.on_enabled = d.on_enabled
      /\ d1.on_pwr = d.on_pwr /\ d1.bios_locked = d.bios_locked
  BY Zenon, <1>1 DEF DeviceType
<1>4. /\ d2 \in DeviceType /\ d2.constrained = TRUE /\ d2.min_state = d.min_state
      /\ d2.on_window = d.on_window /\ d2.on_enabled = d.on_enabled
      /\ d2.on_pwr = d.on_pwr /\ d2.bios_locked = d.bios_locked
  BY Zenon, <1>1 DEF DeviceType
<1>5. en1 \in {0, 1} /\ en2 \in {0, 1} /\ win \in Int
  BY <1>2
<1> HIDE DEF win
<1>6. r1 \in RegisterType /\ r1.enabled = en1 /\ r1.window = d.on_window
  BY Zenon, <1>1, <1>2, <1>5 DEF RegisterType
<1>7. r2 \in RegisterType /\ r2.enabled = en2 /\ r2.window = win
  BY Zenon, <1>1, <1>2, <1>5 DEF RegisterType
<1>8. /\ Released(d, r).d = d1 /\ Released(d, r).r = IF plat.locked THEN r ELSE r1
      /\ Constrained(d, r).d = d2 /\ Constrained(d, r).r = IF plat.locked THEN r ELSE r2
  BY DEF Released, Constrained, Write, win
<1> HIDE DEF d1, d2, r1, r2
<1>9. CASE plat.locked
  BY <1>3, <1>4, <1>8, <1>9 DEF DeviceInv
<1>10. CASE ~plat.locked
  <2>1. DeviceInv(d1, r1)
    BY <1>2, <1>3, <1>6, <1>10 DEF DeviceInv
  <2>2. DeviceInv(d2, r2)
    BY <1>2, <1>4, <1>7, <1>10 DEF DeviceInv
  <2> QED
    BY <1>3, <1>4, <1>8, <1>10, <2>1, <2>2
<1> QED
  BY <1>9, <1>10

\* Writing a limit keeps it.
LEMMA LimitedKeeps ==
    ASSUME NEW d, NEW r, DeviceInv(d, r), plat.locked \in BOOLEAN, NEW state \in Int
    PROVE  LET x == Limited([d |-> d, r |-> r], state)
           IN  /\ DeviceInv(x.d, x.r)
               /\ x.d.min_state = d.min_state
               /\ x.d.curr_state = state
               /\ ~plat.locked => x.r.pl1 = state
<1> DEFINE x  == Limited([d |-> d, r |-> r], state)
           d1 == [d EXCEPT !.curr_state = state, !.bios_locked = plat.locked]
           r1 == [r EXCEPT !.pl1 = state]
<1>1. d \in DeviceType /\ r \in RegisterType
  BY DEF DeviceInv
<1>2. d1 \in DeviceType
  BY Zenon, <1>1 DEF DeviceType
<1>3. /\ d1.constrained = d.constrained /\ d1.min_state = d.min_state
      /\ d1.on_window = d.on_window /\ d1.on_enabled = d.on_enabled
      /\ d1.on_pwr = d.on_pwr /\ d1.bios_locked = plat.locked /\ d1.curr_state = state
  BY <1>1 DEF DeviceType
<1>4. r1 \in RegisterType /\ r1.enabled = r.enabled /\ r1.window = r.window /\ r1.pl1 = state
  BY <1>1 DEF RegisterType
<1>5. x.d = d1 /\ x.r = IF plat.locked THEN r ELSE r1
  BY DEF Limited, Write
<1> HIDE DEF d1, r1, x
<1>6. DeviceInv(d1, r) /\ DeviceInv(d1, r1)
  BY <1>2, <1>3, <1>4 DEF DeviceInv
<1> QED
  BY <1>3, <1>4, <1>5, <1>6 DEF x

\* Setting a state keeps it, and stays within the maximum.
LEMMA SetKeeps ==
    ASSUME NEW d, NEW r, DeviceInv(d, r), plat.locked \in BOOLEAN,
           NEW state \in Int, NEW control \in BOOLEAN
    PROVE  LET x == set_curr_state(d, r, state, control)
           IN  /\ DeviceInv(x.d, x.r)
               /\ x.d.min_state = d.min_state
               /\ KnownLimits /\ ~plat.locked => Within(x.d, x.r)
<1> DEFINE x   == set_curr_state(d, r, state, control)
           new == Larger(state, d.max_state)
           up  == IF d.on_pwr # 0 THEN d.on_pwr ELSE d.min_state
           rel == Released(d, r)
           con == Constrained(d, r)
<1>1. d \in DeviceType
  BY DEF DeviceInv
<1>2. /\ d.min_state \in Int /\ d.max_state \in Int /\ d.on_pwr \in Int
      /\ d.bios_locked \in BOOLEAN /\ d.constrained \in BOOLEAN
  BY <1>1 DEF DeviceType
<1>3. new \in Int /\ up \in Int
  BY <1>2 DEF Larger
<1>4. KnownLimits => up = d.min_state
  BY DEF DeviceInv
<1> HIDE DEF new, up
<1>5. CASE d.bios_locked
  <2> DEFINE to == IF state <= d.inc_dec_val THEN d.min_state ELSE d.max_state
             d1 == [d EXCEPT !.curr_state = to]
  <2>1. to \in Int
    BY <1>2
  <2> HIDE DEF to
  <2>2. d1 \in DeviceType
    BY <1>1, <2>1 DEF DeviceType
  <2>3. /\ d1.constrained = d.constrained /\ d1.min_state = d.min_state
        /\ d1.on_window = d.on_window /\ d1.on_enabled = d.on_enabled
        /\ d1.on_pwr = d.on_pwr /\ d1.bios_locked = d.bios_locked
    BY <1>1 DEF DeviceType
  <2>4. x.d = d1 /\ x.r = r
    BY <1>5 DEF set_curr_state, Pretended, to
  <2> HIDE DEF d1, x
  <2>5. DeviceInv(d1, r)
    BY <2>2, <2>3 DEF DeviceInv
  <2>6. plat.locked
    BY <1>5 DEF DeviceInv
  <2> QED
    BY <2>3, <2>4, <2>5, <2>6 DEF x
<1>6. CASE ~d.bios_locked /\ new >= d.min_state
  <2>1. x = Limited([d |-> rel.d, r |-> rel.r], up)
    BY <1>6 DEF set_curr_state, new, up, Released
  <2>2. DeviceInv(rel.d, rel.r) /\ rel.d.min_state = d.min_state
    BY RestoreKeeps
  <2> HIDE DEF rel
  <2>3. /\ DeviceInv(x.d, x.r) /\ x.d.min_state = d.min_state /\ x.d.curr_state = up
        /\ ~plat.locked => x.r.pl1 = up
    BY <2>1, <2>2, <1>3, LimitedKeeps
  <2> HIDE DEF x
  <2>4. KnownLimits /\ ~plat.locked => Within(x.d, x.r)
    BY <2>3, <1>2, <1>4 DEF Within
  <2> QED
    BY <2>3, <2>4 DEF x
<1>7. CASE ~d.bios_locked /\ new < d.min_state /\ control /\ ~d.constrained
  <2>1. x = Limited([d |-> con.d, r |-> con.r], new)
    BY <1>7, <1>2, <1>3 DEF set_curr_state, new, Constrained
  <2>2. DeviceInv(con.d, con.r) /\ con.d.min_state = d.min_state
    BY RestoreKeeps
  <2> HIDE DEF con
  <2>3. /\ DeviceInv(x.d, x.r) /\ x.d.min_state = d.min_state /\ x.d.curr_state = new
        /\ ~plat.locked => x.r.pl1 = new
    BY <2>1, <2>2, <1>3, LimitedKeeps
  <2> HIDE DEF x
  <2>4. KnownLimits /\ ~plat.locked => Within(x.d, x.r)
    BY <2>3, <1>2, <1>3, <1>7 DEF Within
  <2> QED
    BY <2>3, <2>4 DEF x
<1>8. CASE ~d.bios_locked /\ new < d.min_state /\ ~(control /\ ~d.constrained)
  <2>1. x = Limited([d |-> d, r |-> r], new)
    BY <1>8, <1>2, <1>3 DEF set_curr_state, new
  <2>2. /\ DeviceInv(x.d, x.r) /\ x.d.min_state = d.min_state /\ x.d.curr_state = new
        /\ ~plat.locked => x.r.pl1 = new
    BY <2>1, <1>3, LimitedKeeps
  <2> HIDE DEF x
  <2>3. KnownLimits /\ ~plat.locked => Within(x.d, x.r)
    BY <2>2, <1>2, <1>3, <1>8 DEF Within
  <2> QED
    BY <2>2, <2>3 DEF x
<1>9. new >= d.min_state \/ new < d.min_state
  BY <1>2, <1>3
<1> QED
  BY <1>5, <1>6, <1>7, <1>8, <1>9

\* A change of the limits alone, before the limit in force follows.
LEMMA RebaseKeeps ==
    ASSUME NEW d, NEW r, DeviceInv(d, r), NEW value \in Int
    PROVE  /\ DeviceInv([d EXCEPT !.min_state = value], r)
           /\ [d EXCEPT !.min_state = value].min_state = value
           /\ [d EXCEPT !.min_state = value].curr_state = d.curr_state
           /\ DeviceInv([d EXCEPT !.max_state = value], r)
           /\ [d EXCEPT !.max_state = value].min_state = d.min_state
           /\ [d EXCEPT !.max_state = value].curr_state = d.curr_state
           /\ DeviceInv([d EXCEPT !.step = value], r)
           /\ [d EXCEPT !.step = value].min_state = d.min_state
           /\ [d EXCEPT !.step = value].curr_state = d.curr_state
           /\ DeviceInv([d EXCEPT !.min_window = value], r)
           /\ [d EXCEPT !.min_window = value].min_state = d.min_state
           /\ [d EXCEPT !.min_window = value].curr_state = d.curr_state
<1>1. d \in DeviceType
  BY DEF DeviceInv
<1>2. ASSUME NEW e \in DeviceType,
             e.constrained = d.constrained, e.on_window = d.on_window,
             e.on_enabled = d.on_enabled, e.on_pwr = d.on_pwr, e.bios_locked = d.bios_locked
      PROVE  DeviceInv(e, r)
  BY <1>2 DEF DeviceInv
<1> DEFINE a == [d EXCEPT !.min_state = value]
           b == [d EXCEPT !.max_state = value]
           s == [d EXCEPT !.step = value]
           w == [d EXCEPT !.min_window = value]
<1>3. DeviceInv(a, r) /\ a.min_state = value /\ a.curr_state = d.curr_state
  BY <1>1, <1>2 DEF DeviceType
<1>4. DeviceInv(b, r) /\ b.min_state = d.min_state /\ b.curr_state = d.curr_state
  BY <1>1, <1>2 DEF DeviceType
<1>5. DeviceInv(s, r) /\ s.min_state = d.min_state /\ s.curr_state = d.curr_state
  BY <1>1, <1>2 DEF DeviceType
<1>6. DeviceInv(w, r) /\ w.min_state = d.min_state /\ w.curr_state = d.curr_state
  BY <1>1, <1>2 DEF DeviceType
<1> QED
  BY <1>3, <1>4, <1>5, <1>6

\* PL1MAX leaves the limit below the new maximum when it was below the old one.
LEMMA NewMaximumKeeps ==
    ASSUME NEW d, NEW r, DeviceInv(d, r), plat.locked \in BOOLEAN, NEW value \in Int
    PROVE  LET x == NewMaximum(d, r, value)
           IN  /\ DeviceInv(x.d, x.r)
               /\ KnownLimits /\ ~plat.locked /\ Within(d, r) => Within(x.d, x.r)
<1> DEFINE capped == [d EXCEPT !.min_state = value]
           set    == set_curr_state(capped, r, r.pl1, TRUE)
           first  == IF d.curr_state > r.pl1 THEN set ELSE [d |-> capped, r |-> r]
           again  == set_curr_state(first.d, first.r, value, TRUE)
           x      == NewMaximum(d, r, value)
<1>1. x = IF first.d.curr_state > value THEN again ELSE first
  BY DEF NewMaximum
<1>2. DeviceInv(capped, r) /\ capped.min_state = value /\ capped.curr_state = d.curr_state
  BY Zenon, RebaseKeeps
<1>3. r.pl1 \in Int /\ d.curr_state \in Int
  BY DEF DeviceInv, RegisterType, DeviceType
<1> HIDE DEF capped
<1>4. /\ DeviceInv(set.d, set.r) /\ set.d.min_state = value
      /\ KnownLimits /\ ~plat.locked => Within(set.d, set.r)
  BY Zenon, <1>2, <1>3, SetKeeps
<1> HIDE DEF set
<1>5. /\ DeviceInv(first.d, first.r)
      /\ KnownLimits /\ ~plat.locked /\ Within(d, r) /\ ~(first.d.curr_state > value) =>
             Within(first.d, first.r)
  <2>1. CASE d.curr_state > r.pl1
    BY <2>1, <1>4
  <2>2. CASE ~(d.curr_state > r.pl1)
    <3>1. first.d = capped /\ first.r = r
      BY <2>2
    <3> HIDE DEF first
    <3> QED
      BY <1>2, <1>3, <3>1 DEF Within
  <2> QED
    BY <2>1, <2>2
<1> HIDE DEF first
<1>6. /\ DeviceInv(again.d, again.r)
      /\ KnownLimits /\ ~plat.locked => Within(again.d, again.r)
  BY Zenon, <1>5, SetKeeps
<1> HIDE DEF again, x
<1> QED
  BY <1>1, <1>5, <1>6 DEF x

\* A new minimum keeps it.
LEMMA NewMinimumKeeps ==
    ASSUME NEW d, NEW r, DeviceInv(d, r), plat.locked \in BOOLEAN, NEW value \in Int
    PROVE  LET x == NewMinimum(d, r, value)
           IN  /\ DeviceInv(x.d, x.r)
               /\ KnownLimits /\ ~plat.locked /\ Within(d, r) => Within(x.d, x.r)
<1> DEFINE raised == [d EXCEPT !.max_state = value]
           set    == set_curr_state(raised, r, value, TRUE)
           x      == NewMinimum(d, r, value)
<1>1. \/ x = set
      \/ x.d = raised /\ x.r = r
  BY Zenon DEF NewMinimum
<1>2. DeviceInv(raised, r) /\ raised.min_state = d.min_state /\ raised.curr_state = d.curr_state
  BY Zenon, RebaseKeeps
<1> HIDE DEF raised
<1>3. /\ DeviceInv(set.d, set.r)
      /\ KnownLimits /\ ~plat.locked => Within(set.d, set.r)
  BY Zenon, <1>2, SetKeeps
<1> HIDE DEF set, x
<1> QED
  BY <1>1, <1>2, <1>3 DEF Within, x

-----------------------------------------------------------------------------
(* The inductive invariant.                                                *)

IndInv ==
    /\ plat \in Platforms
    /\ MeterInv(meter, env)
    /\ DeviceInv(dev, hw)
    /\ KnownLimits /\ ~plat.locked /\ ~direct => Within(dev, hw)

\* The constants of a platform.
LEMMA PlatformType ==
    ASSUME plat \in Platforms
    PROVE  /\ plat.pl0_max \in Int /\ plat.pl0_min \in Int /\ plat.min_window \in Int
           /\ plat.max_window \in Int /\ plat.pl2_max \in Int /\ plat.step \in Int
           /\ plat.pl1_max \in Int /\ plat.pl1 \in Int /\ plat.pl2 \in Int
           /\ plat.window \in Int /\ plat.enabled \in {0, 1} /\ plat.locked \in BOOLEAN
           /\ SaneMax \in Int /\ DefWindow \in Int
BY PlatformAssumption

\* It holds at the start.
LEMMA IndInvInit == Init => IndInv
<1> SUFFICES ASSUME Init PROVE IndInv
  OBVIOUS
<1> DEFINE phy == Larger(plat.pl1_max, plat.pl1)
           from(min, max, dynamic) ==
               [min_state |-> min, max_state |-> max, curr_state |-> min, dynamic |-> dynamic,
                bios_locked |-> FALSE, constrained |-> FALSE, min_window |-> plat.min_window,
                step |-> plat.step, inc_dec_val |-> -plat.step, on_pwr |-> 0,
                on_window |-> hw.window, on_enabled |-> hw.enabled]
<1>1. plat \in Platforms /\ hw = UpdatedRegisters(plat) /\ Updated = hw
  BY DEF Init, Updated
<1>2. hw \in RegisterType
  BY <1>1, PlatformType DEF UpdatedRegisters, RegisterType
<1>3. phy \in Int /\ phy >= plat.pl1 /\ phy - phy \div 2 \in Int
  BY <1>1, PlatformType DEF Larger
<1> HIDE DEF phy
<1>4. ASSUME NEW min \in Int, NEW max \in Int, NEW dynamic \in BOOLEAN
      PROVE  from(min, max, dynamic) \in DeviceType
  BY <1>1, <1>2, PlatformType DEF DeviceType, RegisterType
<1>5. DeviceInv(dev, hw) /\ (KnownLimits /\ ~plat.locked => Within(dev, hw)) /\ dev.dynamic \in BOOLEAN
  <2>1. CASE read_ppcc_power_limits(plat)
    <3>1. dev = [from(plat.pl0_max, plat.pl0_min, TRUE) EXCEPT !.inc_dec_val = 0]
      BY <2>1, <1>1 DEF Init, UpdatedDevice
    <3>2. dev \in DeviceType
      <4> DEFINE f == from(plat.pl0_max, plat.pl0_min, TRUE)
      <4>1. f \in DeviceType
        BY Zenon, <1>1, <1>4, PlatformType
      <4> HIDE DEF f
      <4> QED
        BY Zenon, <3>1, <4>1 DEF DeviceType, f
    <3>3. /\ ~dev.bios_locked /\ ~dev.constrained /\ dev.on_pwr = 0 /\ dev.on_window = hw.window
          /\ dev.on_enabled = hw.enabled /\ dev.dynamic = TRUE
          /\ dev.min_state = plat.pl0_max /\ dev.curr_state = plat.pl0_max
      BY <3>1
    <3>4. ~plat.locked => hw.pl1 = plat.pl0_max
      BY <2>1, <1>1 DEF UpdatedRegisters
    <3>5. DeviceInv(dev, hw)
      BY <1>1, <1>2, <3>2, <3>3 DEF DeviceInv
    <3>6. ~plat.locked => Within(dev, hw)
      BY <1>1, <3>3, <3>4, PlatformType DEF Within
    <3> QED
      BY Zenon, <3>3, <3>5, <3>6
  <2>2. CASE ~read_ppcc_power_limits(plat) /\ NoSaneMax(plat)
    <3>1. dev = [from(SaneMax, 0, TRUE) EXCEPT !.on_pwr = plat.pl1, !.on_enabled = 0]
      BY <2>2, <1>1 DEF Init, UpdatedDevice
    <3>2. dev \in DeviceType
      <4> DEFINE f == from(SaneMax, 0, TRUE)
      <4>1. SaneMax \in Int /\ 0 \in Int /\ TRUE \in BOOLEAN
        BY <1>1, PlatformType
      <4>2. f \in DeviceType
        BY Zenon, <1>4, <4>1
      <4>3. dev = [f EXCEPT !.on_pwr = plat.pl1, !.on_enabled = 0]
        BY Zenon, <3>1
      <4>4. plat.pl1 \in Int /\ 0 \in {0, 1}
        BY <1>1, PlatformType
      <4> HIDE DEF f
      <4> QED
        BY Zenon, <4>2, <4>3, <4>4 DEF DeviceType
    <3>3. ~dev.bios_locked /\ ~dev.constrained /\ dev.on_window = hw.window /\ dev.dynamic = TRUE
      BY <3>1
    <3>4. ~KnownLimits
      BY <2>2 DEF KnownLimits
    <3> QED
      BY Zenon, <1>1, <1>2, <3>2, <3>3, <3>4 DEF DeviceInv
  <2>3. CASE ~read_ppcc_power_limits(plat) /\ ~NoSaneMax(plat)
    <3>1. dev = from(phy, phy - phy \div 2, FALSE)
      BY <2>3, <1>1 DEF Init, UpdatedDevice, phy
    <3>2. dev \in DeviceType
      BY Zenon, <3>1, <1>3, <1>4
    <3>3. /\ ~dev.bios_locked /\ ~dev.constrained /\ dev.on_pwr = 0 /\ dev.on_window = hw.window
          /\ dev.on_enabled = hw.enabled /\ dev.dynamic = FALSE
          /\ dev.min_state = phy /\ dev.curr_state = phy
      BY <3>1
    <3>4. hw.pl1 = plat.pl1
      BY <2>3, <1>1 DEF UpdatedRegisters
    <3> QED
      BY Zenon, <1>1, <1>2, <1>3, <3>2, <3>3, <3>4 DEF DeviceInv, Within
  <2> QED
    BY <2>1, <2>2, <2>3
<1>6. MeterInv(meter, env)
  <2>1. PICK e \in 0 .. Range - 1 : env = [energy |-> e, elapsed |-> 1, wraps |-> 0, sampled |-> FALSE]
    BY Zenon DEF Init
  <2>2. meter = [enabled |-> dev.dynamic, counter |-> 0, cumulative |-> 0, half_way |-> FALSE, power |-> 0]
    BY DEF Init
  <2>3. 0 \in 0 .. Range - 1 /\ 0 \in 0 .. MaxPower /\ 1 \in 0 .. MaxGap
    BY GapAssumption
  <2>4. meter \in MeterType /\ env \in EnvType
    BY <1>5, <2>1, <2>2, <2>3 DEF MeterType, EnvType
  <2> QED
    BY <2>1, <2>2, <2>4 DEF MeterInv
<1> QED
  BY <1>1, <1>5, <1>6 DEF IndInv

\* A reader of the power, whether it measures or not.
LEMMA GetPowerKeeps ==
    ASSUME MeterInv(meter, env), rapl_action_get_power
    PROVE  MeterInv(meter', env')
<1> DEFINE started == [meter EXCEPT !.enabled = TRUE]
<1>1. MeterInv(started, env) /\ started.enabled
  BY StartKeeps
<1>2. CASE meter.power # 0
  BY Zenon, <1>1, <1>2 DEF rapl_action_get_power
<1>3. CASE meter.power = 0
  <2> DEFINE m1 == Looped(started, env)
             x1 == JustRead(started, env)
  <2>1. PICK p \in 0 .. MaxPower :
              /\ MayPass(x1, p)
              /\ meter' = Looped(m1, SecondPassed(x1, p))
              /\ env' = JustRead(started, SecondPassed(x1, p))
    BY Zenon, <1>3 DEF rapl_action_get_power
  <2>2. started \in MeterType
    BY <1>1 DEF MeterInv
  <2> HIDE DEF started
  <2>3. m1.enabled
    BY <1>1, <2>2 DEF Looped, rapl_energy_loop, MeterType
  <2>4. MeterInv(m1, x1)
    BY <1>1, ReadKeeps
  <2> HIDE DEF m1, x1
  <2>5. MeterInv(m1, SecondPassed(x1, p))
    BY <2>1, <2>4, PassKeeps
  <2>6. env' = JustRead(m1, SecondPassed(x1, p))
    BY <1>1, <2>1, <2>3 DEF JustRead
  <2> QED
    BY <2>1, <2>5, <2>6, ReadKeeps
<1> QED
  BY <1>2, <1>3

\* Every step keeps it.
LEMMA IndInvStep == IndInv /\ [Next]_vars => IndInv'
<1> SUFFICES ASSUME IndInv, [Next]_vars PROVE IndInv'
  OBVIOUS
<1>1. /\ plat \in Platforms /\ MeterInv(meter, env) /\ DeviceInv(dev, hw)
      /\ KnownLimits /\ ~plat.locked /\ ~direct => Within(dev, hw)
  BY DEF IndInv
<1>2. plat.locked \in BOOLEAN
  BY <1>1, PlatformType
<1>3. ASSUME plat' = plat, MeterInv(meter', env'), DeviceInv(dev', hw'),
             KnownLimits /\ ~plat.locked /\ ~direct' => Within(dev', hw')
      PROVE  IndInv'
  <2>1. (KnownLimits' <=> KnownLimits) /\ Updated' = Updated
    BY <1>3 DEF KnownLimits, Updated
  <2>2. MeterInv(meter, env)' /\ Within(dev, hw)' = Within(dev', hw')
    BY <1>3 DEF MeterInv, MeterType, EnvType, Ahead, Within
  <2>3. DeviceInv(dev, hw)'
    BY <1>3, <2>1 DEF DeviceInv, DeviceType, RegisterType
  <2> QED
    BY <1>1, <1>3, <2>1, <2>2, <2>3 DEF IndInv
<1>4. CASE Tick
  <2>1. PICK p \in 0 .. MaxPower : MayPass(env, p) /\ env' = SecondPassed(env, p)
    BY <1>4 DEF Tick
  <2>2. MeterInv(meter, env')
    BY <1>1, <2>1, PassKeeps
  <2> QED
    BY <1>1, <1>3, <1>4, <2>2 DEF Tick
<1>5. CASE rapl_measure_power
  <2>1. MeterInv(meter', env')
    BY <1>1, <1>5, ReadKeeps DEF rapl_measure_power
  <2> QED
    BY <1>1, <1>3, <1>5, <2>1 DEF rapl_measure_power
<1>6. CASE ReadPowerSensor
  <2>1. MeterInv(meter', env)
    BY <1>1, <1>6, StartKeeps DEF ReadPowerSensor
  <2> QED
    BY <1>1, <1>3, <1>6, <2>1 DEF ReadPowerSensor
<1>7. CASE Activate
  <2>1. MeterInv(meter', env')
    BY <1>1, <1>7, GetPowerKeeps DEF Activate
  <2>2. PICK k \in 1 .. 2 :
          Becomes(set_curr_state(dev, hw, get_curr_state(dev, hw, meter') - k * dev.step, TRUE))
    BY Zenon, <1>7 DEF Activate
  <2> DEFINE from == get_curr_state(dev, hw, meter')
             to   == from - k * dev.step
             x    == set_curr_state(dev, hw, to, TRUE)
  <2>3. dev.curr_state \in Int /\ dev.step \in Int /\ hw.pl1 \in Int
    BY <1>1 DEF DeviceInv, DeviceType, RegisterType
  <2>4. meter'.power \in Int
    BY <2>1 DEF MeterInv, MeterType
  <2>5. from \in Int
    BY <2>3, <2>4 DEF get_curr_state, Smaller
  <2> HIDE DEF from
  <2>6. to \in Int
    BY <2>3, <2>5
  <2> HIDE DEF to
  <2>7. DeviceInv(x.d, x.r) /\ (KnownLimits /\ ~plat.locked => Within(x.d, x.r))
    BY Zenon, <1>1, <1>2, <2>6, SetKeeps
  <2>8. dev' = x.d /\ hw' = x.r
    BY <2>2 DEF Becomes, to, from
  <2> HIDE DEF x
  <2> QED
    BY <1>3, <1>7, <2>1, <2>7, <2>8 DEF Activate
<1>8. CASE Deactivate
  <2>1. PICK state \in {dev.curr_state + dev.step, dev.min_state} :
              Becomes(set_curr_state(dev, hw, state, FALSE))
    BY Zenon, <1>8 DEF Deactivate
  <2> DEFINE x == set_curr_state(dev, hw, state, FALSE)
  <2>2. dev.curr_state \in Int /\ dev.step \in Int /\ dev.min_state \in Int
    BY <1>1 DEF DeviceInv, DeviceType
  <2>3. state \in Int
    BY <2>2
  <2>4. DeviceInv(x.d, x.r) /\ (KnownLimits /\ ~plat.locked => Within(x.d, x.r))
    BY Zenon, <1>1, <1>2, <2>3, SetKeeps
  <2>5. dev' = x.d /\ hw' = x.r
    BY <2>1 DEF Becomes
  <2> HIDE DEF x
  <2> QED
    BY <1>1, <1>3, <1>8, <2>4, <2>5 DEF Deactivate
<1>9. CASE set_adaptive_target
  <2>1. PICK t \in Targets :
          /\ \/ t.code = "PL1MAX" /\ Becomes(NewMaximum(dev, hw, t.argument))
             \/ t.code = "PL1MIN" /\ Becomes(NewMinimum(dev, hw, t.argument))
             \/ t.code = "PL1STEP" /\ dev' = [dev EXCEPT !.step = t.argument] /\ UNCHANGED hw
             \/ t.code = "PL1TimeWindow" /\ dev' = [dev EXCEPT !.min_window = t.argument] /\ UNCHANGED hw
             \/ t.code = "PL1PowerLimit" /\ hw' = Write(hw, [hw EXCEPT !.pl1 = t.argument]) /\ UNCHANGED dev
             \/ t.code = "PL2PowerLimit" /\ UNCHANGED dev
                /\ hw' = IF hw.pl2 = -1 THEN hw ELSE Write(hw, [hw EXCEPT !.pl2 = t.argument])
          /\ direct' = (direct \/ t.code = "PL1PowerLimit")
    BY Zenon, <1>9 DEF set_adaptive_target
  <2> DEFINE v == t.argument
  <2>2. v \in Int
    BY PlatformAssumption
  <2> HIDE DEF v
  <2>3. UNCHANGED <<plat, meter, env>>
    BY <1>9 DEF set_adaptive_target
  <2>4. ASSUME DeviceInv(dev', hw'),
               KnownLimits /\ ~plat.locked /\ Within(dev, hw) => Within(dev', hw')
        PROVE  IndInv'
    BY Zenon, <1>1, <1>3, <2>1, <2>3, <2>4
  <2>5. CASE t.code = "PL1MAX" /\ Becomes(NewMaximum(dev, hw, v))
    BY <1>1, <1>2, <2>2, <2>4, <2>5, NewMaximumKeeps DEF Becomes
  <2>6. CASE t.code = "PL1MIN" /\ Becomes(NewMinimum(dev, hw, v))
    BY <1>1, <1>2, <2>2, <2>4, <2>6, NewMinimumKeeps DEF Becomes
  <2>7. CASE dev' = [dev EXCEPT !.step = v] /\ UNCHANGED hw
    BY Zenon, <1>1, <2>2, <2>4, <2>7, RebaseKeeps DEF Within
  <2>8. CASE dev' = [dev EXCEPT !.min_window = v] /\ UNCHANGED hw
    BY Zenon, <1>1, <2>2, <2>4, <2>8, RebaseKeeps DEF Within
  <2>9. hw \in RegisterType
    BY <1>1 DEF DeviceInv
  <2>10. CASE t.code = "PL1PowerLimit" /\ hw' = Write(hw, [hw EXCEPT !.pl1 = v]) /\ UNCHANGED dev
    <3>1. hw' \in RegisterType /\ hw'.window = hw.window /\ hw'.enabled = hw.enabled
      BY <2>2, <2>9, <2>10 DEF RegisterType, Write
    <3>2. DeviceInv(dev', hw')
      BY <1>1, <2>10, <3>1 DEF DeviceInv
    <3>3. direct'
      BY Zenon, <2>1, <2>10
    <3> QED
      BY <1>1, <1>3, <2>3, <3>2, <3>3
  <2>11. CASE hw' = (IF hw.pl2 = -1 THEN hw ELSE Write(hw, [hw EXCEPT !.pl2 = v])) /\ UNCHANGED dev
    <3>1. /\ hw' \in RegisterType /\ hw'.window = hw.window /\ hw'.enabled = hw.enabled
          /\ hw'.pl1 = hw.pl1
      BY <2>2, <2>9, <2>11 DEF RegisterType, Write
    <3>2. DeviceInv(dev', hw')
      BY <1>1, <2>11, <3>1 DEF DeviceInv
    <3> QED
      BY <2>4, <2>11, <3>1, <3>2 DEF Within
  <2> QED
    BY <2>1, <2>5, <2>6, <2>7, <2>8, <2>10, <2>11 DEF v
<1>10. CASE UNCHANGED vars
  BY <1>1, <1>3, <1>10 DEF vars
<1> QED
  BY <1>4, <1>5, <1>6, <1>7, <1>8, <1>9, <1>10 DEF Next

\* So it always holds.
LEMMA IndInvAlways == Spec => []IndInv
BY IndInvInit, IndInvStep, PTL DEF Spec

\* rapl_energy_loop loses no round of the energy counter, whatever the range of the
\* counter, as long as it is read once in each half of it.
THEOREM EnergyIsAccounted == Spec => []EnergyAccounted
<1>1. IndInv => EnergyAccounted
  <2> SUFFICES ASSUME IndInv, env.elapsed = 0 PROVE meter.cumulative = Range * env.wraps
    BY DEF EnergyAccounted
  <2>1. MeterInv(meter, env) /\ env.sampled
    BY DEF IndInv, MeterInv, EnvType
  <2>2. PICK u \in 0 .. env.elapsed * MaxPower : Ahead(meter, env, u)
    BY <2>1 DEF MeterInv
  <2>3. u = 0
    BY <2>2, GapAssumption
  <2>4. meter.counter \in 0 .. Range - 1 /\ env.energy \in 0 .. Range - 1
    BY <2>1 DEF MeterInv, MeterType, EnvType
  <2>5. env.energy + Range # meter.counter + u
    BY <2>3, <2>4, GapAssumption
  <2> QED
    BY <2>2, <2>5 DEF Ahead
<1> QED
  BY <1>1, IndInvAlways, PTL

\* The power the controller starts from is never negative and never more than the
\* package can draw.
THEOREM PowerPlausible == Spec => []PowerIsPlausible
<1>1. IndInv => PowerIsPlausible
  BY DEF IndInv, MeterInv, MeterType, PowerIsPlausible
<1> QED
  BY <1>1, IndInvAlways, PTL

\* A device that does not throttle has restored the time window and, given a sane
\* maximum, the enforcement that power on left, on every platform without PPCC limits,
\* and on the others those that update() wrote, after any sequence of trips and targets.
THEOREM FoundRestored == Spec => []FoundIsRestored
<1>1. IndInv => FoundIsRestored
  <2>1. ~read_ppcc_power_limits(plat) => Updated.window = plat.window /\ Updated.enabled = plat.enabled
    BY DEF Updated, UpdatedRegisters
  <2>2. IndInv /\ ~dev.constrained => hw.window = Updated.window
    BY DEF IndInv, DeviceInv
  <2>3. IndInv /\ ~dev.constrained /\ KnownLimits => hw.enabled = Updated.enabled
    BY DEF IndInv, DeviceInv
  <2> QED
    BY <2>1, <2>2, <2>3 DEF FoundIsRestored, KnownLimits
<1> QED
  BY <1>1, IndInvAlways, PTL

\* The limit left in the hardware respects the last PL1MAX.
THEOREM MaximumAlwaysHolds == Spec => []MaximumHolds
<1>1. IndInv => MaximumHolds
  BY DEF IndInv, Within, MaximumHolds
<1> QED
  BY <1>1, IndInvAlways, PTL
=============================================================================
