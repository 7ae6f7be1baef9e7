------------------------ MODULE SchedulerFSM_proofs ------------------------
(***************************************************************************)
(* The arithmetic of the schedule (util/time.ts), and what every method of *)
(* the machine keeps, whoever calls it.                                    *)
(***************************************************************************)
EXTENDS SchedulerFSM, TLAPS

(***************************************************************************)
(* Division.                                                               *)
(***************************************************************************)
\* Quotient and remainder.
LEMMA Splits ==
    ASSUME NEW x \in Nat, NEW d \in Nat \ {0}
    PROVE  /\ x \div d \in Nat /\ x = d * (x \div d) + (x % d)
           /\ 0 <= x % d /\ x % d < d /\ x % d \in Int
<1>1. /\ x \div d \in Nat /\ x = d * (x \div d) + (x % d)
      /\ 0 <= x % d /\ x % d < d
  OBVIOUS
<1>2. x % d \in Int
  OBVIOUS
<1> QED BY <1>1, <1>2

LEMMA MoreTimes ==
    ASSUME NEW a \in Nat, NEW b \in Nat, NEW d \in Nat, a < b
    PROVE  a * d + d <= b * d
<1>1. PICK k \in Nat : b = a + 1 + k
  <2>1. b - a - 1 \in Nat /\ b = a + 1 + (b - a - 1)
    OBVIOUS
  <2> QED BY <2>1
<1>2. b * d = a * d + d + k * d
  BY <1>1
<1>3. k * d \in Nat /\ a * d \in Nat
  OBVIOUS
<1> QED BY <1>2, <1>3

LEMMA SameQuotient ==
    ASSUME NEW d \in Nat \ {0}, NEW q \in Nat, NEW r \in 0..(d - 1)
    PROVE  (q * d + r) \div d = q /\ (q * d + r) % d = r
<1> DEFINE x == q * d + r
           p == x \div d
           s == x % d
<1>1. x \in Nat /\ q * d \in Nat /\ r \in Nat /\ r < d
  OBVIOUS
<1>2. p \in Nat /\ s \in Nat /\ s < d /\ x = d * p + s
  BY <1>1, Splits
<1>a. x = q * d + r
  OBVIOUS
<1> HIDE DEF x, p, s
<1>3. p * d \in Nat
  BY <1>2
<1>4. ~(p < q)
  <2> SUFFICES ASSUME p < q PROVE FALSE
    OBVIOUS
  <2>1. p * d + d <= q * d
    BY <1>2, MoreTimes
  <2> QED BY <1>1, <1>2, <1>3, <1>a, <2>1
<1>5. ~(q < p)
  <2> SUFFICES ASSUME q < p PROVE FALSE
    OBVIOUS
  <2>1. q * d + d <= p * d
    BY <1>2, MoreTimes
  <2> QED BY <1>1, <1>2, <1>3, <1>a, <2>1
<1>6. p = q
  BY <1>2, <1>4, <1>5
<1>7. s = r
  BY <1>1, <1>2, <1>3, <1>6, <1>a
<1> QED BY <1>6, <1>7 DEF p, s, x

LEMMA SameResidue ==
    ASSUME NEW w \in Nat \ {0}, NEW e \in Nat, NEW f \in Nat, e % w = f % w, f <= e, e < f + w
    PROVE  e = f
<1> DEFINE p == e \div w
           q == f \div w
           r == f % w
<1>1. /\ p \in Nat /\ q \in Nat /\ r \in Nat /\ r < w /\ e = w * p + r /\ f = w * q + r
  BY Splits
<1> HIDE DEF p, q, r
<1>0. p * w \in Nat /\ q * w \in Nat
  BY <1>1
<1>2. ~(p < q)
  <2> SUFFICES ASSUME p < q PROVE FALSE
    OBVIOUS
  <2>1. p * w + w <= q * w
    BY <1>1, MoreTimes
  <2> QED BY <1>0, <1>1, <2>1
<1>3. ~(q < p)
  <2> SUFFICES ASSUME q < p PROVE FALSE
    OBVIOUS
  <2>1. q * w + w <= p * w
    BY <1>1, MoreTimes
  <2> QED BY <1>0, <1>1, <2>1
<1> QED BY <1>1, <1>2, <1>3

LEMMA ResidueKept ==
    ASSUME NEW w \in Nat \ {0}, NEW e \in Nat, NEW k \in Nat
    PROVE  (e + k * w) % w = e % w
<1> DEFINE q == e \div w
           r == e % w
<1>1. q \in Nat /\ r \in Nat /\ r < w /\ e = w * q + r
  BY Splits
<1> HIDE DEF q, r
<1>2. e + k * w = (q + k) * w + r
  BY <1>1
<1>3. ((q + k) * w + r) % w = r
  BY <1>1, SameQuotient
<1> QED BY <1>2, <1>3 DEF r

\* The days to go to the next day of a weekday, today included.
LEMMA Ahead ==
    ASSUME NEW w \in Nat \ {0}, NEW e \in Nat, NEW g \in 0..(w - 1)
    PROVE  LET a == (g - (e % w) + w) % w IN a \in 0..(w - 1) /\ (e + a) % w = g
<1> DEFINE r == e % w
           q == e \div w
           a == (g - r + w) % w
<1> SUFFICES a \in 0..(w - 1) /\ (e + a) % w = g
  OBVIOUS
<1>1. r \in Nat /\ r < w /\ q \in Nat /\ e = w * q + r
  BY Splits
<1> HIDE DEF r, q
<1>2. CASE r <= g
  <2>1. (1 * w + (g - r)) % w = g - r
    BY <1>1, <1>2, SameQuotient
  <2>2. a = g - r
    <3>1. 1 * w + (g - r) = g - r + w
      BY <1>1
    <3> QED BY <2>1, <3>1
  <2>3. e + a = q * w + g
    BY <1>1, <2>2
  <2>4. (q * w + g) % w = g
    BY <1>1, SameQuotient
  <2> HIDE DEF a
  <2> QED BY <1>1, <1>2, <2>2, <2>3, <2>4
<1>3. CASE g < r
  <2>1. (0 * w + (g - r + w)) % w = g - r + w
    BY <1>1, <1>3, SameQuotient
  <2>2. a = g - r + w
    <3>1. 0 * w + (g - r + w) = g - r + w
      BY <1>1
    <3> QED BY <2>1, <3>1
  <2>3. e + a = (q + 1) * w + g
    BY <1>1, <2>2
  <2>4. q + 1 \in Nat
    BY <1>1
  <2>5. ((q + 1) * w + g) % w = g
    BY <2>4, SameQuotient
  <2> HIDE DEF a
  <2> QED BY <1>1, <1>3, <2>2, <2>3, <2>5
<1> QED
  <2>1. r <= g \/ g < r
    BY <1>1
  <2> QED BY <1>2, <1>3, <2>1

(***************************************************************************)
(* The slots of util/time.ts.                                              *)
(***************************************************************************)
\* The slot of a day.
SlotOn(day) == day * Day + FullTime

LEMMA Calendar ==
    /\ Day \in Nat \ {0} /\ DaysPerWeek \in Nat \ {0} /\ DaysPerMonth \in Nat \ {0}
    /\ DaysPerWeek <= DaysPerMonth
    /\ FullDay \in Nat /\ FullDay < DaysPerWeek /\ FullTime \in Nat /\ FullTime < Day
    /\ FullDay \in 0..(DaysPerWeek - 1) /\ FullTime \in 0..(Day - 1)
BY FullScheduleAssumption

LEMMA SlotOnDay ==
    ASSUME NEW e \in Nat
    PROVE  SlotOn(e) \in Nat /\ DayOf(SlotOn(e)) = e /\ SlotOn(e) % Day = FullTime
<1>1. e * Day \in Nat
  BY Calendar
<1> QED BY <1>1, Calendar, SameQuotient DEF SlotOn, DayOf

LEMMA DayOfTime ==
    ASSUME NEW t \in Nat
    PROVE  /\ DayOf(t) \in Nat /\ DayOf(t) * Day <= t /\ t < DayOf(t) * Day + Day
           /\ t % Day = FullTime => t = SlotOn(DayOf(t))
<1> DEFINE d == t \div Day
           s == t % Day
<1>1. d \in Nat /\ s \in Nat /\ s < Day /\ t = Day * d + s
  BY Calendar, Splits
<1> SUFFICES d \in Nat /\ d * Day <= t /\ t < d * Day + Day /\ (s = FullTime => t = d * Day + FullTime)
  BY DEF DayOf, SlotOn
<1> HIDE DEF d, s
<1>2. d * Day \in Nat /\ Day * d = d * Day
  BY <1>1, Calendar
<1> QED BY <1>1, <1>2, Calendar

LEMMA DaysInOrder ==
    ASSUME NEW t \in Nat, NEW u \in Nat, t <= u
    PROVE  DayOf(t) <= DayOf(u)
<1>1. /\ DayOf(t) \in Nat /\ DayOf(t) * Day <= t
      /\ DayOf(u) \in Nat /\ u < DayOf(u) * Day + Day
  BY DayOfTime
<1> SUFFICES ASSUME DayOf(u) < DayOf(t) PROVE FALSE
  BY <1>1
<1>2. DayOf(u) * Day + Day <= DayOf(t) * Day
  BY <1>1, MoreTimes, Calendar
<1>3. DayOf(u) * Day \in Nat /\ DayOf(t) * Day \in Nat
  BY <1>1, Calendar
<1> QED BY <1>1, <1>2, <1>3, Calendar

LEMMA LaterSlot ==
    ASSUME NEW e \in Nat, NEW f \in Nat, e < f
    PROVE  SlotOn(e) < SlotOn(f)
<1>1. e * Day + Day <= f * Day /\ e * Day \in Nat /\ f * Day \in Nat
  BY MoreTimes, Calendar
<1> QED BY <1>1, Calendar DEF SlotOn

\* A slot of a later day is not over.
LEMMA LaterDay ==
    ASSUME NEW now \in Nat, NEW e \in Nat, DayOf(now) < e
    PROVE  now < SlotOn(e)
<1>1. DayOf(now) \in Nat /\ now < DayOf(now) * Day + Day
  BY DayOfTime
<1>2. DayOf(now) * Day + Day <= e * Day /\ DayOf(now) * Day \in Nat /\ e * Day \in Nat
  BY <1>1, MoreTimes, Calendar
<1> QED BY <1>1, <1>2, Calendar DEF SlotOn

\* What can come before the slot of a day.
LEMMA EarlierSlots ==
    ASSUME NEW now \in Nat, NEW e \in Nat, NEW u \in now..(SlotOn(e) - 1), u % Day = FullTime
    PROVE  /\ DayOf(u) \in Nat /\ u = SlotOn(DayOf(u))
           /\ DayOf(now) <= DayOf(u) /\ DayOf(u) < e
<1>1. u \in Nat /\ now <= u /\ SlotOn(e) \in Nat /\ u < SlotOn(e)
  BY SlotOnDay
<1>2. DayOf(u) \in Nat /\ u = SlotOn(DayOf(u)) /\ DayOf(now) <= DayOf(u)
  BY <1>1, DayOfTime, DaysInOrder
<1>3. ~(DayOf(u) = e)
  BY <1>1, <1>2
<1>4. ~(e < DayOf(u))
  BY <1>1, <1>2, LaterSlot
<1> QED BY <1>2, <1>3, <1>4

LEMMA WeekdayAhead ==
    ASSUME NEW day \in Nat
    PROVE  /\ DaysAhead(day) \in Nat /\ DaysAhead(day) < DaysPerWeek
           /\ (day + DaysAhead(day)) % DaysPerWeek = FullDay
<1>1. DaysAhead(day) \in 0..(DaysPerWeek - 1)
  BY Calendar, Ahead DEF DaysAhead
<1>2. (day + DaysAhead(day)) % DaysPerWeek = FullDay
  BY Calendar, Ahead DEF DaysAhead
<1> QED BY <1>1, <1>2, Calendar

\* The day of nextWeeklyFullAt.
WeeklyDay(now) ==
    LET day == DayOf(now) + DaysAhead(DayOf(now))
    IN  IF SlotOn(day) < now THEN day + DaysPerWeek ELSE day

LEMMA WeeklyDayIs ==
    ASSUME NEW now \in Nat
    PROVE  NextWeekly(now) = SlotOn(WeeklyDay(now)) /\ WeeklyDay(now) \in Nat
<1> DEFINE d == DayOf(now)
           a == DaysAhead(d)
<1>1. d \in Nat /\ a \in Nat
  BY DayOfTime, WeekdayAhead
<1>2. AtFullTime(now) + a * Day = SlotOn(d + a)
  <2>1. AtFullTime(now) = d * Day + FullTime
    BY DEF AtFullTime
  <2> HIDE DEF d, a
  <2>2. (d + a) * Day = d * Day + a * Day /\ d * Day \in Nat /\ a * Day \in Nat
    BY <1>1, Calendar
  <2> QED BY <2>1, <2>2, Calendar DEF SlotOn
<1>3. SlotOn(d + a) + Week = SlotOn(d + a + DaysPerWeek)
  <2> HIDE DEF d, a
  <2> DEFINE e == d + a
  <2>0. e \in Nat
    BY <1>1
  <2> HIDE DEF e
  <2>1. (e + DaysPerWeek) * Day = e * Day + DaysPerWeek * Day /\ e * Day \in Nat
        /\ DaysPerWeek * Day \in Nat
    BY <2>0, Calendar
  <2> QED BY <2>1, Calendar DEF SlotOn, Week, e
<1> QED BY <1>1, <1>2, <1>3, Calendar DEF NextWeekly, WeeklyDay

OnWeekday(t) == t % Day = FullTime /\ DayOf(t) % DaysPerWeek = FullDay

LEMMA WeeklyIsFirst ==
    ASSUME NEW now \in Nat
    PROVE  /\ NextWeekly(now) \in Nat /\ now <= NextWeekly(now)
           /\ OnWeekday(NextWeekly(now))
           /\ \A u \in now..(NextWeekly(now) - 1) : ~OnWeekday(u)
<1> DEFINE d == DayOf(now)
           a == DaysAhead(d)
           e == WeeklyDay(now)
<1>1. d \in Nat /\ a \in Nat /\ a < DaysPerWeek /\ (d + a) % DaysPerWeek = FullDay
  BY DayOfTime, WeekdayAhead
<1>2. e \in Nat /\ NextWeekly(now) = SlotOn(e)
  BY WeeklyDayIs
<1>3. e = IF SlotOn(d + a) < now THEN d + a + DaysPerWeek ELSE d + a
  BY DEF WeeklyDay
<1> HIDE DEF d, a, e
<1>4. e % DaysPerWeek = FullDay
  <2>1. (d + a + 1 * DaysPerWeek) % DaysPerWeek = (d + a) % DaysPerWeek
    <3>1. d + a \in Nat
      BY <1>1
    <3> QED BY <3>1, ResidueKept, Calendar
  <2>2. d + a + 1 * DaysPerWeek = d + a + DaysPerWeek
    BY <1>1, Calendar
  <2> QED BY <1>1, <1>3, <2>1, <2>2
<1>5. now <= SlotOn(e) /\ d <= e
  <2>1. CASE SlotOn(d + a) < now
    <3>1. d < e
      BY <1>1, <1>3, <2>1, Calendar
    <3>2. now < SlotOn(e)
      BY <1>2, <3>1, LaterDay DEF d
    <3> QED BY <1>1, <1>2, <3>1, <3>2, SlotOnDay
  <2>2. CASE ~(SlotOn(d + a) < now)
    <3>1. SlotOn(d + a) \in Nat
      BY <1>1, SlotOnDay
    <3> QED BY <1>1, <1>3, <2>2, <3>1
  <2> QED BY <2>1, <2>2
<1>8. ASSUME NEW f \in Nat, f % DaysPerWeek = FullDay, f < d + a, d + a < f + DaysPerWeek
      PROVE  FALSE
  <2>1. d + a \in Nat /\ (d + a) % DaysPerWeek = f % DaysPerWeek
    BY <1>1, <1>8
  <2> DEFINE b == d + a
  <2>2. b \in Nat /\ b % DaysPerWeek = f % DaysPerWeek /\ f < b /\ b < f + DaysPerWeek
    BY <1>8, <2>1
  <2> HIDE DEF b
  <2>3. f <= b /\ DaysPerWeek \in Nat \ {0} /\ f \in Nat
    BY <1>8, <2>2, Calendar
  <2>4. b = f
    BY <2>2, <2>3, SameResidue
  <2> QED BY <1>8, <2>2, <2>4
<1>6. ASSUME NEW u \in now..(SlotOn(e) - 1), OnWeekday(u) PROVE FALSE
  <2> DEFINE f == DayOf(u)
  <2>1. f \in Nat /\ u = SlotOn(f) /\ d <= f /\ f < e
    BY <1>2, <1>6, EarlierSlots DEF OnWeekday, d
  <2>2. f % DaysPerWeek = FullDay
    BY <1>6 DEF OnWeekday
  <2> HIDE DEF f
  <2>3. CASE SlotOn(d + a) < now
    <3>1. f < d + a + DaysPerWeek /\ d + a \in Nat
      BY <1>1, <1>3, <2>1, <2>3
    <3>2. f # d + a
      <4>1. now <= u /\ SlotOn(d + a) \in Nat /\ u \in Int
        BY <3>1, SlotOnDay
      <4> QED BY <2>1, <2>3, <4>1
    <3>3. ~(d + a <= f)
      BY <1>1, <2>1, <2>2, <3>1, <3>2, SameResidue, Calendar
    <3>4. f < d + a /\ d + a < f + DaysPerWeek
      BY <1>1, <2>1, <3>3, Calendar
    <3> QED BY <1>8, <2>1, <2>2, <3>1, <3>4
  <2>4. CASE ~(SlotOn(d + a) < now)
    <3>1. f < d + a /\ d + a < f + DaysPerWeek /\ d + a \in Nat
      BY <1>1, <1>3, <2>1, <2>4, Calendar
    <3> QED BY <1>8, <2>1, <2>2, <3>1
  <2> QED BY <2>3, <2>4
<1>7. SlotOn(e) \in Nat /\ DayOf(SlotOn(e)) = e /\ SlotOn(e) % Day = FullTime
  BY <1>2, SlotOnDay
<1> QED BY <1>2, <1>4, <1>5, <1>6, <1>7 DEF OnWeekday

\* The days of the biweekly cadence, counted from the prior full's.
Fortnight == 2 * DaysPerWeek
OnFortnight(t, last) ==
    /\ t % Day = FullTime /\ DayOf(t) >= DayOf(last)
    /\ (DayOf(t) - DayOf(last)) % Fortnight = 0

LEMMA FortnightSlot ==
    ASSUME NEW l \in Nat, NEW k \in Nat
    PROVE  /\ l + k * Fortnight \in Nat
           /\ SlotOn(l + k * Fortnight) = SlotOn(l) + k * (2 * Week)
<1>1. Fortnight \in Nat
  BY Calendar DEF Fortnight
<1>2. Fortnight * Day = 2 * Week
  BY Calendar DEF Fortnight, Week
<1>3. k * Fortnight \in Nat /\ l * Day \in Nat
  BY <1>1, Calendar
<1>4. (k * Fortnight) * Day = k * (Fortnight * Day)
  BY <1>1, Calendar
<1>5. (l + k * Fortnight) * Day = l * Day + (k * Fortnight) * Day /\ (k * Fortnight) * Day \in Nat
  BY <1>3, Calendar
<1> QED BY <1>2, <1>3, <1>4, <1>5, Calendar DEF SlotOn

LEMMA RoundsUp ==
    ASSUME NEW x \in Nat \ {0}, NEW p \in Nat \ {0}
    PROVE  LET rounds == (x + p - 1) \div p
           IN  rounds \in Nat /\ x <= rounds * p /\ \A k \in Nat : k < rounds => k * p < x
<1> DEFINE rounds == (x + p - 1) \div p
           s == (x + p - 1) % p
<1> SUFFICES rounds \in Nat /\ x <= rounds * p /\ \A k \in Nat : k < rounds => k * p < x
  OBVIOUS
<1>1. /\ rounds \in Nat /\ x + p - 1 = p * rounds + s /\ s \in Int /\ 0 <= s /\ s < p
  <2>1. x + p - 1 \in Nat
    OBVIOUS
  <2> QED BY <2>1, Splits
<1> HIDE DEF rounds, s
<1>2. p * rounds = rounds * p /\ rounds * p \in Nat
  BY <1>1
<1>3. x <= rounds * p
  BY <1>1, <1>2
<1>4. ASSUME NEW k \in Nat, k < rounds PROVE k * p < x
  <2>1. k * p + p <= rounds * p /\ k * p \in Nat
    BY <1>1, <1>4, MoreTimes
  <2> QED BY <1>1, <1>2, <2>1
<1> QED BY <1>1, <1>3, <1>4

LEMMA BiweeklyIsFirst ==
    ASSUME NEW now \in Nat, NEW last \in Nat
    PROVE  LET t == NextBiweekly(now, last)
           IN  /\ t \in Nat /\ now <= t /\ OnFortnight(t, last)
               /\ \A u \in now..(t - 1) : ~OnFortnight(u, last)
<1> DEFINE l == DayOf(last)
           first == SlotOn(l)
           rounds == (now - first + 2 * Week - 1) \div (2 * Week)
           k == IF first >= now THEN 0 ELSE rounds
           t == SlotOn(l + k * Fortnight)
<1>0. l \in Nat /\ first \in Nat /\ last # NoTime
  <2>1. l \in Nat
    BY DayOfTime
  <2>2. first \in Nat
    <3> HIDE DEF l
    <3> QED BY <2>1, SlotOnDay
  <2>3. last # NoTime
    BY FullScheduleAssumption
  <2> QED BY <2>1, <2>2, <2>3
<1>1. 2 * Week \in Nat \ {0} /\ Fortnight \in Nat \ {0}
  <2>1. DaysPerWeek * Day \in Nat \ {0}
    BY Calendar
  <2> QED BY <2>1, Calendar DEF Week, Fortnight
<1>2. /\ k \in Nat
      /\ first < now => now <= first + k * (2 * Week)
      /\ first < now => \A i \in Nat : i < k => first + i * (2 * Week) < now
  <2>1. CASE first >= now
    BY <1>0, <2>1
  <2>2. CASE first < now
    <3> DEFINE x == now - first
               p == 2 * Week
    <3>1. x \in Nat \ {0} /\ p \in Nat \ {0} /\ now = first + x
      BY <1>0, <1>1, <2>2
    <3>2. rounds = (x + p - 1) \div p
      OBVIOUS
    <3> DEFINE r == (x + p - 1) \div p
    <3>a. k = r
      BY <1>0, <2>2
    <3> HIDE DEF x, p
    <3>3. r \in Nat /\ x <= r * p /\ \A i \in Nat : i < r => i * p < x
      BY <3>1, RoundsUp
    <3> HIDE DEF r
    <3>4. r * p \in Nat /\ \A i \in Nat : i * p \in Nat
      BY <3>1, <3>3
    <3>5. k \in Nat /\ now <= first + k * p /\ \A i \in Nat : i < k => first + i * p < now
      <4> HIDE DEF k, first
      <4> QED BY <1>0, <3>1, <3>a, <3>3, <3>4
    <3> QED BY <3>5 DEF p
  <2> QED BY <1>0, <2>1, <2>2
<1>3. t = first + k * (2 * Week) /\ l + k * Fortnight \in Nat
  <2> HIDE DEF k, l
  <2> QED BY <1>0, <1>2, FortnightSlot
<1>4. NextBiweekly(now, last) = t
  <2>1. AtFullTime(last) = first
    BY DEF AtFullTime, SlotOn
  <2>2. CASE first >= now
    <3>1. k = 0 /\ 0 * (2 * Week) = 0
      BY <1>1, <2>2
    <3>2. t = first
      <4> HIDE DEF k, t, first
      <4> QED BY <1>0, <1>3, <3>1
    <3> QED BY <1>0, <2>1, <2>2, <3>2 DEF NextBiweekly
  <2>3. CASE ~(first >= now)
    <3>1. k = rounds
      BY <2>3
    <3>2. NextBiweekly(now, last) = first + rounds * 2 * Week
      BY <1>0, <2>1, <2>3 DEF NextBiweekly
    <3> HIDE DEF k, rounds, t, first
    <3>3. rounds \in Nat /\ Week \in Nat
      BY <1>1, <1>2, <3>1, Calendar DEF Week
    <3>4. rounds * 2 * Week = rounds * (2 * Week)
      BY <3>3
    <3> QED BY <1>3, <3>1, <3>2, <3>4
  <2> QED BY <2>2, <2>3
<1> SUFFICES /\ t \in Nat /\ now <= t /\ OnFortnight(t, last)
             /\ \A u \in now..(t - 1) : ~OnFortnight(u, last)
  BY <1>4
<1>5. t \in Nat /\ DayOf(t) = l + k * Fortnight /\ t % Day = FullTime
  <2> HIDE DEF k, l
  <2> QED BY <1>3, SlotOnDay
<1> HIDE DEF t, k
<1>6. now <= t
  <2>1. CASE first < now
    BY <1>2, <1>3, <2>1
  <2>2. CASE now <= first
    <3>1. k * (2 * Week) \in Nat
      BY <1>1, <1>2
    <3> HIDE DEF first
    <3> QED BY <1>0, <1>3, <2>2, <3>1
  <2> QED BY <1>0, <2>1, <2>2
<1>7. OnFortnight(t, last)
  <2> HIDE DEF l
  <2>1. k * Fortnight \in Nat
    BY <1>1, <1>2
  <2>2. DayOf(t) >= l /\ DayOf(t) - l = 0 + k * Fortnight
    BY <1>0, <1>5, <2>1
  <2>3. (0 + k * Fortnight) % Fortnight = 0 % Fortnight
    BY <1>1, <1>2, ResidueKept
  <2>4. 0 % Fortnight = 0
    <3>1. (0 * Fortnight + 0) % Fortnight = 0
      BY <1>1, SameQuotient
    <3>2. 0 * Fortnight + 0 = 0
      BY <1>1
    <3> QED BY <3>1, <3>2
  <2> QED BY <1>5, <2>2, <2>3, <2>4 DEF OnFortnight, l
<1>8. ASSUME NEW u \in now..(t - 1), OnFortnight(u, last) PROVE FALSE
  <2> DEFINE f == DayOf(u)
             i == (f - l) \div Fortnight
  <2>1. f \in Nat /\ u = SlotOn(f) /\ f < l + k * Fortnight
    <3>1. u \in now..(SlotOn(l + k * Fortnight) - 1)
      BY <1>8 DEF t
    <3> HIDE DEF l
    <3> QED BY <1>3, <1>8, <3>1, EarlierSlots DEF OnFortnight
  <2>2. l <= f /\ (f - l) % Fortnight = 0
    BY <1>8 DEF OnFortnight
  <2> HIDE DEF f, l
  <2>3. f - l \in Nat
    BY <1>0, <2>1, <2>2
  <2>4. i \in Nat /\ f - l = Fortnight * i + 0
    BY <1>1, <2>2, <2>3, Splits
  <2> HIDE DEF i
  <2>5. f = l + i * Fortnight /\ i * Fortnight \in Nat /\ k * Fortnight \in Nat
    BY <1>0, <1>1, <1>2, <2>1, <2>4
  <2>6. i < k
    <3> SUFFICES ASSUME ~(i < k) PROVE FALSE
      OBVIOUS
    <3>1. k = i \/ k * Fortnight + Fortnight <= i * Fortnight
      BY <1>1, <1>2, <2>4, MoreTimes
    <3> QED BY <1>0, <1>1, <2>1, <2>5, <3>1
  <2>7. u = first + i * (2 * Week)
    BY <1>0, <2>1, <2>4, <2>5, FortnightSlot
  <2>8. i * (2 * Week) \in Nat
    BY <1>1, <2>4
  <2>9. now <= u
    BY <1>8
  <2> HIDE DEF first
  <2>10. CASE first < now
    BY <1>0, <1>2, <2>4, <2>6, <2>7, <2>8, <2>9, <2>10
  <2>11. CASE now <= first
    <3>1. k = 0
      BY <1>0, <2>11 DEF k
    <3> QED BY <2>4, <2>6, <3>1
  <2> QED BY <1>0, <2>10, <2>11
<1> QED BY <1>5, <1>6, <1>7, <1>8

OnMonth(t) == OnWeekday(t) /\ DayOf(t) % DaysPerMonth < DaysPerWeek

\* The day of the slot of a month.
MonthDay(month) == month * DaysPerMonth + DaysAhead(month * DaysPerMonth)

LEMMA MonthSlot ==
    ASSUME NEW m \in Nat
    PROVE  /\ MonthDay(m) \in Nat /\ FirstOfMonth(m) = SlotOn(MonthDay(m))
           /\ m * DaysPerMonth <= MonthDay(m)
           /\ MonthDay(m) < m * DaysPerMonth + DaysPerWeek
           /\ MonthDay(m) % DaysPerWeek = FullDay
           /\ MonthDay(m) % DaysPerMonth < DaysPerWeek
           /\ MonthDay(m) \div DaysPerMonth = m
<1> DEFINE b == m * DaysPerMonth
           a == DaysAhead(b)
<1>1. b \in Nat
  BY Calendar
<1>2. a \in Nat /\ a < DaysPerWeek /\ (b + a) % DaysPerWeek = FullDay
  <2> HIDE DEF b
  <2> QED BY <1>1, WeekdayAhead
<1>3. FirstOfMonth(m) = SlotOn(b + a)
  BY DEF FirstOfMonth, SlotOn
<1>4. (m * DaysPerMonth + a) % DaysPerMonth = a /\ (m * DaysPerMonth + a) \div DaysPerMonth = m
  <2> HIDE DEF a
  <2>1. a \in 0..(DaysPerMonth - 1)
    BY <1>2, Calendar
  <2> QED BY <2>1, SameQuotient, Calendar
<1>5. MonthDay(m) = b + a
  BY DEF MonthDay
<1>6. (b + a) % DaysPerMonth = a /\ (b + a) \div DaysPerMonth = m
  BY <1>4
<1>7. m * DaysPerMonth = b
  OBVIOUS
<1> HIDE DEF a, b
<1>8. MonthDay(m) \in Nat /\ b <= MonthDay(m) /\ MonthDay(m) < b + DaysPerWeek
  BY <1>1, <1>2, <1>5, Calendar
<1>9. /\ FirstOfMonth(m) = SlotOn(MonthDay(m)) /\ MonthDay(m) % DaysPerWeek = FullDay
      /\ MonthDay(m) % DaysPerMonth < DaysPerWeek /\ MonthDay(m) \div DaysPerMonth = m
  BY <1>2, <1>3, <1>5, <1>6
<1> QED BY <1>7, <1>8, <1>9

\* A day on the weekday among the first of its month is the month's.
LEMMA MonthDayIs ==
    ASSUME NEW f \in Nat, f % DaysPerWeek = FullDay, f % DaysPerMonth < DaysPerWeek
    PROVE  f = MonthDay(f \div DaysPerMonth)
<1> DEFINE m == f \div DaysPerMonth
           s == f % DaysPerMonth
           b == m * DaysPerMonth
           e == MonthDay(m)
<1>1. m \in Nat /\ f = DaysPerMonth * m + s /\ s \in Int /\ 0 <= s
  BY Splits, Calendar
<1>2. /\ e \in Nat /\ b <= e /\ e < b + DaysPerWeek /\ e % DaysPerWeek = FullDay
  <2> HIDE DEF m
  <2> QED BY <1>1, MonthSlot
<1>3. s < DaysPerWeek
  OBVIOUS
<1> SUFFICES f = e
  OBVIOUS
<1> HIDE DEF m, s, e
<1>4. b \in Nat /\ f = b + s
  BY <1>1, Calendar
<1> HIDE DEF b
<1>5. f < e + DaysPerWeek /\ e < f + DaysPerWeek
  BY <1>1, <1>2, <1>3, <1>4, Calendar
<1>6. e % DaysPerWeek = f % DaysPerWeek /\ DaysPerWeek \in Nat \ {0}
  BY <1>2, Calendar
<1>7. CASE f <= e
  BY <1>2, <1>5, <1>6, <1>7, SameResidue
<1>8. CASE e <= f
  BY <1>2, <1>5, <1>6, <1>8, SameResidue
<1> QED BY <1>2, <1>7, <1>8

LEMMA MonthsInOrder ==
    ASSUME NEW e \in Nat, NEW f \in Nat, e <= f
    PROVE  e \div DaysPerMonth <= f \div DaysPerMonth
<1> DEFINE p == e \div DaysPerMonth
           q == f \div DaysPerMonth
           r == e % DaysPerMonth
           s == f % DaysPerMonth
<1>1. /\ p \in Nat /\ e = DaysPerMonth * p + r /\ r \in Int /\ 0 <= r
      /\ q \in Nat /\ f = DaysPerMonth * q + s /\ s \in Int /\ s < DaysPerMonth
  BY Splits, Calendar
<1> SUFFICES ASSUME q < p PROVE FALSE
  BY <1>1
<1> HIDE DEF p, q, r, s
<1>2. q * DaysPerMonth + DaysPerMonth <= p * DaysPerMonth
  BY <1>1, MoreTimes, Calendar
<1>3. q * DaysPerMonth \in Nat /\ p * DaysPerMonth \in Nat
  BY <1>1, Calendar
<1> QED BY <1>1, <1>2, <1>3, Calendar

LEMMA MonthDaysInOrder ==
    ASSUME NEW m \in Nat, NEW n \in Nat, m < n
    PROVE  MonthDay(m) < MonthDay(n)
<1>1. /\ MonthDay(m) < m * DaysPerMonth + DaysPerWeek /\ MonthDay(m) \in Nat
      /\ n * DaysPerMonth <= MonthDay(n) /\ MonthDay(n) \in Nat
  BY MonthSlot
<1>2. m * DaysPerMonth + DaysPerMonth <= n * DaysPerMonth
  BY MoreTimes, Calendar
<1>3. m * DaysPerMonth \in Nat /\ n * DaysPerMonth \in Nat
  BY Calendar
<1> QED BY <1>1, <1>2, <1>3, Calendar

LEMMA MonthlyIsFirst ==
    ASSUME NEW now \in Nat
    PROVE  /\ NextMonthly(now) \in Nat /\ now <= NextMonthly(now)
           /\ OnMonth(NextMonthly(now))
           /\ \A u \in now..(NextMonthly(now) - 1) : ~OnMonth(u)
<1> DEFINE d == DayOf(now)
           m == d \div DaysPerMonth
           n == IF FirstOfMonth(m) >= now THEN m ELSE m + 1
           e == MonthDay(n)
<1>1. d \in Nat /\ m \in Nat /\ d < m * DaysPerMonth + DaysPerMonth
  <2>1. d \in Nat
    BY DayOfTime
  <2> DEFINE s == d % DaysPerMonth
  <2>2. m \in Nat /\ d = DaysPerMonth * m + s /\ s \in Int /\ s < DaysPerMonth
    <3> HIDE DEF d
    <3> QED BY <2>1, Splits, Calendar
  <2> HIDE DEF d, m, s
  <2>3. m * DaysPerMonth \in Nat
    BY <2>2, Calendar
  <2> QED BY <2>1, <2>2, <2>3, Calendar
<1>2. n \in Nat /\ (n = m \/ n = m + 1)
  <2> HIDE DEF m
  <2> QED BY <1>1
<1>3. NextMonthly(now) = SlotOn(e)
  <2>1. NextMonthly(now) = FirstOfMonth(n)
    BY DEF NextMonthly
  <2> HIDE DEF n
  <2> QED BY <1>2, <2>1, MonthSlot
<1>4. /\ e \in Nat /\ n * DaysPerMonth <= e /\ e % DaysPerWeek = FullDay
      /\ e % DaysPerMonth < DaysPerWeek
  <2> HIDE DEF n
  <2> QED BY <1>2, MonthSlot
<1>5. SlotOn(e) \in Nat /\ DayOf(SlotOn(e)) = e /\ SlotOn(e) % Day = FullTime
  <2> HIDE DEF e
  <2> QED BY <1>4, SlotOnDay
<1>6. now <= SlotOn(e)
  <2>1. CASE FirstOfMonth(m) >= now
    <3>1. n = m
      BY <2>1
    <3>2. FirstOfMonth(m) = SlotOn(MonthDay(m)) /\ SlotOn(MonthDay(m)) \in Nat
      <4> HIDE DEF m
      <4> QED BY <1>1, MonthSlot, SlotOnDay
    <3> HIDE DEF n
    <3> QED BY <2>1, <3>1, <3>2
  <2>2. CASE ~(FirstOfMonth(m) >= now)
    <3>1. n = m + 1
      BY <2>2
    <3> HIDE DEF n, e, m, d
    <3>2. n * DaysPerMonth = m * DaysPerMonth + DaysPerMonth /\ m * DaysPerMonth \in Nat
      BY <1>1, <3>1, Calendar
    <3>3. d < e
      BY <1>1, <1>4, <3>2, Calendar
    <3>4. now < SlotOn(e)
      BY <1>4, <3>3, LaterDay DEF d
    <3> QED BY <1>5, <3>4
  <2> QED BY <2>1, <2>2
<1>7. ASSUME NEW u \in now..(SlotOn(e) - 1), OnMonth(u) PROVE FALSE
  <2> DEFINE f == DayOf(u)
             g == f \div DaysPerMonth
  <2>1. f \in Nat /\ u = SlotOn(f) /\ d <= f /\ f < e
    <3> HIDE DEF e
    <3> QED BY <1>4, <1>7, EarlierSlots DEF OnMonth, OnWeekday
  <2>2. f = MonthDay(g)
    <3>1. f % DaysPerWeek = FullDay /\ f % DaysPerMonth < DaysPerWeek
      BY <1>7 DEF OnMonth, OnWeekday
    <3> HIDE DEF f
    <3> QED BY <2>1, <3>1, MonthDayIs
  <2>3. m <= g
    <3> HIDE DEF d, f
    <3> QED BY <1>1, <2>1, MonthsInOrder
  <2>4. g \in Nat
    <3> HIDE DEF f
    <3> QED BY <2>1, Splits, Calendar
  <2> HIDE DEF f, g
  <2>5. g < n
    <3> HIDE DEF n
    <3> SUFFICES ASSUME ~(g < n) PROVE FALSE
      OBVIOUS
    <3>1. g = n \/ MonthDay(n) < MonthDay(g)
      BY <1>2, <2>4, MonthDaysInOrder
    <3> QED BY <1>4, <2>1, <2>2, <3>1
  <2>6. n = m + 1 /\ g = m
    <3> HIDE DEF n, m
    <3> QED BY <1>1, <1>2, <2>3, <2>4, <2>5
  <2>7. ~(FirstOfMonth(m) >= now)
    <3> SUFFICES ASSUME FirstOfMonth(m) >= now PROVE FALSE
      OBVIOUS
    <3>1. n = m
      OBVIOUS
    <3> HIDE DEF n, m
    <3> QED BY <1>1, <2>6, <3>1
  <2>8. FirstOfMonth(m) = u
    <3> HIDE DEF m
    <3> QED BY <1>1, <2>1, <2>2, <2>6, MonthSlot
  <2> QED BY <2>7, <2>8
<1> HIDE DEF e
<1> QED BY <1>3, <1>4, <1>5, <1>6, <1>7 DEF OnMonth, OnWeekday

\* Whatever the cadence, the next full is due at an instant, not before now.
LEMMA NextFullIsTime ==
    ASSUME NEW now \in Nat, lastFull \in Times
    PROVE  NextFullAfter(now) \in Nat /\ now <= NextFullAfter(now)
<1>0. NoTime \notin Nat
  BY FullScheduleAssumption
<1>1. NextWeekly(now) \in Nat /\ now <= NextWeekly(now)
  BY WeeklyIsFirst
<1>2. NextMonthly(now) \in Nat /\ now <= NextMonthly(now)
  BY MonthlyIsFirst
<1>3. NextBiweekly(now, lastFull) \in Nat /\ now <= NextBiweekly(now, lastFull)
  <2>1. CASE lastFull = NoTime
    BY <1>1, <2>1 DEF NextBiweekly
  <2>2. CASE lastFull \in Nat
    BY <2>2, BiweeklyIsFirst
  <2> QED BY <2>1, <2>2 DEF Times
<1> QED BY <1>1, <1>2, <1>3, SchedulerAssumption DEF NextFullAfter, NextFullAt, Cadences

(***************************************************************************)
(* The methods of the machine.                                             *)
(***************************************************************************)
\* A timer only runs in its state: the methods that leave a state early
\* clear its timer, the others do not meet one.
LEMMA MethodsKeepTimers ==
    ASSUME TimersMatchState,
           \/ OnLayoutReady \/ GraceTimerFires \/ QuietTimerFires \/ OnVaultEvent
           \/ \E value \in BOOLEAN : SetDesignated(value)
           \/ SetAuthLost \/ SetAuthRestored \/ SetBlocked \/ ClearBlock
           \/ OnBackupStarted \/ \E kind \in {"inc", "full"} : TriggerBackupNow(kind)
           \/ OnBackupSuccess \/ OnBackupFailure \/ OnBackupBlocked
           \/ Tick \/ StartNow \/ Postpone1h \/ Skip \/ NoticeExpires
           \/ OnUnload
    PROVE  TimersMatchState'
<1>1. CASE OnLayoutReady
  BY <1>1 DEF TimersMatchState, OnLayoutReady, EnterLayout, timers
<1>2. CASE GraceTimerFires
  BY <1>2 DEF TimersMatchState, GraceTimerFires, ResetQuietTimer
<1>3. CASE QuietTimerFires
  BY <1>3 DEF TimersMatchState, QuietTimerFires
<1>4. CASE OnVaultEvent
  BY <1>4 DEF TimersMatchState, OnVaultEvent, ResetQuietTimer
<1>5. CASE \E value \in BOOLEAN : SetDesignated(value)
  BY <1>5 DEF TimersMatchState, SetDesignated, ClearTimers, timers
<1>6. CASE SetAuthLost \/ SetBlocked \/ OnUnload
  BY <1>6 DEF TimersMatchState, SetAuthLost, SetBlocked, OnUnload, ClearTimers,
              timers
<1>7. CASE SetAuthRestored \/ ClearBlock \/ OnBackupStarted
  BY <1>7 DEF TimersMatchState, SetAuthRestored, ClearBlock, OnBackupStarted,
              timers
<1>8. CASE \E kind \in {"inc", "full"} : TriggerBackupNow(kind)
  BY <1>8 DEF TimersMatchState, TriggerBackupNow, ClearTimers
<1>9. CASE OnBackupSuccess \/ OnBackupFailure \/ OnBackupBlocked
  BY <1>9 DEF TimersMatchState, OnBackupSuccess, OnBackupFailure,
              OnBackupBlocked, BackupEnds, timers
<1>10. CASE Tick
  <2>1. state \in {"READY", "ERROR"} /\ UNCHANGED timers
    BY <1>10 DEF Tick, CanTick
  <2>2. graceTimer = NoTime /\ quietTimer = NoTime
    BY <2>1 DEF TimersMatchState
  <2> QED
    BY <2>1, <2>2 DEF TimersMatchState, timers
<1>11. CASE StartNow \/ Postpone1h \/ Skip \/ NoticeExpires
  BY <1>11 DEF TimersMatchState, StartNow, Postpone1h, Skip, NoticeExpires,
               timers
<1> QED
  BY <1>1, <1>2, <1>3, <1>4, <1>5, <1>6, <1>7, <1>8, <1>9, <1>10, <1>11
=============================================================================
