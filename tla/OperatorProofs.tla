-------------------------- MODULE OperatorProofs --------------------------
(***************************************************************************)
(* Facts about the operators that several components are built from.  The  *)
(* arithmetic of LeakyBucket, for every width of an int and every bucket:  *)
(* what wrapping preserves, and what one call of the limiter does to the   *)
(* debt of a bucket.  And Lists, for every sequence, by induction.         *)
(***************************************************************************)
EXTENDS LeakyBucket, Lists, SequenceTheorems, WellFoundedInduction, TLAPS

-----------------------------------------------------------------------------
(* Division with remainder. *)

(* Division leaves a remainder between 0 and the divisor, the code's % on  *)
(* operands that are not negative.                                         *)
LEMMA DivMod ==
    ASSUME NEW a \in Int, NEW m \in Nat \ {0}
    PROVE  /\ a \div m \in Int /\ a % m \in 0 .. (m - 1)
           /\ a = m * (a \div m) + (a % m)
  BY SMT

(* The only multiple of m strictly between -m and m is zero. *)
LEMMA SmallMultiple ==
    ASSUME NEW m \in Nat \ {0}, NEW k \in Int, NEW d \in Int,
           m * k = d, d < m, -m < d
    PROVE  k = 0
<1>1. CASE k >= 1
  <2>1. m * k >= m BY <1>1
  <2> QED BY <2>1
<1>2. CASE k <= -1
  <2>1. m * k <= -m BY <1>2
  <2> QED BY <2>1
<1> QED BY <1>1, <1>2

(* A number between 0 and m is the remainder of any number it is the rest  *)
(* of: remainders are unique.                                              *)
LEMMA ModUnique ==
    ASSUME NEW m \in Nat \ {0}, NEW q \in Int, NEW r \in 0 .. (m - 1)
    PROVE  (m * q + r) % m = r
<1> DEFINE a == m * q + r
<1>1. a \in Int OBVIOUS
<1>2. a = m * (a \div m) + (a % m) /\ a % m \in 0 .. (m - 1) /\ a \div m \in Int
  BY <1>1, DivMod
<1>3. m * (q - a \div m) = (a % m) - r
  BY <1>2
<1>4. q - a \div m = 0
  <2> DEFINE k == q - a \div m
             d == (a % m) - r
  <2>1. k \in Int /\ d \in Int /\ m * k = d /\ d < m /\ -m < d BY <1>2, <1>3
  <2> HIDE DEF k, d
  <2>2. k = 0 BY <2>1, SmallMultiple
  <2> QED BY <2>2 DEF k
<1> QED BY <1>2, <1>4

-----------------------------------------------------------------------------
(* Wrapping. *)

(* A wrapped result is an int. *)
LEMMA WrapType ==
    ASSUME NEW x \in Int
    PROVE  Wrap(x) \in CInt /\ Wrap(x) \in Int
<1>1. x + Half \in Int /\ 2 * Half \in Nat \ {0} BY HalfAssumption
<1>2. (x + Half) % (2 * Half) \in 0 .. (2 * Half - 1) BY <1>1, DivMod
<1> QED BY <1>2, HalfAssumption DEF Wrap, CInt

(* An int is not changed by wrapping. *)
LEMMA WrapId ==
    ASSUME NEW x \in CInt
    PROVE  Wrap(x) = x
<1>1. 2 * Half \in Nat \ {0} /\ x + Half \in 0 .. (2 * Half - 1)
  BY HalfAssumption DEF CInt
<1>2. (2 * Half * 0 + (x + Half)) % (2 * Half) = x + Half
  BY <1>1, ModUnique
<1>3. 2 * Half * 0 + (x + Half) = x + Half BY HalfAssumption DEF CInt
<1> QED BY <1>2, <1>3, HalfAssumption DEF Wrap, CInt

(* Wrapping takes away whole turns of the clock and nothing else. *)
LEMMA WrapCongruent ==
    ASSUME NEW x \in Int
    PROVE  \E k \in Int : Wrap(x) = x - (2 * Half) * k
<1> DEFINE m == 2 * Half
           k == (x + Half) \div m
           r == (x + Half) % m
<1>1. x + Half \in Int /\ m \in Nat \ {0} BY HalfAssumption
<1>2. k \in Int /\ r \in 0 .. (m - 1) /\ x + Half = m * k + r BY <1>1, DivMod
<1>3. Wrap(x) = x - m * k
  <2>1. Wrap(x) = r - Half BY DEF Wrap
  <2> HIDE DEF m, k, r
  <2>2. m * k \in Int BY <1>1, <1>2
  <2> QED BY <2>1, <2>2, <1>2, HalfAssumption
<1> QED BY <1>2, <1>3

(* Numbers that are whole turns apart wrap to the same int. *)
LEMMA WrapPeriodic ==
    ASSUME NEW x \in Int, NEW k \in Int
    PROVE  Wrap(x - (2 * Half) * k) = Wrap(x)
<1> DEFINE m == 2 * Half
           q == (x + Half) \div m
           r == (x + Half) % m
<1>1. x + Half \in Int /\ m \in Nat \ {0} BY HalfAssumption
<1>2. q \in Int /\ r \in 0 .. (m - 1) /\ x + Half = m * q + r BY <1>1, DivMod
<1>3. q - k \in Int BY <1>2
<1>4. (m * (q - k) + r) % m = r BY <1>1, <1>2, <1>3, ModUnique
<1>5. m * (q - k) + r = (x - m * k) + Half
  <2> HIDE DEF m, q, r
  <2>1. m \in Int /\ Half \in Int /\ r \in Int BY <1>1, <1>2, HalfAssumption DEF m
  <2>2. m * (q - k) = m * q - m * k BY <2>1, <1>2
  <2> QED BY <2>1, <2>2, <1>2
<1>6. ((x - m * k) + Half) % m = (x + Half) % m BY <1>4, <1>5
<1> QED BY <1>6 DEF Wrap

(* Subtracting from a value that has already wrapped gives the int that    *)
(* subtracting first would have given.                                     *)
LEMMA WrapMinus ==
    ASSUME NEW x \in Int, NEW y \in Int
    PROVE  Wrap(Wrap(x) - y) = Wrap(x - y)
<1>1. PICK k \in Int : Wrap(x) = x - (2 * Half) * k BY WrapCongruent
<1>2. Wrap(x) - y = (x - y) - (2 * Half) * k BY <1>1, HalfAssumption
<1>3. Wrap((x - y) - (2 * Half) * k) = Wrap(x - y)
  <2>1. x - y \in Int OBVIOUS
  <2> QED BY <2>1, WrapPeriodic
<1> QED BY <1>2, <1>3

(* The difference of two clock readings is the wrapped difference of the   *)
(* uptimes they were taken at, however often the clock came round.         *)
LEMMA WrapDiff ==
    ASSUME NEW x \in Int, NEW y \in Int
    PROVE  Wrap(Wrap(x) - Wrap(y)) = Wrap(x - y)
<1>1. Wrap(y) \in Int BY WrapType
<1>2. Wrap(Wrap(x) - Wrap(y)) = Wrap(x - Wrap(y)) BY <1>1, WrapMinus
<1>3. PICK k \in Int : Wrap(y) = y - (2 * Half) * k BY WrapCongruent
<1>4. x - Wrap(y) = (x - y) - (2 * Half) * (-k)
  <2>1. (2 * Half) * (-k) = -((2 * Half) * k) BY HalfAssumption
  <2>2. (2 * Half) * k \in Int BY HalfAssumption
  <2> QED BY <1>3, <2>1, <2>2
<1>5. Wrap((x - y) - (2 * Half) * (-k)) = Wrap(x - y)
  <2>1. x - y \in Int /\ -k \in Int OBVIOUS
  <2> QED BY <2>1, WrapPeriodic
<1> QED BY <1>2, <1>4, <1>5

-----------------------------------------------------------------------------
(* One call of the limiter.  s is the uptime that lastTime stands for; the *)
(* debt of a bucket is burst * period + s, the instant at which everything *)
(* it holds will have leaked out.                                          *)

(* A pause that the clock shows as a non-negative interval lasted at least *)
(* that long; one that it shows as negative lasted at least Half.          *)
LEMMA IntervalLemma ==
    ASSUME NEW now \in Int, NEW s \in Int, s <= now,
           NEW b \in Level, b.lastTime = Wrap(s)
    PROVE  /\ Interval(b, ClockMs(now)) = Wrap(now - s)
           /\ Interval(b, ClockMs(now)) \in CInt
           /\ Interval(b, ClockMs(now)) < 0 => now - s >= Half
           /\ now - s >= Interval(b, ClockMs(now))
           /\ now - s < Half => Interval(b, ClockMs(now)) = now - s
<1>1. Interval(b, ClockMs(now)) = Wrap(now - s)
  BY WrapDiff DEF Interval, ClockMs
<1>2. Wrap(now - s) \in CInt BY WrapType
<1>3. now - s < Half => Wrap(now - s) = now - s
  BY WrapId, HalfAssumption DEF CInt
<1>4. now - s >= Half => now - s >= Wrap(now - s)
  BY <1>2, HalfAssumption DEF CInt
<1> QED BY <1>1, <1>2, <1>3, <1>4, HalfAssumption DEF CInt

(* Draining keeps the bucket's clock in step with DrainedTo, leaves it     *)
(* less than one period behind now, and never lowers the debt.  It raises  *)
(* the debt only when it was no longer owed, or when the clock has come    *)
(* full circle since s.                                                    *)
LEMMA DrainLemma ==
    ASSUME NEW now \in Int, NEW s \in Int, s <= now,
           NEW b \in Level, b.lastTime = Wrap(s),
           NEW period \in Nat \ {0}, NEW maxBurst \in Nat \ {0},
           maxBurst * period <= Half,
           b.burst \in 0 .. maxBurst
    PROVE  LET d == Drain(b, period, ClockMs(now))
               t == DrainedTo(b, period, now)
           IN  /\ d = [burst |-> d.burst, lastTime |-> Wrap(t)]
               /\ d.burst \in 0 .. maxBurst
               /\ t \in Int /\ t <= now /\ now - period < t /\ s <= t
               /\ b.burst * period + s <= d.burst * period + t
               /\ now - s < 2 * Half =>
                    \/ d.burst * period + t = b.burst * period + s
                    \/ d.burst = 0 /\ t = now
               /\ b.burst = 0 => d.burst = 0
<1> DEFINE c == ClockMs(now)
           v == Interval(b, c)
           q == v \div period
           r == v % period
           d == Drain(b, period, c)
           t == DrainedTo(b, period, now)
<1>1. /\ v \in CInt /\ v = Wrap(now - s)
      /\ v < 0 => now - s >= Half
      /\ now - s >= v
  BY IntervalLemma
<1>2. v \in Int BY <1>1, HalfAssumption DEF CInt
<1>3. q \in Int /\ r \in 0 .. (period - 1) /\ v = period * q + r
  BY <1>2, DivMod
<1>4. b.burst * period <= Half /\ b.burst \in Nat
  <2>1. b.burst * period <= maxBurst * period OBVIOUS
  <2> QED BY <2>1, HalfAssumption
<1>5. CASE Restarts(b, period, c)
  <2>1. d = [burst |-> 0, lastTime |-> Wrap(now)] /\ t = now
    BY <1>5 DEF Drain, DrainedTo, ClockMs
  <2>2. b.burst * period + s <= now
    <3>1. CASE v < 0
      BY <3>1, <1>1, <1>4, HalfAssumption
    <3>2. CASE v >= 0 /\ q > b.burst
      <4> HIDE DEF q, r, v
      <4>1. period * q >= period * b.burst BY <3>2, <1>3, <1>4
      <4>2. v >= b.burst * period BY <4>1, <1>3, <1>4
      <4> QED BY <4>2, <1>1, <1>2, <1>4
    <3> QED BY <3>1, <3>2, <1>2, <1>5 DEF Restarts
  <2> HIDE DEF c, d, t
  <2>3. d.burst = 0 /\ t = now /\ 0 * period = 0 BY <2>1
  <2> QED BY <2>1, <2>2, <2>3 DEF c, d, t
<1>6. CASE ~Restarts(b, period, c)
  <2>1. v >= 0 /\ q <= b.burst
    <3>1. ~(v < 0) /\ ~(q > b.burst) BY <1>6 DEF Restarts
    <3> HIDE DEF q, r, v
    <3> QED BY <3>1, <1>2, <1>3, <1>4
  <2>2. d = [burst |-> b.burst - q, lastTime |-> Wrap(c - r)] /\ t = now - r
    BY <1>6 DEF Drain, DrainedTo
  <2>3. q >= 0
    <3> HIDE DEF q, r, v
    <3>1. q <= -1 => period * q <= -period BY <1>3
    <3> QED BY <3>1, <2>1, <1>3
  <2>4. Wrap(c - r) = Wrap(t)
    <3>1. r \in Int BY <1>3
    <3> QED BY <2>2, <3>1, WrapMinus DEF ClockMs
  <2>5. now - s < 2 * Half => v = now - s
    <3>1. now - s < Half => v = now - s BY <1>1, IntervalLemma
    <3>2. ASSUME now - s >= Half, now - s < 2 * Half PROVE FALSE
      <4>1. Wrap((now - s) - (2 * Half) * 1) = Wrap(now - s)
        BY WrapPeriodic
      <4>2. (now - s) - (2 * Half) * 1 \in CInt
        BY <3>2, HalfAssumption DEF CInt
      <4>3. v = (now - s) - (2 * Half) * 1 BY <4>1, <4>2, WrapId, <1>1
      <4> QED BY <4>3, <2>1, <3>2, HalfAssumption
    <3> QED BY <3>1, <3>2, HalfAssumption
  <2> HIDE DEF c, d, t, q, r, v
  <2>6. (b.burst - q) * period = b.burst * period - period * q
    BY <1>3, <1>4
  <2>7. b.burst * period \in Int /\ period * q \in Int BY <1>3, <1>4
  <2>8. d.burst = b.burst - q BY <2>2
  <2>9. d.burst * period + t = b.burst * period + (now - v)
    BY <2>2, <2>6, <2>7, <2>8, <1>2, <1>3
  <2>10. b.burst - q \in 0 .. maxBurst BY <2>1, <2>3, <1>3, <1>4
  <2>11. now - v >= s BY <1>1, <1>2
  <2>12. t \in Int /\ t <= now /\ now - period < t /\ s <= t
    <3>1. r <= v
      <4>1. period * q >= 0 BY <2>3, <1>3
      <4> QED BY <4>1, <1>3
    <3> QED BY <2>2, <2>11, <3>1, <1>2, <1>3
  <2>13. b.burst * period + s <= d.burst * period + t
    BY <2>9, <2>11, <2>7, <1>2
  <2>14. now - s < 2 * Half => d.burst * period + t = b.burst * period + s
    BY <2>5, <2>9, <2>7, <1>2
  <2>15. b.burst = 0 => d.burst = 0 BY <2>8, <2>1, <2>3, <1>3
  <2>16. d = [burst |-> d.burst, lastTime |-> Wrap(t)] BY <2>2, <2>4
  <2> QED BY <2>8, <2>10, <2>12, <2>13, <2>14, <2>15, <2>16 DEF c, d, t
<1> QED BY <1>5, <1>6

(* The request itself: the limiter leaves the drained bucket, one fuller   *)
(* when the request passes.                                                *)
LEMMA RateLimitLemma ==
    ASSUME NEW now \in Int, NEW s \in Int, s <= now,
           NEW b \in Level, b.lastTime = Wrap(s),
           NEW period \in Nat \ {0}, NEW maxBurst \in Nat \ {0},
           maxBurst * period <= Half,
           b.burst \in 0 .. maxBurst
    PROVE  LET l == RateLimit(b, maxBurst, period, ClockMs(now))
               d == Drain(b, period, ClockMs(now))
               over == OverLimit(b, maxBurst, period, ClockMs(now))
           IN  /\ l = [burst |-> l.burst,
                       lastTime |-> Wrap(DrainedTo(b, period, now))]
               /\ l.burst \in 0 .. maxBurst
               /\ over => l.burst = maxBurst /\ d.burst = maxBurst
               /\ ~over => l.burst = d.burst + 1 /\ d.burst < maxBurst
<1> DEFINE l == RateLimit(b, maxBurst, period, ClockMs(now))
           d == Drain(b, period, ClockMs(now))
           t == DrainedTo(b, period, now)
<1>1. d = [burst |-> d.burst, lastTime |-> Wrap(t)] /\ d.burst \in 0 .. maxBurst
  BY DrainLemma
<1>2. OverLimit(b, maxBurst, period, ClockMs(now)) <=> d.burst >= maxBurst
  BY DEF OverLimit
<1>3. l = IF d.burst < maxBurst THEN [d EXCEPT !.burst = @ + 1] ELSE d
  BY DEF RateLimit
<1> HIDE DEF l, d, t
<1>4. CASE d.burst < maxBurst
  <2>1. l = [burst |-> d.burst + 1, lastTime |-> Wrap(t)] BY <1>1, <1>3, <1>4
  <2> QED BY <2>1, <1>1, <1>2, <1>4 DEF l, d, t
<1>5. CASE ~(d.burst < maxBurst)
  <2>1. l = d /\ d.burst = maxBurst BY <1>1, <1>3, <1>5
  <2> QED BY <2>1, <1>1, <1>2 DEF l, d, t
<1> QED BY <1>4, <1>5

(* k whole periods that fit in n are at most n \div period.                *)
LEMMA DivBound ==
    ASSUME NEW n \in Int, NEW k \in Int, NEW period \in Nat \ {0},
           k * period <= n
    PROVE  k <= n \div period
<1> DEFINE q == n \div period
           r == n % period
<1>1. q \in Int /\ r \in 0 .. (period - 1) /\ n = period * q + r BY DivMod
<1> HIDE DEF q, r
<1>2. ASSUME k >= q + 1 PROVE FALSE
  <2>1. (k - q) * period >= period BY <1>1, <1>2
  <2>2. (k - q) * period = k * period - period * q BY <1>1
  <2> QED BY <1>1, <2>1, <2>2
<1>3. k <= q BY <1>1, <1>2
<1> QED BY <1>3 DEF q

(* Whatever a bucket holds, also more than the burst, a call of the        *)
(* limiter brings its clock within a period of now; a request that passes  *)
(* is one within the burst; and once a bucket is within the burst, its     *)
(* debt grows by a period with every request that passes and never falls.  *)
LEMMA LimitLemma ==
    ASSUME NEW now \in Nat, NEW s \in 0 .. now,
           NEW b \in Level, b.lastTime = Wrap(s), b.burst \in Nat,
           NEW period \in Nat \ {0}, NEW maxBurst \in Nat \ {0},
           maxBurst * period <= Half
    PROVE  LET l == RateLimit(b, maxBurst, period, ClockMs(now))
               t == DrainedTo(b, period, now)
               over == OverLimit(b, maxBurst, period, ClockMs(now))
           IN  /\ l = [burst |-> l.burst, lastTime |-> Wrap(t)]
               /\ t \in s .. now /\ now - period < t
               /\ l.burst \in Nat
               /\ over => l.burst <= b.burst
               /\ ~over => l.burst \in 1 .. maxBurst
               /\ b.burst <= maxBurst =>
                    /\ l.burst <= maxBurst
                    /\ l.burst * period + t >=
                         b.burst * period + s + (IF over THEN 0 ELSE period)
<1> DEFINE v == Interval(b, ClockMs(now))
           q == v \div period
           r == v % period
           d == Drain(b, period, ClockMs(now))
           l == RateLimit(b, maxBurst, period, ClockMs(now))
           t == DrainedTo(b, period, now)
           over == OverLimit(b, maxBurst, period, ClockMs(now))
<1>1. v \in Int /\ now - s >= v
  <2>1. v \in CInt /\ now - s >= v BY IntervalLemma
  <2> QED BY <2>1, HalfAssumption DEF CInt
<1>2. q \in Int /\ r \in 0 .. (period - 1) /\ v = period * q + r
  BY <1>1, DivMod
<1>3. d = [burst |-> d.burst, lastTime |-> Wrap(t)] /\ d.burst \in 0 .. b.burst
      /\ t \in s .. now /\ now - period < t
  <2>1. CASE Restarts(b, period, ClockMs(now))
    <3>1. d = [burst |-> 0, lastTime |-> Wrap(now)] /\ t = now
      BY <2>1 DEF Drain, DrainedTo, ClockMs
    <3> HIDE DEF d, t
    <3> QED BY <3>1
  <2>2. CASE ~Restarts(b, period, ClockMs(now))
    <3>1. d = [burst |-> b.burst - q, lastTime |-> Wrap(ClockMs(now) - r)] /\ t = now - r
      BY <2>2 DEF Drain, DrainedTo
    <3>2. ~(v < 0) /\ ~(q > b.burst) BY <2>2 DEF Restarts
    <3>3. Wrap(ClockMs(now) - r) = Wrap(now - r)
      <4>1. r \in Int BY <1>2
      <4> HIDE DEF r
      <4> QED BY <4>1, WrapMinus DEF ClockMs
    <3> HIDE DEF d, t, q, r, v
    <3>4. q >= 0
      <4>1. q <= -1 => period * q <= -period BY <1>2
      <4> QED BY <4>1, <3>2, <1>1, <1>2
    <3>5. r <= v
      <4>1. period * q >= 0 BY <3>4, <1>2
      <4> QED BY <4>1, <1>2
    <3>6. b.burst - q \in 0 .. b.burst BY <3>2, <3>4, <1>2
    <3>7. now - r \in s .. now /\ now - period < now - r BY <3>5, <1>1, <1>2
    <3> QED BY <3>1, <3>3, <3>6, <3>7
  <2> QED BY <2>1, <2>2
<1>4. over <=> d.burst >= maxBurst BY DEF OverLimit
<1>5. l = IF d.burst < maxBurst THEN [d EXCEPT !.burst = @ + 1] ELSE d
  BY DEF RateLimit
<1>6. ASSUME b.burst <= maxBurst
      PROVE  d.burst * period + t >= b.burst * period + s
  <2>1. b.burst \in 0 .. maxBurst BY <1>6
  <2> HIDE DEF d, t
  <2> QED BY <2>1, DrainLemma DEF d, t
<1> HIDE DEF d, l, t, over
<1>7. l.burst = (IF over THEN d.burst ELSE d.burst + 1) /\ l.lastTime = Wrap(t)
      /\ l = [burst |-> l.burst, lastTime |-> Wrap(t)]
  <2>1. CASE over
    <3>1. l = d BY <2>1, <1>3, <1>4, <1>5
    <3> QED BY <2>1, <3>1, <1>3
  <2>2. CASE ~over
    <3>1. l = [burst |-> d.burst + 1, lastTime |-> Wrap(t)] BY <2>2, <1>3, <1>4, <1>5
    <3> QED BY <2>2, <3>1
  <2> QED BY <2>1, <2>2
<1>8. l.burst \in Nat /\ (over => l.burst <= b.burst) /\ (~over => l.burst \in 1 .. maxBurst)
  BY <1>3, <1>4, <1>7
<1>9. ASSUME b.burst <= maxBurst
      PROVE  /\ l.burst <= maxBurst
             /\ l.burst * period + t >= b.burst * period + s + (IF over THEN 0 ELSE period)
  <2>1. l.burst <= maxBurst BY <1>8, <1>9
  <2>2. (d.burst + 1) * period = d.burst * period + period BY <1>3
  <2>3. d.burst * period \in Int /\ b.burst * period \in Int /\ t \in Int BY <1>3
  <2>4. d.burst * period + t >= b.burst * period + s BY <1>6, <1>9
  <2>5. CASE over BY <2>1, <2>3, <2>4, <2>5, <1>7
  <2>6. CASE ~over BY <2>1, <2>2, <2>3, <2>4, <2>6, <1>7
  <2> QED BY <2>5, <2>6
<1> QED BY <1>3, <1>7, <1>8, <1>9 DEF l, t, over

-----------------------------------------------------------------------------
(* The table.  Entries in use come first, and belong to different          *)
(* addresses.                                                              *)
WellFormed(t) ==
    /\ \A i, j \in DOMAIN t : i < j /\ t[j].used => t[i].used
    /\ \A i, j \in DOMAIN t :
          t[i].used /\ t[j].used /\ t[i].ip = t[j].ip => i = j

(* Filing addr in the entry BucketFor chooses keeps the table well-formed: *)
(* the scan has seen every entry that addr could already own.              *)
LEMMA FilingLemma ==
    ASSUME NEW n \in Nat, NEW S, NEW t \in [1 .. n -> S], WellFormed(t),
           NEW addr, NEW i \in 1 .. n, NEW l, Selects(t, i, addr)
    PROVE  WellFormed([t EXCEPT ![i] = [used |-> TRUE, ip |-> addr, level |-> l]])
<1> DEFINE u == [t EXCEPT ![i] = [used |-> TRUE, ip |-> addr, level |-> l]]
<1>1. /\ DOMAIN u = 1 .. n /\ DOMAIN t = 1 .. n
      /\ u[i].used /\ u[i].ip = addr
      /\ \A j \in 1 .. n : j # i => u[j] = t[j]
  OBVIOUS
<1>2. \A j \in 1 .. n : j < i => t[j].used /\ t[j].ip # addr
  <2>1. CASE Hits(t, i, addr) \/ Claims(t, i, addr)
    BY <2>1 DEF Hits, Claims, Passed
  <2>2. CASE Evicts(t, i, addr) BY <2>2 DEF Evicts
  <2> QED BY <2>1, <2>2 DEF Selects
<1>3. \A j \in 1 .. n : i < j /\ t[j].used => t[j].ip # addr
  <2>1. CASE Hits(t, i, addr) BY <2>1 DEF Hits, WellFormed
  <2>2. CASE Claims(t, i, addr) BY <2>2 DEF Claims, WellFormed
  <2>3. CASE Evicts(t, i, addr) BY <2>3 DEF Evicts
  <2> QED BY <2>1, <2>2, <2>3 DEF Selects
<1> HIDE DEF u
<1>4. ASSUME NEW j \in 1 .. n, NEW k \in 1 .. n, j < k, u[k].used
      PROVE  u[j].used
  <2>1. CASE j = i BY <2>1, <1>1
  <2>2. CASE j # i /\ k = i BY <2>2, <1>1, <1>2, <1>4
  <2>3. CASE j # i /\ k # i BY <2>3, <1>1, <1>4 DEF WellFormed
  <2> QED BY <2>1, <2>2, <2>3
<1>5. ASSUME NEW j \in 1 .. n, u[j].used, u[j].ip = addr
      PROVE  j = i
  <2>1. j < i \/ j = i \/ i < j OBVIOUS
  <2> QED BY <2>1, <1>1, <1>2, <1>3, <1>5
<1>6. ASSUME NEW j \in 1 .. n, NEW k \in 1 .. n, u[j].used, u[k].used, u[j].ip = u[k].ip
      PROVE  j = k
  <2>1. CASE j = i \/ k = i BY <2>1, <1>1, <1>5, <1>6
  <2>2. CASE j # i /\ k # i BY <2>2, <1>1, <1>6 DEF WellFormed
  <2> QED BY <2>1, <2>2
<1>7. WellFormed(u) BY <1>1, <1>4, <1>6 DEF WellFormed
<1> QED BY <1>7 DEF u

(* An address that has an entry is given that one. *)
LEMMA OwnEntry ==
    ASSUME NEW n \in Nat, NEW t, DOMAIN t = 1 .. n, WellFormed(t),
           NEW addr, NEW i \in 1 .. n, Selects(t, i, addr),
           NEW j \in 1 .. n, t[j].used, t[j].ip = addr
    PROVE  j = i /\ Hits(t, i, addr)
<1>1. ~Evicts(t, i, addr) BY DEF Evicts
<1>2. ~Claims(t, i, addr) BY DEF Claims, Passed, WellFormed
<1>3. Hits(t, i, addr) BY <1>1, <1>2 DEF Selects
<1> QED BY <1>3 DEF Hits, WellFormed

-----------------------------------------------------------------------------
(* Induction.  A set of numbers or of sequences takes the place of the     *)
(* predicate of the library's theorems, and its least counterexample that  *)
(* of the induction step.                                                  *)

(* There is a least number in a set of numbers. *)
LEMMA LeastExists ==
    ASSUME NEW Out \in SUBSET Nat, Out # {}
    PROVE  \E x \in Out : \A y \in Out : x <= y
<1> DEFINE Less == OpToRel(<, Nat)
<1>1. \A m, n \in Nat : <<m, n>> \in Less <=> m < n BY DEF OpToRel
<1>2. PICK x \in Out : \A y \in Out : ~(<<y, x>> \in Less)
  <2>1. IsWellFoundedOn(Less, Nat) BY NatLessThanWellFounded
  <2> HIDE DEF Less
  <2> QED BY <2>1, WFMin
<1> HIDE DEF Less
<1>3. ASSUME NEW y \in Out PROVE x <= y
  <2>1. x \in Nat /\ y \in Nat /\ ~(<<y, x>> \in Less) BY <1>2
  <2>2. ~(y < x) BY <1>1, <2>1
  <2> QED BY <2>1, <2>2
<1> QED BY <1>2, <1>3

(* A set that has 0, and with a number the next one, has them all. *)
LEMMA NatSetInduction ==
    ASSUME NEW T, 0 \in T, \A n \in Nat : n \in T => n + 1 \in T
    PROVE  \A n \in Nat : n \in T
<1> DEFINE Out == {n \in Nat : n \notin T}
<1> SUFFICES ASSUME Out # {} PROVE FALSE OBVIOUS
<1>1. PICK x \in Out : \A y \in Out : x <= y
  <2>1. Out \in SUBSET Nat OBVIOUS
  <2> HIDE DEF Out
  <2> QED BY <2>1, LeastExists
<1>2. x \in Nat /\ x \notin T /\ x # 0 BY <1>1
<1>3. x - 1 \in Nat /\ (x - 1) + 1 = x BY <1>2
<1>4. x - 1 \in T BY <1>1, <1>3
<1> QED BY <1>2, <1>3, <1>4

(* Induction over sequences, likewise. *)
LEMMA SeqSetInduction ==
    ASSUME NEW S, NEW T, <<>> \in T,
           \A s \in Seq(S), e \in S : s \in T => Append(s, e) \in T
    PROVE  \A s \in Seq(S) : s \in T
<1> DEFINE Good == {n \in Nat : \A s \in Seq(S) : Len(s) = n => s \in T}
<1>1. 0 \in Good
  <2>1. ASSUME NEW s \in Seq(S), Len(s) = 0 PROVE s \in T
    <3>1. s = <<>> BY <2>1, EmptySeq
    <3> QED BY <3>1
  <2> QED BY <2>1
<1>2. ASSUME NEW n \in Nat, n \in Good PROVE n + 1 \in Good
  <2>1. ASSUME NEW s \in Seq(S), Len(s) = n + 1 PROVE s \in T
    <3>1. s # <<>> BY <2>1, EmptySeq
    <3>2. PICK t \in Seq(S), e \in S : s = Append(t, e) BY <3>1, SequenceEmptyOrAppend
    <3>3. Len(t) = n BY <2>1, <3>2, AppendProperties, LenProperties
    <3>4. t \in T BY <1>2, <3>3
    <3> QED BY <3>2, <3>4
  <2> QED BY <2>1
<1>3. \A n \in Nat : n \in Good
  <2> HIDE DEF Good
  <2> QED BY <1>1, <1>2, NatSetInduction
<1> QED BY <1>3, LenProperties

(* A function defined by recursion up to a number exists. *)
IsRun(N, S, f0, D, f) ==
    /\ f \in [0 .. N -> S] /\ f[0] = f0
    /\ \A n \in 1 .. N : f[n] = D[n][f[n - 1]]

LEMMA RecursionExists ==
    ASSUME NEW N \in Nat, NEW S, NEW f0 \in S, NEW D,
           \A n \in 1 .. N, x \in S : D[n][x] \in S
    PROVE  \E f : IsRun(N, S, f0, D, f)
<1> DEFINE Is(m, f) == f[0] = f0 /\ \A n \in 1 .. m : f[n] = D[n][f[n - 1]]
           Good == {m \in Nat : m <= N => \E f \in [0 .. m -> S] : Is(m, f)}
<1>1. 0 \in Good
  <2>1. [x \in 0 .. 0 |-> f0] \in [0 .. 0 -> S] /\ Is(0, [x \in 0 .. 0 |-> f0]) OBVIOUS
  <2> QED BY <2>1
<1>2. ASSUME NEW m \in Nat, m \in Good PROVE m + 1 \in Good
  <2> SUFFICES ASSUME m + 1 <= N PROVE \E f \in [0 .. (m + 1) -> S] : Is(m + 1, f) OBVIOUS
  <2>1. PICK g \in [0 .. m -> S] : Is(m, g) BY <1>2
  <2> DEFINE last == D[m + 1][g[m]]
             f == [x \in 0 .. (m + 1) |-> IF x = m + 1 THEN last ELSE g[x]]
  <2>2. last \in S OBVIOUS
  <2>3. f \in [0 .. (m + 1) -> S]
    <3> HIDE DEF last
    <3> QED BY <2>2
  <2>4. \A n \in 1 .. (m + 1) : f[n] = D[n][f[n - 1]]
    <3> SUFFICES ASSUME NEW n \in 1 .. (m + 1) PROVE f[n] = D[n][f[n - 1]] OBVIOUS
    <3>1. CASE n = m + 1
      <4>1. f[n] = last /\ f[n - 1] = g[m] BY <3>1
      <4> QED BY <3>1, <4>1
    <3>2. CASE n # m + 1
      <4>1. n \in 1 .. m /\ f[n] = g[n] /\ f[n - 1] = g[n - 1] BY <3>2
      <4> QED BY <2>1, <4>1
    <3> QED BY <3>1, <3>2
  <2>5. f[0] = f0 BY <2>1
  <2> HIDE DEF f
  <2> QED BY <2>3, <2>4, <2>5
<1>3. N \in Good
  <2> HIDE DEF Good
  <2> QED BY <1>1, <1>2, NatSetInduction
<1> QED BY <1>3 DEF IsRun

-----------------------------------------------------------------------------
(* The steps by which Filter comes to its result. *)
FilterSteps(s, T, F) ==
    /\ F[0] = <<>>
    /\ \A n \in 1 .. Len(s) :
          F[n] = IF s[n] \in T THEN Append(F[n - 1], s[n]) ELSE F[n - 1]

LEMMA FilterUnfold ==
    ASSUME NEW S, NEW s \in Seq(S), NEW T
    PROVE  \E F \in [0 .. Len(s) -> Seq(S)] :
              FilterSteps(s, T, F) /\ Filter(s, T) = F[Len(s)]
<1> DEFINE N == Len(s)
           D == [n \in 1 .. N |-> [x \in Seq(S) |-> IF s[n] \in T THEN Append(x, s[n]) ELSE x]]
           Body(g, n) == IF n = 0 THEN <<>>
                         ELSE IF s[n] \in T THEN Append(g[n - 1], s[n]) ELSE g[n - 1]
           Fcn(g) == [n \in 0 .. N |-> Body(g, n)]
           Upto == CHOOSE g : g = Fcn(g)
<1>1. N \in Nat /\ \A n \in 1 .. N : s[n] \in S BY LenProperties
<1>2. \A n \in 1 .. N, x \in Seq(S) : D[n][x] \in Seq(S) BY <1>1, AppendProperties
<1>3. \E f \in [0 .. N -> Seq(S)] :
         f[0] = <<>> /\ \A n \in 1 .. N : f[n] = D[n][f[n - 1]]
  <2> DEFINE Q == Seq(S)
             none == <<>>
  <2>1. none \in Q OBVIOUS
  <2>2. N \in Nat /\ \A n \in 1 .. N, x \in Q : D[n][x] \in Q BY <1>1, <1>2
  <2>3. \E f : IsRun(N, Q, none, D, f)
    <3> HIDE DEF D, N, Q, none
    <3> QED BY <2>1, <2>2, RecursionExists
  <2> QED BY <2>3 DEF IsRun
<1>4. PICK f \in [0 .. N -> Seq(S)] :
         f[0] = <<>> /\ \A n \in 1 .. N : f[n] = D[n][f[n - 1]]
  BY <1>3
<1>5. f = Fcn(f)
  <2>1. ASSUME NEW n \in 0 .. N PROVE f[n] = Body(f, n)
    <3>1. CASE n = 0 BY <1>4, <3>1
    <3>2. CASE n # 0
      <4>1. n \in 1 .. N /\ n - 1 \in 0 .. N BY <1>1, <3>2
      <4>2. f[n - 1] \in Seq(S) BY <4>1
      <4> QED BY <1>4, <3>2, <4>1, <4>2
    <3> QED BY <3>1, <3>2
  <2> HIDE DEF Body
  <2> QED BY <2>1
<1>6. Upto = Fcn(Upto)
  <2> HIDE DEF Fcn
  <2> QED BY <1>5
<1>7. Filter(s, T) = Upto[N] BY DEF Filter
<1>8. FilterSteps(s, T, Upto)
  <2> HIDE DEF Upto
  <2>1. Upto[0] = <<>> BY <1>1, <1>6
  <2>2. ASSUME NEW n \in 1 .. N
        PROVE  Upto[n] = IF s[n] \in T THEN Append(Upto[n - 1], s[n]) ELSE Upto[n - 1]
    <3>1. n \in 0 .. N /\ n # 0 BY <1>1
    <3>2. Upto[n] = Fcn(Upto)[n] BY <1>6
    <3> HIDE DEF N
    <3> QED BY <3>1, <3>2
  <2> QED BY <2>1, <2>2 DEF FilterSteps
<1>9. Upto \in [0 .. N -> Seq(S)]
  <2> DEFINE Good == {n \in Nat : n <= N => Upto[n] \in Seq(S)}
  <2> HIDE DEF Upto
  <2>1. 0 \in Good
    <3>1. <<>> \in Seq(S) OBVIOUS
    <3> QED BY <1>8, <3>1 DEF FilterSteps
  <2>2. ASSUME NEW n \in Nat, n \in Good PROVE n + 1 \in Good
    <3> SUFFICES ASSUME n + 1 <= N PROVE Upto[n + 1] \in Seq(S) OBVIOUS
    <3>1. Upto[n] \in Seq(S) /\ n + 1 \in 1 .. N /\ s[n + 1] \in S BY <1>1, <2>2
    <3>2. Upto[n + 1] = IF s[n + 1] \in T THEN Append(Upto[n], s[n + 1]) ELSE Upto[n]
      BY <1>8, <3>1 DEF FilterSteps
    <3> QED BY <3>1, <3>2, AppendProperties
  <2>3. \A n \in Nat : n \in Good
    <3> HIDE DEF Good
    <3> QED BY <2>1, <2>2, NatSetInduction
  <2>4. \A n \in 0 .. N : Upto[n] \in Seq(S) BY <1>1, <2>3
  <2>5. Upto = [n \in 0 .. N |-> Upto[n]]
    <3>1. Fcn(Upto) = [n \in 0 .. N |-> Fcn(Upto)[n]] OBVIOUS
    <3> QED BY <1>6, <3>1
  <2> QED BY <2>4, <2>5
<1> HIDE DEF Upto
<1> QED BY <1>7, <1>8, <1>9

(* Two runs of the recursion agree as far as their sequences do. *)
LEMMA FilterSame ==
    ASSUME NEW s, NEW t, NEW T, NEW F, NEW G, NEW N \in Nat, N <= Len(s), N <= Len(t),
           Len(s) \in Nat, Len(t) \in Nat, \A n \in 1 .. N : s[n] = t[n],
           FilterSteps(s, T, F), FilterSteps(t, T, G)
    PROVE  F[N] = G[N]
<1> DEFINE Good == {n \in Nat : n <= N => F[n] = G[n]}
<1>1. 0 \in Good BY DEF FilterSteps
<1>2. ASSUME NEW n \in Nat, n \in Good PROVE n + 1 \in Good
  <2> SUFFICES ASSUME n + 1 <= N PROVE F[n + 1] = G[n + 1] OBVIOUS
  <2>1. F[n] = G[n] /\ n + 1 \in 1 .. N /\ (n + 1) - 1 = n BY <1>2
  <2>2. n + 1 \in 1 .. Len(s) /\ n + 1 \in 1 .. Len(t) /\ s[n + 1] = t[n + 1] BY <2>1
  <2> QED BY <2>1, <2>2 DEF FilterSteps
<1>3. N \in Good
  <2> HIDE DEF Good
  <2> QED BY <1>1, <1>2, NatSetInduction
<1> QED BY <1>3

(* The three laws of Filter. *)
LEMMA FilterType ==
    ASSUME NEW S, NEW s \in Seq(S), NEW T PROVE Filter(s, T) \in Seq(S)
  BY FilterUnfold, LenProperties

LEMMA FilterEmpty == ASSUME NEW T PROVE Filter(<<>>, T) = <<>>
<1>1. <<>> \in Seq({}) /\ Len(<<>>) = 0 OBVIOUS
<1>2. PICK F \in [0 .. 0 -> Seq({})] : FilterSteps(<<>>, T, F) /\ Filter(<<>>, T) = F[0]
  <2> DEFINE e == <<>>
  <2>1. e \in Seq({}) /\ Len(e) = 0 BY <1>1
  <2> HIDE DEF e
  <2>2. \E F \in [0 .. Len(e) -> Seq({})] : FilterSteps(e, T, F) /\ Filter(e, T) = F[Len(e)]
    BY <2>1, FilterUnfold
  <2> QED BY <2>1, <2>2 DEF e
<1> QED BY <1>2 DEF FilterSteps

LEMMA FilterAppend ==
    ASSUME NEW S, NEW s \in Seq(S), NEW e \in S, NEW T
    PROVE  Filter(Append(s, e), T) = IF e \in T THEN Append(Filter(s, T), e) ELSE Filter(s, T)
<1> DEFINE t == Append(s, e)
           N == Len(s)
<1>1. /\ t \in Seq(S) /\ Len(t) = N + 1 /\ N \in Nat
      /\ \A n \in 1 .. N : t[n] = s[n]
      /\ t[N + 1] = e
  BY AppendProperties, LenProperties
<1>2. PICK F : FilterSteps(s, T, F) /\ Filter(s, T) = F[N] BY FilterUnfold
<1>3. PICK G : FilterSteps(t, T, G) /\ Filter(t, T) = G[N + 1]
  <2> HIDE DEF t
  <2> QED BY <1>1, FilterUnfold
<1>4. F[N] = G[N]
  <2> HIDE DEF t, N
  <2>1. N <= Len(s) /\ Len(s) \in Nat BY <1>1 DEF N
  <2> QED BY <1>1, <1>2, <1>3, <2>1, FilterSame
<1>5. G[N + 1] = IF e \in T THEN Append(G[N], e) ELSE G[N]
  <2> HIDE DEF t, N
  <2>1. N + 1 \in 1 .. Len(t) /\ (N + 1) - 1 = N BY <1>1
  <2> QED BY <1>1, <1>3, <2>1 DEF FilterSteps
<1> QED BY <1>2, <1>3, <1>4, <1>5

(* What is left is of the sequence and of the set, and is shorter if       *)
(* anything had to go.                                                     *)
LEMMA FilterElements ==
    ASSUME NEW S, NEW s \in Seq(S), NEW T
    PROVE  /\ \A n \in 1 .. Len(Filter(s, T)) :
                 Filter(s, T)[n] \in T /\ \E m \in 1 .. Len(s) : s[m] = Filter(s, T)[n]
           /\ Len(Filter(s, T)) <= Len(s)
           /\ (\E m \in 1 .. Len(s) : s[m] \notin T) => Len(Filter(s, T)) < Len(s)
<1> DEFINE Of(r, q) ==
             /\ \A n \in 1 .. Len(q) : q[n] \in T /\ \E m \in 1 .. Len(r) : r[m] = q[n]
             /\ Len(q) <= Len(r)
             /\ (\E m \in 1 .. Len(r) : r[m] \notin T) => Len(q) < Len(r)
           Good == {r \in Seq(S) : Of(r, Filter(r, T))}
           none == <<>>
<1>1. none \in Good
  <2>1. none \in Seq(S) /\ Len(none) = 0 /\ Filter(none, T) = none BY FilterEmpty
  <2> HIDE DEF none
  <2> QED BY <2>1
<1>2. ASSUME NEW r \in Seq(S), NEW e \in S, r \in Good PROVE Append(r, e) \in Good
  <2> DEFINE q == Filter(r, T)
             t == Append(r, e)
             p == Filter(t, T)
  <2>1. q \in Seq(S) /\ Len(q) \in Nat /\ Len(r) \in Nat BY FilterType, LenProperties
  <2>2. /\ t \in Seq(S) /\ Len(t) = Len(r) + 1 /\ t[Len(r) + 1] = e
        /\ \A n \in 1 .. Len(r) : t[n] = r[n]
    BY AppendProperties
  <2>3. Of(r, q) BY <1>2
  <2>4. p = IF e \in T THEN Append(q, e) ELSE q BY FilterAppend
  <2>5. /\ Len(Append(q, e)) = Len(q) + 1 /\ Append(q, e)[Len(q) + 1] = e
        /\ \A n \in 1 .. Len(q) : Append(q, e)[n] = q[n]
    BY <2>1, AppendProperties
  <2> HIDE DEF q, t, p
  <2>6. ASSUME NEW n \in 1 .. Len(q) PROVE q[n] \in T /\ \E m \in 1 .. Len(t) : t[m] = q[n]
    <3>1. q[n] \in T BY <2>3
    <3>2. PICK m \in 1 .. Len(r) : r[m] = q[n] BY <2>3
    <3>3. m \in 1 .. Len(t) /\ t[m] = q[n] BY <2>1, <2>2, <3>2
    <3> QED BY <3>1, <3>3
  <2>7. CASE e \in T
    <3>1. p = Append(q, e) /\ Len(p) = Len(q) + 1 BY <2>4, <2>5, <2>7
    <3>2. ASSUME NEW n \in 1 .. Len(p)
          PROVE  p[n] \in T /\ \E m \in 1 .. Len(t) : t[m] = p[n]
      <4>1. CASE n = Len(q) + 1
        <5>1. p[n] = e /\ Len(r) + 1 \in 1 .. Len(t) BY <2>1, <2>2, <2>5, <3>1, <4>1
        <5> QED BY <5>1, <2>2, <2>7
      <4>2. CASE n # Len(q) + 1
        <5>1. n \in 1 .. Len(q) /\ p[n] = q[n] BY <2>1, <2>5, <3>1, <4>2
        <5> QED BY <5>1, <2>6
      <4> QED BY <4>1, <4>2
    <3>3. (\E m \in 1 .. Len(t) : t[m] \notin T) => Len(p) < Len(t)
      <4> SUFFICES ASSUME NEW m \in 1 .. Len(t), t[m] \notin T PROVE Len(p) < Len(t) OBVIOUS
      <4>1. m \in 1 .. Len(r) /\ r[m] \notin T BY <2>1, <2>2, <2>7
      <4>2. Len(q) < Len(r) BY <4>1, <2>3
      <4> QED BY <4>2, <2>1, <2>2, <3>1
    <3>4. Len(p) <= Len(t) BY <2>1, <2>2, <2>3, <3>1
    <3>5. Of(t, p) BY <3>2, <3>3, <3>4
    <3> QED BY <3>5, <2>2 DEF t, p
  <2>8. CASE e \notin T
    <3>1. p = q BY <2>4, <2>8
    <3>2. Len(q) < Len(t) BY <2>1, <2>2, <2>3
    <3>3. Of(t, q) BY <2>6, <3>2, <2>1, <2>2
    <3> QED BY <3>1, <3>3, <2>2 DEF t, p
  <2> QED BY <2>7, <2>8
<1>3. \A r \in Seq(S) : r \in Good
  <2> DEFINE e == <<>>
  <2>1. e \in Good BY <1>1
  <2> HIDE DEF Good, e
  <2>2. e \in Good /\ e = <<>> BY <2>1 DEF e
  <2> QED BY <1>2, <2>2, SeqSetInduction
<1> QED BY <1>3

(* To filter twice is to filter once, with what is in both sets.           *)
LEMMA FilterFilter ==
    ASSUME NEW S, NEW s \in Seq(S), NEW A, NEW B
    PROVE  Filter(Filter(s, A), B) = Filter(s, A \cap B)
<1> DEFINE Good == {r \in Seq(S) : Filter(Filter(r, A), B) = Filter(r, A \cap B)}
<1>1. <<>> \in Good
  <2>1. <<>> \in Seq(S) OBVIOUS
  <2>2. Filter(<<>>, A) = <<>> /\ Filter(<<>>, B) = <<>> /\ Filter(<<>>, A \cap B) = <<>>
    BY FilterEmpty
  <2> QED BY <2>1, <2>2
<1>2. ASSUME NEW r \in Seq(S), NEW e \in S, r \in Good PROVE Append(r, e) \in Good
  <2> DEFINE q == Filter(r, A)
             t == Append(r, e)
  <2>1. q \in Seq(S) /\ t \in Seq(S) BY FilterType, AppendProperties
  <2>2. Filter(q, B) = Filter(r, A \cap B) BY <1>2
  <2>3. Filter(t, A) = IF e \in A THEN Append(q, e) ELSE q BY FilterAppend
  <2>4. Filter(t, A \cap B) = IF e \in A \cap B THEN Append(Filter(r, A \cap B), e)
                                                ELSE Filter(r, A \cap B)
    BY FilterAppend
  <2> HIDE DEF q, t
  <2>5. Filter(Append(q, e), B) = IF e \in B THEN Append(Filter(q, B), e) ELSE Filter(q, B)
    BY <2>1, FilterAppend
  <2>6. Filter(Filter(t, A), B) = Filter(t, A \cap B)
    <3>1. CASE e \in A
      <4>1. Filter(t, A) = Append(q, e) /\ (e \in A \cap B <=> e \in B) BY <3>1, <2>3
      <4>2. Filter(Filter(t, A), B) = Filter(Append(q, e), B) BY <4>1
      <4>3. CASE e \in B BY <4>1, <4>2, <4>3, <2>2, <2>4, <2>5
      <4>4. CASE e \notin B BY <4>1, <4>2, <4>4, <2>2, <2>4, <2>5
      <4> QED BY <4>3, <4>4
    <3>2. CASE e \notin A BY <3>2, <2>2, <2>3, <2>4
    <3> QED BY <3>1, <3>2
  <2> QED BY <2>1, <2>6 DEF t
<1>3. \A r \in Seq(S) : r \in Good
  <2> DEFINE none == <<>>
  <2>1. none \in Good BY <1>1
  <2> HIDE DEF Good, none
  <2>2. none \in Good /\ none = <<>> BY <2>1 DEF none
  <2> QED BY <1>2, <2>2, SeqSetInduction
<1> QED BY <1>3

(* What is left depends only on which elements of the sequence are in the  *)
(* set.                                                                    *)
LEMMA FilterAlike ==
    ASSUME NEW S, NEW s \in Seq(S), NEW A, NEW B,
           \A n \in 1 .. Len(s) : s[n] \in A <=> s[n] \in B
    PROVE  Filter(s, A) = Filter(s, B)
<1>1. PICK F : FilterSteps(s, A, F) /\ Filter(s, A) = F[Len(s)] BY FilterUnfold
<1>2. PICK G : FilterSteps(s, B, G) /\ Filter(s, B) = G[Len(s)] BY FilterUnfold
<1>3. Len(s) \in Nat BY LenProperties
<1> DEFINE Good == {n \in Nat : n <= Len(s) => F[n] = G[n]}
<1>4. 0 \in Good BY <1>1, <1>2 DEF FilterSteps
<1>5. ASSUME NEW n \in Nat, n \in Good PROVE n + 1 \in Good
  <2> SUFFICES ASSUME n + 1 <= Len(s) PROVE F[n + 1] = G[n + 1] OBVIOUS
  <2>1. F[n] = G[n] /\ n + 1 \in 1 .. Len(s) /\ (n + 1) - 1 = n BY <1>3, <1>5
  <2>2. F[n + 1] = IF s[n + 1] \in A THEN Append(F[n], s[n + 1]) ELSE F[n]
    BY <1>1, <2>1 DEF FilterSteps
  <2>3. G[n + 1] = IF s[n + 1] \in B THEN Append(G[n], s[n + 1]) ELSE G[n]
    BY <1>2, <2>1 DEF FilterSteps
  <2>4. s[n + 1] \in A <=> s[n + 1] \in B BY <2>1
  <2>5. CASE s[n + 1] \in A BY <2>1, <2>2, <2>3, <2>4, <2>5
  <2>6. CASE s[n + 1] \notin A BY <2>1, <2>2, <2>3, <2>4, <2>6
  <2> QED BY <2>5, <2>6
<1>6. Len(s) \in Good
  <2> HIDE DEF Good
  <2> QED BY <1>3, <1>4, <1>5, NatSetInduction
<1> QED BY <1>1, <1>2, <1>3, <1>6

(* Nothing goes if all of it is in the set. *)
LEMMA FilterAll ==
    ASSUME NEW S, NEW s \in Seq(S), NEW T, \A n \in 1 .. Len(s) : s[n] \in T
    PROVE  Filter(s, T) = s
<1> DEFINE Good == {r \in Seq(S) : (\A n \in 1 .. Len(r) : r[n] \in T) => Filter(r, T) = r}
           none == <<>>
<1>1. none \in Good
  <2>1. none \in Seq(S) /\ Filter(none, T) = none BY FilterEmpty
  <2> HIDE DEF none
  <2> QED BY <2>1
<1>2. ASSUME NEW r \in Seq(S), NEW e \in S, r \in Good PROVE Append(r, e) \in Good
  <2> DEFINE t == Append(r, e)
  <2>1. /\ t \in Seq(S) /\ Len(t) = Len(r) + 1 /\ t[Len(r) + 1] = e /\ Len(r) \in Nat
        /\ \A n \in 1 .. Len(r) : t[n] = r[n]
    BY AppendProperties, LenProperties
  <2>2. Filter(t, T) = IF e \in T THEN Append(Filter(r, T), e) ELSE Filter(r, T)
    BY FilterAppend
  <2>3. ASSUME \A n \in 1 .. Len(t) : t[n] \in T PROVE Filter(t, T) = t
    <3> HIDE DEF t
    <3>1. e \in T
      <4>1. Len(r) + 1 \in 1 .. Len(t) BY <2>1
      <4> QED BY <2>1, <2>3, <4>1
    <3>2. \A n \in 1 .. Len(r) : r[n] \in T
      <4>1. \A n \in 1 .. Len(r) : n \in 1 .. Len(t) BY <2>1
      <4> QED BY <2>1, <2>3, <4>1
    <3>3. Filter(r, T) = r BY <1>2, <3>2
    <3> QED BY <2>2, <3>1, <3>3 DEF t
  <2> QED BY <2>1, <2>3 DEF t
<1>3. \A r \in Seq(S) : r \in Good
  <2> DEFINE e == <<>>
  <2>1. e \in Good BY <1>1
  <2> HIDE DEF Good, e
  <2>2. e \in Good /\ e = <<>> BY <2>1 DEF e
  <2> QED BY <1>2, <2>2, SeqSetInduction
<1> QED BY <1>3

(* Whatever is in the set is kept. *)
LEMMA FilterKeeps ==
    ASSUME NEW S, NEW s \in Seq(S), NEW T, NEW m \in 1 .. Len(s), s[m] \in T
    PROVE  \E n \in 1 .. Len(Filter(s, T)) : Filter(s, T)[n] = s[m]
<1> DEFINE Of(r, q) == \A k \in 1 .. Len(r) : r[k] \in T => \E n \in 1 .. Len(q) : q[n] = r[k]
           Good == {r \in Seq(S) : Of(r, Filter(r, T))}
           none == <<>>
<1>1. none \in Good
  <2>1. none \in Seq(S) /\ Len(none) = 0 OBVIOUS
  <2> HIDE DEF none
  <2> QED BY <2>1
<1>2. ASSUME NEW r \in Seq(S), NEW e \in S, r \in Good PROVE Append(r, e) \in Good
  <2> DEFINE q == Filter(r, T)
             t == Append(r, e)
             p == Filter(t, T)
  <2>1. q \in Seq(S) /\ Len(q) \in Nat /\ Len(r) \in Nat BY FilterType, LenProperties
  <2>2. /\ t \in Seq(S) /\ Len(t) = Len(r) + 1 /\ t[Len(r) + 1] = e
        /\ \A n \in 1 .. Len(r) : t[n] = r[n]
    BY AppendProperties
  <2>3. Of(r, q) BY <1>2
  <2>4. p = IF e \in T THEN Append(q, e) ELSE q BY FilterAppend
  <2>5. /\ Len(Append(q, e)) = Len(q) + 1 /\ Append(q, e)[Len(q) + 1] = e
        /\ \A n \in 1 .. Len(q) : Append(q, e)[n] = q[n]
    BY <2>1, AppendProperties
  <2> HIDE DEF q, t, p
  <2>6. ASSUME NEW k \in 1 .. Len(t), t[k] \in T PROVE \E n \in 1 .. Len(p) : p[n] = t[k]
    <3>1. CASE k = Len(r) + 1
      <4>1. e \in T /\ p = Append(q, e) BY <2>2, <2>4, <2>6, <3>1
      <4>2. Len(q) + 1 \in 1 .. Len(p) /\ p[Len(q) + 1] = e BY <2>1, <2>5, <4>1
      <4> QED BY <2>2, <3>1, <4>2
    <3>2. CASE k # Len(r) + 1
      <4>1. k \in 1 .. Len(r) /\ t[k] = r[k] BY <2>1, <2>2, <3>2
      <4>2. PICK n \in 1 .. Len(q) : q[n] = r[k] BY <2>3, <2>6, <4>1
      <4>3. n \in 1 .. Len(p) /\ p[n] = q[n]
        <5>1. CASE e \in T
          <6>1. p = Append(q, e) BY <2>4, <5>1
          <6> QED BY <2>1, <2>5, <6>1
        <5>2. CASE e \notin T
          <6>1. p = q BY <2>4, <5>2
          <6> QED BY <6>1
        <5> QED BY <5>1, <5>2
      <4> QED BY <4>1, <4>2, <4>3
    <3> QED BY <3>1, <3>2
  <2> QED BY <2>2, <2>6 DEF t, p
<1>3. \A r \in Seq(S) : r \in Good
  <2> DEFINE e == <<>>
  <2>1. e \in Good BY <1>1
  <2> HIDE DEF Good, e
  <2>2. e \in Good /\ e = <<>> BY <2>1 DEF e
  <2> QED BY <1>2, <2>2, SeqSetInduction
<1> QED BY <1>3

(* Numbers in ascending order stay so. *)
Ascending(s) == \A m, n \in 1 .. Len(s) : m < n => s[m] < s[n]

LEMMA FilterAscending ==
    ASSUME NEW s \in Seq(Nat), NEW T, Ascending(s) PROVE Ascending(Filter(s, T))
<1> DEFINE Good == {r \in Seq(Nat) : Ascending(r) => Ascending(Filter(r, T))}
           none == <<>>
<1>1. none \in Good
  <2>1. none \in Seq(Nat) /\ Filter(none, T) = none BY FilterEmpty
  <2> HIDE DEF none
  <2> QED BY <2>1
<1>2. ASSUME NEW r \in Seq(Nat), NEW e \in Nat, r \in Good PROVE Append(r, e) \in Good
  <2> DEFINE q == Filter(r, T)
             t == Append(r, e)
             p == Filter(t, T)
  <2>1. q \in Seq(Nat) /\ Len(q) \in Nat /\ Len(r) \in Nat BY FilterType, LenProperties
  <2>2. /\ t \in Seq(Nat) /\ Len(t) = Len(r) + 1 /\ t[Len(r) + 1] = e
        /\ \A n \in 1 .. Len(r) : t[n] = r[n]
    BY AppendProperties
  <2>3. Ascending(r) => Ascending(q) BY <1>2
  <2>4. p = IF e \in T THEN Append(q, e) ELSE q BY FilterAppend
  <2>5. /\ Len(Append(q, e)) = Len(q) + 1 /\ Append(q, e)[Len(q) + 1] = e
        /\ \A n \in 1 .. Len(q) : Append(q, e)[n] = q[n]
    BY <2>1, AppendProperties
  <2>6. \A n \in 1 .. Len(q) : \E m \in 1 .. Len(r) : r[m] = q[n]
    BY FilterElements
  <2> HIDE DEF q, t, p
  <2>7. ASSUME Ascending(t) PROVE Ascending(p)
    <3>1. \A m \in 1 .. Len(r) : r[m] < e
      <4>1. \A m \in 1 .. Len(r) : m \in 1 .. Len(t) /\ Len(r) + 1 \in 1 .. Len(t) /\ m < Len(r) + 1
        BY <2>1, <2>2
      <4> QED BY <2>2, <2>7, <4>1 DEF Ascending
    <3>2. Ascending(r)
      <4>1. \A m \in 1 .. Len(r) : m \in 1 .. Len(t) BY <2>1, <2>2
      <4> QED BY <2>2, <2>7, <4>1 DEF Ascending
    <3>3. Ascending(q) BY <2>3, <3>2
    <3>4. \A n \in 1 .. Len(q) : q[n] < e BY <2>6, <3>1
    <3>5. CASE e \in T
      <4>1. p = Append(q, e) BY <2>4, <3>5
      <4> SUFFICES ASSUME NEW m \in 1 .. Len(p), NEW n \in 1 .. Len(p), m < n
                   PROVE  p[m] < p[n]
        BY DEF Ascending
      <4>2. m \in 1 .. Len(q) /\ p[m] = q[m] BY <2>1, <2>5, <4>1
      <4>3. CASE n = Len(q) + 1 BY <2>5, <3>4, <4>1, <4>2, <4>3
      <4>4. CASE n # Len(q) + 1
        <5>1. n \in 1 .. Len(q) /\ p[n] = q[n] BY <2>1, <2>5, <4>1, <4>4
        <5> QED BY <3>3, <4>2, <5>1 DEF Ascending
      <4> QED BY <4>3, <4>4
    <3>6. CASE e \notin T BY <2>4, <3>3, <3>6
    <3> QED BY <3>5, <3>6
  <2> QED BY <2>2, <2>7 DEF t, p
<1>3. \A r \in Seq(Nat) : r \in Good
  <2> DEFINE e == <<>>
             N == Nat
  <2>1. e \in Good BY <1>1
  <2> HIDE DEF Good, e, N
  <2>2. e \in Good /\ e = <<>> BY <2>1 DEF e
  <2>3. \A r \in Seq(N), x \in N : r \in Good => Append(r, x) \in Good BY <1>2 DEF N
  <2>4. \A r \in Seq(N) : r \in Good BY <2>2, <2>3, SeqSetInduction
  <2> QED BY <2>4 DEF N
<1> QED BY <1>3

-----------------------------------------------------------------------------
(* Sequences put together, and mapped. *)
LEMMA ConcatAppend ==
    ASSUME NEW S, NEW s \in Seq(S), NEW t \in Seq(S), NEW e \in S
    PROVE  s \o Append(t, e) = Append(s \o t, e)
<1>1. <<e>> \in Seq(S) OBVIOUS
<1>2. s \o t \in Seq(S) BY ConcatProperties
<1>3. Append(t, e) = t \o <<e>> /\ Append(s \o t, e) = (s \o t) \o <<e>>
  BY <1>2, AppendIsConcat
<1> QED BY <1>1, <1>3, ConcatAssociative

(* A filter of two sequences in a row. *)
LEMMA FilterConcat ==
    ASSUME NEW S, NEW s \in Seq(S), NEW t \in Seq(S), NEW T
    PROVE  Filter(s \o t, T) = Filter(s, T) \o Filter(t, T)
<1> DEFINE Good == {r \in Seq(S) : Filter(s \o r, T) = Filter(s, T) \o Filter(r, T)}
           none == <<>>
<1>0. Filter(s, T) \in Seq(S) BY FilterType
<1>1. none \in Good
  <2>1. none \in Seq(S) /\ s \o none = s /\ Filter(none, T) = none
        /\ Filter(s, T) \o none = Filter(s, T)
    BY <1>0, FilterEmpty, ConcatEmptySeq
  <2> HIDE DEF none
  <2> QED BY <2>1
<1>2. ASSUME NEW r \in Seq(S), NEW e \in S, r \in Good PROVE Append(r, e) \in Good
  <2> DEFINE q == Filter(r, T)
             f == Filter(s, T)
  <2>1. q \in Seq(S) /\ s \o r \in Seq(S) /\ Append(r, e) \in Seq(S)
    BY FilterType, ConcatProperties, AppendProperties
  <2>2. s \o Append(r, e) = Append(s \o r, e) BY ConcatAppend
  <2>3. Filter(s \o r, T) = f \o q BY <1>2
  <2>4. Filter(Append(s \o r, e), T) = IF e \in T THEN Append(f \o q, e) ELSE f \o q
    BY <2>1, <2>3, FilterAppend
  <2>5. Filter(Append(r, e), T) = IF e \in T THEN Append(q, e) ELSE q BY FilterAppend
  <2>6. f \o Append(q, e) = Append(f \o q, e) BY <1>0, <2>1, ConcatAppend
  <2> HIDE DEF f, q
  <2>7. Filter(Append(s \o r, e), T) = f \o Filter(Append(r, e), T)
    BY <2>4, <2>5, <2>6
  <2> QED BY <2>1, <2>2, <2>7 DEF f
<1>3. \A r \in Seq(S) : r \in Good
  <2> DEFINE e == <<>>
  <2>1. e \in Good BY <1>1
  <2> HIDE DEF Good, e
  <2>2. e \in Good /\ e = <<>> BY <2>1 DEF e
  <2> QED BY <1>2, <2>2, SeqSetInduction
<1> QED BY <1>3

(* A sequence with every element replaced. *)
Mapped(s, F) == [k \in DOMAIN s |-> F[s[k]]]

LEMMA MappedType ==
    ASSUME NEW S, NEW R, NEW F \in [S -> R], NEW s \in Seq(S)
    PROVE  /\ Mapped(s, F) \in Seq(R) /\ Len(Mapped(s, F)) = Len(s)
           /\ \A k \in 1 .. Len(s) : Mapped(s, F)[k] = F[s[k]]
<1>1. Len(s) \in Nat /\ DOMAIN s = 1 .. Len(s) /\ \A k \in 1 .. Len(s) : s[k] \in S
  BY LenProperties
<1>2. Mapped(s, F) = [k \in 1 .. Len(s) |-> F[s[k]]] BY <1>1 DEF Mapped
<1>3. \A k \in 1 .. Len(s) : F[s[k]] \in R BY <1>1
<1> QED BY <1>1, <1>2, <1>3

LEMMA MappedEmpty == ASSUME NEW F PROVE Mapped(<<>>, F) = <<>>
  BY DEF Mapped

LEMMA MappedConcat ==
    ASSUME NEW S, NEW R, NEW F \in [S -> R], NEW s \in Seq(S), NEW t \in Seq(S)
    PROVE  Mapped(s \o t, F) = Mapped(s, F) \o Mapped(t, F)
<1> DEFINE u == s \o t
           left == Mapped(u, F)
           ms == Mapped(s, F)
           mt == Mapped(t, F)
           right == ms \o mt
<1>1. /\ u \in Seq(S) /\ Len(u) = Len(s) + Len(t)
      /\ \A i \in 1 .. Len(s) + Len(t) : u[i] = IF i <= Len(s) THEN s[i] ELSE t[i - Len(s)]
  BY ConcatProperties
<1>2. /\ ms \in Seq(R) /\ Len(ms) = Len(s) /\ \A k \in 1 .. Len(s) : ms[k] = F[s[k]]
      /\ mt \in Seq(R) /\ Len(mt) = Len(t) /\ \A k \in 1 .. Len(t) : mt[k] = F[t[k]]
  <2>1. \A r \in Seq(S) : /\ Mapped(r, F) \in Seq(R) /\ Len(Mapped(r, F)) = Len(r)
                          /\ \A k \in 1 .. Len(r) : Mapped(r, F)[k] = F[r[k]]
    BY MappedType
  <2> QED BY <2>1
<1>3. Len(s) \in Nat /\ Len(t) \in Nat BY LenProperties
<1>4. left \in Seq(R) /\ Len(left) = Len(u) /\ \A k \in 1 .. Len(u) : left[k] = F[u[k]]
  <2>1. \A r \in Seq(S) : /\ Mapped(r, F) \in Seq(R) /\ Len(Mapped(r, F)) = Len(r)
                          /\ \A k \in 1 .. Len(r) : Mapped(r, F)[k] = F[r[k]]
    BY MappedType
  <2> HIDE DEF u
  <2> QED BY <1>1, <2>1
<1>5. /\ right \in Seq(R) /\ Len(right) = Len(s) + Len(t)
      /\ \A i \in 1 .. Len(s) + Len(t) : right[i] = IF i <= Len(s) THEN ms[i] ELSE mt[i - Len(s)]
  <2>1. ms \in Seq(R) /\ mt \in Seq(R) BY <1>2
  <2> HIDE DEF ms, mt
  <2>2. /\ ms \o mt \in Seq(R) /\ Len(ms \o mt) = Len(ms) + Len(mt)
        /\ \A i \in 1 .. Len(ms) + Len(mt) :
              (ms \o mt)[i] = IF i <= Len(ms) THEN ms[i] ELSE mt[i - Len(ms)]
    BY <2>1, ConcatProperties
  <2> QED BY <1>2, <2>2
<1> HIDE DEF u, left, right, ms, mt
<1>6. ASSUME NEW i \in 1 .. Len(s) + Len(t) PROVE left[i] = right[i]
  <2>1. CASE i <= Len(s)
    <3>1. i \in 1 .. Len(s) BY <1>3, <2>1
    <3>2. left[i] = F[s[i]] BY <1>1, <1>4, <2>1
    <3>3. right[i] = F[s[i]] BY <1>2, <1>5, <2>1, <3>1
    <3> QED BY <3>2, <3>3
  <2>2. CASE ~(i <= Len(s))
    <3>1. i - Len(s) \in 1 .. Len(t) BY <1>3, <2>2
    <3>2. left[i] = F[t[i - Len(s)]] BY <1>1, <1>4, <2>2
    <3>3. right[i] = F[t[i - Len(s)]] BY <1>2, <1>5, <2>2, <3>1
    <3> QED BY <3>2, <3>3
  <2> QED BY <2>1, <2>2
<1>7. left = right BY <1>1, <1>4, <1>5, <1>6, SeqEqual
<1> QED BY <1>7 DEF left, right, u, ms, mt

LEMMA MappedAppend ==
    ASSUME NEW S, NEW R, NEW F \in [S -> R], NEW s \in Seq(S), NEW e \in S
    PROVE  Mapped(Append(s, e), F) = Append(Mapped(s, F), F[e])
<1> DEFINE one == <<e>>
           ms == Mapped(s, F)
<1>1. one \in Seq(S) /\ Len(one) = 1 /\ one[1] = e OBVIOUS
<1>2. Mapped(one, F) = <<F[e]>> BY DEF Mapped
<1>3. Append(s, e) = s \o one BY AppendIsConcat
<1>4. ms \in Seq(R) BY MappedType
<1>5. Append(ms, F[e]) = ms \o <<F[e]>>
  <2> HIDE DEF ms
  <2> QED BY <1>4, AppendIsConcat
<1>6. Mapped(s \o one, F) = ms \o Mapped(one, F)
  <2> HIDE DEF one
  <2> QED BY <1>1, MappedConcat
<1> QED BY <1>2, <1>3, <1>5, <1>6
=============================================================================
