---------------------------- MODULE LeakyBucket ----------------------------
(***************************************************************************)
(* The rate-limiting arithmetic of src/proxy/patch.c that the detours of   *)
(* the engine's packet handlers share: the 32-bit millisecond clock, the   *)
(* leaky bucket OOB_RateLimit, and BucketFor, which finds the bucket of an *)
(* address in a fixed table.                                               *)
(***************************************************************************)
EXTENDS Int32

(* OOB_NowMs: the cast to int of a monotonic count of milliseconds. *)
ClockMs(now) == Wrap(now)

-----------------------------------------------------------------------------
(* One bucket: how much of the burst is used up, and the instant up to     *)
(* which it has been drained.                                              *)

Level == [burst : Int, lastTime : Int]

Interval(b, clock) == Wrap(clock - b.lastTime)

(* The bucket is emptied outright after a long pause, or when the clock    *)
(* appears to run backwards.                                               *)
Restarts(b, period, clock) ==
    \/ Interval(b, clock) < 0
    \/ Interval(b, clock) \div period > b.burst

(* Wrong: lastTime stays, so the same pause is counted again and again.    *)
DrainAgain(b, period, clock) ==
    IF Restarts(b, period, clock)
    THEN [burst |-> 0, lastTime |-> clock]
    ELSE [b EXCEPT !.burst = @ - Interval(b, clock) \div period]

(* Wrong: the part of a period that has not leaked out yet is lost.        *)
DrainRounded(b, period, clock) ==
    IF Restarts(b, period, clock)
    THEN [burst |-> 0, lastTime |-> clock]
    ELSE [burst |-> b.burst - Interval(b, clock) \div period,
          lastTime |-> clock]

(* The first half of OOB_RateLimit: what has leaked out since lastTime.    *)
Drain(b, period, clock) ==
    IF Restarts(b, period, clock)
    THEN [burst |-> 0, lastTime |-> clock]
    ELSE [burst |-> b.burst - Interval(b, clock) \div period,
          lastTime |-> Wrap(clock - (Interval(b, clock) % period))]

(* The uptime, not its low bits, that lastTime stands for after a drain.   *)
DrainedTo(b, period, now) ==
    IF Restarts(b, period, ClockMs(now))
    THEN now
    ELSE now - (Interval(b, ClockMs(now)) % period)

(* Wrong: one request too many fits in the bucket.                         *)
OverLimitLate(b, maxBurst, period, clock) ==
    /\ period > 0 /\ maxBurst > 0
    /\ Drain(b, period, clock).burst > maxBurst

RateLimitLate(b, maxBurst, period, clock) ==
    IF period <= 0 \/ maxBurst <= 0
    THEN b
    ELSE LET d == Drain(b, period, clock)
         IN  IF d.burst <= maxBurst THEN [d EXCEPT !.burst = @ + 1] ELSE d

(* OOB_RateLimit as a whole: whether the request is over the limit, and    *)
(* the bucket it leaves.  A period or a burst of zero disarms the limiter. *)
OverLimit(b, maxBurst, period, clock) ==
    /\ period > 0 /\ maxBurst > 0
    /\ Drain(b, period, clock).burst >= maxBurst

RateLimit(b, maxBurst, period, clock) ==
    IF period <= 0 \/ maxBurst <= 0
    THEN b
    ELSE LET d == Drain(b, period, clock)
         IN  IF d.burst < maxBurst THEN [d EXCEPT !.burst = @ + 1] ELSE d

-----------------------------------------------------------------------------
(* BucketFor: a table is a function from 1 .. n to entries.  The scan      *)
(* stops at the entry of the address or at the first free one; it evicts   *)
(* the first entry with the smallest lastTime when there is neither.       *)

Passed(t, i, addr) == \A j \in 1 .. (i - 1) : t[j].used /\ t[j].ip # addr

Hits(t, i, addr) == Passed(t, i, addr) /\ t[i].used /\ t[i].ip = addr

Claims(t, i, addr) == Passed(t, i, addr) /\ ~t[i].used

Older(t, i, j) ==
    \/ t[i].level.lastTime < t[j].level.lastTime
    \/ t[i].level.lastTime = t[j].level.lastTime /\ i <= j

(* Wrong: a full table evicts before the scan has looked for the address.  *)
EvictsFirst(t, i, addr) ==
    /\ \A j \in DOMAIN t : t[j].used
    /\ \A j \in DOMAIN t : Older(t, i, j)

Evicts(t, i, addr) ==
    /\ \A j \in DOMAIN t : t[j].used /\ t[j].ip # addr
    /\ \A j \in DOMAIN t : Older(t, i, j)

Selects(t, i, addr) ==
    Hits(t, i, addr) \/ Claims(t, i, addr) \/ Evicts(t, i, addr)

Fresh == [burst |-> 0, lastTime |-> 0]

(* The level the limiter finds in the bucket BucketFor returns: that of    *)
(* the entry it hit, or the one memset leaves.                             *)
Found(t, i, addr) == IF Hits(t, i, addr) THEN t[i].level ELSE Fresh

(* The log gate of the detours: at most one report every gap milliseconds. *)
LogDue(lastMsg, gap, clock) == Wrap(lastMsg + gap) < clock
=============================================================================
