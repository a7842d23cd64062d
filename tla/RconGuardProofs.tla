-------------------------- MODULE RconGuardProofs --------------------------
(***************************************************************************)
(* The rcon throttle, for any number of addresses and buckets, any burst   *)
(* and period with RconBurst * RconPeriod <= Half, and any width of int.   *)
(***************************************************************************)
EXTENDS RconGuard, OperatorProofs

USE RconAssumption DEF Slots, clock

(* Clocks, stamps and burst counts are numbers, and none is negative.      *)
LEMMA EntryTypes ==
    ASSUME Inv
    PROVE  /\ now \in Nat
           /\ \A j \in Slots : /\ rcon_table[j].level.burst \in Nat
                              /\ rcon_table[j].level.burst <= RconBurst
                              /\ stamp[j] \in Nat
  BY DEF Inv, TypeOK

(* What an attempt does to the entry BucketFor gives it. *)
LEMMA ChargeLemma ==
    ASSUME Inv, NEW addr \in Addrs, NEW i \in Slots,
           Selects(rcon_table, i, addr), Charge(i, addr)
    PROVE  \E l \in Level :
            /\ rcon_table' = [rcon_table EXCEPT ![i] =
                    [used |-> TRUE, ip |-> addr, level |-> l]]
            /\ l.burst \in 0 .. RconBurst
            /\ stamp' \in [Slots -> Nat]
            /\ \A j \in Slots : j # i => stamp'[j] = stamp[j]
            /\ stamp'[i] <= now /\ now - RconPeriod < stamp'[i]
            /\ l.lastTime = Wrap(stamp'[i])
            /\ ~Throttled(i, addr) => l.burst >= 1
            /\ Hits(rcon_table, i, addr) =>
                 l.burst * RconPeriod + stamp'[i] >=
                   Debt(i) + (IF Throttled(i, addr) THEN 0 ELSE RconPeriod)
<1> DEFINE b == Found(rcon_table, i, addr)
           s == IF Hits(rcon_table, i, addr) THEN stamp[i] ELSE 0
           l == RateLimit(b, RconBurst, RconPeriod, clock)
           d == Drain(b, RconPeriod, clock)
           t == DrainedTo(b, RconPeriod, now)
<1>1. now \in Int /\ s \in Nat /\ s <= now /\ b \in Level
      /\ b.lastTime = Wrap(s) /\ b.burst \in 0 .. RconBurst
  <2>1. CASE Hits(rcon_table, i, addr)
    BY <2>1 DEF Inv, TypeOK, StampInv, Found, Entry
  <2>2. CASE ~Hits(rcon_table, i, addr)
    <3>1. Wrap(0) = 0 BY WrapId, HalfAssumption DEF CInt
    <3> QED BY <2>2, <3>1 DEF Inv, TypeOK, Found, Fresh, Level
  <2> QED BY <2>1, <2>2
<1>2. /\ l = [burst |-> l.burst, lastTime |-> Wrap(t)]
      /\ l.burst \in 0 .. RconBurst
      /\ Throttled(i, addr) => l.burst = d.burst
      /\ ~Throttled(i, addr) => l.burst = d.burst + 1
  <2>1. Throttled(i, addr) <=> OverLimit(b, RconBurst, RconPeriod, ClockMs(now))
    BY DEF Throttled
  <2>2. d.burst \in 0 .. RconBurst
    <3> HIDE DEF b, s
    <3> QED BY <1>1, DrainLemma
  <2>3. /\ l = [burst |-> l.burst, lastTime |-> Wrap(t)]
        /\ l.burst \in 0 .. RconBurst
        /\ OverLimit(b, RconBurst, RconPeriod, ClockMs(now)) =>
               l.burst = RconBurst /\ d.burst = RconBurst
        /\ ~OverLimit(b, RconBurst, RconPeriod, ClockMs(now)) =>
               l.burst = d.burst + 1 /\ d.burst < RconBurst
    <3> HIDE DEF b, s
    <3> QED BY <1>1, RateLimitLemma
  <2> HIDE DEF b, s, l, d, t
  <2> QED BY <2>1, <2>2, <2>3
<1>3. /\ d.burst \in 0 .. RconBurst
      /\ t \in Nat /\ t <= now /\ now - RconPeriod < t
      /\ b.burst * RconPeriod + s <= d.burst * RconPeriod + t
  <2> HIDE DEF b, s
  <2> QED BY <1>1, DrainLemma
<1>4. stamp' = [stamp EXCEPT ![i] = t]
      /\ rcon_table' = [rcon_table EXCEPT ![i] =
                    [used |-> TRUE, ip |-> addr, level |-> l]]
  BY DEF Charge
<1>5. stamp \in [Slots -> Nat] BY DEF Inv, TypeOK
<1>6. stamp' \in [Slots -> Nat] /\ stamp'[i] = t
      /\ \A j \in Slots : j # i => stamp'[j] = stamp[j]
  <2> HIDE DEF t
  <2> QED BY <1>3, <1>4, <1>5
<1>7. Hits(rcon_table, i, addr) => b = rcon_table[i].level /\ s = stamp[i]
  BY DEF Found
<1>8. l \in Level
  <2>1. Wrap(t) \in Int BY <1>3, WrapType
  <2> HIDE DEF l, t
  <2> QED BY <1>2, <2>1 DEF Level
<1>9. l.lastTime = Wrap(t)
  <2> HIDE DEF l, t
  <2> QED BY <1>2
<1>10. Hits(rcon_table, i, addr) =>
         l.burst * RconPeriod + t >=
             Debt(i) + (IF Throttled(i, addr) THEN 0 ELSE RconPeriod)
  <2> SUFFICES ASSUME Hits(rcon_table, i, addr)
               PROVE  l.burst * RconPeriod + t >=
                        Debt(i) + (IF Throttled(i, addr) THEN 0 ELSE RconPeriod)
    OBVIOUS
  <2>1. Debt(i) = b.burst * RconPeriod + s BY <1>7 DEF Debt
  <2> HIDE DEF b, s, l, d, t
  <2>2. (d.burst + 1) * RconPeriod = d.burst * RconPeriod + RconPeriod
    BY <1>3
  <2>3. d.burst * RconPeriod \in Int /\ b.burst * RconPeriod \in Int
    BY <1>1, <1>3
  <2>4. CASE Throttled(i, addr)
    BY <2>1, <2>3, <2>4, <1>1, <1>2, <1>3
  <2>5. CASE ~Throttled(i, addr)
    BY <2>1, <2>2, <2>3, <2>5, <1>1, <1>2, <1>3
  <2> QED BY <2>4, <2>5
<1>11. ~Throttled(i, addr) => l.burst >= 1
  <2> HIDE DEF l, d
  <2> QED BY <1>2, <1>3
<1> HIDE DEF b, s, l, d, t
<1> WITNESS l \in Level
<1> QED BY <1>2, <1>3, <1>4, <1>6, <1>9, <1>10, <1>11

(* A bucket that was just reset never throttles: only an address that is   *)
(* found in the table can be dropped.                                      *)
LEMMA FreshPasses ==
    ASSUME Inv, NEW addr \in Addrs, NEW i \in Slots, Throttled(i, addr)
    PROVE  Hits(rcon_table, i, addr)
<1> SUFFICES ASSUME ~Hits(rcon_table, i, addr) PROVE FALSE
  OBVIOUS
<1> DEFINE d == Drain(Fresh, RconPeriod, ClockMs(now))
<1>1. Fresh \in Level /\ Fresh.burst = 0 /\ Fresh.lastTime = 0
  BY DEF Fresh, Level
<1>2. Fresh.lastTime = Wrap(0) /\ now \in 0 .. MaxNow
  <2>1. 0 \in CInt BY HalfAssumption DEF CInt
  <2>2. Wrap(0) = 0 BY <2>1, WrapId
  <2> QED BY <1>1, <2>2 DEF Inv, TypeOK
<1>3. d.burst = 0
  <2> HIDE DEF d
  <2> QED BY <1>1, <1>2, DrainLemma DEF d
<1>4. d.burst >= RconBurst
  BY DEF Throttled, OverLimit, Found
<1> QED BY <1>3, <1>4

-----------------------------------------------------------------------------
(* Filing addr in the entry BucketFor chooses keeps the table well-formed. *)
LEMMA TableLemma ==
    ASSUME TypeOK, TableInv, NEW addr \in Addrs, NEW i \in Slots, NEW l,
           Selects(rcon_table, i, addr),
           rcon_table' = [rcon_table EXCEPT ![i] =
                    [used |-> TRUE, ip |-> addr, level |-> l]]
    PROVE  TableInv'
<1>1. rcon_table \in [Slots -> Entry] /\ RconBuckets \in Nat BY DEF TypeOK
<1>2. WellFormed(rcon_table) BY <1>1 DEF WellFormed, TableInv
<1>3. WellFormed(rcon_table') BY <1>1, <1>2, FilingLemma
<1>4. DOMAIN rcon_table' = Slots BY <1>1
<1> QED BY <1>3, <1>4 DEF WellFormed, TableInv

(* One attempt preserves the invariant, whatever its fate.                 *)
LEMMA AttemptLemma ==
    ASSUME Inv, NEW addr \in Addrs, NEW i \in Slots,
           Admit(addr, i) \/ Drop(addr, i)
    PROVE  Inv'
<1> USE DEF Inv
<1>1. /\ Selects(rcon_table, i, addr) /\ Charge(i, addr) /\ now' = now
      /\ Admit(addr, i) => ~Throttled(i, addr)
      /\ Drop(addr, i) => Throttled(i, addr)
  BY DEF Admit, Drop
<1>2. PICK l \in Level :
        /\ rcon_table' = [rcon_table EXCEPT ![i] =
                [used |-> TRUE, ip |-> addr, level |-> l]]
        /\ l.burst \in 0 .. RconBurst
        /\ stamp' \in [Slots -> Nat]
        /\ \A j \in Slots : j # i => stamp'[j] = stamp[j]
        /\ stamp'[i] <= now /\ now - RconPeriod < stamp'[i]
        /\ l.lastTime = Wrap(stamp'[i])
        /\ ~Throttled(i, addr) => l.burst >= 1
        /\ Hits(rcon_table, i, addr) =>
             l.burst * RconPeriod + stamp'[i] >=
               Debt(i) + (IF Throttled(i, addr) THEN 0 ELSE RconPeriod)
  BY <1>1, ChargeLemma
<1>3. /\ rcon_table'[i] = [used |-> TRUE, ip |-> addr, level |-> l]
      /\ \A j \in Slots : j # i => rcon_table'[j] = rcon_table[j]
      /\ rcon_table' \in [Slots -> Entry]
  BY <1>2 DEF TypeOK, Entry
<1>4. TypeOK'
  <2>1. l.lastTime \in CInt BY <1>2, WrapType
  <2>2. \A j \in Slots : /\ rcon_table'[j].level.lastTime \in CInt
                         /\ rcon_table'[j].level.burst \in 0 .. RconBurst
                         /\ rcon_table'[j].used => rcon_table'[j].ip \in Addrs
    BY <1>2, <1>3, <2>1 DEF TypeOK
  <2>3. rcon_dropped' \in 0 .. MaxDropped /\ rcon_lastMsg' \in CInt
    <3>1. ClockMs(now) \in CInt BY WrapType DEF TypeOK, ClockMs
    <3>2. rcon_dropped \in 0 .. MaxDropped /\ rcon_lastMsg \in CInt /\ MaxDropped \in Nat
      BY DEF TypeOK
    <3>3. \/ rcon_dropped' = rcon_dropped /\ rcon_lastMsg' = rcon_lastMsg
          \/ rcon_dropped' = 0 /\ rcon_lastMsg' = ClockMs(now)
          \/ /\ rcon_dropped < MaxDropped /\ rcon_dropped' = rcon_dropped + 1
             /\ rcon_lastMsg' = rcon_lastMsg
      BY DEF Admit, Drop
    <3> QED BY <3>1, <3>2, <3>3
  <2>4. verdict' \in [addr : Addrs \cup {Loopback, NoAddr}, passed : BOOLEAN]
    <3>1. \E p \in BOOLEAN : verdict' = [addr |-> addr, passed |-> p]
      BY DEF Admit, Drop
    <3> QED BY <3>1
  <2>5. watch' \in [addr : Addrs \cup {NoAddr}, since : Nat, count : Nat]
    <3>1. watch \in [addr : Addrs \cup {NoAddr}, since : Nat, count : Nat]
          /\ now \in 0 .. MaxNow
      BY DEF TypeOK
    <3>2. \/ watch' = watch
          \/ watch' = [watch EXCEPT !.count = @ + 1]
          \/ watch' = [addr |-> watch.addr, since |-> now, count |-> 0]
      BY DEF Admit, Drop
    <3> QED BY <3>1, <3>2
  <2> QED BY <1>1, <1>2, <1>3, <2>2, <2>3, <2>4, <2>5 DEF TypeOK
<1>5. TableInv' BY <1>1, <1>2, TableLemma
<1>6. StampInv'
  <2>1. now \in Nat BY DEF TypeOK
  <2>2. stamp'[i] \in 0 .. now BY <1>2, <2>1
  <2>3. rcon_table'[i].level = l BY <1>3
  <2> QED BY <1>1, <1>2, <1>3, <2>2, <2>3 DEF StampInv
<1>7. WatchInv'
  <2>1. \A j \in Slots : j # i => Debt(j)' = Debt(j)
    BY <1>2, <1>3 DEF Debt
  <2>2. Debt(i)' = l.burst * RconPeriod + stamp'[i]
    <3>1. rcon_table'[i].level = l BY <1>3
    <3> QED BY <3>1 DEF Debt
  <2>3. \A j \in Slots : Debt(j) \in Int
    <3> SUFFICES ASSUME NEW j \in Slots PROVE Debt(j) \in Int OBVIOUS
    <3>1. rcon_table[j].level.burst \in Int /\ stamp[j] \in Int
      BY DEF TypeOK
    <3>2. rcon_table[j].level.burst * RconPeriod \in Int BY <3>1
    <3> QED BY <3>1, <3>2 DEF Debt
  <2>4. Debt(i)' \in Int /\ stamp'[i] \in Int /\ l.burst \in Int
    <3>1. stamp'[i] \in Int /\ l.burst \in Int BY <1>2
    <3>2. l.burst * RconPeriod \in Int BY <3>1
    <3> QED BY <3>1, <3>2, <2>2
  <2>5. CASE watch.addr = addr
    <3>1. watch'.addr = addr /\ watch'.since = watch.since
          /\ watch'.count = watch.count + (IF Throttled(i, addr) THEN 0 ELSE 1)
      <4>1. CASE Throttled(i, addr)
        <5>1. Drop(addr, i) /\ watch' = watch BY <4>1, <1>1 DEF Drop
        <5>2. watch.count \in Nat BY DEF TypeOK
        <5> QED BY <4>1, <5>1, <5>2, <2>5
      <4>2. CASE ~Throttled(i, addr)
        <5>1. Admit(addr, i) BY <4>2, <1>1
        <5>2. watch' = [watch EXCEPT !.count = @ + 1] BY <5>1, <2>5 DEF Admit
        <5> QED BY <4>2, <5>2, <2>5 DEF TypeOK
      <4> QED BY <4>1, <4>2
    <3> SUFFICES ASSUME watch'.count > 0
                 PROVE  watch'.count * RconPeriod
                          <= Debt(i)' - watch.since + RconPeriod - 1
      BY <3>1, <1>1, <1>3 DEF WatchInv
    <3>2. watch.since \in Int /\ watch.count \in Nat /\ watch.since <= now
      BY DEF TypeOK, WatchInv
    <3>3. CASE watch.count = 0
      <4>1. ~Throttled(i, addr) /\ watch'.count = 1 BY <3>1, <3>3
      <4>2. l.burst * RconPeriod >= RconPeriod
        <5>1. l.burst \in Int /\ l.burst >= 1 BY <4>1, <1>2
        <5> QED BY <5>1
      <4>3. l.burst * RconPeriod \in Int BY <2>4
      <4>4. 1 * RconPeriod = RconPeriod OBVIOUS
      <4>5. now \in Int /\ now - RconPeriod < stamp'[i] BY <1>2 DEF TypeOK
      <4>6. Debt(i)' >= RconPeriod + stamp'[i] BY <4>2, <4>3, <2>2, <2>4
      <4> QED BY <4>1, <4>4, <4>5, <4>6, <3>2, <2>4
    <3>4. CASE watch.count > 0
      <4>1. PICK j \in Slots :
              /\ rcon_table[j].used /\ rcon_table[j].ip = addr
              /\ watch.count * RconPeriod
                    <= Debt(j) - watch.since + RconPeriod - 1
        BY <3>4, <2>5 DEF WatchInv
      <4>2. j = i /\ Hits(rcon_table, i, addr)
        <5>1. ~Evicts(rcon_table, i, addr)
          BY <4>1 DEF Evicts, TypeOK
        <5>2. ~Claims(rcon_table, i, addr)
          BY <4>1 DEF Claims, Passed, TableInv
        <5>3. Hits(rcon_table, i, addr) BY <5>1, <5>2, <1>1 DEF Selects
        <5> QED BY <5>3, <4>1 DEF Hits, TableInv
      <4>3. watch.count * RconPeriod \in Int
            /\ (watch.count + 1) * RconPeriod = watch.count * RconPeriod + RconPeriod
        BY <3>2
      <4>4. Debt(i)' >= Debt(i) + (IF Throttled(i, addr) THEN 0 ELSE RconPeriod)
        BY <4>2, <1>2, <2>2
      <4>5. CASE Throttled(i, addr)
        BY <4>1, <4>2, <4>3, <4>4, <4>5, <3>1, <3>2, <2>3, <2>4
      <4>6. CASE ~Throttled(i, addr)
        BY <4>1, <4>2, <4>3, <4>4, <4>6, <3>1, <3>2, <2>3, <2>4
      <4> QED BY <4>5, <4>6
    <3> QED BY <3>2, <3>3, <3>4
  <2>6. CASE watch.addr # addr
    <3>1. CASE watch' = [addr |-> watch.addr, since |-> now, count |-> 0]
      BY <3>1, <1>1 DEF WatchInv, TypeOK
    <3>2. CASE watch' = watch
      <4> SUFFICES ASSUME watch.count > 0
                   PROVE  \E j \in Slots :
                             /\ rcon_table'[j].used
                             /\ rcon_table'[j].ip = watch.addr
                             /\ watch.count * RconPeriod
                                   <= Debt(j)' - watch.since + RconPeriod - 1
        BY <3>2, <1>1 DEF WatchInv
      <4>1. PICK j \in Slots :
              /\ rcon_table[j].used /\ rcon_table[j].ip = watch.addr
              /\ watch.count * RconPeriod
                    <= Debt(j) - watch.since + RconPeriod - 1
        BY DEF WatchInv
      <4>2. j # i
        <5>1. CASE Hits(rcon_table, i, addr) BY <5>1, <4>1, <2>6 DEF Hits
        <5>2. CASE Throttled(i, addr) /\ ~Hits(rcon_table, i, addr)
          BY <5>2, FreshPasses
        <5>3. CASE ~Throttled(i, addr)
          <6>1. Admit(addr, i) BY <5>3, <1>1
          <6>2. watch.addr \in Addrs BY <4>1 DEF TypeOK
          <6>3. watch.addr # NoAddr BY <6>2
          <6>4. ASSUME j = i PROVE watch' = [addr |-> watch.addr, since |-> now, count |-> 0]
            BY <6>1, <6>3, <6>4, <4>1, <2>6 DEF Admit
          <6>5. ASSUME j = i PROVE watch'.count = 0
            BY <6>4, <6>5 DEF TypeOK
          <6> QED BY <6>5, <3>2
        <5> QED BY <5>1, <5>2, <5>3
      <4> QED BY <4>1, <4>2, <1>3, <2>1
    <3> QED BY <3>1, <3>2, <2>6 DEF Admit, Drop
  <2> QED BY <2>5, <2>6
<1> QED BY <1>4, <1>5, <1>6, <1>7

-----------------------------------------------------------------------------
(* Every step preserves the invariant.  Time can only help: stamps and     *)
(* window starts stay in the past.                                         *)
LEMMA InitInv == Init => Inv
<1> SUFFICES ASSUME Init PROVE Inv OBVIOUS
<1>1. Wrap(0) = 0 /\ 0 \in CInt BY WrapId, HalfAssumption DEF CInt
<1>2. \A i \in Slots : rcon_table[i] = Unused /\ stamp[i] = 0 BY DEF Init
<1>3. Unused \in Entry /\ ~Unused.used /\ Unused.level.burst = 0
      /\ Unused.level.lastTime = 0
  BY DEF Unused, Entry, Level, Fresh
<1>4. TypeOK BY <1>1, <1>2, <1>3 DEF Init, TypeOK
<1>5. TableInv BY <1>2, <1>3 DEF TableInv
<1>6. StampInv BY <1>1, <1>2, <1>3, <1>4 DEF StampInv, TypeOK
<1>7. WatchInv BY DEF Init, WatchInv
<1> QED BY <1>4, <1>5, <1>6, <1>7 DEF Inv

LEMMA NextInv == Inv /\ [Next]_vars => Inv'
<1> SUFFICES ASSUME Inv, [Next]_vars PROVE Inv' OBVIOUS
<1>1. ASSUME UNCHANGED codeVars, UNCHANGED stamp, UNCHANGED watch,
             now' \in 0 .. MaxNow, now' >= now,
             verdict' \in [addr : Addrs \cup {Loopback, NoAddr}, passed : BOOLEAN]
      PROVE  Inv'
  <2>1. TypeOK' BY <1>1 DEF Inv, TypeOK, codeVars
  <2>2. TableInv' BY <1>1 DEF Inv, TableInv, codeVars
  <2>3. StampInv'
    <3>1. \A i \in Slots : stamp[i] \in Int /\ now \in 0 .. MaxNow BY DEF Inv, TypeOK
    <3> QED BY <1>1, <3>1 DEF Inv, StampInv, codeVars
  <2>4. WatchInv'
    <3>1. watch.since \in Nat /\ now \in 0 .. MaxNow BY DEF Inv, TypeOK
    <3>2. \A i \in Slots : Debt(i)' = Debt(i) BY <1>1 DEF Debt, codeVars
    <3> QED BY <1>1, <3>1, <3>2 DEF Inv, WatchInv, codeVars
  <2> QED BY <2>1, <2>2, <2>3, <2>4 DEF Inv
<1>2. CASE Tick
  <2>1. now \in 0 .. MaxNow /\ verdict \in [addr : Addrs \cup {Loopback, NoAddr},
                                    passed : BOOLEAN]
    BY DEF Inv, TypeOK
  <2> QED BY <1>1, <1>2, <2>1 DEF Tick
<1>3. CASE FromLoopback
  <2>1. now \in 0 .. MaxNow BY DEF Inv, TypeOK
  <2> QED BY <1>1, <1>3, <2>1 DEF FromLoopback
<1>4. ASSUME NEW addr \in Addrs, Observe(addr) PROVE Inv'
  <2>1. watch' = [addr |-> addr, since |-> now, count |-> 0]
    BY <1>4 DEF Observe
  <2>2. now \in 0 .. MaxNow /\ now' = now BY <1>4 DEF Observe, Inv, TypeOK
  <2>3. TypeOK' BY <1>4, <2>1, <2>2 DEF Observe, Inv, TypeOK, codeVars
  <2>4. TableInv' BY <1>4 DEF Observe, Inv, TableInv, codeVars
  <2>5. StampInv' BY <1>4 DEF Observe, Inv, StampInv, codeVars
  <2>6. WatchInv' BY <2>1, <2>2 DEF WatchInv
  <2> QED BY <2>3, <2>4, <2>5, <2>6 DEF Inv
<1>5. ASSUME NEW addr \in Addrs, NEW i \in Slots,
             Admit(addr, i) \/ Drop(addr, i)
      PROVE  Inv'
  BY <1>5, AttemptLemma
<1>6. CASE UNCHANGED vars
  <2>1. now \in 0 .. MaxNow /\ verdict \in [addr : Addrs \cup {Loopback, NoAddr},
                                    passed : BOOLEAN]
    BY DEF Inv, TypeOK
  <2> QED BY <1>1, <1>6, <2>1 DEF vars
<1> QED BY <1>2, <1>3, <1>4, <1>5, <1>6 DEF Next

(* The window bound follows: the debt of a bucket is at most RconBurst     *)
(* periods past now.                                                       *)
LEMMA InvBounds == Inv => WindowBound
<1> SUFFICES ASSUME Inv PROVE WindowBound OBVIOUS
<1> DEFINE w == now - watch.since + RconPeriod - 1
<1>1. /\ now \in 0 .. MaxNow /\ watch.since \in Nat /\ watch.count \in Nat
      /\ watch.since <= now
  BY DEF Inv, TypeOK, WatchInv
<1>2. w \in Int /\ w >= 0 /\ RconBurst \in Nat BY <1>1
<1>3. CASE watch.count = 0
  <2>1. 0 * RconPeriod <= w BY <1>2
  <2> HIDE DEF w
  <2>2. 0 <= w \div RconPeriod BY <2>1, <1>2, DivBound
  <2>3. w \div RconPeriod \in Int BY <1>2
  <2>4. watch.count <= RconBurst + (w \div RconPeriod)
    BY <2>2, <2>3, <1>2, <1>3
  <2> QED BY <2>4 DEF w, WindowBound
<1>4. CASE watch.count > 0
  <2>1. PICK i \in Slots :
          watch.count * RconPeriod <= Debt(i) - watch.since + RconPeriod - 1
    BY <1>4 DEF Inv, WatchInv
  <2>2. stamp[i] \in Int /\ stamp[i] <= now
        /\ rcon_table[i].level.burst \in 0 .. RconBurst
    BY DEF Inv, TypeOK, StampInv
  <2>3. rcon_table[i].level.burst * RconPeriod <= RconBurst * RconPeriod
        /\ rcon_table[i].level.burst * RconPeriod \in Int
    BY <2>2
  <2>4. Debt(i) <= RconBurst * RconPeriod + now /\ Debt(i) \in Int
    BY <2>2, <2>3, <1>1 DEF Debt
  <2>5. watch.count * RconPeriod <= RconBurst * RconPeriod + w
    BY <2>1, <2>4, <1>1
  <2>6. (watch.count - RconBurst) * RconPeriod <= w
    <3>1. (watch.count - RconBurst) * RconPeriod
            = watch.count * RconPeriod - RconBurst * RconPeriod
      BY <1>1
    <3>2. watch.count * RconPeriod \in Int /\ RconBurst * RconPeriod \in Int
      BY <1>1
    <3> HIDE DEF w
    <3> QED BY <3>1, <3>2, <2>5, <1>2
  <2> HIDE DEF w
  <2>7. watch.count - RconBurst \in Int BY <1>1, <1>2
  <2>8. watch.count - RconBurst <= w \div RconPeriod
    BY <2>6, <2>7, <1>2, DivBound
  <2>9. w \div RconPeriod \in Int BY <1>2
  <2>10. watch.count <= RconBurst + (w \div RconPeriod)
    BY <2>8, <2>9, <1>1, <1>2
  <2> QED BY <2>10 DEF w, WindowBound
<1> QED BY <1>1, <1>3, <1>4

(* The invariant holds in every state the throttle reaches.                *)
THEOREM Invariance == Spec => []Inv
  BY InitInv, NextInv, PTL DEF Spec

(* Buckets hold clock values and burst counts in range, and only known     *)
(* addresses own one.                                                      *)
THEOREM TypeCorrect == Spec => []TypeOK
<1>1. Inv => TypeOK BY DEF Inv
<1> QED BY <1>1, Invariance, PTL

(* No address ever owns two buckets, and the entries in use come first.    *)
THEOREM TableWellFormed == Spec => []TableInv
<1>1. Inv => TableInv BY DEF Inv
<1> QED BY <1>1, Invariance, PTL

(* No address that keeps its bucket gets more than RconBurst attempts and  *)
(* one per started period through in any window, across any number of      *)
(* wraps of the clock.                                                     *)
THEOREM WindowBounded == Spec => []WindowBound
  BY InvBounds, Invariance, PTL

-----------------------------------------------------------------------------
(* The throttle implements RateContract, as long as the 32-bit clock does  *)
(* not come full circle while the process runs (2^32 milliseconds, 49.7    *)
(* days of machine uptime).                                                *)
Unique(t) ==
    \A i, j \in Slots : t[i].used /\ t[j].used /\ t[i].ip = t[j].ip => i = j

(* In a table without duplicates SlotOf inverts the ip field.              *)
LEMMA SlotOfUnique ==
    ASSUME NEW t, Unique(t), NEW i \in Slots, t[i].used
    PROVE  t[i].ip \in Tracked(t) /\ SlotOf(t, t[i].ip) = i
<1>1. t[i].ip \in Tracked(t) BY DEF Tracked
<1>2. \E k \in Slots : t[k].used /\ t[k].ip = t[i].ip OBVIOUS
<1>3. SlotOf(t, t[i].ip) \in Slots /\ t[SlotOf(t, t[i].ip)].used
      /\ t[SlotOf(t, t[i].ip)].ip = t[i].ip
  BY <1>2 DEF SlotOf
<1> QED BY <1>1, <1>3 DEF Unique

(* The mapped debt of an address is that of the only entry it owns.        *)
LEMMA DueOfEntry ==
    ASSUME NEW t, NEW st, Unique(t), NEW i \in Slots, t[i].used
    PROVE  /\ t[i].ip \in DOMAIN DueOf(t, st)
           /\ DueOf(t, st)[t[i].ip] = t[i].level.burst * RconPeriod + st[i]
  BY SlotOfUnique DEF DueOf

(* The owners of the entries in use other than i. *)
Others(t, i) == {t[j].ip : j \in {k \in Slots : t[k].used /\ k # i}}

(* An attempt changes the mapped debt of no address but its own.           *)
LEMMA DueAfterCharge ==
    ASSUME Inv, Inv', NEW addr \in Addrs, NEW i \in Slots, Charge(i, addr)
    PROVE  /\ DOMAIN DueOf(rcon_table', stamp') = {addr} \cup Others(rcon_table, i)
           /\ DueOf(rcon_table', stamp')[addr] =
                 rcon_table'[i].level.burst * RconPeriod + stamp'[i]
           /\ \A x \in Others(rcon_table, i) : x # addr =>
                 DueOf(rcon_table', stamp')[x] = DueOf(rcon_table, stamp)[x]
<1> DEFINE u == rcon_table'
           su == stamp'
<1>1. /\ u[i].used /\ u[i].ip = addr
      /\ \A j \in Slots : j # i => u[j] = rcon_table[j] /\ su[j] = stamp[j]
  BY DEF Charge, Inv, TypeOK
<1>2. Unique(rcon_table) /\ Unique(u) BY DEF Inv, TableInv, Unique
<1> HIDE DEF u, su
<1>3. Tracked(u) = {addr} \cup Others(rcon_table, i)
  BY <1>1 DEF Tracked, Others
<1>4. ASSUME NEW x \in Others(rcon_table, i), x # addr
      PROVE  DueOf(u, su)[x] = DueOf(rcon_table, stamp)[x]
  <2>1. PICK j \in Slots : rcon_table[j].used /\ j # i /\ rcon_table[j].ip = x
    BY DEF Others
  <2>2. u[j] = rcon_table[j] /\ su[j] = stamp[j] BY <1>1, <2>1
  <2>3. DueOf(rcon_table, stamp)[x] = rcon_table[j].level.burst * RconPeriod + stamp[j]
    BY <1>2, <2>1, DueOfEntry
  <2>4. DueOf(u, su)[x] = u[j].level.burst * RconPeriod + su[j]
    BY <1>2, <2>1, <2>2, DueOfEntry
  <2> QED BY <2>2, <2>3, <2>4
<1>5. DueOf(u, su)[addr] = u[i].level.burst * RconPeriod + su[i]
  BY <1>1, <1>2, DueOfEntry
<1>6. DOMAIN DueOf(u, su) = Tracked(u) BY DEF DueOf
<1> QED BY <1>3, <1>4, <1>5, <1>6 DEF u, su

-----------------------------------------------------------------------------
(* What an attempt is charged from, in the terms of the contract.          *)
LEMMA ChargedFrom ==
    ASSUME Inv, MaxNow < 2 * Half, NEW addr \in Addrs, NEW i \in Slots,
           Selects(rcon_table, i, addr), Charge(i, addr)
    PROVE  \E from \in Int :
            /\ rcon_table'[i].level.burst * RconPeriod + stamp'[i] =
                  IF Throttled(i, addr) THEN from ELSE from + RconPeriod
            /\ Hits(rcon_table, i, addr) =>
                 \/ from = Debt(i) /\ now - RconPeriod < from
                 \/ from = now /\ Debt(i) <= now
            /\ ~Hits(rcon_table, i, addr) => now - RconPeriod < from /\ from <= now
            /\ ~Throttled(i, addr) => from <= now + (RconBurst - 1) * RconPeriod
            /\ Throttled(i, addr) =>
                 from = Debt(i) /\ from > now + (RconBurst - 1) * RconPeriod
<1> DEFINE b == Found(rcon_table, i, addr)
           s == IF Hits(rcon_table, i, addr) THEN stamp[i] ELSE 0
           l == RateLimit(b, RconBurst, RconPeriod, clock)
           d == Drain(b, RconPeriod, clock)
           t == DrainedTo(b, RconPeriod, now)
           from == d.burst * RconPeriod + t
<1>1. now \in Nat /\ s \in Nat /\ s <= now /\ now - s < 2 * Half /\ b \in Level
      /\ b.lastTime = Wrap(s) /\ b.burst \in 0 .. RconBurst
  <2>1. CASE Hits(rcon_table, i, addr)
    BY <2>1, HalfAssumption DEF Inv, TypeOK, StampInv, Found, Entry
  <2>2. CASE ~Hits(rcon_table, i, addr)
    <3>1. Wrap(0) = 0 BY WrapId, HalfAssumption DEF CInt
    <3> QED BY <2>2, <3>1, HalfAssumption DEF Inv, TypeOK, Found, Fresh, Level
  <2> QED BY <2>1, <2>2
<1>2. /\ d.burst \in 0 .. RconBurst
      /\ t \in Int /\ t <= now /\ now - RconPeriod < t
      /\ b.burst * RconPeriod + s <= d.burst * RconPeriod + t
      /\ \/ d.burst * RconPeriod + t = b.burst * RconPeriod + s
         \/ d.burst = 0 /\ t = now
      /\ b.burst = 0 => d.burst = 0
  <2> HIDE DEF b, s
  <2> QED BY <1>1, DrainLemma
<1>3. /\ Throttled(i, addr) => l.burst = RconBurst /\ d.burst = RconBurst
      /\ ~Throttled(i, addr) => l.burst = d.burst + 1 /\ d.burst < RconBurst
  <2>1. Throttled(i, addr) <=> OverLimit(b, RconBurst, RconPeriod, ClockMs(now))
    BY DEF Throttled
  <2>2. /\ OverLimit(b, RconBurst, RconPeriod, ClockMs(now)) =>
               l.burst = RconBurst /\ d.burst = RconBurst
        /\ ~OverLimit(b, RconBurst, RconPeriod, ClockMs(now)) =>
               l.burst = d.burst + 1 /\ d.burst < RconBurst
    <3> HIDE DEF b, s
    <3> QED BY <1>1, RateLimitLemma
  <2> HIDE DEF b, s, l, d, t
  <2> QED BY <2>1, <2>2
<1>4. stamp'[i] = t /\ rcon_table'[i].level = l
  <2>1. stamp \in [Slots -> Nat] /\ rcon_table \in [Slots -> Entry]
    BY DEF Inv, TypeOK
  <2> QED BY <2>1 DEF Charge
<1>5. Hits(rcon_table, i, addr) => Debt(i) = b.burst * RconPeriod + s
  BY DEF Found, Debt
<1>6. ~Hits(rcon_table, i, addr) => b.burst = 0
  BY DEF Found, Fresh
<1>7. Throttled(i, addr) => Hits(rcon_table, i, addr) BY FreshPasses
<1> HIDE DEF b, s, l, d, t
<1>8. d.burst * RconPeriod \in Int /\ b.burst * RconPeriod \in Int
      /\ (d.burst + 1) * RconPeriod = d.burst * RconPeriod + RconPeriod
      /\ (RconBurst - 1) * RconPeriod = RconBurst * RconPeriod - RconPeriod
      /\ RconBurst * RconPeriod \in Int
  BY <1>1, <1>2
<1>9. from \in Int BY <1>2, <1>8
<1>10. rcon_table'[i].level.burst * RconPeriod + stamp'[i] =
         IF Throttled(i, addr) THEN from ELSE from + RconPeriod
  <2>1. CASE Throttled(i, addr)
    BY <2>1, <1>3, <1>4
  <2>2. CASE ~Throttled(i, addr)
    <3>1. l.burst * RconPeriod = d.burst * RconPeriod + RconPeriod
      BY <2>2, <1>3, <1>8
    <3> QED BY <2>2, <3>1, <1>2, <1>4, <1>8
  <2> QED BY <2>1, <2>2
<1>11. d.burst = 0 => d.burst * RconPeriod = 0 OBVIOUS
<1>12. d.burst * RconPeriod >= 0 BY <1>2
<1>13. ASSUME Hits(rcon_table, i, addr)
       PROVE  \/ from = Debt(i) /\ now - RconPeriod < from
              \/ from = now /\ Debt(i) <= now
  BY <1>1, <1>2, <1>5, <1>8, <1>11, <1>12, <1>13
<1>14. ASSUME ~Hits(rcon_table, i, addr)
       PROVE  now - RconPeriod < from /\ from <= now
  <2>1. d.burst = 0 BY <1>2, <1>6, <1>14
  <2>2. from = t BY <2>1, <1>2, <1>11
  <2> QED BY <2>2, <1>2
<1>15. ASSUME ~Throttled(i, addr)
       PROVE  from <= now + (RconBurst - 1) * RconPeriod
  <2>1. d.burst <= RconBurst - 1 /\ d.burst \in Int BY <1>2, <1>3, <1>15
  <2>2. d.burst * RconPeriod <= (RconBurst - 1) * RconPeriod BY <2>1
  <2> QED BY <2>2, <1>1, <1>2, <1>8
<1>16. ASSUME Throttled(i, addr)
       PROVE  from = Debt(i) /\ from > now + (RconBurst - 1) * RconPeriod
  <2>1. d.burst = RconBurst /\ d.burst # 0 BY <1>3, <1>16
  <2>2. d.burst * RconPeriod = RconBurst * RconPeriod BY <2>1
  <2> QED BY <2>1, <2>2, <1>1, <1>2, <1>5, <1>7, <1>8, <1>16
<1> HIDE DEF from
<1> QED BY <1>9, <1>10, <1>13, <1>14, <1>15, <1>16

-----------------------------------------------------------------------------
(* The entry BucketFor chooses belongs to addr already, or to nobody, or   *)
(* to the one address that is displaced when the table is full.            *)
LEMMA Displaced ==
    ASSUME Inv, NEW addr \in Addrs, NEW i \in Slots,
           Selects(rcon_table, i, addr)
    PROVE  LET known == DOMAIN DueOf(rcon_table, stamp)
               others == Others(rcon_table, i)
           IN  /\ Hits(rcon_table, i, addr) => /\ addr \in known
                                               /\ known = {addr} \cup others
               /\ ~Hits(rcon_table, i, addr) =>
                     /\ addr \notin known
                     /\ \/ known = others
                        \/ \E x \in known : others = known \ {x}
<1> DEFINE known == DOMAIN DueOf(rcon_table, stamp)
           others == Others(rcon_table, i)
<1>1. known = Tracked(rcon_table) BY DEF DueOf
<1>2. TableInv /\ DOMAIN rcon_table = Slots BY DEF Inv, TypeOK
<1>3. rcon_table[i].used => known = {rcon_table[i].ip} \cup others
  BY <1>1 DEF Tracked, Others
<1>4. ~rcon_table[i].used => known = others
  BY <1>1 DEF Tracked, Others
<1>5. rcon_table[i].used => rcon_table[i].ip \notin others
  BY <1>2 DEF TableInv, Others
<1>6. ASSUME Claims(rcon_table, i, addr) \/ Evicts(rcon_table, i, addr)
      PROVE  addr \notin known
  <2>1. \A j \in Slots : rcon_table[j].used => rcon_table[j].ip # addr
    BY <1>2, <1>6 DEF Claims, Evicts, Passed, TableInv
  <2> QED BY <2>1, <1>1 DEF Tracked
<1>7. Hits(rcon_table, i, addr) => rcon_table[i].used /\ rcon_table[i].ip = addr
  BY DEF Hits
<1> HIDE DEF known, others
<1>8. Hits(rcon_table, i, addr) => addr \in known /\ known = {addr} \cup others
  BY <1>3, <1>7
<1>9. ~Hits(rcon_table, i, addr) => addr \notin known BY <1>6 DEF Selects
<1>10. known = others \/ \E x \in known : others = known \ {x}
  <2>1. CASE rcon_table[i].used
    <3>1. rcon_table[i].ip \in known /\ others = known \ {rcon_table[i].ip}
      BY <2>1, <1>3, <1>5
    <3> QED BY <3>1
  <2>2. CASE ~rcon_table[i].used BY <2>2, <1>4
  <2> QED BY <2>1, <2>2
<1> QED BY <1>8, <1>9, <1>10 DEF known, others

(* An attempt that passes is an admission of the contract.                 *)
LEMMA AdmitImplements ==
    ASSUME Inv, Inv', MaxNow < 2 * Half, NEW addr \in Addrs, NEW i \in Slots,
           Admit(addr, i)
    PROVE  Contract!Admit(addr)
<1> DEFINE due == DueOf(rcon_table, stamp)
           known == DOMAIN due
           others == Others(rcon_table, i)
           kept == IF Hits(rcon_table, i, addr) THEN known ELSE others
<1>1. Selects(rcon_table, i, addr) /\ Charge(i, addr) /\ ~Throttled(i, addr)
      /\ verdict' = [addr |-> addr, passed |-> TRUE] /\ now' = now
  BY DEF Admit
<1>2. PICK from \in Int :
        /\ rcon_table'[i].level.burst * RconPeriod + stamp'[i] = from + RconPeriod
        /\ Hits(rcon_table, i, addr) =>
             \/ from = Debt(i) /\ now - RconPeriod < from
             \/ from = now /\ Debt(i) <= now
        /\ ~Hits(rcon_table, i, addr) => now - RconPeriod < from /\ from <= now
        /\ from <= now + (RconBurst - 1) * RconPeriod
  BY <1>1, ChargedFrom
<1>3. /\ rcon_table'[i].used /\ rcon_table'[i].ip = addr
      /\ \A j \in Slots : j # i => rcon_table'[j] = rcon_table[j] /\ stamp'[j] = stamp[j]
  BY <1>1 DEF Charge, Inv, TypeOK
<1>4. Unique(rcon_table) /\ Unique(rcon_table') BY DEF Inv, TableInv, Unique
<1>5. /\ Hits(rcon_table, i, addr) => addr \in known /\ known = {addr} \cup others
      /\ ~Hits(rcon_table, i, addr) =>
             /\ addr \notin known
             /\ known = others \/ \E x \in known : others = known \ {x}
  <2> HIDE DEF Selects
  <2> QED BY <1>1, Displaced
<1>6. DueOf(rcon_table', stamp') =
        [x \in kept \cup {addr} |-> IF x = addr THEN from + RconPeriod ELSE due[x]]
  <2>1. kept \cup {addr} = {addr} \cup others
    <3> HIDE DEF known, others
    <3> QED BY <1>5
  <2> HIDE DEF kept
  <2>3. /\ DOMAIN DueOf(rcon_table', stamp') = {addr} \cup others
        /\ DueOf(rcon_table', stamp')[addr] =
              rcon_table'[i].level.burst * RconPeriod + stamp'[i]
        /\ \A x \in others : x # addr =>
              DueOf(rcon_table', stamp')[x] = DueOf(rcon_table, stamp)[x]
    BY <1>1, DueAfterCharge
  <2>4. DueOf(rcon_table', stamp') =
          [x \in DOMAIN DueOf(rcon_table', stamp') |-> DueOf(rcon_table', stamp')[x]]
    BY DEF DueOf
  <2> HIDE DEF others
  <2> QED BY <2>1, <2>3, <2>4, <1>2, <1>3
<1>7. Hits(rcon_table, i, addr) => due[addr] = Debt(i)
  BY <1>4, DueOfEntry DEF Hits, Debt
<1>8. Debt(i) \in Int /\ now \in Int /\ (RconBurst - 1) * RconPeriod \in Int
  <2>1. rcon_table[i].level.burst \in Int /\ stamp[i] \in Int /\ now \in Int
    BY EntryTypes
  <2>2. rcon_table[i].level.burst * RconPeriod \in Int BY <2>1
  <2> QED BY <2>1, <2>2 DEF Debt
<1> HIDE DEF due, others, kept
<1>9. ~Contract!InDebt(addr)
  <2>1. addr \in known => Hits(rcon_table, i, addr) BY <1>5
  <2>2. Hits(rcon_table, i, addr) => due[addr] <= now + (RconBurst - 1) * RconPeriod
    <3>1. 0 <= (RconBurst - 1) * RconPeriod
      <4>1. RconBurst - 1 \in Nat OBVIOUS
      <4> QED BY <4>1
    <3> QED BY <1>2, <1>7, <1>8, <3>1
  <2>3. ~(addr \in known /\ due[addr] > now + (RconBurst - 1) * RconPeriod)
    <3>1. Hits(rcon_table, i, addr) => due[addr] \in Int BY <1>7, <1>8
    <3> QED BY <2>1, <2>2, <3>1, <1>8
  <2> QED BY <2>3 DEF Contract!InDebt, Contract!Known, due
<1>10. kept \in Contract!Kept(addr)
  <2>1. kept = known \/ (addr \notin known /\ \E x \in known : kept = known \ {x})
    BY <1>5 DEF kept
  <2> QED BY <2>1 DEF Contract!Kept, Contract!Known, due
<1>11. from \in Contract!Charged(addr)
  <2>1. CASE Hits(rcon_table, i, addr)
    <3>1. addr \in known /\ due[addr] = Debt(i) BY <2>1, <1>5, <1>7
    <3>2. from \in Contract!Later(due[addr], now - RconPeriod + 1)
                    .. Contract!Later(due[addr], now)
      BY <3>1, <2>1, <1>2, <1>8 DEF Contract!Later
    <3> QED BY <3>1, <3>2 DEF Contract!Charged, Contract!Known, due
  <2>2. CASE ~Hits(rcon_table, i, addr)
    <3>1. addr \notin known BY <2>2, <1>5
    <3>2. from \in (now - RconPeriod + 1) .. now BY <2>2, <1>2, <1>8
    <3> QED BY <3>1, <3>2 DEF Contract!Charged, Contract!Known, due
  <2> QED BY <2>1, <2>2
<1>12. DueOf(rcon_table, stamp)' = DueOf(rcon_table', stamp')
  BY DEF DueOf, Tracked, SlotOf
<1> QED BY <1>1, <1>6, <1>9, <1>10, <1>11, <1>12 DEF Contract!Admit, due

(* An attempt that is dropped is a drop of the contract.                   *)
LEMMA DropImplements ==
    ASSUME Inv, Inv', MaxNow < 2 * Half, NEW addr \in Addrs, NEW i \in Slots,
           Drop(addr, i)
    PROVE  Contract!Drop(addr)
<1> DEFINE due == DueOf(rcon_table, stamp)
           known == DOMAIN due
           others == Others(rcon_table, i)
<1>1. Selects(rcon_table, i, addr) /\ Charge(i, addr) /\ Throttled(i, addr)
      /\ verdict' = [addr |-> addr, passed |-> FALSE] /\ now' = now
  BY DEF Drop
<1>2. Hits(rcon_table, i, addr) BY <1>1, FreshPasses
<1>3. /\ rcon_table'[i].level.burst * RconPeriod + stamp'[i] = Debt(i)
      /\ Debt(i) > now + (RconBurst - 1) * RconPeriod
  BY <1>1, ChargedFrom
<1>4. /\ rcon_table'[i].used /\ rcon_table'[i].ip = addr
      /\ \A j \in Slots : j # i => rcon_table'[j] = rcon_table[j] /\ stamp'[j] = stamp[j]
  BY <1>1 DEF Charge, Inv, TypeOK
<1>5. Unique(rcon_table) /\ Unique(rcon_table') BY DEF Inv, TableInv, Unique
<1>6. addr \in known /\ known = {addr} \cup others
  <2> HIDE DEF Selects
  <2> QED BY <1>1, <1>2, Displaced
<1>7. due[addr] = Debt(i)
  BY <1>2, <1>5, DueOfEntry DEF Hits, Debt
<1>8. DueOf(rcon_table', stamp') =
        [x \in known \cup {addr} |-> IF x = addr THEN Debt(i) ELSE due[x]]
  <2> HIDE DEF known
  <2>1. known \cup {addr} = {addr} \cup others BY <1>6
  <2>2. /\ DOMAIN DueOf(rcon_table', stamp') = {addr} \cup others
        /\ DueOf(rcon_table', stamp')[addr] =
              rcon_table'[i].level.burst * RconPeriod + stamp'[i]
        /\ \A x \in others : x # addr =>
              DueOf(rcon_table', stamp')[x] = DueOf(rcon_table, stamp)[x]
    BY <1>1, DueAfterCharge
  <2>3. DueOf(rcon_table', stamp') =
          [x \in DOMAIN DueOf(rcon_table', stamp') |-> DueOf(rcon_table', stamp')[x]]
    BY DEF DueOf
  <2> HIDE DEF others
  <2> QED BY <2>1, <2>2, <2>3, <1>3, <1>4
<1>9. due = [x \in known |-> due[x]] BY DEF DueOf
<1>10. DueOf(rcon_table, stamp)' = DueOf(rcon_table', stamp')
  BY DEF DueOf, Tracked, SlotOf
<1>11. DueOf(rcon_table', stamp') = due
  <2> HIDE DEF due
  <2>1. known \cup {addr} = known BY <1>6
  <2> HIDE DEF known
  <2> QED BY <1>7, <1>8, <1>9, <2>1
<1> HIDE DEF due
<1>12. Contract!InDebt(addr)
  BY <1>3, <1>6, <1>7 DEF Contract!InDebt, Contract!Known, due
<1> QED BY <1>1, <1>10, <1>11, <1>12 DEF Contract!Drop, due

(* Every initial state of the throttle is one of the contract.             *)
LEMMA InitImplements == Init => Contract!Init
<1> SUFFICES ASSUME Init PROVE Contract!Init OBVIOUS
<1>1. \A i \in Slots : ~rcon_table[i].used BY DEF Init, Unused
<1>2. Tracked(rcon_table) = {} BY <1>1 DEF Tracked
<1>3. DueOf(rcon_table, stamp) = [a \in {} |-> 0] BY <1>2 DEF DueOf
<1>4. now \in Nat BY DEF Init
<1> QED BY <1>3, <1>4 DEF Init, Contract!Init

(* Every step of the throttle is a step of the contract or a stutter.      *)
LEMMA NextImplements ==
    ASSUME Inv, Inv', MaxNow < 2 * Half, [Next]_vars
    PROVE  [Contract!Next]_(Contract!vars)
<1>1. ASSUME UNCHANGED <<rcon_table, stamp>>
      PROVE  DueOf(rcon_table, stamp)' = DueOf(rcon_table, stamp)
  BY <1>1 DEF DueOf, Tracked, SlotOf
<1>2. CASE Tick
  <2>1. now' \in Nat /\ now' > now BY <1>2 DEF Tick, Inv, TypeOK
  <2> QED BY <1>1, <1>2, <2>1 DEF Tick, codeVars, Contract!Tick, Contract!Next
<1>3. CASE FromLoopback
  BY <1>1, <1>3 DEF FromLoopback, codeVars, Contract!Exempt, Contract!Next
<1>4. ASSUME NEW addr \in Addrs, Observe(addr)
      PROVE  UNCHANGED Contract!vars
  BY <1>1, <1>4 DEF Observe, codeVars, Contract!vars
<1>5. ASSUME NEW addr \in Addrs, NEW i \in Slots,
             Admit(addr, i) \/ Drop(addr, i)
      PROVE  Contract!Next
  <2>1. addr \in (Addrs \cup {Loopback}) \ {Loopback} OBVIOUS
  <2>2. Contract!Admit(addr) \/ Contract!Drop(addr)
    BY <1>5, AdmitImplements, DropImplements
  <2> QED BY <2>1, <2>2 DEF Contract!Next
<1>6. CASE UNCHANGED vars
  BY <1>1, <1>6 DEF vars, codeVars, Contract!vars
<1> QED BY <1>2, <1>3, <1>4, <1>5, <1>6 DEF Next

(* The throttle drops an attempt exactly when its address owes more than   *)
(* the burst allows, and forgets an address only to remember a new one.    *)
THEOREM ImplementsContract ==
    ASSUME MaxNow < 2 * Half
    PROVE  Spec => ContractSpec
<1>1. Inv /\ Inv' /\ [Next]_vars => [Contract!Next]_(Contract!vars)
  BY NextImplements
<1> QED BY InitImplements, Invariance, <1>1, PTL
        DEF Spec, ContractSpec, Contract!Spec
=============================================================================
