--------------------------- MODULE OobGuardProofs ---------------------------
(***************************************************************************)
(* Proofs about OobGuard, for any number of addresses and buckets, any     *)
(* settings of the cvars and any width of an int: the limiter is never     *)
(* disarmed, and both windows hold.                                        *)
(***************************************************************************)
EXTENDS OobGuard, OperatorProofs

(* n divided by an r that fits in it is positive, and r of it fit in n.    *)
LEMMA QuotientFacts ==
    ASSUME NEW n \in Nat \ {0}, NEW r \in 1 .. n
    PROVE  n \div r \in Nat \ {0} /\ r * (n \div r) \in Nat /\ r * (n \div r) <= n
<1> DEFINE p == n \div r
<1>1. p \in Int /\ n % r \in 0 .. (r - 1) /\ n = r * p + (n % r)
  <2>1. n \in Int /\ r \in Nat \ {0} OBVIOUS
  <2> QED BY <2>1, DivMod
<1> HIDE DEF p
<1>2. p >= 1
  <2>1. p <= 0 => r * p <= 0 BY <1>1
  <2>2. r * p \in Int BY <1>1
  <2> QED BY <2>1, <2>2, <1>1
<1>3. r * p <= n /\ r * p \in Nat BY <1>1, <1>2
<1> QED BY <1>1, <1>2, <1>3 DEF p

(* The first packet let through since the window began pays for itself. *)
LEMMA FirstPass ==
    ASSUME NEW P \in Nat \ {0}, NEW b \in Nat, b >= 1, NEW s \in Int,
           NEW now0 \in Int, NEW since \in Int, since <= now0, now0 - P < s
    PROVE  1 * P <= b * P + s - since + P - 1
<1>1. b * P >= P /\ b * P \in Int OBVIOUS
<1>2. 1 * P = P OBVIOUS
<1> QED BY <1>1, <1>2

(* So does every further one. *)
LEMMA NextPass ==
    ASSUME NEW P \in Nat \ {0}, NEW n \in Nat, NEW k \in {0, 1},
           NEW b \in Nat, NEW s \in Int, NEW b2 \in Nat, NEW s2 \in Int,
           NEW since \in Int,
           n * P <= b * P + s - since + P - 1,
           b2 * P + s2 >= b * P + s + (IF k = 1 THEN P ELSE 0)
    PROVE  (n + k) * P <= b2 * P + s2 - since + P - 1
<1>1. n * P \in Int /\ b * P \in Int /\ b2 * P \in Int OBVIOUS
<1>2. CASE k = 1
  <2>1. (n + 1) * P = n * P + P OBVIOUS
  <2> QED BY <2>1, <1>1, <1>2
<1>3. CASE k = 0
  <2>1. n + 0 = n OBVIOUS
  <2> QED BY <2>1, <1>1, <1>3
<1> QED BY <1>2, <1>3

USE OobAssumption DEF Slots, clock

-----------------------------------------------------------------------------
(* The arithmetic of the configuration. *)

(* A rate in range gives a period of at least a millisecond, and a burst   *)
(* that leaks out in no more than half a turn of the clock.                *)
LEMMA RateFacts ==
    ASSUME NEW r \in 1 .. MaxRate
    PROVE  /\ Second \div r \in Nat \ {0}
           /\ r \in 1 .. MaxRate /\ r * (Second \div r) <= Half
           /\ BurstFactor * r \in 1 .. (BurstFactor * MaxRate)
           /\ (BurstFactor * r) * (Second \div r) <= Half
<1> DEFINE p == Second \div r
<1>1. /\ r \in Nat \ {0} /\ r <= Second /\ Second \in Nat \ {0}
      /\ MaxRate \in Nat \ {0} /\ BurstFactor \in Nat \ {0}
  OBVIOUS
<1>2. r \in 1 .. Second OBVIOUS
<1>3. p \in Nat \ {0} /\ r * p \in Nat /\ r * p <= Second
  BY <1>1, <1>2, QuotientFacts
<1> HIDE DEF p
<1>4. r * p <= Second /\ r * p \in Nat BY <1>3
<1>5. BurstFactor * (r * p) <= BurstFactor * Second BY <1>1, <1>4
<1>6. (BurstFactor * r) * p = BurstFactor * (r * p) BY <1>1, <1>3
<1>7. BurstFactor * Second \in Nat /\ Second <= BurstFactor * Second BY <1>1
<1>8. BurstFactor * r >= 1 /\ BurstFactor * r <= BurstFactor * MaxRate
      /\ BurstFactor * r \in Int /\ BurstFactor * MaxRate \in Int
  BY <1>1
<1>9. p \in Nat \ {0} BY <1>3
<1>10. r * p <= Half BY <1>4, <1>7, HalfAssumption
<1>11. (BurstFactor * r) * p <= Half
  <2>1. BurstFactor * (r * p) \in Int BY <1>4
  <2> QED BY <2>1, <1>5, <1>6, <1>7, HalfAssumption
<1> QED BY <1>8, <1>9, <1>10, <1>11 DEF p

(* No period is longer than a second. *)
LEMMA PeriodBound ==
    ASSUME NEW r \in 1 .. MaxRate
    PROVE  Second \div r <= Second
<1>1. r \in 1 .. Second /\ Second \in Nat \ {0} OBVIOUS
<1> DEFINE p == Second \div r
<1>2. p \in Nat \ {0} /\ r * p <= Second BY <1>1, QuotientFacts
<1> HIDE DEF p
<1>3. p <= r * p BY <1>1, <1>2
<1> QED BY <1>1, <1>2, <1>3 DEF p

(* What the cvars ask for is brought into range. *)
LEMMA RateInRange ==
    ASSUME NEW v \in Int, NEW default \in 1 .. MaxRate
    PROVE  Rate(v, default) \in 1 .. MaxRate
  BY DEF Rate

-----------------------------------------------------------------------------
(* The inductive invariant.                                                *)

(* Rates are out of range only until the first packet has been judged. *)
CfgInv ==
    \/ oob_cfg.ip \in 1 .. MaxRate /\ oob_cfg.all \in 1 .. MaxRate
    \/ /\ oob_cfg.time = 0
       /\ \A i \in Slots : ~oob_table[i].used
       /\ watch.count = 0

(* The clock value in a bucket is the low bits of an uptime in the past. *)
StampInv ==
    /\ \A i \in Slots : \E s \in 0 .. now : oob_table[i].level.lastTime = Wrap(s)
    /\ stampAll \in 0 .. now /\ oob_global.lastTime = Wrap(stampAll)

(* Every packet let through since the window began has moved the debt of   *)
(* the bucket one period further past the beginning of the window.         *)
Owes(level, s, burst, period) ==
    /\ level.burst <= burst
    /\ watch.count * period <= level.burst * period + s - watch.since + period - 1

AllOwes == Owes(oob_global, stampAll, AllBurst(oob_cfg), AllPeriod(oob_cfg))

IpOwes(i, s) ==
    /\ oob_table[i].used /\ oob_table[i].ip = watch.addr
    /\ oob_table[i].level.lastTime = Wrap(s)
    /\ Owes(oob_table[i].level, s, IpBurst(oob_cfg), IpPeriod(oob_cfg))

WatchInv ==
    /\ watch.since <= now
    /\ watch.count > 0 =>
          IF watch.addr = All THEN AllOwes
          ELSE \E i \in Slots, s \in 0 .. now : IpOwes(i, s)

IInv == TypeOK /\ WellFormed(oob_table) /\ CfgInv /\ StampInv /\ WatchInv

(* It holds when the game module has just been loaded. *)
LEMMA InitInv == Init => IInv
<1> SUFFICES ASSUME Init PROVE IInv OBVIOUS
<1>1. now \in Nat /\ 0 \in CInt /\ Wrap(0) = 0
  BY WrapId, HalfAssumption DEF CInt, Init
<1>2. /\ oob_table \in [Slots -> Entry] /\ DOMAIN oob_table = Slots
      /\ \A i \in Slots : /\ ~oob_table[i].used /\ oob_table[i].level.burst = 0
                          /\ oob_table[i].level.lastTime = 0
  BY DEF Init, Unused, Entry, Fresh, Level
<1>3. /\ oob_global \in Level /\ oob_global.burst = 0 /\ oob_global.lastTime = 0
      /\ watch.count = 0 /\ watch.since = 0 /\ stampAll = 0
  BY DEF Init, Fresh, Level
<1>4. TypeOK
  <2>1. BurstFactor * MaxRate >= 0 OBVIOUS
  <2>2. \A i \in Slots : LevelOK(oob_table[i].level, BurstFactor * MaxRate)
    BY <1>1, <1>2, <2>1 DEF LevelOK
  <2>3. LevelOK(oob_global, MaxRate) BY <1>1, <1>3 DEF LevelOK
  <2> QED BY <1>1, <1>2, <1>3, <2>2, <2>3 DEF Init, TypeOK
<1>5. WellFormed(oob_table) BY <1>2 DEF WellFormed
<1>6. CfgInv BY <1>2, <1>3 DEF Init, CfgInv
<1>7. StampInv BY <1>1, <1>2, <1>3 DEF StampInv
<1>8. WatchInv BY <1>1, <1>3 DEF WatchInv
<1> QED BY <1>4, <1>5, <1>6, <1>7, <1>8 DEF IInv

-----------------------------------------------------------------------------
(* One packet.                                                             *)

(* The rates it is judged by are in range. *)
LEMMA CfgLemma ==
    ASSUME IInv
    PROVE  /\ NewCfg \in [ip : -1 .. MaxRate, all : -1 .. MaxRate, time : CInt]
           /\ NewCfg.ip \in 1 .. MaxRate /\ NewCfg.all \in 1 .. MaxRate
           /\ IpPeriod(NewCfg) \in Nat \ {0}
           /\ IpBurst(NewCfg) \in 1 .. (BurstFactor * MaxRate)
           /\ IpBurst(NewCfg) * IpPeriod(NewCfg) <= Half
           /\ AllPeriod(NewCfg) \in Nat \ {0}
           /\ AllBurst(NewCfg) \in 1 .. MaxRate
           /\ AllBurst(NewCfg) * AllPeriod(NewCfg) <= Half
<1>1. /\ NewCfg \in [ip : -1 .. MaxRate, all : -1 .. MaxRate, time : CInt]
      /\ NewCfg.ip \in 1 .. MaxRate /\ NewCfg.all \in 1 .. MaxRate
  <2>1. CASE CfgKept
    <3>1. NewCfg = oob_cfg /\ oob_cfg.time # 0 BY <2>1 DEF NewCfg, CfgKept
    <3> QED BY <3>1 DEF IInv, TypeOK, CfgInv
  <2>2. CASE ~CfgKept
    <3>1. cvars.ip \in Int /\ cvars.all \in Int BY DEF IInv, TypeOK
    <3>2. Rate(cvars.ip, DefaultIp) \in 1 .. MaxRate
          /\ Rate(cvars.all, DefaultAll) \in 1 .. MaxRate
      BY <3>1, RateInRange
    <3>3. ClockMs(now) \in CInt BY WrapType DEF ClockMs, IInv, TypeOK
    <3>4. NewCfg = [ip |-> Rate(cvars.ip, DefaultIp),
                    all |-> Rate(cvars.all, DefaultAll), time |-> ClockMs(now)]
      BY <2>2 DEF NewCfg
    <3> QED BY <3>2, <3>3, <3>4
  <2> QED BY <2>1, <2>2
<1>2. /\ Second \div NewCfg.ip \in Nat \ {0}
      /\ BurstFactor * NewCfg.ip \in 1 .. (BurstFactor * MaxRate)
      /\ (BurstFactor * NewCfg.ip) * (Second \div NewCfg.ip) <= Half
  BY <1>1, RateFacts
<1>3. /\ Second \div NewCfg.all \in Nat \ {0}
      /\ NewCfg.all * (Second \div NewCfg.all) <= Half
  BY <1>1, RateFacts
<1> QED BY <1>1, <1>2, <1>3 DEF IpPeriod, IpBurst, AllPeriod, AllBurst

(* What a packet does to the entry of its address. *)
LEMMA ChargeIpLemma ==
    ASSUME IInv, NEW addr \in Addrs, NEW i \in Slots, ChargeIp(i, addr)
    PROVE  LET P == IpPeriod(NewCfg)
               B == IpBurst(NewCfg)
               over == IpOver(i, addr)
           IN  \E l \in Level :
            /\ oob_table' = [oob_table EXCEPT ![i] =
                    [used |-> TRUE, ip |-> addr, level |-> l]]
            /\ LevelOK(l, BurstFactor * MaxRate)
            /\ ~over => l.burst \in 1 .. B
            /\ \E t \in 0 .. now : l.lastTime = Wrap(t) /\ now - P < t
            /\ \A s \in 0 .. now :
                 /\ Hits(oob_table, i, addr)
                 /\ oob_table[i].level.lastTime = Wrap(s)
                 /\ oob_table[i].level.burst <= B
                 => \E t \in 0 .. now :
                      /\ l.lastTime = Wrap(t) /\ l.burst <= B
                      /\ l.burst * P + t >= oob_table[i].level.burst * P + s
                                             + (IF over THEN 0 ELSE P)
<1> DEFINE P == IpPeriod(NewCfg)
           B == IpBurst(NewCfg)
           over == IpOver(i, addr)
           b == Found(oob_table, i, addr)
           l == RateLimit(b, B, P, ClockMs(now))
           t == DrainedTo(b, P, now)
<1>1. /\ P \in Nat \ {0} /\ B \in Nat \ {0} /\ B <= BurstFactor * MaxRate /\ B * P <= Half
      /\ BurstFactor * MaxRate \in Nat
  BY CfgLemma
<1>2. now \in Nat /\ b \in Level /\ b.burst \in 0 .. (BurstFactor * MaxRate)
      /\ \E s \in 0 .. now : b.lastTime = Wrap(s)
  <2>1. now \in Nat BY DEF IInv, TypeOK
  <2>2. CASE Hits(oob_table, i, addr)
    BY <2>1, <2>2 DEF Found, IInv, TypeOK, StampInv, Entry, LevelOK
  <2>3. CASE ~Hits(oob_table, i, addr)
    <3>1. Wrap(0) = 0 BY WrapId, HalfAssumption DEF CInt
    <3> QED BY <2>1, <2>3, <3>1, <1>1 DEF Found, Fresh, Level
  <2> QED BY <2>2, <2>3
<1>3. oob_table' = [oob_table EXCEPT ![i] = [used |-> TRUE, ip |-> addr, level |-> l]]
  BY DEF ChargeIp
<1>4. over <=> OverLimit(b, B, P, ClockMs(now)) BY DEF IpOver
<1>5. ASSUME NEW s \in 0 .. now, b.lastTime = Wrap(s)
      PROVE  /\ l = [burst |-> l.burst, lastTime |-> Wrap(t)]
             /\ t \in s .. now /\ now - P < t
             /\ l.burst \in Nat
             /\ over => l.burst <= b.burst
             /\ ~over => l.burst \in 1 .. B
             /\ b.burst <= B =>
                  /\ l.burst <= B
                  /\ l.burst * P + t >= b.burst * P + s + (IF over THEN 0 ELSE P)
  <2>1. b.burst \in Nat BY <1>2
  <2> HIDE DEF P, B, over, b
  <2> QED BY <1>1, <1>2, <1>4, <1>5, <2>1, LimitLemma
<1>6. l \in Level /\ LevelOK(l, BurstFactor * MaxRate)
  <2>1. PICK s \in 0 .. now : b.lastTime = Wrap(s) BY <1>2
  <2>2. /\ l = [burst |-> l.burst, lastTime |-> Wrap(t)] /\ t \in s .. now
        /\ l.burst \in Nat /\ (over => l.burst <= b.burst) /\ (~over => l.burst \in 1 .. B)
    BY <2>1, <1>5
  <2> HIDE DEF P, B, over, b, l, t
  <2>3. t \in Int BY <2>2, <1>2
  <2>4. Wrap(t) \in CInt /\ Wrap(t) \in Int BY <2>3, WrapType
  <2>5. l.burst \in 0 .. (BurstFactor * MaxRate) BY <2>2, <1>1, <1>2
  <2>6. l.lastTime = Wrap(t) BY <2>2
  <2> QED BY <2>2, <2>4, <2>5, <2>6 DEF LevelOK, Level
<1>7. (~over => l.burst \in 1 .. B) /\ \E u \in 0 .. now : l.lastTime = Wrap(u) /\ now - P < u
  <2>1. PICK s \in 0 .. now : b.lastTime = Wrap(s) BY <1>2
  <2>2. /\ l = [burst |-> l.burst, lastTime |-> Wrap(t)]
        /\ t \in s .. now /\ now - P < t /\ (~over => l.burst \in 1 .. B)
    BY <2>1, <1>5
  <2> HIDE DEF P, B, over, b, l, t
  <2>3. t \in 0 .. now /\ l.lastTime = Wrap(t) BY <2>2, <1>2
  <2> QED BY <2>2, <2>3
<1>8. ASSUME NEW s \in 0 .. now, Hits(oob_table, i, addr),
             oob_table[i].level.lastTime = Wrap(s), oob_table[i].level.burst <= B
      PROVE  \E u \in 0 .. now :
               /\ l.lastTime = Wrap(u) /\ l.burst <= B
               /\ l.burst * P + u >= oob_table[i].level.burst * P + s
                                      + (IF over THEN 0 ELSE P)
  <2>1. b = oob_table[i].level BY <1>8 DEF Found
  <2>2. /\ l = [burst |-> l.burst, lastTime |-> Wrap(t)] /\ t \in s .. now
        /\ l.burst <= B
        /\ l.burst * P + t >= b.burst * P + s + (IF over THEN 0 ELSE P)
    BY <2>1, <1>5, <1>8
  <2> HIDE DEF P, B, over, b, l, t
  <2>3. t \in 0 .. now /\ l.lastTime = Wrap(t) BY <2>2, <1>2
  <2> QED BY <2>1, <2>2, <2>3
<1> HIDE DEF P, B, over, b, l, t
<1>9. \E k \in Level :
        /\ oob_table' = [oob_table EXCEPT ![i] = [used |-> TRUE, ip |-> addr, level |-> k]]
        /\ LevelOK(k, BurstFactor * MaxRate)
        /\ ~over => k.burst \in 1 .. B
        /\ \E u \in 0 .. now : k.lastTime = Wrap(u) /\ now - P < u
        /\ \A s \in 0 .. now :
             /\ Hits(oob_table, i, addr)
             /\ oob_table[i].level.lastTime = Wrap(s)
             /\ oob_table[i].level.burst <= B
             => \E u \in 0 .. now :
                  /\ k.lastTime = Wrap(u) /\ k.burst <= B
                  /\ k.burst * P + u >= oob_table[i].level.burst * P + s
                                         + (IF over THEN 0 ELSE P)
  <2>1. l \in Level BY <1>6
  <2> WITNESS l \in Level
  <2> QED BY <1>3, <1>6, <1>7, <1>8
<1> QED BY <1>9 DEF P, B, over

(* What a packet that its address's bucket lets through does to the shared *)
(* bucket.                                                                 *)
LEMMA ChargeAllLemma ==
    ASSUME IInv, ChargeAll
    PROVE  LET P == AllPeriod(NewCfg)
               B == AllBurst(NewCfg)
           IN  /\ oob_global' \in Level /\ LevelOK(oob_global', MaxRate)
               /\ stampAll' \in 0 .. now /\ now - P < stampAll'
               /\ oob_global'.lastTime = Wrap(stampAll')
               /\ ~AllOver => oob_global'.burst \in 1 .. B
               /\ oob_global.burst <= B =>
                    /\ oob_global'.burst <= B
                    /\ oob_global'.burst * P + stampAll' >=
                         oob_global.burst * P + stampAll + (IF AllOver THEN 0 ELSE P)
<1> DEFINE P == AllPeriod(NewCfg)
           B == AllBurst(NewCfg)
           over == AllOver
           l == RateLimit(oob_global, B, P, ClockMs(now))
           t == DrainedTo(oob_global, P, now)
<1>1. /\ P \in Nat \ {0} /\ B \in Nat \ {0} /\ B <= MaxRate /\ B * P <= Half
  BY CfgLemma
<1>2. /\ now \in Nat /\ oob_global \in Level /\ oob_global.burst \in 0 .. MaxRate
      /\ stampAll \in 0 .. now /\ oob_global.lastTime = Wrap(stampAll)
  BY DEF IInv, TypeOK, StampInv, LevelOK
<1>3. oob_global' = l /\ stampAll' = t
  BY <1>1 DEF ChargeAll, StampAll
<1>4. over <=> OverLimit(oob_global, B, P, ClockMs(now)) BY DEF AllOver
<1>5. /\ l = [burst |-> l.burst, lastTime |-> Wrap(t)]
      /\ t \in stampAll .. now /\ now - P < t
      /\ l.burst \in Nat
      /\ over => l.burst <= oob_global.burst
      /\ ~over => l.burst \in 1 .. B
      /\ oob_global.burst <= B =>
           /\ l.burst <= B
           /\ l.burst * P + t >= oob_global.burst * P + stampAll + (IF over THEN 0 ELSE P)
  <2>1. oob_global.burst \in Nat BY <1>2
  <2> HIDE DEF P, B, over
  <2> QED BY <1>1, <1>2, <1>4, <2>1, LimitLemma
<1> HIDE DEF P, B, over, l, t
<1>6. l \in Level /\ LevelOK(l, MaxRate) /\ l.lastTime = Wrap(t)
  <2>1. t \in Int BY <1>2, <1>5
  <2>2. Wrap(t) \in CInt /\ Wrap(t) \in Int BY <2>1, WrapType
  <2>3. l.burst \in 0 .. MaxRate BY <1>1, <1>2, <1>5
  <2>4. l.lastTime = Wrap(t) BY <1>5
  <2> QED BY <1>5, <2>2, <2>3, <2>4 DEF LevelOK, Level
<1>7. t \in 0 .. now BY <1>2, <1>5
<1>8. /\ oob_global' \in Level /\ LevelOK(oob_global', MaxRate)
      /\ stampAll' \in 0 .. now /\ now - P < stampAll'
      /\ oob_global'.lastTime = Wrap(stampAll')
      /\ ~over => oob_global'.burst \in 1 .. B
      /\ oob_global.burst <= B =>
           /\ oob_global'.burst <= B
           /\ oob_global'.burst * P + stampAll' >=
                oob_global.burst * P + stampAll + (IF over THEN 0 ELSE P)
  BY <1>3, <1>5, <1>6, <1>7
<1> QED BY <1>8 DEF P, B, over

(* What a packet does to the watched window. *)
LEMMA NoteLemma ==
    ASSUME TypeOK, NEW i, NEW addr, NEW passes \in BOOLEAN, Note(i, addr, passes)
    PROVE  LET reset == /\ watch.addr # NoAddr
                        /\ \/ oob_table[i].ip = watch.addr /\ watch.addr # addr
                           \/ ~SameRates
               k == IF passes /\ watch.addr \in {addr, All} THEN 1 ELSE 0
           IN  /\ watch' \in [addr : Watched \cup {NoAddr}, since : Nat, count : Nat]
               /\ watch'.addr = watch.addr
               /\ reset => watch'.since = now /\ watch'.count = k
               /\ ~reset => watch'.since = watch.since /\ watch'.count = watch.count + k
<1> DEFINE reset == /\ watch.addr # NoAddr
                    /\ \/ oob_table[i].ip = watch.addr /\ watch.addr # addr
                       \/ ~SameRates
           w == IF reset THEN [watch EXCEPT !.since = now, !.count = 0] ELSE watch
           counted == passes /\ watch.addr \in {addr, All}
<1>1. watch \in [addr : Watched \cup {NoAddr}, since : Nat, count : Nat] /\ now \in Nat
  BY DEF TypeOK
<1>2. watch' = IF counted THEN [w EXCEPT !.count = @ + 1] ELSE w
  BY DEF Note
<1> HIDE DEF counted, reset
<1>3. /\ w \in [addr : Watched \cup {NoAddr}, since : Nat, count : Nat]
      /\ w.addr = watch.addr
      /\ reset => w.since = now /\ w.count = 0
      /\ ~reset => w.since = watch.since /\ w.count = watch.count
  BY <1>1
<1> HIDE DEF w
<1>4. /\ watch' \in [addr : Watched \cup {NoAddr}, since : Nat, count : Nat]
      /\ watch'.addr = w.addr /\ watch'.since = w.since
      /\ watch'.count = w.count + (IF counted THEN 1 ELSE 0)
  BY <1>2, <1>3
<1> QED BY <1>1, <1>3, <1>4 DEF reset, counted

(* A packet preserves the invariant, whatever its fate. *)
LEMMA JudgeLemma ==
    ASSUME IInv, NEW addr \in Addrs, NEW i \in Slots,
           DropByIp(addr, i) \/ DropByAll(addr, i) \/ Forward(addr, i)
    PROVE  IInv'
<1> DEFINE P == IpPeriod(NewCfg)
           B == IpBurst(NewCfg)
           over == IpOver(i, addr)
           PA == AllPeriod(NewCfg)
           BA == AllBurst(NewCfg)
           overAll == AllOver
           passes == ~over /\ ~overAll
           reset == /\ watch.addr # NoAddr
                    /\ \/ oob_table[i].ip = watch.addr /\ watch.addr # addr
                       \/ ~SameRates
           k == IF passes /\ watch.addr \in {addr, All} THEN 1 ELSE 0
<1>1. /\ addr # Loopback /\ Selects(oob_table, i, addr) /\ oob_cfg' = NewCfg
      /\ ChargeIp(i, addr) /\ now' = now /\ cvars' = cvars /\ changed' = changed
  BY DEF DropByIp, DropByAll, Forward, Judged
<1>2. /\ over => oob_global' = oob_global /\ stampAll' = stampAll
      /\ ~over => ChargeAll
  BY DEF DropByIp, DropByAll, Forward
<1>3. Note(i, addr, passes)
  <2>1. CASE DropByIp(addr, i) BY <2>1 DEF DropByIp
  <2>2. CASE DropByAll(addr, i) BY <2>2 DEF DropByAll
  <2>3. CASE Forward(addr, i) BY <2>3 DEF Forward
  <2> QED BY <2>1, <2>2, <2>3
<1>4. /\ watch' \in [addr : Watched \cup {NoAddr}, since : Nat, count : Nat]
      /\ watch'.addr = watch.addr
      /\ reset => watch'.since = now /\ watch'.count = k
      /\ ~reset => watch'.since = watch.since /\ watch'.count = watch.count + k
  <2>1. TypeOK BY DEF IInv
  <2>2. passes \in BOOLEAN OBVIOUS
  <2> QED BY <1>3, <2>1, <2>2, NoteLemma
<1>5. /\ NewCfg \in [ip : -1 .. MaxRate, all : -1 .. MaxRate, time : CInt]
      /\ NewCfg.ip \in 1 .. MaxRate /\ NewCfg.all \in 1 .. MaxRate
      /\ P \in Nat \ {0} /\ PA \in Nat \ {0}
  BY CfgLemma
<1>6. PICK l \in Level :
            /\ oob_table' = [oob_table EXCEPT ![i] =
                    [used |-> TRUE, ip |-> addr, level |-> l]]
            /\ LevelOK(l, BurstFactor * MaxRate)
            /\ ~over => l.burst \in 1 .. B
            /\ \E t \in 0 .. now : l.lastTime = Wrap(t) /\ now - P < t
            /\ \A s \in 0 .. now :
                 /\ Hits(oob_table, i, addr)
                 /\ oob_table[i].level.lastTime = Wrap(s)
                 /\ oob_table[i].level.burst <= B
                 => \E t \in 0 .. now :
                      /\ l.lastTime = Wrap(t) /\ l.burst <= B
                      /\ l.burst * P + t >= oob_table[i].level.burst * P + s
                                             + (IF over THEN 0 ELSE P)
  BY <1>1, ChargeIpLemma
<1>7. /\ oob_global' \in Level /\ LevelOK(oob_global', MaxRate)
      /\ stampAll' \in 0 .. now /\ oob_global'.lastTime = Wrap(stampAll')
      /\ passes => oob_global'.burst \in 1 .. BA /\ now - PA < stampAll'
      /\ oob_global.burst <= BA =>
           /\ oob_global'.burst <= BA
           /\ oob_global'.burst * PA + stampAll' >=
                oob_global.burst * PA + stampAll + (IF passes THEN PA ELSE 0)
  <2>1. CASE over
    <3>1. /\ oob_global \in Level /\ LevelOK(oob_global, MaxRate)
          /\ stampAll \in 0 .. now /\ oob_global.lastTime = Wrap(stampAll)
          /\ oob_global.burst \in Nat /\ now \in Nat
      BY DEF IInv, TypeOK, StampInv, LevelOK
    <3>2. oob_global' = oob_global /\ stampAll' = stampAll /\ ~passes BY <1>2, <2>1
    <3> HIDE DEF P, B, over, PA, BA, overAll, passes
    <3>3. oob_global.burst * PA \in Int BY <3>1, <1>5
    <3> QED BY <3>1, <3>2, <3>3
  <2>2. CASE ~over
    <3>1. ChargeAll BY <1>2, <2>2
    <3>2. /\ oob_global' \in Level /\ LevelOK(oob_global', MaxRate)
          /\ stampAll' \in 0 .. now /\ now - PA < stampAll'
          /\ oob_global'.lastTime = Wrap(stampAll')
          /\ ~overAll => oob_global'.burst \in 1 .. BA
          /\ oob_global.burst <= BA =>
               /\ oob_global'.burst <= BA
               /\ oob_global'.burst * PA + stampAll' >=
                    oob_global.burst * PA + stampAll + (IF overAll THEN 0 ELSE PA)
      BY <3>1, ChargeAllLemma
    <3>3. passes <=> ~overAll BY <2>2
    <3> HIDE DEF P, B, over, PA, BA, overAll, passes
    <3> QED BY <3>2, <3>3
  <2> QED BY <2>1, <2>2
<1>8. /\ oob_table'[i] = [used |-> TRUE, ip |-> addr, level |-> l]
      /\ \A j \in Slots : j # i => oob_table'[j] = oob_table[j]
      /\ oob_table' \in [Slots -> Entry]
  BY <1>6 DEF IInv, TypeOK, Entry
<1>9. /\ oob_table \in [Slots -> Entry] /\ WellFormed(oob_table) /\ OobBuckets \in Nat
      /\ now \in Nat /\ watch.count \in Nat /\ watch.since \in Nat /\ watch.since <= now
  BY DEF IInv, TypeOK, WatchInv
<1>9a. \A j \in Slots : /\ oob_table[j].level.burst \in Nat
                        /\ oob_table[j].used => oob_table[j].ip \in Addrs
  <2>1. \A j \in Slots : /\ LevelOK(oob_table[j].level, BurstFactor * MaxRate)
                         /\ oob_table[j].used => oob_table[j].ip \in Addrs
    BY DEF IInv, TypeOK
  <2>2. \A b \in 0 .. (BurstFactor * MaxRate) : b \in Nat OBVIOUS
  <2> QED BY <2>1, <2>2 DEF LevelOK
<1>9b. oob_global.burst \in Nat /\ stampAll \in Int
  <2>1. oob_global.burst \in 0 .. MaxRate /\ stampAll \in Int
    BY DEF IInv, TypeOK, LevelOK
  <2> QED BY <2>1
<1>10. TypeOK'
  <2>1. \A j \in Slots : /\ LevelOK(oob_table'[j].level, BurstFactor * MaxRate)
                         /\ oob_table'[j].used => oob_table'[j].ip \in Addrs \ {Loopback}
    BY <1>1, <1>6, <1>8 DEF IInv, TypeOK
  <2>2. oob_dropped' \in 0 .. MaxDropped /\ oob_lastMsg' \in CInt
    <3>1. ClockMs(now) \in CInt BY <1>9, WrapType DEF ClockMs
    <3>2. oob_dropped \in 0 .. MaxDropped /\ oob_lastMsg \in CInt /\ MaxDropped \in Nat
      BY DEF IInv, TypeOK
    <3>3. \/ oob_dropped' = oob_dropped /\ oob_lastMsg' = oob_lastMsg
          \/ oob_dropped' = 0 /\ oob_lastMsg' = ClockMs(now)
          \/ /\ oob_dropped < MaxDropped /\ oob_dropped' = oob_dropped + 1
             /\ oob_lastMsg' = oob_lastMsg
      BY DEF DropByIp, DropByAll, Forward, Report
    <3> QED BY <3>1, <3>2, <3>3
  <2>3. verdict' \in [addr : {NoAddr, All}, passed : BOOLEAN]
    <3>1. \/ verdict' = verdict \/ verdict' = [addr |-> All, passed |-> FALSE]
          \/ verdict' = [addr |-> All, passed |-> TRUE]
      BY DEF DropByIp, DropByAll, Forward
    <3>2. verdict \in [addr : {NoAddr, All}, passed : BOOLEAN] BY DEF IInv, TypeOK
    <3>3. \A p \in BOOLEAN :
            [addr |-> All, passed |-> p] \in [addr : {NoAddr, All}, passed : BOOLEAN]
      OBVIOUS
    <3> QED BY <3>1, <3>2, <3>3
  <2>4. /\ now' \in Nat /\ cvars' \in [ip : CvarValues, all : CvarValues]
        /\ changed' \in [at : Nat, times : 0 .. MaxChanges]
    BY <1>1 DEF IInv, TypeOK
  <2>5. stampAll' \in Int BY <1>7
  <2> HIDE DEF P, B, over, PA, BA, overAll, passes, reset, k
  <2> QED BY <1>1, <1>4, <1>5, <1>7, <1>8, <2>1, <2>2, <2>3, <2>4, <2>5 DEF TypeOK
<1>11. WellFormed(oob_table')
  BY <1>1, <1>6, <1>9, FilingLemma
<1>12. CfgInv' BY <1>1, <1>5 DEF CfgInv
<1>13. StampInv'
  <2>1. oob_table'[i].level = l BY <1>8
  <2>2. \A j \in Slots : \E s \in 0 .. now : oob_table'[j].level.lastTime = Wrap(s)
    BY <1>6, <1>8, <2>1 DEF IInv, StampInv
  <2> QED BY <1>1, <1>7, <2>2 DEF StampInv
<1>14. WatchInv'
  <2>1. watch'.since <= now' /\ watch'.since \in Nat /\ k \in {0, 1}
    BY <1>1, <1>4, <1>9
  <2>2. IpPeriod(oob_cfg)' = P /\ IpBurst(oob_cfg)' = B
        /\ AllPeriod(oob_cfg)' = PA /\ AllBurst(oob_cfg)' = BA
    BY <1>1 DEF IpPeriod, IpBurst, AllPeriod, AllBurst
  <2>3. SUFFICES ASSUME watch'.count > 0
                 PROVE  IF watch.addr = All THEN AllOwes'
                        ELSE \E j \in Slots, s \in 0 .. now : IpOwes(j, s)'
    BY <1>1, <1>4, <2>1 DEF WatchInv
  <2>4. oob_table'[i].level = l /\ l.burst \in Nat
    BY <1>6, <1>8 DEF LevelOK
  <2>5. CASE reset \/ watch.count = 0
    <3>1. k = 1 /\ watch'.count = 1 BY <1>4, <2>1, <2>3, <2>5
    <3>2. passes /\ watch.addr \in {addr, All} BY <3>1
    <3>3. CASE watch.addr = All
      <4>1. /\ oob_global'.burst \in Nat /\ oob_global'.burst >= 1
            /\ oob_global'.burst <= BA /\ stampAll' \in Int /\ now - PA < stampAll'
            /\ watch'.since \in Int /\ watch'.since <= now /\ now \in Int
        <5>1. oob_global'.burst \in 1 .. BA BY <3>2, <1>7
        <5>2. BA \in Int BY <1>5 DEF AllBurst
        <5>3. now - PA < stampAll' /\ stampAll' \in 0 .. now BY <3>2, <1>7
        <5> HIDE DEF P, B, over, PA, BA, overAll, passes, reset, k
        <5>4. now \in Int /\ watch'.since \in Int /\ watch'.since <= now
          BY <1>1, <1>9, <2>1
        <5>5. /\ oob_global'.burst \in Nat /\ oob_global'.burst >= 1
              /\ oob_global'.burst <= BA
          BY <5>1, <5>2
        <5> QED BY <5>3, <5>4, <5>5
      <4> HIDE DEF P, B, over, PA, BA, overAll, passes, reset, k
      <4>2. 1 * PA <= oob_global'.burst * PA + stampAll' - watch'.since + PA - 1
        BY <4>1, <1>5, FirstPass
      <4>3. AllOwes' BY <3>1, <4>1, <4>2, <2>2 DEF AllOwes, Owes
      <4> QED BY <3>3, <4>3
    <3>4. CASE watch.addr # All
      <4>1. watch.addr = addr BY <3>2, <3>4
      <4>2. PICK t \in 0 .. now : l.lastTime = Wrap(t) /\ now - P < t BY <1>6
      <4>3. l.burst \in 1 .. B BY <3>2, <1>6
      <4>4. B \in Int BY <1>5 DEF IpBurst
      <4> HIDE DEF P, B, over, PA, BA, overAll, passes, reset, k
      <4>5. l.burst >= 1 /\ l.burst <= B BY <4>3, <4>4
      <4>6. t \in Int /\ now \in Int /\ watch'.since \in Int /\ watch'.since <= now
        BY <1>1, <1>9, <2>1
      <4>7. 1 * P <= l.burst * P + t - watch'.since + P - 1
        BY <1>5, <2>4, <4>2, <4>5, <4>6, FirstPass
      <4>8. IpOwes(i, t)'
        BY <1>4, <1>8, <2>2, <2>4, <3>1, <4>1, <4>2, <4>5, <4>7 DEF IpOwes, Owes
      <4> QED BY <3>4, <4>8
    <3> QED BY <3>3, <3>4
  <2>6. CASE ~reset /\ watch.count > 0
    <3>1. watch'.count = watch.count + k /\ watch'.since = watch.since
      BY <1>4, <2>6
    <3>2. watch.addr # NoAddr
      <4>1. CASE watch.addr = All BY <4>1
      <4>2. CASE watch.addr # All
        <5>1. PICK j \in Slots : oob_table[j].used /\ oob_table[j].ip = watch.addr
          BY <2>6, <4>2 DEF IInv, WatchInv, IpOwes
        <5>2. watch.addr \in Addrs BY <5>1, <1>9a
        <5> QED BY <5>2
      <4> QED BY <4>1, <4>2
    <3>3. SameRates BY <2>6, <3>2
    <3>4. IpPeriod(oob_cfg) = P /\ IpBurst(oob_cfg) = B
          /\ AllPeriod(oob_cfg) = PA /\ AllBurst(oob_cfg) = BA
      BY <3>3 DEF SameRates, IpPeriod, IpBurst, AllPeriod, AllBurst
    <3>5. CASE watch.addr = All
      <4>1. oob_global.burst <= BA
            /\ watch.count * PA <= oob_global.burst * PA + stampAll - watch.since + PA - 1
        BY <2>6, <3>4, <3>5 DEF IInv, WatchInv, AllOwes, Owes
      <4>2. k = 1 <=> passes BY <3>5
      <4>3. /\ oob_global.burst \in Nat /\ stampAll \in Int
            /\ oob_global'.burst \in Nat /\ stampAll' \in Int /\ watch.since \in Int
        <5>1. oob_global'.burst \in Nat BY <1>7 DEF LevelOK
        <5>2. stampAll' \in Int BY <1>7
        <5> QED BY <5>1, <5>2, <1>9, <1>9b
      <4> HIDE DEF P, B, over, PA, BA, overAll, passes, reset, k
      <4>4. oob_global'.burst <= BA
            /\ oob_global'.burst * PA + stampAll' >=
                oob_global.burst * PA + stampAll + (IF k = 1 THEN PA ELSE 0)
        BY <1>7, <4>1, <4>2
      <4>5. (watch.count + k) * PA <= oob_global'.burst * PA + stampAll' - watch.since + PA - 1
        BY <1>5, <1>9, <2>1, <4>1, <4>3, <4>4, NextPass
      <4>6. AllOwes' BY <2>2, <3>1, <4>4, <4>5 DEF AllOwes, Owes
      <4> QED BY <3>5, <4>6
    <3>6. CASE watch.addr # All
      <4>1. PICK j \in Slots, s \in 0 .. now : IpOwes(j, s)
        BY <2>6, <3>6 DEF IInv, WatchInv
      <4>2. /\ oob_table[j].used /\ oob_table[j].ip = watch.addr
            /\ oob_table[j].level.lastTime = Wrap(s)
            /\ oob_table[j].level.burst <= B
            /\ watch.count * P <= oob_table[j].level.burst * P + s - watch.since + P - 1
        BY <3>4, <4>1 DEF IpOwes, Owes
      <4>3. oob_table[j].level.burst \in Nat /\ s \in Int /\ watch.since \in Int
        BY <1>9, <1>9a
      <4>4. CASE watch.addr = addr
        <5>1. j = i /\ Hits(oob_table, i, addr)
          <6>1. oob_table[j].used /\ oob_table[j].ip = addr BY <4>2, <4>4
          <6>2. Selects(oob_table, i, addr) BY <1>1
          <6>3. DOMAIN oob_table = 1 .. OobBuckets /\ WellFormed(oob_table)
                /\ OobBuckets \in Nat /\ i \in 1 .. OobBuckets /\ j \in 1 .. OobBuckets
            BY <1>9
          <6> HIDE DEF P, B, over, PA, BA, overAll, passes, reset, k
          <6>4. \A m, o \in 1 .. OobBuckets :
                  Selects(oob_table, m, addr) /\ oob_table[o].used /\ oob_table[o].ip = addr
                     => o = m /\ Hits(oob_table, m, addr)
            BY <6>3, OwnEntry
          <6> QED BY <6>1, <6>2, <6>3, <6>4
        <5>2. k = 1 => ~over OBVIOUS
        <5>3. PICK t \in 0 .. now :
                 /\ l.lastTime = Wrap(t) /\ l.burst <= B
                 /\ l.burst * P + t >= oob_table[i].level.burst * P + s
                                             + (IF over THEN 0 ELSE P)
          BY <1>6, <4>2, <5>1
        <5> HIDE DEF P, B, over, PA, BA, overAll, passes, reset, k
        <5>4. t \in Int /\ oob_table[i].level.burst * P \in Int /\ l.burst * P \in Int
          <6>1. oob_table[i].level.burst \in Nat BY <1>9a
          <6> QED BY <1>5, <2>4, <6>1
        <5>5. l.burst * P + t >= oob_table[j].level.burst * P + s + (IF k = 1 THEN P ELSE 0)
          BY <5>1, <5>2, <5>3, <5>4, <1>5, <4>3
        <5>6. (watch.count + k) * P <= l.burst * P + t - watch.since + P - 1
          <6> DEFINE b == oob_table[j].level.burst
                     b2 == l.burst
          <6>1. /\ b \in Nat /\ b2 \in Nat /\ s \in Int /\ t \in Int /\ watch.since \in Int
                /\ watch.count \in Nat /\ k \in {0, 1} /\ P \in Nat \ {0}
                /\ watch.count * P <= b * P + s - watch.since + P - 1
                /\ b2 * P + t >= b * P + s + (IF k = 1 THEN P ELSE 0)
            BY <1>5, <1>9, <2>1, <2>4, <4>2, <4>3, <5>4, <5>5
          <6> HIDE DEF b, b2
          <6>2. (watch.count + k) * P <= b2 * P + t - watch.since + P - 1
            BY <6>1, NextPass
          <6> QED BY <6>2 DEF b2
        <5>7. IpOwes(i, t)'
          BY <1>4, <1>8, <2>2, <2>4, <3>1, <4>4, <5>3, <5>6 DEF IpOwes, Owes
        <5> QED BY <3>6, <5>7
      <4>5. CASE watch.addr # addr
        <5>1. j # i BY <2>6, <3>2, <4>2, <4>5
        <5>2. k = 0 BY <3>6, <4>5
        <5> HIDE DEF P, B, over, PA, BA, overAll, passes, reset, k
        <5>3. watch'.count = watch.count BY <1>9, <3>1, <5>2
        <5>4. IpOwes(j, s)'
          BY <1>4, <1>8, <2>2, <3>1, <4>2, <5>1, <5>3 DEF IpOwes, Owes
        <5> QED BY <3>6, <5>4
      <4> QED BY <4>4, <4>5
    <3> QED BY <3>5, <3>6
  <2>7. watch.count = 0 \/ watch.count > 0 BY <1>9
  <2> QED BY <2>5, <2>6, <2>7
<1> QED BY <1>10, <1>11, <1>12, <1>13, <1>14 DEF IInv

(* Time, the admin and the watcher preserve it too. *)
LEMMA OtherLemma ==
    ASSUME IInv, codeVars' = codeVars, verdict' = verdict, stampAll' = stampAll,
           now' \in Nat, now' >= now,
           cvars' \in [ip : CvarValues, all : CvarValues],
           changed' \in [at : Nat, times : 0 .. MaxChanges],
           watch' \in [addr : Watched \cup {NoAddr}, since : Nat, count : Nat],
           watch' = watch \/ (watch'.count = 0 /\ watch'.since <= now')
    PROVE  IInv'
<1>1. /\ oob_table' = oob_table /\ oob_global' = oob_global /\ oob_cfg' = oob_cfg
      /\ oob_dropped' = oob_dropped /\ oob_lastMsg' = oob_lastMsg
      /\ verdict' = verdict /\ stampAll' = stampAll
  BY DEF codeVars
<1>2. now \in Nat /\ watch.count \in Nat /\ watch.since \in Nat /\ watch.since <= now
  BY DEF IInv, TypeOK, WatchInv
<1>3. TypeOK' BY <1>1 DEF IInv, TypeOK
<1>4. WellFormed(oob_table') BY <1>1 DEF IInv
<1>5. CfgInv' BY <1>1 DEF IInv, CfgInv
<1>6. StampInv' BY <1>1, <1>2 DEF IInv, StampInv
<1>7. WatchInv'
  <2>1. CASE watch'.count = 0 /\ watch'.since <= now' BY <2>1 DEF WatchInv
  <2>2. CASE watch' = watch
    <3>1. \A i \in Slots, s \in 0 .. now : s \in 0 .. now' /\ (IpOwes(i, s)' <=> IpOwes(i, s))
      BY <1>1, <1>2, <2>2 DEF IpOwes, Owes, IpBurst, IpPeriod
    <3>2. AllOwes' <=> AllOwes
      BY <1>1, <2>2 DEF AllOwes, Owes, AllBurst, AllPeriod
    <3>3. watch'.since <= now' BY <1>2, <2>2
    <3> QED BY <2>2, <3>1, <3>2, <3>3 DEF IInv, WatchInv
  <2> QED BY <2>1, <2>2
<1> QED BY <1>3, <1>4, <1>5, <1>6, <1>7 DEF IInv

LEMMA NextInv == IInv /\ [Next]_vars => IInv'
<1> SUFFICES ASSUME IInv, [Next]_vars PROVE IInv' OBVIOUS
<1>1. /\ now \in Nat /\ cvars \in [ip : CvarValues, all : CvarValues]
      /\ changed \in [at : Nat, times : 0 .. MaxChanges] /\ MaxChanges \in Nat
      /\ watch \in [addr : Watched \cup {NoAddr}, since : Nat, count : Nat]
  BY DEF IInv, TypeOK
<1>2. CASE Tick
  <2>1. now' \in Nat /\ now' >= now BY <1>1, <1>2 DEF Tick
  <2>2. /\ cvars' = cvars /\ codeVars' = codeVars /\ verdict' = verdict /\ stampAll' = stampAll
        /\ changed' = changed /\ watch' = watch
    BY <1>2 DEF Tick, historyVars
  <2>3. /\ cvars' \in [ip : CvarValues, all : CvarValues]
        /\ changed' \in [at : Nat, times : 0 .. MaxChanges]
        /\ watch' \in [addr : Watched \cup {NoAddr}, since : Nat, count : Nat]
    BY <1>1, <2>2
  <2> QED BY <2>1, <2>2, <2>3, OtherLemma
<1>3. CASE SetCvars
  <2>1. changed.times < MaxChanges /\ changed' = [at |-> now, times |-> changed.times + 1]
    BY <1>3 DEF SetCvars
  <2>2. changed' \in [at : Nat, times : 0 .. MaxChanges] BY <1>1, <2>1
  <2>3. now' \in Nat /\ now' >= now BY <1>1, <1>3 DEF SetCvars
  <2>4. /\ cvars' \in [ip : CvarValues, all : CvarValues] /\ codeVars' = codeVars
        /\ verdict' = verdict /\ stampAll' = stampAll /\ watch' = watch
    BY <1>3 DEF SetCvars
  <2>5. watch' \in [addr : Watched \cup {NoAddr}, since : Nat, count : Nat]
    BY <1>1, <2>4
  <2> QED BY <2>2, <2>3, <2>4, <2>5, OtherLemma
<1>4. ASSUME NEW addr \in Watched, Observe(addr) PROVE IInv'
  <2>1. watch' = [addr |-> addr, since |-> now, count |-> 0] /\ now' = now
    BY <1>4 DEF Observe
  <2>2. /\ watch' \in [addr : Watched \cup {NoAddr}, since : Nat, count : Nat]
        /\ watch'.count = 0 /\ watch'.since <= now'
    BY <1>1, <2>1
  <2> QED BY <1>1, <1>4, <2>2, OtherLemma DEF Observe
<1>5. CASE Judge BY <1>5, JudgeLemma DEF Judge
<1>6. CASE UNCHANGED vars
  <2>1. now' \in Nat /\ now' >= now BY <1>1, <1>6 DEF vars
  <2>2. /\ cvars' = cvars /\ codeVars' = codeVars /\ verdict' = verdict /\ stampAll' = stampAll
        /\ changed' = changed /\ watch' = watch
    BY <1>6 DEF vars, historyVars
  <2>3. /\ cvars' \in [ip : CvarValues, all : CvarValues]
        /\ changed' \in [at : Nat, times : 0 .. MaxChanges]
        /\ watch' \in [addr : Watched \cup {NoAddr}, since : Nat, count : Nat]
    BY <1>1, <2>2
  <2> QED BY <2>1, <2>2, <2>3, OtherLemma
<1> QED BY <1>2, <1>3, <1>4, <1>5, <1>6 DEF Next

-----------------------------------------------------------------------------
(* What the invariant says of the runs' properties.                        *)

(* A debt within the burst bounds the window. *)
LEMMA OwesBound ==
    ASSUME NEW P \in Nat \ {0}, NEW B \in Nat, NEW n \in Nat, NEW b \in Nat, b <= B,
           NEW s \in Int, NEW now0 \in Int, s <= now0, NEW since \in Int,
           n * P <= b * P + s - since + P - 1
    PROVE  n <= B + (now0 - since + P - 1) \div P
<1> DEFINE w == now0 - since + P - 1
           q == w \div P
<1>1. b * P <= B * P /\ b * P \in Int /\ B * P \in Int /\ n * P \in Int OBVIOUS
<1>2. (n - B) * P = n * P - B * P OBVIOUS
<1>3. w \in Int /\ n - B \in Int /\ (n - B) * P <= w BY <1>1, <1>2
<1> HIDE DEF w
<1>4. n - B <= w \div P BY <1>3, DivBound
<1>5. q \in Int BY <1>3
<1> HIDE DEF q
<1>6. n <= B + q BY <1>4, <1>5 DEF q
<1> QED BY <1>6 DEF q, w

LEMMA InvBounds == IInv => WindowBound
<1> SUFFICES ASSUME IInv, watch.count > 0
             PROVE  IF watch.addr = All
                    THEN WindowHolds(AllBurst(oob_cfg), AllPeriod(oob_cfg))
                    ELSE WindowHolds(IpBurst(oob_cfg), IpPeriod(oob_cfg))
  BY DEF WindowBound
<1>1. now \in Nat /\ watch.count \in Nat /\ watch.since \in Nat
      /\ oob_global.burst \in Nat /\ stampAll \in 0 .. now
      /\ \A i \in Slots : oob_table[i].level.burst \in Nat
  <2>1. \A i \in Slots : LevelOK(oob_table[i].level, BurstFactor * MaxRate)
    BY DEF IInv, TypeOK
  <2>2. \A b \in 0 .. (BurstFactor * MaxRate) : b \in Nat OBVIOUS
  <2>3. oob_global.burst \in 0 .. MaxRate BY DEF IInv, TypeOK, LevelOK
  <2>4. now \in Nat /\ watch.count \in Nat /\ watch.since \in Nat BY DEF IInv, TypeOK
  <2>5. stampAll \in 0 .. now BY DEF IInv, StampInv
  <2> QED BY <2>1, <2>2, <2>3, <2>4, <2>5 DEF LevelOK
<1>2. oob_cfg.ip \in 1 .. MaxRate /\ oob_cfg.all \in 1 .. MaxRate
  <2>1. watch.count # 0 BY <1>1
  <2> QED BY <2>1 DEF IInv, CfgInv
<1>3. /\ IpPeriod(oob_cfg) \in Nat \ {0} /\ IpBurst(oob_cfg) \in Nat
      /\ AllPeriod(oob_cfg) \in Nat \ {0} /\ AllBurst(oob_cfg) \in Nat
  <2>1. Second \div oob_cfg.ip \in Nat \ {0} /\ BurstFactor * oob_cfg.ip \in Nat
    BY <1>2, RateFacts
  <2>2. Second \div oob_cfg.all \in Nat \ {0} BY <1>2, RateFacts
  <2> QED BY <1>2, <2>1, <2>2 DEF IpPeriod, IpBurst, AllPeriod, AllBurst
<1>4. CASE watch.addr = All
  <2>1. Owes(oob_global, stampAll, AllBurst(oob_cfg), AllPeriod(oob_cfg))
    BY <1>4 DEF IInv, WatchInv, AllOwes
  <2> DEFINE P == AllPeriod(oob_cfg)
             B == AllBurst(oob_cfg)
  <2>2. /\ oob_global.burst <= B /\ stampAll \in Int /\ stampAll <= now
        /\ watch.count * P <= oob_global.burst * P + stampAll - watch.since + P - 1
    BY <1>1, <2>1 DEF Owes
  <2>3. P \in Nat \ {0} /\ B \in Nat BY <1>3
  <2> HIDE DEF P, B
  <2>4. now \in Int /\ watch.since \in Int BY <1>1
  <2>5. watch.count <= B + (now - watch.since + P - 1) \div P
    BY <1>1, <2>2, <2>3, <2>4, OwesBound
  <2> QED BY <1>4, <2>5 DEF WindowHolds, P, B
<1>5. CASE watch.addr # All
  <2>1. PICK i \in Slots, s \in 0 .. now :
          Owes(oob_table[i].level, s, IpBurst(oob_cfg), IpPeriod(oob_cfg))
    BY <1>5 DEF IInv, WatchInv, IpOwes
  <2> DEFINE P == IpPeriod(oob_cfg)
             B == IpBurst(oob_cfg)
             b == oob_table[i].level.burst
  <2>2. /\ b \in Nat /\ b <= B /\ s \in Int /\ s <= now
        /\ watch.count * P <= b * P + s - watch.since + P - 1
    BY <1>1, <2>1 DEF Owes
  <2>3. P \in Nat \ {0} /\ B \in Nat BY <1>3
  <2> HIDE DEF P, B, b
  <2>4. now \in Int /\ watch.since \in Int BY <1>1
  <2>5. watch.count <= B + (now - watch.since + P - 1) \div P
    BY <1>1, <2>2, <2>3, <2>4, OwesBound
  <2> QED BY <1>5, <2>5 DEF WindowHolds, P, B
<1> QED BY <1>4, <1>5

LEMMA InvArmed == IInv => LimiterArmed
<1> SUFFICES ASSUME IInv, NEW i \in Slots, oob_table[i].used
             PROVE  /\ IpPeriod(oob_cfg) > 0 /\ IpBurst(oob_cfg) > 0
                    /\ AllPeriod(oob_cfg) > 0 /\ AllBurst(oob_cfg) > 0
  BY DEF LimiterArmed
<1>1. oob_cfg.ip \in 1 .. MaxRate /\ oob_cfg.all \in 1 .. MaxRate
  BY DEF IInv, CfgInv
<1>2. Second \div oob_cfg.ip \in Nat \ {0}
      /\ BurstFactor * oob_cfg.ip \in 1 .. (BurstFactor * MaxRate)
  BY <1>1, RateFacts
<1>3. Second \div oob_cfg.all \in Nat \ {0} BY <1>1, RateFacts
<1>4. BurstFactor * MaxRate \in Int OBVIOUS
<1> QED BY <1>1, <1>2, <1>3, <1>4 DEF IpPeriod, IpBurst, AllPeriod, AllBurst

(* The invariant holds in every state the guard reaches. *)
THEOREM Invariance == Spec => []IInv
  BY InitInv, NextInv, PTL DEF Spec

(* Buckets, counters and the cached rates stay within their ranges, for    *)
(* whatever an admin sets the cvars to.                                    *)
THEOREM TypeCorrect == Spec => []TypeOK
<1>1. IInv => TypeOK BY DEF IInv
<1> QED BY <1>1, Invariance, PTL

(* No setting of the cvars disarms the limiter.                            *)
THEOREM Armed == Spec => []LimiterArmed
  BY InvArmed, Invariance, PTL

(* While the rates stay the same, neither an address that keeps its bucket *)
(* nor all addresses together get more than the burst and one packet per   *)
(* started period past the guard in any window.                            *)
THEOREM WindowBounded == Spec => []WindowBound
  BY InvBounds, Invariance, PTL

-----------------------------------------------------------------------------
(* How long ago things were written.                                       *)

(* The uptime at which the game module was loaded may have been s. *)
LoadedAt(s) == s \in Starts /\ s <= now /\ (now <= MaxNow \/ now = s)

(* The cached rates were read at t: they are what the cvars still ask for, *)
(* or a cvar has been set since.                                           *)
ReadAt(t) ==
    /\ oob_cfg.time = Wrap(t)
    /\ \/ oob_cfg.ip = Rate(cvars.ip, DefaultIp) /\ oob_cfg.all = Rate(cvars.all, DefaultAll)
       \/ t <= changed.at

(* Whatever was read or charged was so after the game module was loaded,   *)
(* and the shared bucket is empty until the first packet is put to it.     *)
AgeInv ==
    /\ \E s \in Starts :
          /\ LoadedAt(s)
          /\ verdict.addr = All => s - Second < stampAll
          /\ oob_cfg.time # 0 => \E t \in s .. now : ReadAt(t)
    /\ verdict.addr # All => oob_global.burst = 0

LEMMA InitAge == Init => AgeInv
<1> SUFFICES ASSUME Init PROVE AgeInv OBVIOUS
<1>1. now \in Starts /\ now \in Nat BY DEF Init
<1>2. LoadedAt(now) BY <1>1 DEF LoadedAt
<1>3. verdict.addr # All /\ oob_cfg.time = 0 /\ oob_global.burst = 0
  BY DEF Init, Fresh
<1> QED BY <1>1, <1>2, <1>3 DEF AgeInv

(* The cached rates, once read, are read again or still count as read.     *)
LEMMA ReadLemma ==
    ASSUME IInv, NEW s \in Int, s <= now, oob_cfg' = NewCfg, now' = now, cvars' = cvars,
           changed' = changed,
           oob_cfg.time # 0 => \E t \in s .. now : ReadAt(t)
    PROVE  oob_cfg'.time # 0 => \E t \in s .. now' : ReadAt(t)'
<1>1. now \in Int BY DEF IInv, TypeOK
<1>2. CASE CfgKept
  <2>1. oob_cfg' = oob_cfg /\ oob_cfg.time # 0 BY <1>2 DEF NewCfg, CfgKept
  <2>2. PICK t \in s .. now : ReadAt(t) BY <2>1
  <2>3. ReadAt(t)' BY <2>1, <2>2 DEF ReadAt
  <2> QED BY <2>3
<1>3. CASE ~CfgKept
  <2>1. oob_cfg' = [ip |-> Rate(cvars.ip, DefaultIp), all |-> Rate(cvars.all, DefaultAll),
                    time |-> Wrap(now)]
    BY <1>3 DEF NewCfg, ClockMs
  <2>2. ReadAt(now)' BY <2>1 DEF ReadAt
  <2>3. now \in s .. now' BY <1>1
  <2> QED BY <2>2, <2>3
<1> QED BY <1>2, <1>3

LEMMA NextAge == IInv /\ AgeInv /\ [Next]_vars => AgeInv'
<1> SUFFICES ASSUME IInv, AgeInv, [Next]_vars PROVE AgeInv' OBVIOUS
<1>1. PICK s \in Starts :
          /\ LoadedAt(s)
          /\ verdict.addr = All => s - Second < stampAll
          /\ oob_cfg.time # 0 => \E t \in s .. now : ReadAt(t)
  BY DEF AgeInv
<1>2. now \in Nat /\ s \in Nat /\ s <= now /\ stampAll \in Int /\ MaxNow \in Nat
      /\ Second \in Nat \ {0}
  BY <1>1 DEF LoadedAt, IInv, TypeOK
<1>3. ASSUME UNCHANGED <<oob_global, oob_cfg, verdict, stampAll>>,
             now' \in Nat, now' >= now, now' <= MaxNow \/ now' = now,
             \/ cvars' = cvars /\ changed' = changed
             \/ changed'.at = now
      PROVE  AgeInv'
  <2>1. LoadedAt(s)' BY <1>1, <1>2, <1>3 DEF LoadedAt
  <2>2. ASSUME NEW t \in s .. now, ReadAt(t) PROVE t \in s .. now' /\ ReadAt(t)'
    <3>1. t <= now /\ t \in s .. now' BY <1>2, <1>3
    <3> QED BY <1>3, <2>2, <3>1 DEF ReadAt
  <2>3. /\ verdict'.addr = All => s - Second < stampAll'
        /\ oob_cfg'.time # 0 => \E t \in s .. now' : ReadAt(t)'
    BY <1>1, <1>3, <2>2
  <2>4. verdict'.addr # All => oob_global'.burst = 0 BY <1>3 DEF AgeInv
  <2> QED BY <2>1, <2>3, <2>4 DEF AgeInv
<1>4. CASE Tick
  BY <1>2, <1>3, <1>4 DEF Tick, codeVars, historyVars
<1>5. CASE SetCvars
  <2>1. changed'.at = now BY <1>5 DEF SetCvars
  <2> QED BY <1>2, <1>3, <1>5, <2>1 DEF SetCvars, codeVars
<1>6. ASSUME NEW addr \in Watched, Observe(addr) PROVE AgeInv'
  BY <1>2, <1>3, <1>6 DEF Observe, codeVars
<1>7. CASE UNCHANGED vars
  BY <1>2, <1>3, <1>7 DEF vars, codeVars, historyVars
<1>8. ASSUME NEW addr \in Addrs, NEW i \in Slots,
             DropByIp(addr, i) \/ DropByAll(addr, i) \/ Forward(addr, i)
      PROVE  AgeInv'
  <2>1. /\ oob_cfg' = NewCfg /\ now' = now /\ cvars' = cvars /\ changed' = changed
        /\ \/ UNCHANGED <<oob_global, verdict, stampAll>>
           \/ ChargeAll /\ verdict'.addr = All
    <3>1. CASE DropByIp(addr, i) BY <3>1 DEF DropByIp, Judged
    <3>2. CASE DropByAll(addr, i) BY <3>2 DEF DropByAll, Judged
    <3>3. CASE Forward(addr, i) BY <3>3 DEF Forward, Judged
    <3> QED BY <1>8, <3>1, <3>2, <3>3
  <2>2. LoadedAt(s)' BY <1>1, <2>1 DEF LoadedAt
  <2>3. oob_cfg'.time # 0 => \E t \in s .. now' : ReadAt(t)'
    BY <1>1, <1>2, <2>1, ReadLemma
  <2>4. /\ verdict'.addr = All => s - Second < stampAll'
        /\ verdict'.addr # All => oob_global'.burst = 0
    <3>1. CASE UNCHANGED <<oob_global, verdict, stampAll>> BY <1>1, <3>1 DEF AgeInv
    <3>2. CASE ChargeAll /\ verdict'.addr = All
      <4>1. /\ NewCfg.all \in 1 .. MaxRate /\ AllPeriod(NewCfg) \in Nat \ {0}
            /\ stampAll' \in 0 .. now /\ now - AllPeriod(NewCfg) < stampAll'
        BY <3>2, CfgLemma, ChargeAllLemma
      <4>2. AllPeriod(NewCfg) <= Second BY <4>1, PeriodBound DEF AllPeriod
      <4> QED BY <3>2, <4>1, <4>2, <1>2
    <3> QED BY <2>1, <3>1, <3>2
  <2> QED BY <2>2, <2>3, <2>4 DEF AgeInv
<1> QED BY <1>4, <1>5, <1>6, <1>7, <1>8 DEF Next, Judge

(* A packet is judged by rates that were read less than CfgTtl ago.        *)
LEMMA FreshStep ==
    ASSUME \A s \in Starts : MaxNow - s < Half, IInv, AgeInv, [Next]_vars
    PROVE  \/ UNCHANGED codeVars
           \/ oob_cfg'.ip = Rate(cvars.ip, DefaultIp)
                /\ oob_cfg'.all = Rate(cvars.all, DefaultAll)
           \/ now - changed.at < CfgTtl
<1>1. CASE Tick \/ SetCvars \/ (\E addr \in Watched : Observe(addr)) \/ UNCHANGED vars
  BY <1>1 DEF Tick, SetCvars, Observe, vars
<1>2. CASE Judge
  <2>1. oob_cfg' = NewCfg BY <1>2 DEF Judge, DropByIp, DropByAll, Forward, Judged
  <2>2. CASE ~CfgKept BY <2>1, <2>2 DEF NewCfg
  <2>3. CASE CfgKept
    <3>1. oob_cfg' = oob_cfg /\ oob_cfg.time # 0
          /\ Wrap(ClockMs(now) - oob_cfg.time) < CfgTtl
      BY <2>1, <2>3 DEF NewCfg, CfgKept
    <3>1a. PICK s \in Starts : LoadedAt(s) /\ \E t \in s .. now : ReadAt(t)
      BY <3>1 DEF AgeInv
    <3>2. PICK t \in s .. now : LoadedAt(s) /\ ReadAt(t)
      BY <3>1a
    <3>3. now \in Nat /\ changed.at \in Nat /\ s \in Nat /\ t \in Int /\ s <= t /\ t <= now
      BY <3>2 DEF IInv, TypeOK
    <3>4. now - t \in CInt
      <4>1. MaxNow - s < Half /\ (now <= MaxNow \/ now = s) BY <3>2 DEF LoadedAt
      <4>2. MaxNow \in Nat OBVIOUS
      <4> QED BY <4>1, <4>2, <3>3, HalfAssumption DEF CInt
    <3>5. Wrap(ClockMs(now) - oob_cfg.time) = now - t
      <4>1. Wrap(Wrap(now) - Wrap(t)) = Wrap(now - t) BY <3>3, WrapDiff
      <4> QED BY <4>1, <3>2, <3>4, WrapId DEF ReadAt, ClockMs
    <3>6. CfgTtl \in Nat OBVIOUS
    <3> QED BY <3>1, <3>2, <3>3, <3>5, <3>6 DEF ReadAt
  <2> QED BY <2>2, <2>3
<1> QED BY <1>1, <1>2 DEF Next

(* An admin's change reaches the limiter within CfgTtl, as long as the     *)
(* clock has moved on by less than half a turn (24.8 days) since the game  *)
(* module was loaded; a configuration read before that may be kept longer. *)
THEOREM ConfigStaysFresh ==
    ASSUME \A s \in Starts : MaxNow - s < Half
    PROVE  Spec => ConfigFresh
<1>1. IInv /\ AgeInv /\ [Next]_vars =>
        [  \/ UNCHANGED codeVars
           \/ oob_cfg'.ip = Rate(cvars.ip, DefaultIp)
                /\ oob_cfg'.all = Rate(cvars.all, DefaultAll)
           \/ now - changed.at < CfgTtl]_vars
  BY FreshStep
<1> QED BY <1>1, InitAge, NextAge, Invariance, PTL DEF Spec, ConfigFresh

-----------------------------------------------------------------------------
(* The shared bucket keeps the contract.  Its debt is the instant at which *)
(* all it holds will have leaked out.                                      *)

Period(rate) == Second \div rate

AllDebt(rate) == oob_global.burst * Period(rate) + stampAll

(* The clock cannot have come full circle since the shared bucket was last *)
(* drained, and what it holds, at whatever rates, leaks out before that.   *)
ClockLasts ==
    /\ \A s \in Starts : MaxNow - s + Second <= 2 * Half
    /\ MaxRate * Second <= Half

(* What a packet put to the shared bucket is charged from. *)
LEMMA AllChargedFrom ==
    ASSUME IInv, AgeInv, ClockLasts, NEW rate \in 1 .. MaxRate, NewCfg.all = rate, ChargeAll
    PROVE  LET P == Period(rate)
           IN  \E from \in Int :
            /\ oob_global'.burst * P + stampAll' = IF AllOver THEN from ELSE from + P
            /\ verdict.addr = All =>
                 \/ from = AllDebt(rate) /\ now - P < from
                 \/ from = now /\ AllDebt(rate) <= now
            /\ verdict.addr # All => now - P < from /\ from <= now
            /\ ~AllOver => from <= now + (rate - 1) * P
            /\ AllOver => /\ verdict.addr = All /\ from = AllDebt(rate)
                          /\ from > now + (rate - 1) * P
<1> DEFINE P == Period(rate)
           b == oob_global
           s == stampAll
           d == Drain(b, P, ClockMs(now))
           t == DrainedTo(b, P, now)
           l == RateLimit(b, rate, P, ClockMs(now))
           from == d.burst * P + t
           debt == b.burst * P + s
<1>1. /\ P \in Nat \ {0} /\ P <= Second /\ rate \in Nat \ {0}
      /\ Second \in Nat \ {0} /\ MaxRate \in Nat \ {0}
  BY RateFacts, PeriodBound DEF Period
<1>2. MaxRate * P <= Half
  <2> HIDE DEF P
  <2>1. MaxRate * P <= MaxRate * Second /\ MaxRate * P \in Int /\ MaxRate * Second \in Int
    BY <1>1
  <2> QED BY <2>1, HalfAssumption DEF ClockLasts
<1>3. /\ now \in Nat /\ b \in Level /\ b.burst \in 0 .. MaxRate
      /\ s \in Int /\ s <= now /\ b.lastTime = Wrap(s)
  BY DEF IInv, TypeOK, StampInv, LevelOK
<1>4. verdict.addr = All => now - s < 2 * Half
  <2>1. SUFFICES ASSUME verdict.addr = All PROVE now - s < 2 * Half OBVIOUS
  <2>2. PICK u \in Starts : LoadedAt(u) /\ u - Second < s BY <2>1 DEF AgeInv
  <2>3. u \in Nat /\ MaxNow \in Nat /\ MaxNow - u + Second <= 2 * Half
        /\ u <= now /\ (now <= MaxNow \/ now = u)
    BY <2>2 DEF ClockLasts, LoadedAt
  <2>4. Second <= Half
    <3>1. Second <= MaxRate * Second /\ MaxRate * Second \in Int BY <1>1
    <3> QED BY <3>1, <1>1, HalfAssumption DEF ClockLasts
  <2> QED BY <2>2, <2>3, <2>4, <1>1, <1>3, HalfAssumption
<1>5. /\ d.burst \in 0 .. MaxRate
      /\ t \in Int /\ t <= now /\ now - P < t
      /\ b.burst * P + s <= d.burst * P + t
      /\ now - s < 2 * Half =>
           \/ d.burst * P + t = b.burst * P + s
           \/ d.burst = 0 /\ t = now
      /\ b.burst = 0 => d.burst = 0
  <2> HIDE DEF P, b, s
  <2> QED BY <1>1, <1>2, <1>3, DrainLemma
<1>6. /\ AllOver <=> d.burst >= rate
      /\ oob_global' = l /\ stampAll' = t
      /\ l.burst = IF d.burst < rate THEN d.burst + 1 ELSE d.burst
  <2>1. AllPeriod(NewCfg) = P /\ AllBurst(NewCfg) = rate
    BY DEF AllPeriod, AllBurst, Period
  <2>2. P > 0 /\ rate > 0 BY <1>1
  <2> HIDE DEF P
  <2>3. AllOver <=> d.burst >= rate BY <2>1, <2>2 DEF AllOver, OverLimit
  <2>4. oob_global' = l /\ stampAll' = t BY <2>1, <2>2 DEF ChargeAll, StampAll
  <2>5. l = IF d.burst < rate THEN [d EXCEPT !.burst = @ + 1] ELSE d
    <3>1. ~(P <= 0 \/ rate <= 0) BY <1>1, <2>2
    <3> QED BY <3>1 DEF RateLimit
  <2>6. d \in [burst : Int, lastTime : Int] \/ d = [burst |-> d.burst, lastTime |-> d.lastTime]
    BY DEF Drain
  <2> HIDE DEF d, l
  <2>7. l.burst = IF d.burst < rate THEN d.burst + 1 ELSE d.burst
    BY <2>5, <2>6
  <2> QED BY <2>3, <2>4, <2>7
<1> HIDE DEF P, b, s, d, t, l
<1>7. /\ d.burst * P \in Int /\ b.burst * P \in Int /\ rate * P \in Int
      /\ (d.burst + 1) * P = d.burst * P + P
      /\ (rate - 1) * P = rate * P - P
      /\ d.burst * P >= 0
      /\ d.burst = 0 => d.burst * P = 0
  <2>1. d.burst \in Nat /\ b.burst \in Nat /\ rate \in Nat /\ P \in Nat
    BY <1>1, <1>3, <1>5
  <2>2. d.burst * P \in Nat /\ b.burst * P \in Nat /\ rate * P \in Nat BY <2>1
  <2>3. (d.burst + 1) * P = d.burst * P + P BY <2>1
  <2>4. (rate - 1) * P = rate * P - P BY <2>1
  <2>5. d.burst = 0 => d.burst * P = 0 BY <2>1
  <2> QED BY <2>2, <2>3, <2>4, <2>5
<1>8. from \in Int /\ debt \in Int BY <1>3, <1>5, <1>7
<1>9. oob_global'.burst * P + stampAll' = IF AllOver THEN from ELSE from + P
  <2>1. d.burst \in Int /\ rate \in Int BY <1>1, <1>5
  <2>2. CASE AllOver BY <2>1, <2>2, <1>6
  <2>3. CASE ~AllOver
    <3>1. oob_global'.burst = d.burst + 1 /\ stampAll' = t BY <2>1, <2>3, <1>6
    <3>2. oob_global'.burst * P = d.burst * P + P BY <3>1, <1>7
    <3> QED BY <3>1, <3>2, <2>3, <1>1, <1>5, <1>7
  <2> QED BY <2>2, <2>3
<1>10. verdict.addr = All => \/ from = debt /\ now - P < from
                             \/ from = now /\ debt <= now
  BY <1>1, <1>3, <1>4, <1>5, <1>7
<1>11. verdict.addr # All => d.burst = 0 /\ now - P < from /\ from <= now
  <2>1. verdict.addr # All => d.burst = 0 BY <1>5 DEF AgeInv, b
  <2> QED BY <2>1, <1>3, <1>5, <1>7
<1>12. ~AllOver => from <= now + (rate - 1) * P
  <2>1. SUFFICES ASSUME ~AllOver PROVE from <= now + (rate - 1) * P OBVIOUS
  <2>2. d.burst <= rate - 1 /\ d.burst \in Int BY <2>1, <1>1, <1>5, <1>6
  <2>3. d.burst * P <= (rate - 1) * P BY <2>2, <1>1
  <2> QED BY <2>3, <1>1, <1>3, <1>5, <1>7
<1>13. AllOver => verdict.addr = All /\ from = debt /\ from > now + (rate - 1) * P
  <2>1. SUFFICES ASSUME AllOver
                 PROVE  verdict.addr = All /\ from = debt /\ from > now + (rate - 1) * P
    OBVIOUS
  <2>2. d.burst >= rate /\ d.burst # 0 /\ d.burst \in Int BY <2>1, <1>1, <1>5, <1>6
  <2>3. verdict.addr = All BY <2>2, <1>11
  <2>4. from = debt BY <2>2, <2>3, <1>4, <1>5
  <2>5. d.burst * P >= rate * P BY <2>2, <1>1
  <2>6. from > now + (rate - 1) * P BY <2>5, <1>1, <1>3, <1>5, <1>7
  <2> QED BY <2>3, <2>4, <2>6
<1>14. debt = AllDebt(rate) BY DEF AllDebt, P, b, s
<1> HIDE DEF from, debt
<1>15. \E f \in Int :
            /\ oob_global'.burst * P + stampAll' = IF AllOver THEN f ELSE f + P
            /\ verdict.addr = All =>
                 \/ f = AllDebt(rate) /\ now - P < f
                 \/ f = now /\ AllDebt(rate) <= now
            /\ verdict.addr # All => now - P < f /\ f <= now
            /\ ~AllOver => f <= now + (rate - 1) * P
            /\ AllOver => /\ verdict.addr = All /\ f = AllDebt(rate)
                          /\ f > now + (rate - 1) * P
  BY <1>8, <1>9, <1>10, <1>11, <1>12, <1>13, <1>14
<1> QED BY <1>15 DEF P

(* The debt is what the contract remembers, once a packet has been put to  *)
(* the bucket.                                                             *)
Due(rate) == [a \in {verdict.addr} \ {NoAddr} |-> AllDebt(rate)]

(* A packet that the shared bucket lets through is an admission.           *)
LEMMA AllAdmits ==
    ASSUME IInv, AgeInv, ClockLasts, NEW rate \in 1 .. MaxRate, NewCfg.all = rate,
           ChargeAll, ~AllOver, verdict' = [addr |-> All, passed |-> TRUE], now' = now
    PROVE  AllContract(rate)!Admit(All)
<1> DEFINE P == Period(rate)
<1>1. PICK from \in Int :
            /\ oob_global'.burst * P + stampAll' = from + P
            /\ verdict.addr = All =>
                 \/ from = AllDebt(rate) /\ now - P < from
                 \/ from = now /\ AllDebt(rate) <= now
            /\ verdict.addr # All => now - P < from /\ from <= now
            /\ from <= now + (rate - 1) * P
  BY AllChargedFrom
<1>2. /\ P \in Nat \ {0} /\ now \in Int /\ AllDebt(rate) \in Int /\ (rate - 1) * P \in Nat
      /\ verdict.addr \in {NoAddr, All}
  <2>1. P \in Nat \ {0} /\ rate - 1 \in Nat BY RateFacts DEF Period
  <2>2. now \in Int /\ stampAll \in Int /\ oob_global.burst \in Int /\ verdict.addr \in {NoAddr, All}
    BY DEF IInv, TypeOK, Level
  <2> HIDE DEF P
  <2>3. (rate - 1) * P \in Nat /\ oob_global.burst * P \in Int BY <2>1, <2>2
  <2> QED BY <2>1, <2>2, <2>3 DEF AllDebt, P
<1>3. All # NoAddr OBVIOUS
<1> DEFINE due == Due(rate)
           known == DOMAIN due
<1>4. /\ known = {verdict.addr} \ {NoAddr}
      /\ \A a \in known : a = All /\ due[a] = AllDebt(rate)
  BY <1>2 DEF Due
<1>5. Due(rate)' = [x \in {All} |-> from + P]
  <2>1. AllDebt(rate)' = from + P BY <1>1 DEF AllDebt, Period
  <2>2. {verdict.addr}' \ {NoAddr} = {All} BY <1>3
  <2> QED BY <2>1, <2>2 DEF Due
<1>6. All \in known <=> verdict.addr = All BY <1>3, <1>4
<1> HIDE DEF known, due, P
<1>7. ~(All \in known /\ due[All] > now + (rate - 1) * P)
  <2>1. CASE verdict.addr = All
    <3>1. AllDebt(rate) <= now + (rate - 1) * P BY <2>1, <1>1, <1>2
    <3> QED BY <3>1, <2>1, <1>2, <1>4, <1>6
  <2>2. CASE verdict.addr # All BY <2>2, <1>6
  <2> QED BY <2>1, <2>2
<1>8. \E kept \in {known} \cup (IF All \in known THEN {} ELSE {known \ {x} : x \in known}) :
        kept \cup {All} = {All}
  BY <1>2, <1>4
<1>9. from \in IF All \in known
               THEN AllContract(rate)!Later(due[All], now - P + 1)
                      .. AllContract(rate)!Later(due[All], now)
               ELSE (now - P + 1) .. now
  <2>1. CASE verdict.addr = All
    <3>1. due[All] = AllDebt(rate) /\ All \in known BY <2>1, <1>4, <1>6
    <3>2. from \in AllContract(rate)!Later(AllDebt(rate), now - P + 1)
                      .. AllContract(rate)!Later(AllDebt(rate), now)
      BY <2>1, <1>1, <1>2 DEF AllContract!Later
    <3> QED BY <3>1, <3>2
  <2>2. CASE verdict.addr # All
    <3>1. from \in (now - P + 1) .. now BY <2>2, <1>1, <1>2
    <3> QED BY <3>1, <2>2, <1>6
  <2> QED BY <2>1, <2>2
<1>10. ~AllContract(rate)!InDebt(All)
  BY <1>7 DEF AllContract!InDebt, AllContract!Known, known, due, Due, AllDebt, P, Period
<1>11. \E kept \in AllContract(rate)!Kept(All) : kept \cup {All} = {All}
  BY <1>8 DEF AllContract!Kept, AllContract!Known, known, due, Due, AllDebt, Period
<1>12. from \in AllContract(rate)!Charged(All)
  BY <1>9 DEF AllContract!Charged, AllContract!Known, known, due, Due, AllDebt, P, Period
<1>13. PICK kept \in AllContract(rate)!Kept(All) : kept \cup {All} = {All} BY <1>11
<1>14. Due(rate)' = [x \in kept \cup {All} |-> IF x = All THEN from + P ELSE due[x]]
  BY <1>5, <1>13
<1>15. \E k \in AllContract(rate)!Kept(All), f \in AllContract(rate)!Charged(All) :
          Due(rate)' = [x \in k \cup {All} |-> IF x = All THEN f + P ELSE due[x]]
  BY <1>12, <1>14
<1> QED BY <1>10, <1>15 DEF AllContract!Admit, due, Due, AllDebt, P, Period

(* One that it refuses is a drop.                                          *)
LEMMA AllDrops ==
    ASSUME IInv, AgeInv, ClockLasts, NEW rate \in 1 .. MaxRate, NewCfg.all = rate,
           ChargeAll, AllOver, verdict' = [addr |-> All, passed |-> FALSE], now' = now
    PROVE  AllContract(rate)!Drop(All)
<1>1. PICK from \in Int :
            /\ oob_global'.burst * Period(rate) + stampAll' = from
            /\ verdict.addr = All /\ from = AllDebt(rate)
            /\ from > now + (rate - 1) * Period(rate)
  BY AllChargedFrom
<1>2. All # NoAddr OBVIOUS
<1>3. AllDebt(rate)' = AllDebt(rate) BY <1>1 DEF AllDebt, Period
<1>4. Due(rate)' = Due(rate)
  <2>1. verdict'.addr = All OBVIOUS
  <2> QED BY <2>1, <1>1, <1>3 DEF Due
<1>5. All \in DOMAIN Due(rate) /\ Due(rate)[All] > now + (rate - 1) * Period(rate)
  BY <1>1, <1>2 DEF Due
<1>6. AllContract(rate)!InDebt(All)
  BY <1>5 DEF AllContract!InDebt, AllContract!Known, Due, AllDebt, Period
<1> QED BY <1>4, <1>6 DEF AllContract!Drop, Due, AllDebt, Period

LEMMA ContractStep ==
    ASSUME ClockLasts, IInv, AgeInv, [Next]_vars, SameRates,
           NEW rate \in {oob_cfg.all} \cap (1 .. MaxRate)
    PROVE  UNCHANGED AllContract(rate)!vars \/ AllContract(rate)!Next
<1>1. ASSUME oob_global' = oob_global, stampAll' = stampAll, verdict' = verdict, now' = now
      PROVE  UNCHANGED AllContract(rate)!vars
  BY <1>1 DEF AllContract!vars
<1>2. CASE Tick
  <2>1. now' \in Nat /\ now' > now BY <1>2 DEF Tick, IInv, TypeOK
  <2> QED BY <1>2, <2>1 DEF Tick, codeVars, historyVars, AllContract!Next, AllContract!Tick
<1>3. CASE SetCvars BY <1>1, <1>3 DEF SetCvars, codeVars
<1>4. ASSUME NEW addr \in Watched, Observe(addr) PROVE UNCHANGED AllContract(rate)!vars
  BY <1>1, <1>4 DEF Observe, codeVars
<1>5. CASE UNCHANGED vars BY <1>1, <1>5 DEF vars, codeVars, historyVars
<1>6. ASSUME NEW addr \in Addrs, NEW i \in Slots,
             DropByIp(addr, i) \/ DropByAll(addr, i) \/ Forward(addr, i)
      PROVE  UNCHANGED AllContract(rate)!vars \/ AllContract(rate)!Next
  <2>1. rate \in 1 .. MaxRate /\ NewCfg.all = rate BY DEF SameRates
  <2>2. CASE DropByIp(addr, i) BY <1>1, <2>2 DEF DropByIp, Judged
  <2>3. CASE DropByAll(addr, i)
    <3>1. AllContract(rate)!Drop(All)
      BY <2>1, <2>3, AllDrops DEF DropByAll, Judged
    <3> QED BY <3>1 DEF AllContract!Next
  <2>4. CASE Forward(addr, i)
    <3>1. AllContract(rate)!Admit(All)
      BY <2>1, <2>4, AllAdmits DEF Forward, Judged
    <3> QED BY <3>1 DEF AllContract!Next
  <2> QED BY <1>6, <2>2, <2>3, <2>4
<1> QED BY <1>2, <1>3, <1>4, <1>5, <1>6 DEF Next, Judge

(* Each time the rates are what they were, a packet that its address's own *)
(* bucket lets through passes exactly when all together owe no more than   *)
(* the burst, and then costs one period; no other packet costs anything.   *)
(* As in RconGuard, for as long as the clock has not come full circle.     *)
THEOREM SharedBucketKeepsContract == ASSUME ClockLasts PROVE Spec => AllContractKept
<1>1. IInv /\ AgeInv /\ [Next]_vars =>
        [SameRates =>
          \A rate \in {oob_cfg.all} \cap (1 .. MaxRate) :
             UNCHANGED AllContract(rate)!vars \/ AllContract(rate)!Next]_vars
  BY ContractStep
<1> QED BY <1>1, InitAge, NextAge, Invariance, PTL DEF Spec, AllContractKept
=============================================================================
