------------------------------ MODULE OobGuard ------------------------------
(***************************************************************************)
(* Detour_Connless of src/proxy/patch.c: the rate limit in front of the    *)
(* engine's connectionless packets.  Each address has a bucket; what the   *)
(* addresses let through shares one more bucket.  The rates come from two  *)
(* server cvars, re-read by OOB_RefreshCfg at most once per CfgTtl.        *)
(***************************************************************************)
EXTENDS LeakyBucket

CONSTANTS
    Addrs,        \* addresses that send connectionless packets
    Loopback,     \* 127.0.0.1, which may be one of them
    NoAddr,       \* the ip field of an unused entry
    All,          \* stands for all addresses together in AllContract
    OobBuckets,   \* OOB_BUCKETS
    Second,       \* 1000, milliseconds per second
    MaxRate,      \* 1000, the greatest rate the cvars can ask for
    BurstFactor,  \* 10, seconds of its rate that an address may burst
    DefaultIp,    \* 1, the rate of an address when the cvar is absent
    DefaultAll,   \* 1000, the rate of all together
    CfgTtl,       \* 5000, how long a configuration is kept
    ReportGap,    \* 5000, the gap between two reports
    CvarValues,   \* what the cvars may be set to: any int
    Watched,      \* history: the addresses, or All, that may be watched
    Starts,       \* bound: machine uptimes when the game module is loaded
    MaxNow,       \* bound: machine uptime when the run ends
    MaxChanges,   \* bound: how often an admin sets a cvar
    MaxDropped    \* bound: drops counted between two reports

ASSUME OobAssumption ==
    /\ NoAddr \notin Addrs /\ All \notin Addrs /\ All # NoAddr
    /\ Watched \subseteq (Addrs \ {Loopback}) \cup {All}
    /\ {OobBuckets, Second, BurstFactor} \subseteq Nat \ {0}
    /\ MaxRate \in 1 .. Second /\ {DefaultIp, DefaultAll} \subseteq 1 .. MaxRate
    /\ BurstFactor * Second <= Half
    /\ CfgTtl \in Nat \ {0} /\ ReportGap \in 0 .. (Half - 1)
    /\ CvarValues \subseteq Int
    /\ Starts \subseteq Nat
    /\ {MaxNow, MaxChanges, MaxDropped} \subseteq Nat

VARIABLES
    now,          \* uptime of the machine
    cvars,        \* sv_maxOOBRateIP and sv_maxOOBRate, as the engine has them
    oob_table,    \* the buckets of the addresses
    oob_global,   \* oob_global_burst and oob_global_last
    oob_cfg,      \* oob_cfg_ip, oob_cfg_all and oob_cfg_time
    oob_dropped,  \* drops since the last report
    oob_lastMsg,  \* clock of the last report
    verdict,      \* the fate of the packet last put to the shared bucket
    changed,      \* history: when a cvar was last set, and how often
    stampAll,     \* history: the uptime that oob_global_last stands for
    watch         \* history: passes of one address, or All, since an instant

codeVars == <<oob_table, oob_global, oob_cfg, oob_dropped, oob_lastMsg>>
historyVars == <<changed, stampAll, watch>>
vars == <<now, cvars, codeVars, verdict, historyVars>>

Slots == 1 .. OobBuckets
Entry == [used : BOOLEAN, ip : Addrs \cup {NoAddr}, level : Level]
Unused == [used |-> FALSE, ip |-> NoAddr, level |-> Fresh]

clock == ClockMs(now)

LevelOK(l, most) == l.lastTime \in CInt /\ l.burst \in 0 .. most

TypeOK ==
    /\ now \in Nat
    /\ cvars \in [ip : CvarValues, all : CvarValues]
    /\ oob_table \in [Slots -> Entry]
    /\ \A i \in Slots : /\ LevelOK(oob_table[i].level, BurstFactor * MaxRate)
                        /\ oob_table[i].used => oob_table[i].ip \in Addrs \ {Loopback}
    /\ oob_global \in Level /\ LevelOK(oob_global, MaxRate)
    /\ oob_cfg \in [ip : -1 .. MaxRate, all : -1 .. MaxRate, time : CInt]
    /\ oob_dropped \in 0 .. MaxDropped
    /\ oob_lastMsg \in CInt
    /\ verdict \in [addr : {NoAddr, All}, passed : BOOLEAN]
    /\ changed \in [at : Nat, times : 0 .. MaxChanges]
    /\ stampAll \in Int
    /\ watch \in [addr : Watched \cup {NoAddr}, since : Nat, count : Nat]

Init ==
    /\ now \in Starts
    /\ cvars \in [ip : CvarValues, all : CvarValues]
    /\ oob_table = [i \in Slots |-> Unused]
    /\ oob_global = Fresh
    /\ oob_cfg = [ip |-> -1, all |-> -1, time |-> 0]
    /\ oob_dropped = 0
    /\ oob_lastMsg = 0
    /\ verdict = [addr |-> NoAddr, passed |-> TRUE]
    /\ changed = [at |-> now, times |-> 0]
    /\ stampAll = 0
    /\ watch = [addr |-> NoAddr, since |-> 0, count |-> 0]

-----------------------------------------------------------------------------
(* Wrong: no upper limit on the rate. *)
RateUnclamped(v, default) == IF v <= 0 THEN default ELSE v

(* OOB_RefreshCfg: zero or less means the cvar is absent. *)
Rate(v, default) == IF v <= 0 THEN default ELSE IF v > MaxRate THEN MaxRate ELSE v

(* Wrong: a configuration, once read, is kept for good. *)
CfgKeptForever == oob_cfg.time # 0

CfgKept == oob_cfg.time # 0 /\ Wrap(clock - oob_cfg.time) < CfgTtl

NewCfg ==
    IF CfgKept THEN oob_cfg
    ELSE [ip |-> Rate(cvars.ip, DefaultIp),
          all |-> Rate(cvars.all, DefaultAll),
          time |-> clock]

IpPeriod(cfg) == Second \div cfg.ip
IpBurst(cfg) == BurstFactor * cfg.ip
AllPeriod(cfg) == Second \div cfg.all
AllBurst(cfg) == cfg.all

IpOver(i, addr) ==
    OverLimit(Found(oob_table, i, addr), IpBurst(NewCfg), IpPeriod(NewCfg), clock)

AllOver == OverLimit(oob_global, AllBurst(NewCfg), AllPeriod(NewCfg), clock)

(* The bucket of the address is charged even when the shared one refuses. *)
ChargeIp(i, addr) ==
    oob_table' = [oob_table EXCEPT ![i] =
        [used |-> TRUE, ip |-> addr,
         level |-> RateLimit(Found(oob_table, i, addr),
                             IpBurst(NewCfg), IpPeriod(NewCfg), clock)]]

(* History: a limiter that is switched off leaves the bucket as it is. *)
StampAll == IF AllPeriod(NewCfg) > 0
            THEN DrainedTo(oob_global, AllPeriod(NewCfg), now) ELSE stampAll

(* Wrong: oob_global_last is not written back. *)
ChargeAllStale ==
    /\ oob_global' = [RateLimit(oob_global, AllBurst(NewCfg), AllPeriod(NewCfg), clock)
                         EXCEPT !.lastTime = oob_global.lastTime]
    /\ stampAll' = StampAll

ChargeAll ==
    /\ oob_global' = RateLimit(oob_global, AllBurst(NewCfg), AllPeriod(NewCfg), clock)
    /\ stampAll' = StampAll

Report ==
    IF LogDue(oob_lastMsg, ReportGap, clock)
    THEN oob_dropped' = 0 /\ oob_lastMsg' = clock
    ELSE /\ oob_dropped < MaxDropped
         /\ oob_dropped' = oob_dropped + 1
         /\ UNCHANGED oob_lastMsg

(* History: a window restarts when the rates change under it, and that of  *)
(* an address when the address loses its bucket.                           *)
SameRates == NewCfg.ip = oob_cfg.ip /\ NewCfg.all = oob_cfg.all

Note(i, addr, passes) ==
    LET lost == oob_table[i].ip = watch.addr /\ watch.addr # addr
        w == IF watch.addr # NoAddr /\ (lost \/ ~SameRates)
             THEN [watch EXCEPT !.since = now, !.count = 0] ELSE watch
    IN  watch' = IF passes /\ watch.addr \in {addr, All}
                 THEN [w EXCEPT !.count = @ + 1] ELSE w

(* OOB_ShouldDrop up to the verdict of the address's own bucket.  Packets  *)
(* from loopback are forwarded before anything is read or charged.         *)
Judged(addr, i) ==
    /\ addr # Loopback
    /\ Selects(oob_table, i, addr)
    /\ oob_cfg' = NewCfg
    /\ ChargeIp(i, addr)
    /\ UNCHANGED <<now, cvars, changed>>

(* Wrong: the shared bucket is charged before the address's own is asked. *)
DropByIpCharged(addr, i) ==
    /\ Judged(addr, i)
    /\ IpOver(i, addr)
    /\ ChargeAll
    /\ Report
    /\ Note(i, addr, FALSE)
    /\ UNCHANGED verdict

(* Over the limit of its address: the shared bucket is not touched. *)
DropByIp(addr, i) ==
    /\ Judged(addr, i)
    /\ IpOver(i, addr)
    /\ Report
    /\ Note(i, addr, FALSE)
    /\ UNCHANGED <<oob_global, verdict, stampAll>>

(* Within the limit of its address, over that of all. *)
DropByAll(addr, i) ==
    /\ Judged(addr, i)
    /\ ~IpOver(i, addr) /\ AllOver
    /\ ChargeAll
    /\ Report
    /\ verdict' = [addr |-> All, passed |-> FALSE]
    /\ Note(i, addr, FALSE)

(* Within both: the engine's own handler runs. *)
Forward(addr, i) ==
    /\ Judged(addr, i)
    /\ ~IpOver(i, addr) /\ ~AllOver
    /\ ChargeAll
    /\ verdict' = [addr |-> All, passed |-> TRUE]
    /\ Note(i, addr, TRUE)
    /\ UNCHANGED <<oob_dropped, oob_lastMsg>>

(* An admin sets the cvars in the server's console. *)
SetCvars ==
    /\ changed.times < MaxChanges
    /\ cvars' \in [ip : CvarValues, all : CvarValues]
    /\ cvars' # cvars
    /\ changed' = [at |-> now, times |-> changed.times + 1]
    /\ UNCHANGED <<now, codeVars, verdict, stampAll, watch>>

Tick ==
    /\ now < MaxNow
    /\ now' = now + 1
    /\ UNCHANGED <<cvars, codeVars, verdict, historyVars>>

(* History only: a window is opened at any time. *)
Observe(addr) ==
    /\ watch.addr = NoAddr
    /\ watch' = [addr |-> addr, since |-> now, count |-> 0]
    /\ UNCHANGED <<now, cvars, codeVars, verdict, changed, stampAll>>

Judge ==
    \E addr \in Addrs, i \in Slots :
        DropByIp(addr, i) \/ DropByAll(addr, i) \/ Forward(addr, i)

Next ==
    \/ Tick
    \/ SetCvars
    \/ \E addr \in Watched : Observe(addr)
    \/ Judge

Spec == Init /\ [][Next]_vars

-----------------------------------------------------------------------------
(* A period or burst of zero would switch the limiter off: whatever the    *)
(* cvars hold, once a packet has been judged the limits are armed.         *)
LimiterArmed ==
    (\E i \in Slots : oob_table[i].used) =>
        /\ IpPeriod(oob_cfg) > 0 /\ IpBurst(oob_cfg) > 0
        /\ AllPeriod(oob_cfg) > 0 /\ AllBurst(oob_cfg) > 0

(* README: "read live from the engine (cached every 5 s)".  A packet is    *)
(* judged by the rates the cvars ask for now, or they were set less than   *)
(* CfgTtl ago.  It needs the clock to move on by less than half a turn.    *)
ConfigFresh ==
    [][  \/ UNCHANGED codeVars
         \/ oob_cfg'.ip = Rate(cvars.ip, DefaultIp)
              /\ oob_cfg'.all = Rate(cvars.all, DefaultAll)
         \/ now - changed.at < CfgTtl]_vars

WindowHolds(burst, period) ==
    watch.count <= burst + (now - watch.since + period - 1) \div period

(* While the rates stay the same, an address that keeps its bucket gets at *)
(* most its burst through in any window, plus one for each period begun;   *)
(* and so do all addresses together, however many there are and however    *)
(* often their own buckets are given away.                                 *)
WindowBound ==
    watch.count > 0 =>
        IF watch.addr = All
        THEN WindowHolds(AllBurst(oob_cfg), AllPeriod(oob_cfg))
        ELSE WindowHolds(IpBurst(oob_cfg), IpPeriod(oob_cfg))

(* While the rates stay the same, the shared bucket keeps RateContract for *)
(* the packets that their addresses' own buckets let through: a packet its *)
(* address's bucket refuses costs the others nothing.                      *)
AllContract(rate) ==
    INSTANCE RateContract WITH
        Addrs <- {All}, Exempted <- {},
        Burst <- rate, Period <- Second \div rate,
        due <- [a \in {verdict.addr} \ {NoAddr} |->
                   oob_global.burst * (Second \div rate) + stampAll]

AllContractKept ==
    [][SameRates =>
          \A rate \in {oob_cfg.all} \cap (1 .. MaxRate) :
             UNCHANGED AllContract(rate)!vars \/ AllContract(rate)!Next]_vars
=============================================================================
