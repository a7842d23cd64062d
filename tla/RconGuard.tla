----------------------------- MODULE RconGuard -----------------------------
(***************************************************************************)
(* Detour_Rcon of src/proxy/patch.c: the throttle in front of the engine's *)
(* rcon handler.  Every attempt runs to completion on the engine's only    *)
(* packet thread, so an attempt is one action.                             *)
(*                                                                         *)
(* now counts the milliseconds of machine uptime without bound; the code   *)
(* only ever sees ClockMs(now).                                            *)
(***************************************************************************)
EXTENDS LeakyBucket

CONSTANTS
    Addrs,       \* addresses other than loopback that send rcon packets
    Loopback,    \* 127.0.0.1
    NoAddr,      \* the ip field of an unused entry
    RconBuckets, \* RCON_BUCKETS, the entries of the table
    RconBurst,   \* RCON_BURST
    RconPeriod,  \* RCON_PERIOD
    ReportGap,   \* 5000, the gap between two reports
    MaxStart,    \* bound: machine uptime when the game module is loaded
    MaxNow,      \* bound: machine uptime when the run ends
    MaxDropped   \* bound: drops counted between two reports

ASSUME RconAssumption ==
    /\ Loopback \notin Addrs /\ NoAddr \notin Addrs /\ Loopback # NoAddr
    /\ RconBuckets \in Nat \ {0}
    /\ RconBurst \in Nat \ {0}
    /\ RconPeriod \in Nat \ {0}
    /\ RconBurst * RconPeriod <= Half
    /\ ReportGap \in 0 .. (Half - 1)
    /\ MaxStart \in Nat /\ MaxNow \in Nat /\ MaxStart <= MaxNow
    /\ MaxDropped \in Nat

VARIABLES
    now,            \* uptime of the machine
    rcon_table,     \* the buckets
    rcon_dropped,   \* drops since the last report
    rcon_lastMsg,   \* clock of the last report
    verdict,        \* the attempt handled last, and whether orig was called
    stamp,          \* history: the uptime each bucket's lastTime stands for
    watch           \* history: admissions of one address since an instant

codeVars == <<rcon_table, rcon_dropped, rcon_lastMsg>>
vars == <<now, codeVars, verdict, stamp, watch>>

Slots == 1 .. RconBuckets

Entry == [used : BOOLEAN, ip : Addrs \cup {NoAddr}, level : Level]

Unused == [used |-> FALSE, ip |-> NoAddr, level |-> Fresh]

clock == ClockMs(now)

TypeOK ==
    /\ now \in 0 .. MaxNow
    /\ rcon_table \in [Slots -> Entry]
    /\ \A i \in Slots : /\ rcon_table[i].level.lastTime \in CInt
                        /\ rcon_table[i].level.burst \in 0 .. RconBurst
                        /\ rcon_table[i].used => rcon_table[i].ip \in Addrs
    /\ rcon_dropped \in 0 .. MaxDropped
    /\ rcon_lastMsg \in CInt
    /\ verdict \in [addr : Addrs \cup {Loopback, NoAddr}, passed : BOOLEAN]
    /\ stamp \in [Slots -> Nat]
    /\ watch \in [addr : Addrs \cup {NoAddr}, since : Nat, count : Nat]

Init ==
    /\ now \in 0 .. MaxStart
    /\ rcon_table = [i \in Slots |-> Unused]
    /\ rcon_dropped = 0
    /\ rcon_lastMsg = 0
    /\ verdict = [addr |-> NoAddr, passed |-> TRUE]
    /\ stamp = [i \in Slots |-> 0]
    /\ watch = [addr |-> NoAddr, since |-> 0, count |-> 0]

-----------------------------------------------------------------------------
(* Entry i now belongs to addr and holds what the limiter left. *)
Charge(i, addr) ==
    LET b == Found(rcon_table, i, addr)
    IN  /\ rcon_table' = [rcon_table EXCEPT ![i] =
                [used |-> TRUE, ip |-> addr,
                 level |-> RateLimit(b, RconBurst, RconPeriod, clock)]]
        /\ stamp' = [stamp EXCEPT ![i] = DrainedTo(b, RconPeriod, now)]

Throttled(i, addr) ==
    OverLimit(Found(rcon_table, i, addr), RconBurst, RconPeriod, clock)

(* The attempt passes: the engine's own handler runs. *)
Admit(addr, i) ==
    /\ Selects(rcon_table, i, addr)
    /\ ~Throttled(i, addr)
    /\ Charge(i, addr)
    /\ verdict' = [addr |-> addr, passed |-> TRUE]
    /\ watch' =
        IF watch.addr = addr
        THEN [watch EXCEPT !.count = @ + 1]
        ELSE IF watch.addr # NoAddr /\ rcon_table[i].ip = watch.addr
             THEN [addr |-> watch.addr, since |-> now, count |-> 0]
             ELSE watch
    /\ UNCHANGED <<now, rcon_dropped, rcon_lastMsg>>

(* The attempt is dropped, and a report of the drops may be due. *)
Drop(addr, i) ==
    /\ Selects(rcon_table, i, addr)
    /\ Throttled(i, addr)
    /\ Charge(i, addr)
    /\ verdict' = [addr |-> addr, passed |-> FALSE]
    /\ IF LogDue(rcon_lastMsg, ReportGap, clock)
       THEN rcon_dropped' = 0 /\ rcon_lastMsg' = clock
       ELSE /\ rcon_dropped < MaxDropped
            /\ rcon_dropped' = rcon_dropped + 1
            /\ UNCHANGED rcon_lastMsg
    /\ UNCHANGED <<now, watch>>

(* Local admin tools are not throttled. *)
FromLoopback ==
    /\ verdict' = [addr |-> Loopback, passed |-> TRUE]
    /\ UNCHANGED <<now, codeVars, stamp, watch>>

Tick ==
    /\ now < MaxNow
    /\ now' = now + 1
    /\ UNCHANGED <<codeVars, verdict, stamp, watch>>

(* History only: start counting the admissions of one address. *)
Observe(addr) ==
    /\ watch.addr = NoAddr
    /\ watch' = [addr |-> addr, since |-> now, count |-> 0]
    /\ UNCHANGED <<now, codeVars, verdict, stamp>>

Next ==
    \/ Tick
    \/ FromLoopback
    \/ \E addr \in Addrs : Observe(addr)
    \/ \E addr \in Addrs, i \in Slots : Admit(addr, i) \/ Drop(addr, i)

Spec == Init /\ [][Next]_vars

-----------------------------------------------------------------------------
(* BucketFor never files an address twice nor leaves a hole: entries in    *)
(* use come first, and belong to different addresses.  A second entry      *)
(* would hand its address a second burst.                                  *)
TableInv ==
    /\ \A i, j \in Slots : i < j /\ rcon_table[j].used => rcon_table[i].used
    /\ \A i, j \in Slots :
          rcon_table[i].used /\ rcon_table[j].used
             /\ rcon_table[i].ip = rcon_table[j].ip => i = j

(* patch.c: "a short burst, then 1 attempt per 2 s per IP".  However the   *)
(* attempts are timed, and however often the clock wraps meanwhile, an     *)
(* address that keeps its bucket gets at most Burst attempts through in    *)
(* any window, plus one for each period the window began.                  *)
WindowBound ==
    watch.count <= RconBurst + (now - watch.since + RconPeriod - 1) \div RconPeriod

-----------------------------------------------------------------------------
(* The inductive invariant behind TableInv and WindowBound.                *)

Debt(i) == rcon_table[i].level.burst * RconPeriod + stamp[i]

(* The clock value in a bucket is the low bits of an uptime in the past.   *)
StampInv ==
    \A i \in Slots : /\ stamp[i] \in 0 .. now
                     /\ rcon_table[i].level.lastTime = Wrap(stamp[i])

(* Every admission since the window began has moved the debt of the        *)
(* address's bucket one period further past the beginning of the window.   *)
WatchInv ==
    /\ watch.since <= now
    /\ watch.count > 0 =>
          \E i \in Slots :
             /\ rcon_table[i].used /\ rcon_table[i].ip = watch.addr
             /\ watch.count * RconPeriod
                   <= Debt(i) - watch.since + RconPeriod - 1

Inv == TypeOK /\ TableInv /\ StampInv /\ WatchInv

-----------------------------------------------------------------------------
(* The contract: due is the uptime up to which a bucket is drained plus    *)
(* one period for every attempt it still holds.                            *)
Tracked(t) == {t[i].ip : i \in {j \in Slots : t[j].used}}

SlotOf(t, addr) == CHOOSE i \in Slots : t[i].used /\ t[i].ip = addr

DueOf(t, st) ==
    [addr \in Tracked(t) |->
        t[SlotOf(t, addr)].level.burst * RconPeriod + st[SlotOf(t, addr)]]

Contract ==
    INSTANCE RateContract WITH
        Addrs <- Addrs \cup {Loopback}, Exempted <- {Loopback},
        Burst <- RconBurst, Period <- RconPeriod,
        due <- DueOf(rcon_table, stamp)

(* Every step of the throttle is a step of the contract: an attempt is     *)
(* dropped exactly when its address owes more than the burst allows.  It   *)
(* needs the clock not to come full circle under a bucket.                 *)
ContractSpec == Contract!Spec
=============================================================================
