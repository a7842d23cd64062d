------------------------------- MODULE Donedl -------------------------------
(***************************************************************************)
(* Detour_DoneDownload of src/proxy/patch.c: the engine's donedl command   *)
(* is dropped while downloads are switched off, and the drops are reported *)
(* every now and then.  The gate of the reports is that of Detour_Connless *)
(* and Detour_Rcon as well.                                                *)
(***************************************************************************)
EXTENDS LeakyBucket

CONSTANTS
    DlGap,        \* 5000 ms between two reports
    Uptimes,      \* when the wrapper may be loaded
    MaxUptime,    \* bound: when the clock stops
    MaxDrops      \* bound: commands dropped

ASSUME DonedlAssumption ==
    /\ DlGap \in 1 .. (Half - 1) /\ MaxDrops \in Nat
    /\ Uptimes \subseteq 0 .. MaxUptime /\ MaxUptime \in Nat

VARIABLES
    allowed,         \* sv_allowdownload
    uptime,          \* ms since boot
    oob_dl_dropped,  \* drops not reported yet
    oob_dl_lastMsg,  \* the clock at the last report
    drops, told,     \* history: commands dropped, and those of them reported
    dropAt, toldAt   \* history: the uptime of the last drop and report

dlVars == <<allowed, uptime, oob_dl_dropped, oob_dl_lastMsg, drops, told, dropAt, toldAt>>

DlTypeOK ==
    /\ allowed \in BOOLEAN /\ uptime \in 0 .. MaxUptime
    /\ {drops, told, oob_dl_dropped} \subseteq 0 .. MaxDrops
    /\ oob_dl_lastMsg \in CInt
    /\ {dropAt, toldAt} \subseteq 0 .. MaxUptime

DlInit ==
    /\ allowed \in BOOLEAN /\ uptime \in Uptimes
    /\ oob_dl_dropped = 0 /\ oob_dl_lastMsg = 0
    /\ drops = 0 /\ told = 0 /\ dropAt = 0 /\ toldAt = 0

(* Wrong: the count goes on after a report. *)
CountAgain(due) == oob_dl_dropped + 1

(* What is left to report after one more drop. *)
Count(due) == IF due THEN 0 ELSE oob_dl_dropped + 1

DropDonedl ==
    LET due == LogDue(oob_dl_lastMsg, DlGap, ClockMs(uptime)) IN
    /\ ~allowed /\ drops < MaxDrops
    /\ oob_dl_dropped' = Count(due)
    /\ oob_dl_lastMsg' = IF due THEN ClockMs(uptime) ELSE oob_dl_lastMsg
    /\ drops' = drops + 1 /\ dropAt' = uptime
    /\ told' = IF due THEN told + oob_dl_dropped + 1 ELSE told
    /\ toldAt' = IF due THEN uptime ELSE toldAt
    /\ UNCHANGED <<allowed, uptime>>

(* With downloads on, the engine's handler is called. *)
PassDonedl == allowed /\ UNCHANGED dlVars

(* The admin sets the cvar; time passes. *)
Allow ==
    /\ allowed' = ~allowed
    /\ UNCHANGED <<uptime, oob_dl_dropped, oob_dl_lastMsg, drops, told, dropAt, toldAt>>

Tick ==
    /\ uptime < MaxUptime
    /\ uptime' = uptime + 1
    /\ UNCHANGED <<allowed, oob_dl_dropped, oob_dl_lastMsg, drops, told, dropAt, toldAt>>

-----------------------------------------------------------------------------
(* No drop goes unreported for long: every one is in one report or still   *)
(* counted, and those counted came within DlGap of a report, as long as    *)
(* the clock has not changed sign since.  After that nothing is reported   *)
(* until the clock comes round to where it was.                            *)
SignChanged == ClockMs(dropAt) - ClockMs(toldAt) # dropAt - toldAt

ReportsTimely ==
    /\ told + oob_dl_dropped = drops
    /\ oob_dl_dropped > 0 => dropAt - toldAt <= DlGap \/ SignChanged
=============================================================================
