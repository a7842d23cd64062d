------------------------------- MODULE Watch -------------------------------
(***************************************************************************)
(* One manager of src/japm/japm.py from the launch of the engine on: what  *)
(* cmd_start does to the two logs, verify_proxy, the standalone plugins,   *)
(* and the loop that reads the log, lets plugins talk to the server, and   *)
(* looks after plugins and engine.  Which crashes the loop notices, and    *)
(* who else starts and stops engines, is in Lifecycle; here a crash is     *)
(* noticed.                                                                *)
(***************************************************************************)
EXTENDS RconClient, LogTail, Plugins

CONSTANTS
    Modes,       \* records: fg, JAPM_FG is set; screen, `screen` is installed;
                 \* prints, what the wrapper may print: sequences of hooked and
                 \* skipped; and what this manager may live to see (bounds):
                 \* lines of the game's log and their kinds, commands, deaths
                 \* of plugins, crashes of the engine, a stop
    CrashLimit   \* bound: crashes of the engine

ASSUME WatchAssumption ==
    /\ CrashLimit \in Nat
    /\ \A m \in Modes : m.prints \subseteq Seq({"hooked", "skipped"})
    /\ Modes \subseteq [fg : BOOLEAN, screen : BOOLEAN, prints : {m.prints : m \in Modes},
                        lines : 0 .. MaxLines,
                        kinds : SUBSET Kinds, commands : 0 .. MaxCommands,
                        deaths : 0 .. DeathLimit, crashes : 0 .. CrashLimit,
                        stops : BOOLEAN]

VARIABLES
    mode,      \* how this manager runs
    at,        \* where the manager is in its code
    engine,    \* whether the engine runs
    launches,  \* how often it has been launched
    startup,   \* what the wrapper has yet to print
    elog,      \* the engine's log: lines of the wrapper
    verdict,   \* what verify_proxy found
    stop,      \* the admin's stop
    spared     \* history: the plugin processes that ran when the stop began

watchVars == <<mode, at, engine, launches, startup, elog, verdict, stop, spared>>
vars == <<rconVars, logVars, plugVars, watchVars>>

Starting == {"launch", "clear", "open", "fresh", "verify", "plugins", "fork"}
Looping == {"poll", "parse", "tend", "relaunch", "verify", "plugins"}

ElogLine == [launch : Nat, what : {"hooked", "skipped"}]

TypeOK ==
    /\ RconTypeOK /\ LogTypeOK /\ PlugTypeOK
    /\ mode \in Modes
    /\ at \in Starting \cup Looping \cup {"dead"}
    /\ engine \in {"up", "down"}
    /\ launches \in 0 .. (CrashLimit + 1)
    /\ startup \in Seq({"hooked", "skipped"})
    /\ elog \in Seq(ElogLine)
    /\ verdict \in {"unknown", "armed", "skipped", "none"}
    /\ stop \in {"none", "killing", "done"}
    /\ spared \subseteq Procs

(* The log of an earlier run is there. *)
Init ==
    /\ RconInit /\ LogInit /\ PlugInit
    /\ mode \in Modes
    /\ at = "launch" /\ engine = "down" /\ launches = 0 /\ startup = <<>>
    /\ elog = <<[launch |-> 0, what |-> "hooked"]>>
    /\ verdict = "unknown"
    /\ stop = "none" /\ spared = {}

-----------------------------------------------------------------------------
(* The engine.                                                             *)
Up == engine = "up"

Logs ==
    /\ Up
    /\ GameLogs /\ lines' <= mode.lines /\ Last(glog').kind \in mode.kinds
    /\ UNCHANGED <<rconVars, plugVars, watchVars>>

Prints ==
    /\ Up /\ startup # <<>>
    /\ elog' = Append(elog, [launch |-> launches, what |-> Head(startup)])
    /\ startup' = Tail(startup)
    /\ UNCHANGED <<rconVars, logVars, plugVars, mode, at, engine, launches, verdict, stop, spared>>

Serves ==
    /\ IF Up THEN Serve ELSE Lose
    /\ UNCHANGED <<logVars, plugVars, watchVars>>

Crash ==
    /\ Up /\ launches <= mode.crashes
    /\ engine' = "down"
    /\ startup' = <<>>
    /\ GameDies
    /\ UNCHANGED <<rconVars, plugVars, mode, at, launches, elog, verdict, stop, spared>>

Plugin(p) ==
    /\ Die(p) /\ deaths' <= mode.deaths
    /\ UNCHANGED <<rconVars, logVars, watchVars>>

-----------------------------------------------------------------------------
(* The manager.                                                            *)
Goes(here, there) == at = here /\ ~waiting /\ at' = there

Launches ==
    /\ engine' = "up"
    /\ launches' = launches + 1
    /\ startup' \in mode.prints
    /\ UNCHANGED <<rconVars, logVars, plugVars, mode, elog, verdict, stop, spared>>

Launch == Goes("launch", "clear") /\ Launches

(* After a crash, five seconds later.  With screen there is no process to  *)
(* keep; if the engine is seen to run, ok, which is a variable by now, is  *)
(* called, and the TypeError ends this round of the loop.                  *)
Relaunch ==
    /\ Goes("relaunch", "verify") \/ (mode.screen /\ Goes("relaunch", "poll"))
    /\ Launches

ClearGamesLog ==
    /\ Goes("clear", "open")
    /\ ClearLog
    /\ UNCHANGED <<rconVars, plugVars, mode, engine, launches, startup, elog,
                   verdict, stop, spared>>

OpenGamesLog ==
    /\ Goes("open", "fresh")
    /\ StartWatcher
    /\ UNCHANGED <<rconVars, plugVars, mode, engine, launches, startup, elog,
                   verdict, stop, spared>>

(* Wrong: the log of the earlier run stays. *)
KeepEngineLog ==
    /\ Goes("fresh", "verify")
    /\ UNCHANGED <<rconVars, logVars, plugVars, mode, engine, launches, startup,
                   elog, verdict, stop, spared>>

(* What the engine has printed since its launch goes as well. *)
ClearEngineLog ==
    /\ Goes("fresh", "verify")
    /\ elog' = <<>>
    /\ UNCHANGED <<rconVars, logVars, plugVars, mode, engine, launches, startup,
                   verdict, stop, spared>>

(* verify_proxy reads until there is a line or time is up. *)
Verify ==
    /\ Goes("verify", "plugins")
    /\ verdict' = IF elog = <<>> THEN "none"
                  ELSE IF \E k \in DOMAIN elog : elog[k].what = "hooked" THEN "armed"
                  ELSE "skipped"
    /\ UNCHANGED <<rconVars, logVars, plugVars, mode, engine, launches, startup,
                   elog, stop, spared>>

StartPlugins ==
    /\ Goes("plugins", IF launches = 1 THEN "fork" ELSE "poll")
    /\ Start(Names)
    /\ UNCHANGED <<rconVars, logVars, mode, engine, launches, startup, elog,
                   verdict, stop, spared>>

(* The loop runs in a child of the process that started the plugins. *)
Fork ==
    /\ Goes("fork", "poll")
    /\ IF mode.fg THEN UNCHANGED plugs ELSE Orphan
    /\ UNCHANGED <<rconVars, logVars, standalone, plugPid, deaths, todo, mode, engine,
                   launches, startup, elog, verdict, stop, spared>>

PollLog ==
    /\ Goes("poll", "parse")
    /\ Poll
    /\ UNCHANGED <<rconVars, plugVars, mode, engine, launches, startup, elog,
                   verdict, stop, spared>>

(* A plugin that is called may send a command. *)
MayAsk == (asked < mode.commands /\ Ask) \/ UNCHANGED rconVars

(* An IndexError ends this round of the loop. *)
ParsePiece(outcome) ==
    /\ Goes("parse", IF outcome = "raise" THEN "poll" ELSE "parse")
    /\ Parse(outcome)
    /\ IF outcome \in {"event", "false"} THEN MayAsk ELSE UNCHANGED rconVars
    /\ UNCHANGED <<plugVars, mode, engine, launches, startup, elog, verdict, stop, spared>>

LoopAll ==
    /\ pieces = <<>>
    /\ Goes("parse", "tend")
    /\ MayAsk
    /\ UNCHANGED <<logVars, plugVars, mode, engine, launches, startup, elog,
                   verdict, stop, spared>>

(* Wrong: the plugins are looked after only when the engine is down. *)
TendLate ==
    /\ Goes("tend", IF Up THEN "poll" ELSE "relaunch")
    /\ IF ~Up /\ Dead # {} THEN Start(Dead) ELSE UNCHANGED plugVars
    /\ UNCHANGED <<rconVars, logVars, mode, engine, launches, startup, elog,
                   verdict, stop, spared>>

(* Wrong: the watchdog keeps the dead process in its table. *)
TendForgets ==
    /\ Goes("tend", IF Up THEN "poll" ELSE "relaunch")
    /\ IF Dead # {} THEN StartForgotten(Dead) ELSE UNCHANGED plugVars
    /\ UNCHANGED <<rconVars, logVars, mode, engine, launches, startup, elog,
                   verdict, stop, spared>>

(* Plugins that died are started again; then the engine. *)
Tend ==
    /\ Goes("tend", IF Up THEN "poll" ELSE "relaunch")
    /\ IF Dead # {} THEN Start(Dead) ELSE UNCHANGED plugVars
    /\ UNCHANGED <<rconVars, logVars, mode, engine, launches, startup, elog,
                   verdict, stop, spared>>

Waits ==
    /\ at # "dead"
    /\ Receive \/ TimeOut
    /\ UNCHANGED <<logVars, plugVars, watchVars>>

Manager ==
    \/ Launch \/ Relaunch \/ ClearGamesLog \/ OpenGamesLog \/ ClearEngineLog
    \/ Verify \/ StartPlugins \/ Fork \/ PollLog \/ LoopAll \/ Tend \/ Waits
    \/ \E outcome \in {"event", "false", "nothing", "raise"} : ParsePiece(outcome)

-----------------------------------------------------------------------------
(* A stop, given when the manager is in its loop.  The files come in any   *)
(* order; that of the engine is in Lifecycle.                              *)
Stop ==
    /\ mode.stops /\ stop = "none" /\ at \in Looping /\ launches > 0 /\ open
    /\ at \in {"verify", "plugins"} => launches > 1
    /\ stop' = "killing"
    /\ spared' = UNION {Running(n) : n \in Names}
    /\ List
    /\ UNCHANGED <<rconVars, logVars, mode, at, engine, launches, startup, elog, verdict>>

StopsPlugin(n) ==
    /\ StopPlugin(n)
    /\ UNCHANGED <<rconVars, logVars, watchVars>>

StopManager ==
    /\ "manager" \in todo
    /\ todo' = todo \ {"manager"}
    /\ at' = "dead"
    /\ Orphan
    /\ UNCHANGED <<rconVars, logVars, standalone, plugPid, deaths, mode, engine,
                   launches, startup, elog, verdict, stop, spared>>

Stopped ==
    /\ stop = "killing" /\ todo = {}
    /\ stop' = "done"
    /\ UNCHANGED <<rconVars, logVars, plugVars, mode, at, engine, launches, startup,
                   elog, verdict, spared>>

Next ==
    \/ Logs \/ Prints \/ Serves \/ Crash \/ Manager
    \/ \E p \in Procs : Plugin(p)
    \/ Stop \/ Stopped \/ StopManager \/ \E n \in Names : StopsPlugin(n)

(* The manager keeps running; nothing else has to happen. *)
Spec == Init /\ [][Next]_vars /\ WF_vars(Manager)

-----------------------------------------------------------------------------
(* verify_proxy "Returns True if at least one hook armed": by an engine    *)
(* that this manager has launched, never by that of an earlier run, whose  *)
(* lines are in the same log.  The loop leaves the log as it is when it    *)
(* launches the engine again, so it may be any of its launches.            *)
VerdictFresh ==
    verdict = "armed" =>
        \E k \in DOMAIN elog : elog[k].what = "hooked" /\ elog[k].launch \in 1 .. launches

(* "Update tracking so it's not respawned": however often a plugin dies,   *)
(* no more of its processes run than the engine has been launched.         *)
OnePerPlugin == \A n \in Names : Cardinality(Running(n)) <= launches

(* A stop ends every plugin process that ran when it began, unless a       *)
(* restart of the engine had put another one in its place.  One that the   *)
(* manager starts meanwhile survives.                                      *)
PluginsStop ==
    stop = "done" /\ launches = 1 =>
        \A n \in Names : Running(n) \cap spared = {}

(* A plugin that cmd_start started, and that init has been waiting for     *)
(* since the fork, is started again when it dies.                          *)
PluginsReturn ==
    \A n \in Names :
        (/\ at \in Looping /\ standalone[n] # NoProc
         /\ plugs[standalone[n]].state = "gone")
            ~> (Running(n) # {} \/ stop # "none")

(* README: "Supervises: [...] standalone plugin respawn".  Not one that    *)
(* the loop itself has started, nor any under JAPM_FG: dead, it is a       *)
(* zombie of the manager, which answers signal 0.                          *)
RespawnsPlugins ==
    \A n \in Names :
        (at \in Looping /\ standalone[n] # NoProc /\ Running(n) = {})
            ~> (Running(n) # {} \/ stop # "none")

(* Whatever the log holds and however the server answers, the manager gets *)
(* round to the engine and its plugins again.                              *)
KeepsWatch == at \in Looping ~> at \in {"tend", "dead"}
=============================================================================
