------------------------------ MODULE Plugins ------------------------------
(***************************************************************************)
(* The standalone plugins of src/japm/japm.py: processes that cmd_start    *)
(* starts, its watchdog starts again when they die, and stop_processes     *)
(* finds by their pid files.                                               *)
(***************************************************************************)
EXTENDS Naturals, FiniteSets

CONSTANTS
    Names,       \* the plugins that are switched on
    MaxProcs,    \* bound: plugin processes ever started
    DeathLimit   \* bound: plugin processes that die by themselves

ASSUME PluginAssumption ==
    /\ IsFiniteSet(Names) /\ {"manager", "none"} \cap Names = {}
    /\ MaxProcs \in Nat /\ DeathLimit \in Nat

VARIABLES
    plugs,      \* the plugin processes: plugin, state, and who must wait for it
    standalone, \* the process that the manager keeps for every plugin
    plugPid,    \* pids/<name>_<plugin>.pid
    deaths,     \* plugin processes that died by themselves
    todo        \* the pid files that a stop has yet to look at

plugVars == <<plugs, standalone, plugPid, deaths, todo>>

Procs == 1 .. MaxProcs
NoProc == 0
Labels == Names \cup {"manager"}

PlugTypeOK ==
    /\ plugs \in [Procs -> [of : Names \cup {"none"},
                            state : {"unused", "running", "zombie", "gone"},
                            parent : {"manager", "init"}]]
    /\ standalone \in [Names -> Procs \cup {NoProc}]
    /\ plugPid \in [Names -> Procs \cup {NoProc}]
    /\ deaths \in 0 .. DeathLimit
    /\ todo \subseteq Labels

PlugInit ==
    /\ plugs = [p \in Procs |-> [of |-> "none", state |-> "unused", parent |-> "init"]]
    /\ standalone = [n \in Names |-> NoProc]
    /\ plugPid = [n \in Names |-> NoProc]
    /\ deaths = 0
    /\ todo = {}

-----------------------------------------------------------------------------
Running(n) == {p \in Procs : plugs[p].of = n /\ plugs[p].state = "running"}

Answers(p) == p # NoProc /\ plugs[p].state \in {"running", "zombie"}

(* The next numbers, one for every plugin of S. *)
Unused == {p \in Procs : plugs[p].state = "unused"}
Numbered(f, S) ==
    /\ f \in [S -> Unused]
    /\ \A n, m \in S : n # m => f[n] # f[m]
    /\ \A n \in S, p \in Unused : p < f[n] => \E m \in S : f[m] = p

Launched(table, f, S) ==
    [p \in Procs |->
        IF \E n \in S : f[n] = p
        THEN [of |-> CHOOSE n \in S : f[n] = p, state |-> "running", parent |-> "manager"]
        ELSE table[p]]

Merged(table, f, S) == [n \in Names |-> IF n \in S THEN f[n] ELSE table[n]]

(* Wrong: the process in place of the dead one is not remembered. *)
StartForgotten(S) ==
    \E f \in [S -> Unused] :
        /\ Numbered(f, S)
        /\ plugs' = Launched(plugs, f, S)
        /\ plugPid' = Merged(plugPid, f, S)
        /\ UNCHANGED <<standalone, deaths, todo>>

(* Popen, write_pid and an entry in standalone, for every plugin of S:     *)
(* start_standalone_plugins, and the watchdog's respawn.                   *)
Start(S) ==
    \E f \in [S -> Unused] :
        /\ Numbered(f, S)
        /\ plugs' = Launched(plugs, f, S)
        /\ standalone' = Merged(standalone, f, S)
        /\ plugPid' = Merged(plugPid, f, S)
        /\ UNCHANGED <<deaths, todo>>

(* The watchdog takes a plugin for dead that does not answer signal 0.  It *)
(* calls poll, which would end a zombie, only then.                        *)
Dead == {n \in Names : standalone[n] # NoProc /\ ~Answers(standalone[n])}

(* Whoever started the plugins exits: init waits for them. *)
Orphan ==
    plugs' = [p \in Procs |->
        [plugs[p] EXCEPT !.parent = "init",
                         !.state = IF @ = "zombie" THEN "gone" ELSE @]]

Killed(p) ==
    [plugs EXCEPT ![p].state = IF @ # "running" THEN @
                               ELSE IF plugs[p].parent = "init" THEN "gone" ELSE "zombie"]

Die(p) ==
    /\ plugs[p].state = "running" /\ deaths < DeathLimit
    /\ plugs' = Killed(p)
    /\ deaths' = deaths + 1
    /\ UNCHANGED <<standalone, plugPid, todo>>

-----------------------------------------------------------------------------
(* Wrong: the plugins' pid files are not looked for. *)
ListManager ==
    /\ todo' = {"manager"}
    /\ UNCHANGED <<plugs, standalone, plugPid, deaths>>

(* stop_processes finds the pid files there are. *)
List ==
    /\ todo' = {"manager"} \cup {n \in Names : plugPid[n] # NoProc}
    /\ UNCHANGED <<plugs, standalone, plugPid, deaths>>

(* One pid file of a plugin: kill_pid and remove_pid, if it answers.       *)
StopPlugin(n) ==
    /\ n \in todo
    /\ todo' = todo \ {n}
    /\ IF Answers(plugPid[n])
       THEN /\ plugs' = Killed(plugPid[n])
            /\ plugPid' = [plugPid EXCEPT ![n] = NoProc]
       ELSE UNCHANGED <<plugs, plugPid>>
    /\ UNCHANGED <<standalone, deaths>>
=============================================================================
