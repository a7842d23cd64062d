----------------------------- MODULE Lifecycle -----------------------------
(***************************************************************************)
(* The processes of one server instance and how src/japm/japm.py starts,   *)
(* watches, restarts and stops them: cmd_start up to the daemon and its    *)
(* watchdog loop, start_engine and the supervisor it forks, stop_processes *)
(* and the commands start, stop and restart.                               *)
(*                                                                         *)
(* Processes know each other only by the numbers in two pid files, which   *)
(* is_pid_alive tests with signal 0, and by the name of the engine's       *)
(* screen session.  Deploying the wrapper is in Deploy; native plugins and *)
(* the foreground mode are left out.                                       *)
(***************************************************************************)
EXTENDS Naturals, FiniteSets

CONSTANTS
    Modes,        \* records: screen, whether `screen` is installed; scheduled,
                  \* whether restart_every_hours is set; and bounds: the commands
                  \* the admin gives, of start, stop and restart, how many, whether
                  \* one at a time, how often the engine crashes, and how many
                  \* processes are started
    MaxCrashes,   \* max_crashes, 5
    MaxSupervised,\* 10, the crashes a supervisor puts up with
    MaxPid,       \* bound: processes ever started
    CommandLimit, \* bound: commands and scheduled restarts
    CrashLimit    \* bound: crashes of the engine

ASSUME LifecycleAssumption ==
    /\ {MaxSupervised, MaxPid, CommandLimit, CrashLimit} \subseteq Nat
    /\ MaxCrashes \in 1 .. MaxSupervised
    /\ Modes \subseteq [screen : BOOLEAN, scheduled : BOOLEAN,
                        gives : SUBSET {"start", "stop", "restart"},
                        commands : 0 .. CommandLimit, sequential : BOOLEAN,
                        crashes : 0 .. CrashLimit, processes : 0 .. MaxPid]

VARIABLES
    mode,     \* how this instance is set up
    proc,     \* the processes: what they run, their state, their parent
    at,       \* where a japm process is in its code
    self,     \* what a japm process remembers
    pidfile,  \* pids/<name>_engine.pid and pids/<name>_manager.pid
    budget,   \* commands given and crashes so far
    stopped,  \* history: the last command was a stop, and it has finished
    overlapped \* history: two japm processes had their hands on the instance

vars == <<mode, proc, at, self, pidfile, budget, stopped, overlapped>>

Pids == 1 .. MaxPid
NoPid == 0
Labels == {"engine", "manager"}

screen == mode.screen

NoMemory == [cmd |-> "none", engine |-> NoPid, crashes |-> 0,
             todo |-> {}, victim |-> NoPid]

TypeOK ==
    /\ mode \in Modes
    /\ proc \in [Pids -> [kind : {"none", "command", "manager", "supervisor", "engine"},
                          state : {"unused", "running", "zombie", "gone"},
                          parent : Pids \cup {NoPid}]]
    /\ at \in [Pids -> {"none", "check", "clear", "spawn", "record", "daemonize",
                        "watch", "exists", "wait", "hold", "scan", "kill",
                        "reap"}]
    /\ self \in [Pids -> [cmd : {"none", "start", "stop", "restart"},
                          engine : Pids \cup {NoPid}, crashes : 0 .. MaxSupervised,
                          todo : SUBSET Labels, victim : Pids \cup {NoPid}]]
    /\ pidfile \in [Labels -> Pids \cup {NoPid}]
    /\ budget \in [commands : 0 .. CommandLimit, crashes : 0 .. CrashLimit]
    /\ stopped \in BOOLEAN /\ overlapped \in BOOLEAN

Init ==
    /\ mode \in Modes
    /\ proc = [p \in Pids |-> [kind |-> "none", state |-> "unused", parent |-> NoPid]]
    /\ at = [p \in Pids |-> "none"]
    /\ self = [p \in Pids |-> NoMemory]
    /\ pidfile = [l \in Labels |-> NoPid]
    /\ budget = [commands |-> 0, crashes |-> 0]
    /\ stopped = FALSE /\ overlapped = FALSE

-----------------------------------------------------------------------------
(* Processes.  A process that dies is a zombie until its parent waits for  *)
(* it, which japm does for no child, or until its parent is gone.          *)
Runs(kind) == {p \in Pids : proc[p].kind = kind /\ proc[p].state = "running"}

Dying(S) ==
    [p \in Pids |->
        LET orphan == proc[p].parent = NoPid \/ proc[p].parent \in S
            parent == IF orphan THEN NoPid ELSE proc[p].parent
        IN  [proc[p] EXCEPT
              !.parent = parent,
              !.state = CASE p \in S /\ @ = "running" ->
                                IF orphan THEN "gone" ELSE "zombie"
                          [] @ = "zombie" /\ orphan -> "gone"
                          [] OTHER -> @]]

(* Numbers are handed out in order, and never again. *)
Fresh == {p \in 1 .. mode.processes :
            proc[p].state = "unused" /\ (p > 1 => proc[p - 1].state # "unused")}

Forked(table, p, kind, parent) ==
    [table EXCEPT ![p] = [kind |-> kind, state |-> "running", parent |-> parent]]

Step(p, from, to) ==
    /\ proc[p].state = "running" /\ at[p] = from
    /\ at' = [at EXCEPT ![p] = to]

(* is_pid_alive: signal 0 can be sent to a zombie too.                     *)
IsPidAlive(p) == p # NoPid /\ proc[p].state \in {"running", "zombie"}

(* The session jap_<name> is there as long as the engine in it runs.       *)
Session == screen /\ Runs("engine") # {}

(* _engine_alive *)
EngineAlive == IsPidAlive(pidfile["engine"]) \/ Session

-----------------------------------------------------------------------------
(* The japm processes that are about to change the instance.               *)
Launching == {p \in Pids : /\ proc[p].state = "running"
                           /\ at[p] \in {"clear", "spawn", "record", "daemonize"}}
Ending == {p \in Pids : /\ proc[p].state = "running"
                        /\ at[p] \in {"check", "scan", "kill", "reap"}}
Hands == Launching \cup Ending

(* Nothing in japm keeps them apart: two commands at once, a watchdog that *)
(* launches while a command runs, a start that another watchdog survives.  *)
Overlap ==
    \/ \E p, q \in Hands : p # q
    \/ \E p \in Launching, m \in Runs("manager") : p # m

Observe == overlapped' = (overlapped \/ Overlap')

-----------------------------------------------------------------------------
(* Commands of the admin.                                                  *)
MayCommand ==
    /\ budget.commands < mode.commands
    /\ mode.sequential => Runs("command") = {}

Issue(p, cmd) ==
    /\ cmd \in mode.gives /\ MayCommand
    /\ budget' = [budget EXCEPT !.commands = @ + 1]
    /\ proc' = Forked(proc, p, "command", NoPid)
    /\ at' = [at EXCEPT ![p] = IF cmd = "start" THEN "check" ELSE "scan"]
    /\ self' = [self EXCEPT ![p].cmd = cmd]
    /\ stopped' = FALSE
    /\ UNCHANGED <<mode, pidfile>>
    /\ Observe

Exits(p) == proc' = Dying({p})

(* cmd_start refuses while the process in the engine's pid file is there.  *)
Check(p) ==
    /\ Step(p, "check", IF IsPidAlive(pidfile["engine"]) THEN "none" ELSE "clear")
    /\ IF IsPidAlive(pidfile["engine"]) THEN Exits(p) ELSE UNCHANGED proc
    /\ UNCHANGED <<mode, self, pidfile, budget, stopped>>
    /\ Observe

(* start_engine.  _engine_kill finds engines by their command line.        *)
Clear(p) ==
    /\ Step(p, "clear", "spawn")
    /\ proc' = Dying(Runs("engine"))
    /\ UNCHANGED <<mode, self, pidfile, budget, stopped>>
    /\ Observe

(* In a screen session the engine is not a child of japm.                  *)
Spawn(p, q) ==
    /\ Step(p, "spawn", "record")
    /\ proc' = Forked(proc, q, "engine", IF screen THEN NoPid ELSE p)
    /\ self' = [self EXCEPT ![p].engine = IF screen THEN NoPid ELSE q]
    /\ UNCHANGED <<mode, pidfile, budget, stopped>>
    /\ Observe

AfterLaunch(p) == IF proc[p].kind = "manager" THEN "watch" ELSE "daemonize"

RecordEngine(p) ==
    /\ ~screen
    /\ Step(p, "record", AfterLaunch(p))
    /\ pidfile' = [pidfile EXCEPT !["engine"] = self[p].engine]
    /\ UNCHANGED <<mode, proc, self, budget, stopped>>
    /\ Observe

(* With screen, the pid file names the supervisor.                         *)
RecordSupervisor(p, q) ==
    /\ screen
    /\ proc[p].state = "running" /\ at[p] = "record"
    /\ at' = [at EXCEPT ![p] = AfterLaunch(p), ![q] = "watch"]
    /\ proc' = Forked(proc, q, "supervisor", p)
    /\ pidfile' = [pidfile EXCEPT !["engine"] = q]
    /\ UNCHANGED <<mode, self, budget, stopped>>
    /\ Observe

(* The rest of cmd_start: the daemon inherits the variable engine; its     *)
(* parent writes the pid file and returns.                                 *)
Daemonize(p, q) ==
    /\ proc[p].state = "running" /\ at[p] = "daemonize"
    /\ at' = [at EXCEPT ![p] = "none", ![q] = "watch"]
    /\ proc' = Forked(Dying({p}), q, "manager", NoPid)
    /\ self' = [self EXCEPT ![q].engine = self[p].engine]
    /\ pidfile' = [pidfile EXCEPT !["manager"] = q]
    /\ UNCHANGED <<mode, budget, stopped>>
    /\ Observe

-----------------------------------------------------------------------------
(* The watchdog asks for the process it started, or by name.               *)
SeesEngine(m) ==
    IF self[m].engine # NoPid THEN IsPidAlive(self[m].engine) ELSE EngineAlive

(* An engine without a return code counts as a scheduled restart.          *)
Tally(m) == IF self[m].engine = NoPid THEN 0 ELSE self[m].crashes + 1

Stopping == \E p \in Pids : proc[p].state = "running" /\ at[p] \in {"kill", "reap"}

Notice(m) ==
    /\ proc[m].kind = "manager"
    /\ ~SeesEngine(m)
    /\ Step(m, "watch", IF Tally(m) >= MaxCrashes THEN "scan"
                        ELSE IF Stopping THEN "hold" ELSE "wait")
    /\ self' = [self EXCEPT ![m].crashes = Tally(m)]
    /\ UNCHANGED <<mode, proc, pidfile, budget, stopped>>
    /\ Observe

(* The watchdog waits five seconds before it restarts the engine, and does *)
(* not look again: a stop may have begun.  One that was killing already    *)
(* when the wait began is over before it ends.                             *)
Waited(m) ==
    /\ Step(m, "wait", "clear") \/ (~Stopping /\ Step(m, "hold", "clear"))
    /\ UNCHANGED <<mode, proc, self, pidfile, budget, stopped>>
    /\ Observe

(* A scheduled restart: a new process takes over from the watchdog.        *)
TakeOver(m, q) ==
    /\ mode.scheduled /\ MayCommand
    /\ proc[m].kind = "manager" /\ SeesEngine(m)
    /\ proc[m].state = "running" /\ at[m] = "watch"
    /\ at' = [at EXCEPT ![m] = "none", ![q] = "scan"]
    /\ proc' = Forked(Dying({m}), q, "command", NoPid)
    /\ self' = [self EXCEPT ![q].cmd = "restart"]
    /\ budget' = [budget EXCEPT !.commands = @ + 1]
    /\ stopped' = FALSE
    /\ UNCHANGED <<mode, pidfile>>
    /\ Observe

(* Wrong: the test for the engine is left out. *)
SuspectAlways(s) ==
    /\ proc[s].kind = "supervisor"
    /\ Step(s, "watch", "exists")
    /\ UNCHANGED <<mode, proc, self, pidfile, budget, stopped>>
    /\ Observe

(* The supervisor asks twice before it restarts anything.                  *)
Suspect(s) ==
    /\ proc[s].kind = "supervisor"
    /\ ~EngineAlive
    /\ Step(s, "watch", "exists")
    /\ UNCHANGED <<mode, proc, self, pidfile, budget, stopped>>
    /\ Observe

(* Wrong: `continue` for `break`. *)
GiveUpLater(s) ==
    /\ ~Session
    /\ Step(s, "exists", "watch")
    /\ UNCHANGED <<mode, proc, self, pidfile, budget, stopped>>
    /\ Observe

GiveUp(s) ==
    /\ ~Session
    /\ Step(s, "exists", "none")
    /\ Exits(s)
    /\ UNCHANGED <<mode, self, pidfile, budget, stopped>>
    /\ Observe

(* After the last restart its loop ends. *)
Respawn(s, q) ==
    /\ Session
    /\ self[s].crashes < MaxSupervised
    /\ LET last == self[s].crashes + 1 = MaxSupervised
       IN  /\ Step(s, "exists", IF last THEN "none" ELSE "watch")
           /\ proc' = Forked(IF last THEN Dying({s}) ELSE proc, q, "engine", NoPid)
    /\ self' = [self EXCEPT ![s].crashes = @ + 1]
    /\ UNCHANGED <<mode, pidfile, budget, stopped>>
    /\ Observe

Crash(e) ==
    /\ e \in Runs("engine")
    /\ budget.crashes < mode.crashes
    /\ budget' = [budget EXCEPT !.crashes = @ + 1]
    /\ proc' = Dying({e})
    /\ UNCHANGED <<mode, at, self, pidfile, stopped>>
    /\ Observe

-----------------------------------------------------------------------------
(* Wrong: a pid file of some other label is taken for one of its own. *)
ScanAny(p) ==
    /\ Step(p, "scan", "kill")
    /\ self' = [self EXCEPT ![p].todo = {l \in Labels : pidfile[l] # NoPid} \cup {"plugin"}]
    /\ UNCHANGED <<mode, proc, pidfile, budget, stopped>>
    /\ Observe

(* stop_processes goes through the pid files in no particular order.       *)
Scan(p) ==
    /\ Step(p, "scan", "kill")
    /\ self' = [self EXCEPT ![p].todo = {l \in Labels : pidfile[l] # NoPid}]
    /\ UNCHANGED <<mode, proc, pidfile, budget, stopped>>
    /\ Observe

Done(l, p) == [self EXCEPT ![p].todo = @ \ {l}]

KillEngine(p) ==
    /\ "engine" \in self[p].todo /\ IsPidAlive(pidfile["engine"])
    /\ Step(p, "kill", "reap")
    /\ proc' = Dying(Runs("engine"))
    /\ self' = [Done("engine", p) EXCEPT ![p].victim = pidfile["engine"]]
    /\ UNCHANGED <<mode, pidfile, budget, stopped>>
    /\ Observe

(* Wrong: the supervisor is spared. *)
SpareSupervisor(p) ==
    /\ Step(p, "reap", "kill")
    /\ self' = [self EXCEPT ![p].victim = NoPid]
    /\ UNCHANGED <<mode, proc, pidfile, budget, stopped>>
    /\ Observe

KillSupervisor(p) ==
    /\ Step(p, "reap", "kill")
    /\ proc' = Dying({self[p].victim})
    /\ self' = [self EXCEPT ![p].victim = NoPid]
    /\ pidfile' = [pidfile EXCEPT !["engine"] = NoPid]
    /\ UNCHANGED <<mode, budget, stopped>>
    /\ Observe

(* A watchdog that gives up finds its own number here.                     *)
KillManager(p) ==
    /\ "manager" \in self[p].todo /\ IsPidAlive(pidfile["manager"])
    /\ Step(p, "kill", "kill")
    /\ proc' = Dying({pidfile["manager"]})
    /\ self' = Done("manager", p)
    /\ pidfile' = IF pidfile["manager"] = p THEN pidfile
                  ELSE [pidfile EXCEPT !["manager"] = NoPid]
    /\ UNCHANGED <<mode, budget, stopped>>
    /\ Observe

(* The file of a process that is not running stays.                        *)
NotRunning(p, l) ==
    /\ l \in self[p].todo /\ ~IsPidAlive(pidfile[l])
    /\ Step(p, "kill", "kill")
    /\ self' = Done(l, p)
    /\ UNCHANGED <<mode, proc, pidfile, budget, stopped>>
    /\ Observe

Stopped(p) ==
    /\ self[p].todo = {}
    /\ Step(p, "kill", IF self[p].cmd = "restart" THEN "check" ELSE "none")
    /\ IF self[p].cmd = "restart" THEN UNCHANGED proc ELSE Exits(p)
    /\ stopped' = (self[p].cmd = "stop")
    /\ UNCHANGED <<mode, self, pidfile, budget>>
    /\ Observe

-----------------------------------------------------------------------------
(* What a japm process does next. *)
Works(p) ==
    /\ proc[p].state = "running" /\ at[p] # "none"
    /\ \/ Check(p) \/ Clear(p) \/ RecordEngine(p) \/ Notice(p) \/ Waited(p)
       \/ Suspect(p) \/ GiveUp(p)
       \/ Scan(p) \/ KillEngine(p) \/ KillSupervisor(p) \/ KillManager(p) \/ Stopped(p)
       \/ \E l \in Labels : NotRunning(p, l)
       \/ \E q \in Fresh : Spawn(p, q)
       \/ \E q \in Fresh : RecordSupervisor(p, q)
       \/ \E q \in Fresh : Daemonize(p, q)
       \/ \E q \in Fresh : Respawn(p, q)

Next ==
    \/ \E p \in Fresh, cmd \in {"start", "stop", "restart"} : Issue(p, cmd)
    \/ \E p \in Pids : Works(p) \/ Crash(p)
    \/ \E p \in Pids, q \in Fresh : TakeOver(p, q)

(* Processes keep running: nothing else is fair.                           *)
Fairness == \A p \in Pids : WF_vars(Works(p))

Spec == Init /\ [][Next]_vars /\ Fairness

-----------------------------------------------------------------------------
(* Once a stop has finished, nothing of the instance runs, and nothing     *)
(* starts until the next command: also when the engine had crashed, and    *)
(* its watchdog was about to restart it, or had.  What a launch and        *)
(* another command do to each other in its middle is excepted by name: the *)
(* code keeps nobody from it, and processes may then survive a stop.       *)
StopStops ==
    stopped /\ ~overlapped =>
        Runs("engine") \cup Runs("manager") \cup Runs("supervisor") = {}

(* The port of an instance can be served by one engine only: crashes,      *)
(* relaunches, restarts and stops take turns with it, with the same        *)
(* exception.                                                              *)
OneEngine == ~overlapped => Cardinality(Runs("engine")) <= 1

(* A restart, the admin's or a scheduled one, does not leave the instance  *)
(* down: cmd_restart starts what it stopped, and a watchdog for it.        *)
RestartReturns ==
    (\E p \in Runs("command") : self[p].cmd = "restart")
        ~> \/ /\ Runs("manager") # {}
              /\ Runs("engine") # {} \/ budget.crashes > 0
           \/ overlapped \/ Fresh = {}

(* A supervisor that no pid file leads to ends with its session: "screen   *)
(* session gone, give up".                                                 *)
Orphaned ==
    /\ Runs("supervisor") # {}
    /\ Runs("engine") = {} /\ ~IsPidAlive(pidfile["engine"])

OrphansLeave == []<>~Orphaned

(* japm/README: "crash auto-restart (5 tries)".  An engine that is gone    *)
(* while a watchdog is on duty comes back, or the watchdog gives up.       *)
CrashRestarted ==
    (Runs("engine") = {} /\ Runs("manager") # {})
        ~> (Runs("engine") # {} \/ Runs("manager") = {})
=============================================================================
