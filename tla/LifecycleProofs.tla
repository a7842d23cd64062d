-------------------------- MODULE LifecycleProofs --------------------------
(***************************************************************************)
(* Proofs about Lifecycle, for any number of processes, commands and       *)
(* crashes: its variables keep their types whatever runs at once; and      *)
(* while no two japm processes have had their hands on the instance, there *)
(* is one engine at most, and none after a stop, also when engines crash   *)
(* and watchdogs relaunch them, give up, or are stopped while they wait.   *)
(***************************************************************************)
EXTENDS Lifecycle, FiniteSetTheorems, TLAPS

USE LifecycleAssumption

-----------------------------------------------------------------------------
(* The inductive invariant for the types.                                  *)

(* Where a process of a kind can be in its code. *)
PlacesOf(kind) ==
    CASE kind = "command" -> {"check", "clear", "spawn", "record", "daemonize",
                              "scan", "kill", "reap"}
      [] kind = "manager" -> {"watch", "wait", "hold", "clear", "spawn", "record",
                              "scan", "kill", "reap"}
      [] kind = "supervisor" -> {"watch", "exists"}
      [] kind = "engine" -> {"none"}
      [] OTHER -> {}

(* A number that has not been used says nothing yet; a watchdog that may   *)
(* see its engine gone has not used up its restarts.                       *)
Recalls(p) ==
    /\ proc[p].state = "unused" => self[p] = NoMemory /\ at[p] = "none"
    /\ proc[p].state = "running" => at[p] \in PlacesOf(proc[p].kind)
    /\ proc[p].kind # "command" => self[p].cmd = "none"
    /\ proc[p].kind = "command" => self[p].crashes = 0
    /\ proc[p].kind = "manager" /\ at[p] \in {"watch", "wait", "hold", "clear", "spawn", "record"}
          => self[p].crashes < MaxCrashes

(* The file of the watchdog's pid names a watchdog, alive or dead. *)
NameInv ==
    pidfile["manager"] # NoPid =>
        /\ proc[pidfile["manager"]].state # "unused"
        /\ proc[pidfile["manager"]].kind = "manager"

IInv == TypeOK /\ (\A p \in Pids : Recalls(p)) /\ NameInv

-----------------------------------------------------------------------------
(* The inductive invariant while nobody has overlapped.                    *)

Live == {p \in Pids : proc[p].state = "running"}
Managers == Runs("manager")
Supervisors == Runs("supervisor")
Engines == Runs("engine")

(* The process the engine's pid file names runs: the engine, or the        *)
(* supervisor of its screen session.                                       *)
Up == pidfile["engine"] \in (IF screen THEN Supervisors ELSE Engines)
Quiet == Engines = {} /\ Supervisors = {}

(* An engine that runs is up, unless its launch has yet to be recorded. *)
Tracked == Engines = {} \/ Up \/ \E p \in Live : at[p] = "record"

(* A watchdog asks for the engine of the pid file. *)
Remembers(p) == self[p].engine # NoPid => pidfile["engine"] \in {NoPid, self[p].engine}

(* How far the process that has its hands on the instance has come. *)
Progress(c) ==
    /\ at[c] \in {"clear", "spawn"} => Quiet
    /\ at[c] = "record" =>
          /\ Supervisors = {}
          /\ IF screen THEN self[c].engine = NoPid ELSE Engines \subseteq {self[c].engine}
    /\ at[c] = "daemonize" => Remembers(c)
    /\ at[c] = "kill" => Quiet \/ "engine" \in self[c].todo
    /\ at[c] = "reap" => Engines = {} /\ self[c].victim = pidfile["engine"]
    /\ at[c] \in {"kill", "reap"} => Managers = {} \/ "manager" \in self[c].todo

ManagerInv ==
    \A m \in Managers :
        /\ pidfile["manager"] = m
        /\ at[m] \in {"wait", "hold"} => Quiet
        /\ at[m] = "watch" => Remembers(m)

SupervisorInv ==
    \A s \in Supervisors : screen /\ pidfile["engine"] = s /\ at[s] = "watch"

SInv ==
    /\ ~Overlap
    /\ \A d, e \in Engines : d = e
    /\ Tracked
    /\ \A p \in Live : Progress(p)
    /\ ManagerInv /\ SupervisorInv
    /\ stopped => Live = {}

CInv == IInv /\ (~overlapped => SInv)

-----------------------------------------------------------------------------
(* Processes that start and processes that die.                            *)

Kinds == {"none", "command", "manager", "supervisor", "engine"}
States == {"unused", "running", "zombie", "gone"}
Process == [kind : Kinds, state : States, parent : Pids \cup {NoPid}]
Places == {"none", "check", "clear", "spawn", "record", "daemonize",
           "watch", "exists", "wait", "hold", "scan", "kill", "reap"}
Memory == [cmd : {"none", "start", "stop", "restart"},
           engine : Pids \cup {NoPid}, crashes : 0 .. MaxSupervised,
           todo : SUBSET Labels, victim : Pids \cup {NoPid}]
Budget == [commands : 0 .. CommandLimit, crashes : 0 .. CrashLimit]

LEMMA NoPidFact == NoPid \notin Pids
  BY DEF NoPid, Pids

LEMMA TypesAre ==
    TypeOK <=> /\ mode \in Modes
               /\ proc \in [Pids -> Process]
               /\ at \in [Pids -> Places]
               /\ self \in [Pids -> Memory]
               /\ pidfile \in [Labels -> Pids \cup {NoPid}]
               /\ budget \in Budget
               /\ stopped \in BOOLEAN /\ overlapped \in BOOLEAN
  BY DEF TypeOK, Process, Kinds, States, Places, Memory, Budget

LEMMA StateTypes ==
    ASSUME IInv
    PROVE  /\ proc \in [Pids -> Process] /\ at \in [Pids -> Places]
           /\ self \in [Pids -> Memory] /\ pidfile \in [Labels -> Pids \cup {NoPid}]
           /\ budget \in Budget /\ stopped \in BOOLEAN /\ overlapped \in BOOLEAN
           /\ mode \in Modes /\ screen \in BOOLEAN
           /\ mode.commands \in 0 .. CommandLimit /\ mode.crashes \in 0 .. CrashLimit
           /\ "engine" \in Labels /\ "manager" \in Labels
<1>1. mode \in Modes BY TypesAre DEF IInv
<1>2. /\ mode.screen \in BOOLEAN
      /\ mode.commands \in 0 .. CommandLimit /\ mode.crashes \in 0 .. CrashLimit
  BY <1>1
<1> QED BY <1>1, <1>2, TypesAre DEF IInv, Labels, screen

(* Who runs, by kind. *)
LEMMA LiveFacts ==
    ASSUME IInv
    PROVE  /\ Live \subseteq Pids
           /\ Managers = {p \in Live : proc[p].kind = "manager"}
           /\ Supervisors = {p \in Live : proc[p].kind = "supervisor"}
           /\ Engines = {p \in Live : proc[p].kind = "engine"}
           /\ Hands = {p \in Live : at[p] \in {"clear", "spawn", "record", "daemonize",
                                               "check", "scan", "kill", "reap"}}
           /\ Launching = {p \in Live : at[p] \in {"clear", "spawn", "record", "daemonize"}}
           /\ \A p \in Live : at[p] \in PlacesOf(proc[p].kind)
           /\ \A p \in Live : IsPidAlive(p)
  BY NoPidFact DEF Live, Managers, Supervisors, Engines, Runs, Hands, Launching, Ending, IInv,
                   Recalls, IsPidAlive

LEMMA ProcessTypes ==
    ASSUME IInv, NEW p \in Pids
    PROVE  /\ self[p] \in Memory /\ at[p] \in Places /\ proc[p] \in Process
           /\ self[p].crashes \in 0 .. MaxSupervised
           /\ self[p].engine \in Pids \cup {NoPid} /\ self[p].victim \in Pids \cup {NoPid}
           /\ self[p].todo \subseteq Labels
           /\ Recalls(p)
<1>1. self[p] \in Memory /\ at[p] \in Places /\ proc[p] \in Process /\ Recalls(p)
  BY StateTypes DEF IInv
<1> QED BY <1>1 DEF Memory

LEMMA PlacesAre ==
    /\ PlacesOf("command") = {"check", "clear", "spawn", "record", "daemonize",
                              "scan", "kill", "reap"}
    /\ PlacesOf("manager") = {"watch", "wait", "hold", "clear", "spawn", "record",
                              "scan", "kill", "reap"}
    /\ PlacesOf("supervisor") = {"watch", "exists"}
    /\ PlacesOf("engine") = {"none"}
    /\ PlacesOf("none") = {}
  BY DEF PlacesOf

(* Where a process is tells which kinds it can be of. *)
LEMMA KindAt ==
    ASSUME IInv, NEW p \in Live
    PROVE  /\ at[p] \in {"check", "daemonize"} => proc[p].kind = "command"
           /\ at[p] = "exists" => proc[p].kind = "supervisor"
           /\ at[p] \in {"wait", "hold"} => proc[p].kind = "manager"
           /\ at[p] \in {"clear", "spawn", "record", "scan", "kill", "reap"}
                 => proc[p].kind \in {"command", "manager"}
           /\ at[p] = "watch" => proc[p].kind \in {"manager", "supervisor"}
           /\ at[p] = "none" => proc[p].kind = "engine"
<1>1. p \in Pids /\ at[p] \in PlacesOf(proc[p].kind) BY LiveFacts
<1>2. proc[p].kind \in Kinds BY <1>1, ProcessTypes DEF Process
<1> QED BY <1>1, <1>2, PlacesAre DEF Kinds

LEMMA ObserveTypes ==
    ASSUME overlapped \in BOOLEAN, Observe
    PROVE  overlapped' \in BOOLEAN
  BY DEF Observe

(* Who dies stops running; what it was stays.                              *)
LEMMA DyingFacts ==
    ASSUME proc \in [Pids -> Process], NEW S \in SUBSET Pids
    PROVE  /\ Dying(S) \in [Pids -> Process]
           /\ \A p \in Pids :
                /\ Dying(S)[p].kind = proc[p].kind
                /\ Dying(S)[p].state = "unused" <=> proc[p].state = "unused"
                /\ Dying(S)[p].state = "running" <=> proc[p].state = "running" /\ p \notin S
<1> DEFINE orphan(p) == proc[p].parent = NoPid \/ proc[p].parent \in S
           parent(p) == IF orphan(p) THEN NoPid ELSE proc[p].parent
           old(p) == proc[p].state
           state(p) == CASE p \in S /\ old(p) = "running" ->
                                IF orphan(p) THEN "gone" ELSE "zombie"
                         [] old(p) = "zombie" /\ orphan(p) -> "gone"
                         [] OTHER -> old(p)
<1>1. Dying(S) = [p \in Pids |-> [proc[p] EXCEPT !.parent = parent(p), !.state = state(p)]]
  BY DEF Dying
<1>2. SUFFICES ASSUME NEW p \in Pids
               PROVE  /\ Dying(S)[p] \in Process
                      /\ Dying(S)[p].kind = proc[p].kind
                      /\ Dying(S)[p].state = "unused" <=> proc[p].state = "unused"
                      /\ Dying(S)[p].state = "running" <=> proc[p].state = "running" /\ p \notin S
  <2>1. Dying(S) = [p \in Pids |-> Dying(S)[p]] BY DEF Dying
  <2> QED BY <2>1
<1>3. proc[p] \in Process OBVIOUS
<1>4. state(p) =
        IF p \in S /\ old(p) = "running" THEN IF orphan(p) THEN "gone" ELSE "zombie"
        ELSE IF old(p) = "zombie" /\ orphan(p) THEN "gone" ELSE old(p)
  <2>1. CASE p \in S /\ old(p) = "running" BY <2>1
  <2>2. CASE ~(p \in S /\ old(p) = "running") /\ old(p) = "zombie" /\ orphan(p) BY <2>2
  <2>3. CASE ~(p \in S /\ old(p) = "running") /\ ~(old(p) = "zombie" /\ orphan(p)) BY <2>3
  <2> QED BY <2>1, <2>2, <2>3
<1> HIDE DEF state
<1>5. Dying(S)[p] = [proc[p] EXCEPT !.parent = parent(p), !.state = state(p)] BY <1>1
<1>6. /\ Dying(S)[p].kind = proc[p].kind /\ Dying(S)[p].parent = parent(p)
      /\ Dying(S)[p].state = state(p)
  BY <1>3, <1>5 DEF Process
<1>7. state(p) \in States /\ parent(p) \in Pids \cup {NoPid} BY <1>3, <1>4 DEF Process, States
<1>8. Dying(S)[p] \in Process
  <2>1. Dying(S)[p] = [kind |-> proc[p].kind, state |-> state(p), parent |-> parent(p)]
    BY <1>3, <1>5 DEF Process
  <2> QED BY <2>1, <1>3, <1>7 DEF Process
<1> QED BY <1>3, <1>4, <1>6, <1>8 DEF Process, States

(* Killing no process, like the one a deleted pid file names, kills nobody. *)
LEMMA DyingNobody ==
    ASSUME NEW v \in Pids \cup {NoPid}
    PROVE  /\ {v} \ {NoPid} \in SUBSET Pids
           /\ Dying({v}) = Dying({v} \ {NoPid})
<1>1. CASE v \in Pids
  <2>1. {v} \ {NoPid} = {v} BY <1>1, NoPidFact
  <2> QED BY <1>1, <2>1
<1>2. CASE v = NoPid
  <2>1. \A p \in Pids : p \notin {NoPid} /\ p \notin {} BY NoPidFact
  <2>2. Dying({NoPid}) = Dying({}) BY <2>1 DEF Dying
  <2>3. {v} \ {NoPid} = {} BY <1>2
  <2> QED BY <1>2, <2>2, <2>3
<1> QED BY <1>1, <1>2

-----------------------------------------------------------------------------
(* The two shapes of a step.                                               *)

(* Process p goes on to a place, or dies, with those in S. *)
Moves(p, S, place, memory) ==
    /\ p \in Live /\ S \in SUBSET Pids
    /\ proc' = Dying(S) \/ (S = {} /\ proc' = proc)
    /\ at' = [at EXCEPT ![p] = place] /\ self' = [self EXCEPT ![p] = memory]
    /\ place \in Places /\ memory \in Memory /\ memory.cmd = self[p].cmd
    /\ mode' = mode /\ budget' = budget

LEMMA MovesFacts ==
    ASSUME IInv, NEW p, NEW S, NEW place, NEW memory, Moves(p, S, place, memory)
    PROVE  /\ proc' \in [Pids -> Process]
           /\ \A r \in Pids : /\ proc'[r].kind = proc[r].kind
                              /\ proc'[r].state = "unused" <=> proc[r].state = "unused"
           /\ p \in Pids /\ Live' = Live \ S
           /\ Managers' = Managers \ S /\ Supervisors' = Supervisors \ S
           /\ Engines' = Engines \ S
           /\ at' \in [Pids -> Places] /\ self' \in [Pids -> Memory]
           /\ at'[p] = place /\ self'[p] = memory
           /\ \A r \in Pids \ {p} : at'[r] = at[r] /\ self'[r] = self[r]
           /\ screen' = screen
<1>1. /\ proc \in [Pids -> Process] /\ at \in [Pids -> Places] /\ self \in [Pids -> Memory]
      /\ Live \subseteq Pids
  BY StateTypes DEF Live
<1>2. p \in Pids BY <1>1 DEF Moves
<1>3. /\ proc' \in [Pids -> Process]
      /\ \A r \in Pids :
            /\ proc'[r].kind = proc[r].kind
            /\ proc'[r].state = "unused" <=> proc[r].state = "unused"
            /\ proc'[r].state = "running" <=> proc[r].state = "running" /\ r \notin S
  <2>1. CASE proc' = Dying(S) BY <1>1, <2>1, DyingFacts DEF Moves
  <2>2. CASE S = {} /\ proc' = proc BY <1>1, <2>2
  <2> QED BY <2>1, <2>2 DEF Moves
<1>4. /\ Live' = Live \ S /\ Managers' = Managers \ S /\ Supervisors' = Supervisors \ S
      /\ Engines' = Engines \ S
  BY <1>3 DEF Live, Managers, Supervisors, Engines, Runs
<1>5. /\ at' \in [Pids -> Places] /\ self' \in [Pids -> Memory]
      /\ at'[p] = place /\ self'[p] = memory
      /\ \A r \in Pids \ {p} : at'[r] = at[r] /\ self'[r] = self[r]
  BY <1>1, <1>2 DEF Moves
<1> QED BY <1>2, <1>3, <1>4, <1>5 DEF Moves, screen

LEMMA MovesAlive ==
    ASSUME IInv, NEW p, NEW place, NEW memory, Moves(p, {}, place, memory)
    PROVE  /\ Live' = Live
           /\ Managers' = Managers /\ Supervisors' = Supervisors /\ Engines' = Engines
<1>1. /\ Live' = Live \ {} /\ Managers' = Managers \ {}
      /\ Supervisors' = Supervisors \ {} /\ Engines' = Engines \ {}
  BY MovesFacts
<1> QED BY <1>1

LEMMA MovesTypes ==
    ASSUME IInv, NEW p, NEW S, NEW place, NEW memory, Moves(p, S, place, memory),
           pidfile' \in [Labels -> Pids \cup {NoPid}],
           pidfile'["manager"] \in {NoPid, pidfile["manager"]},
           stopped' \in BOOLEAN, Observe,
           p \in S \/ place \in PlacesOf(proc[p].kind),
           memory.crashes = self[p].crashes \/ proc[p].kind \in {"manager", "supervisor"},
           proc[p].kind = "manager" /\ place \in {"watch", "wait", "hold", "clear", "spawn", "record"}
              => memory.crashes < MaxCrashes
    PROVE  IInv'
<1>1. /\ budget \in Budget /\ overlapped \in BOOLEAN /\ mode \in Modes /\ Live \subseteq Pids
  BY StateTypes DEF Live
<1>2. overlapped' \in BOOLEAN BY <1>1, ObserveTypes
<1>3. /\ proc' \in [Pids -> Process]
      /\ \A r \in Pids : /\ proc'[r].kind = proc[r].kind
                         /\ proc'[r].state = "unused" <=> proc[r].state = "unused"
      /\ p \in Pids /\ Live' = Live \ S
      /\ at' \in [Pids -> Places] /\ self' \in [Pids -> Memory]
      /\ at'[p] = place /\ self'[p] = memory
      /\ \A r \in Pids \ {p} : at'[r] = at[r] /\ self'[r] = self[r]
  BY MovesFacts
<1>4. mode' \in Modes /\ budget' \in Budget BY <1>1 DEF Moves
<1>5. TypeOK' BY <1>2, <1>3, <1>4 DEF TypeOK, Process, Kinds, States, Places, Memory, Budget
<1>6. ASSUME NEW r \in Pids PROVE Recalls(r)'
  <2>1. Recalls(r) BY DEF IInv
  <2>2. proc'[r].state = "running" => proc[r].state = "running" /\ r \notin S
    BY <1>3 DEF Live
  <2>3. CASE r # p
    <3>1. at'[r] = at[r] /\ self'[r] = self[r] BY <1>3, <2>3
    <3> QED BY <1>3, <2>1, <2>2, <3>1 DEF Recalls
  <2>4. CASE r = p
    <3>1. at'[r] = place /\ self'[r] = memory /\ proc[r].state = "running"
      BY <1>3, <2>4 DEF Moves, Live
    <3>2. memory.cmd = self[r].cmd BY <2>4 DEF Moves
    <3> QED BY <1>3, <2>1, <2>2, <2>4, <3>1, <3>2 DEF Recalls
  <2> QED BY <2>3, <2>4
<1>7. NameInv'
  <2>1. NameInv /\ pidfile["manager"] \in Pids \cup {NoPid} BY StateTypes DEF IInv
  <2> QED BY <1>3, <2>1 DEF NameInv
<1> QED BY <1>5, <1>6, <1>7 DEF IInv

(* Process q starts, as those in S die.                                    *)
Starts(S, q, kind, parent) ==
    /\ S \in SUBSET Pids /\ q \in Fresh /\ kind \in Kinds \ {"none"}
    /\ parent \in Pids \cup {NoPid}
    /\ \/ proc' = Forked(Dying(S), q, kind, parent)
       \/ S = {} /\ proc' = Forked(proc, q, kind, parent)
    /\ mode' = mode

(* A number that has not been used. *)
LEMMA FreshIdle ==
    ASSUME IInv, NEW q \in Fresh
    PROVE  /\ q \in Pids /\ q # NoPid /\ proc[q].state = "unused" /\ q \notin Live
           /\ at[q] = "none" /\ self[q] = NoMemory
<1>1. q \in Pids /\ proc[q].state = "unused"
  <2>1. mode.processes \in 0 .. MaxPid BY TypesAre DEF IInv
  <2> QED BY <2>1 DEF Fresh, Pids
<1>2. Recalls(q) BY <1>1 DEF IInv
<1> QED BY <1>1, <1>2, NoPidFact DEF Recalls, Live

LEMMA StartsFacts ==
    ASSUME IInv, NEW S, NEW q, NEW kind, NEW parent, Starts(S, q, kind, parent)
    PROVE  /\ proc' \in [Pids -> Process]
           /\ proc'[q].kind = kind /\ proc'[q].state = "running"
           /\ \A r \in Pids \ {q} : /\ proc'[r].kind = proc[r].kind
                                    /\ proc'[r].state = "unused" <=> proc[r].state = "unused"
           /\ q \in Pids /\ q \notin Live /\ Live' = (Live \ S) \cup {q}
           /\ Managers' = (Managers \ S) \cup (IF kind = "manager" THEN {q} ELSE {})
           /\ Supervisors' = (Supervisors \ S) \cup (IF kind = "supervisor" THEN {q} ELSE {})
           /\ Engines' = (Engines \ S) \cup (IF kind = "engine" THEN {q} ELSE {})
           /\ screen' = screen
<1>1. proc \in [Pids -> Process] BY StateTypes
<1>2. q \in Pids /\ q \notin Live /\ proc[q].state = "unused" BY FreshIdle DEF Starts
<1>3. PICK T \in [Pids -> Process] :
        /\ proc' = Forked(T, q, kind, parent)
        /\ \A r \in Pids :
              /\ T[r].kind = proc[r].kind
              /\ T[r].state = "unused" <=> proc[r].state = "unused"
              /\ T[r].state = "running" <=> proc[r].state = "running" /\ r \notin S
  <2>1. CASE proc' = Forked(Dying(S), q, kind, parent)
    <3>1. /\ Dying(S) \in [Pids -> Process]
          /\ \A r \in Pids :
                /\ Dying(S)[r].kind = proc[r].kind
                /\ Dying(S)[r].state = "unused" <=> proc[r].state = "unused"
                /\ Dying(S)[r].state = "running" <=> proc[r].state = "running" /\ r \notin S
      BY <1>1, DyingFacts DEF Starts
    <3> QED BY <2>1, <3>1
  <2>2. CASE S = {} /\ proc' = Forked(proc, q, kind, parent) BY <1>1, <2>2
  <2> QED BY <2>1, <2>2 DEF Starts
<1>4. /\ proc' \in [Pids -> Process]
      /\ proc'[q] = [kind |-> kind, state |-> "running", parent |-> parent]
      /\ \A r \in Pids \ {q} : proc'[r] = T[r]
  <2>1. [kind |-> kind, state |-> "running", parent |-> parent] \in Process
    BY DEF Starts, Process, States
  <2> QED BY <1>2, <1>3, <2>1 DEF Forked
<1>5. \A r \in Pids : /\ r # q => proc'[r].kind = proc[r].kind
                      /\ r # q => (proc'[r].state = "unused" <=> proc[r].state = "unused")
                      /\ r # q => (proc'[r].state = "running" <=>
                                      proc[r].state = "running" /\ r \notin S)
  BY <1>3, <1>4
<1>6. proc'[q].kind = kind /\ proc'[q].state = "running" BY <1>4
<1>7. /\ Live' = (Live \ S) \cup {q}
      /\ Managers' = (Managers \ S) \cup (IF kind = "manager" THEN {q} ELSE {})
      /\ Supervisors' = (Supervisors \ S) \cup (IF kind = "supervisor" THEN {q} ELSE {})
      /\ Engines' = (Engines \ S) \cup (IF kind = "engine" THEN {q} ELSE {})
  BY <1>2, <1>5, <1>6 DEF Live, Managers, Supervisors, Engines, Runs
<1> QED BY <1>2, <1>4, <1>5, <1>6, <1>7 DEF Starts, screen

LEMMA StartsTypes ==
    ASSUME IInv, NEW S, NEW q, NEW kind, NEW parent, Starts(S, q, kind, parent),
           at' \in [Pids -> Places], self' \in [Pids -> Memory],
           pidfile' \in [Labels -> Pids \cup {NoPid}],
           pidfile'["manager"] \in {NoPid, pidfile["manager"]}
              \/ (pidfile'["manager"] = q /\ kind = "manager"),
           budget' \in Budget, stopped' \in BOOLEAN, Observe,
           at'[q] \in PlacesOf(kind), self'[q].crashes = 0,
           kind # "command" => self'[q].cmd = "none",
           NEW p \in Live \cup {NoPid},
           \A r \in Pids \ {p, q} : at'[r] = at[r] /\ self'[r] = self[r],
           p # NoPid =>
              /\ self'[p].cmd = self[p].cmd
              /\ p \in S \/ at'[p] \in PlacesOf(proc[p].kind)
              /\ self'[p].crashes = self[p].crashes \/ proc[p].kind = "supervisor"
              /\ proc[p].kind = "manager" => self[p].crashes < MaxCrashes
    PROVE  IInv'
<1>1. overlapped \in BOOLEAN /\ mode \in Modes BY StateTypes
<1>2. overlapped' \in BOOLEAN BY <1>1, ObserveTypes
<1>3. /\ proc' \in [Pids -> Process]
      /\ proc'[q].kind = kind /\ proc'[q].state = "running"
      /\ \A r \in Pids \ {q} : /\ proc'[r].kind = proc[r].kind
                               /\ proc'[r].state = "unused" <=> proc[r].state = "unused"
      /\ q \in Pids /\ q \notin Live /\ Live' = (Live \ S) \cup {q}
  BY StartsFacts
<1>4. mode' \in Modes BY <1>1 DEF Starts
<1>5. TypeOK' BY <1>2, <1>3, <1>4 DEF TypeOK, Process, Kinds, States, Places, Memory, Budget
<1>6. ASSUME NEW r \in Pids PROVE Recalls(r)'
  <2>1. Recalls(r) BY DEF IInv
  <2>2. CASE r = q
    <3>1. MaxCrashes > 0 OBVIOUS
    <3> QED BY <1>3, <2>2, <3>1 DEF Recalls
  <2>3. ASSUME r # q
        PROVE  /\ proc'[r].kind = proc[r].kind
               /\ proc'[r].state = "unused" <=> proc[r].state = "unused"
               /\ proc'[r].state = "running" => proc[r].state = "running" /\ r \notin S
    BY <1>3, <2>3 DEF Live
  <2>4. CASE r \notin {p, q}
    <3>1. at'[r] = at[r] /\ self'[r] = self[r] BY <2>4
    <3> QED BY <2>1, <2>3, <2>4, <3>1 DEF Recalls
  <2>5. CASE r = p
    <3>1. p # NoPid /\ p # q /\ proc[p].state = "running"
      BY <1>3, <2>5, NoPidFact DEF Live
    <3> QED BY <2>1, <2>3, <2>5, <3>1 DEF Recalls
  <2> QED BY <2>2, <2>4, <2>5
<1>7. NameInv'
  <2>1. NameInv /\ pidfile["manager"] \in Pids \cup {NoPid} BY StateTypes DEF IInv
  <2>2. pidfile["manager"] # NoPid => pidfile["manager"] # q
    <3>1. proc[q].state = "unused" BY FreshIdle DEF Starts
    <3> QED BY <2>1, <3>1 DEF NameInv
  <2> QED BY <1>3, <2>1, <2>2 DEF NameInv
<1> QED BY <1>5, <1>6, <1>7 DEF IInv

-----------------------------------------------------------------------------
(* What nobody overlapping means.                                          *)

(* Who has its hands on the instance is alone, and no watchdog but itself  *)
(* is there while it launches.                                             *)
LEMMA OnlyHand ==
    ASSUME IInv, SInv, NEW p \in Hands
    PROVE  /\ p \in Live /\ p \in Pids /\ Progress(p) /\ ~stopped
           /\ \A r \in Hands : r = p
           /\ p \in Launching => Managers \subseteq {p}
           /\ Tracked <=> Engines = {} \/ Up \/ at[p] = "record"
           /\ p \notin Supervisors /\ p \notin Engines
<1>1. p \in Live /\ p \in Pids /\ \A r \in Live : at[r] = "record" => r \in Hands
  BY LiveFacts
<1>2. (\A r \in Hands : r = p) /\ (p \in Launching => Managers \subseteq {p})
  BY DEF SInv, Overlap, Managers
<1>3. Progress(p) /\ ~stopped BY <1>1 DEF SInv
<1>4. Tracked <=> Engines = {} \/ Up \/ at[p] = "record" BY <1>1, <1>2 DEF Tracked
<1>5. p \notin Supervisors /\ p \notin Engines
  <2>1. at[p] \in {"clear", "spawn", "record", "daemonize", "check", "scan", "kill", "reap"}
    BY LiveFacts
  <2> QED BY <1>1, <2>1, KindAt, LiveFacts
<1> QED BY <1>1, <1>2, <1>3, <1>4, <1>5

(* Up means that its process is alive. *)
LEMMA UpAlive ==
    ASSUME IInv, Up
    PROVE  IsPidAlive(pidfile["engine"]) /\ EngineAlive
  BY LiveFacts DEF Up, EngineAlive

LEMMA SupervisorUp ==
    ASSUME SInv, Supervisors # {}
    PROVE  Up
  BY DEF SInv, SupervisorInv, Up

(* When the process of the pid file is dead, and nobody is about to write  *)
(* it, nothing runs.                                                       *)
LEMMA DeadQuiet ==
    ASSUME IInv, SInv, ~Up, \A p \in Live : at[p] # "record"
    PROVE  Quiet
  BY SupervisorUp DEF SInv, Tracked, Quiet

(* The process with its hands on the instance goes on. *)
LEMMA HandMoves ==
    ASSUME IInv, SInv, ~Overlap',
           NEW p \in Hands, NEW S, NEW place, NEW memory, Moves(p, S, place, memory),
           pidfile'["manager"] = pidfile["manager"] \/ Managers \ S = {},
           \/ pidfile'["engine"] = pidfile["engine"]
           \/ pidfile'["engine"] = NoPid /\ Supervisors \ S = {}
           \/ Supervisors = {} /\ Managers \subseteq {p},
           p \in Managers /\ p \notin S =>
              place \notin {"wait", "hold"} /\ (place = "watch" => Remembers(p)'),
           p \in S \/ Progress(p)',
           Tracked',
           stopped' => Live \ S = {}
    PROVE  SInv'
<1>1. /\ p \in Live /\ p \in Pids /\ \A r \in Hands : r = p
      /\ p \notin Supervisors /\ p \notin Engines
  BY OnlyHand
<1>2. /\ Live' = Live \ S
      /\ Managers' = Managers \ S /\ Supervisors' = Supervisors \ S /\ Engines' = Engines \ S
      /\ at'[p] = place
      /\ \A r \in Pids \ {p} : at'[r] = at[r] /\ self'[r] = self[r]
      /\ screen' = screen
  BY MovesFacts
<1>3. Live \subseteq Pids /\ Managers \subseteq Live /\ Supervisors \subseteq Live
  BY LiveFacts
<1>4. Quiet => Quiet' BY <1>2 DEF Quiet
<1>5. ASSUME NEW r \in Live' PROVE Progress(r)'
  <2>1. CASE r = p BY <1>2, <2>1, <1>5
  <2>2. CASE r # p
    <3>1. r \in Live /\ r \notin Hands /\ at'[r] = at[r] BY <1>1, <1>2, <1>3, <2>2
    <3>2. at[r] \notin {"clear", "spawn", "record", "daemonize", "check", "scan", "kill", "reap"}
      BY <3>1, LiveFacts
    <3> QED BY <3>1, <3>2 DEF Progress
  <2> QED BY <2>1, <2>2
<1>6. ManagerInv'
  <2> SUFFICES ASSUME NEW m \in Managers'
               PROVE  /\ pidfile'["manager"] = m
                      /\ at'[m] \in {"wait", "hold"} => Quiet'
                      /\ at'[m] = "watch" => Remembers(m)'
    BY DEF ManagerInv
  <2>1. /\ m \in Managers /\ m \notin S /\ pidfile["manager"] = m
        /\ at[m] \in {"wait", "hold"} => Quiet
        /\ at[m] = "watch" => Remembers(m)
    BY <1>2 DEF SInv, ManagerInv
  <2>2. pidfile'["manager"] = m BY <2>1
  <2>3. CASE m = p BY <1>2, <2>1, <2>2, <2>3
  <2>4. CASE m # p
    <3>1. at'[m] = at[m] /\ self'[m] = self[m] BY <1>2, <1>3, <2>1, <2>4
    <3>2. pidfile'["engine"] \in {pidfile["engine"], NoPid} BY <2>1, <2>4
    <3> QED BY <1>4, <2>1, <2>2, <3>1, <3>2 DEF Remembers
  <2> QED BY <2>3, <2>4
<1>7. SupervisorInv'
  <2> SUFFICES ASSUME NEW s \in Supervisors'
               PROVE  screen' /\ pidfile'["engine"] = s /\ at'[s] = "watch"
    BY DEF SupervisorInv
  <2>1. s \in Supervisors /\ s \notin S /\ screen /\ pidfile["engine"] = s /\ at[s] = "watch"
    BY <1>2 DEF SInv, SupervisorInv
  <2>2. at'[s] = at[s] BY <1>1, <1>2, <1>3, <2>1
  <2> QED BY <1>2, <2>1, <2>2
<1>8. \A d, e \in Engines' : d = e BY <1>2 DEF SInv
<1> QED BY <1>2, <1>5, <1>6, <1>7, <1>8 DEF SInv

-----------------------------------------------------------------------------
(* One lemma for each action.                                              *)

LEMMA CheckStep ==
    ASSUME IInv, NEW p \in Pids, Check(p)
    PROVE  IInv' /\ (SInv /\ ~Overlap' => SInv')
<1> DEFINE alive == IsPidAlive(pidfile["engine"])
           S == IF alive THEN {p} ELSE {}
           place == IF alive THEN "none" ELSE "clear"
<1>1. /\ p \in Live /\ p \in Hands /\ at[p] = "check" /\ proc[p].kind = "command"
  <2>1. p \in Live /\ at[p] = "check" BY DEF Check, Step, Live
  <2> QED BY <2>1, KindAt, LiveFacts
<1>2. self' = self /\ UNCHANGED <<pidfile, stopped>> /\ Observe BY DEF Check
<1>3. Moves(p, S, place, self[p])
  <2>1. self' = [self EXCEPT ![p] = self[p]] BY <1>2, StateTypes
  <2> QED BY <1>1, <2>1, ProcessTypes DEF Check, Step, Exits, Moves, Places
<1> HIDE DEF S, place, alive
<1>4. IInv'
  <2>1. p \in S \/ place \in PlacesOf(proc[p].kind)
    BY <1>1, PlacesAre DEF S, place
  <2> QED BY <1>1, <1>2, <1>3, <2>1, StateTypes, MovesTypes
<1>5. ASSUME SInv, ~Overlap' PROVE SInv'
  <2>1. /\ Live' = Live \ S /\ at'[p] = place
        /\ Supervisors' = Supervisors \ S /\ Engines' = Engines \ S /\ screen' = screen
    BY <1>3, MovesFacts
  <2>2. /\ ~stopped /\ p \notin Supervisors /\ p \notin Engines
        /\ \A r \in Live : at[r] # "record"
        /\ Tracked <=> Engines = {} \/ Up
    BY <1>1, <1>5, OnlyHand, LiveFacts
  <2>3. Tracked' BY <1>2, <1>5, <2>1, <2>2 DEF SInv, Tracked, Up, S
  <2>4. ~alive => Quiet BY <1>5, <2>2, UpAlive, DeadQuiet DEF alive
  <2>5. p \in S \/ Progress(p)'
    BY <2>1, <2>4 DEF S, place, Progress, Quiet
  <2>6. p \notin Managers BY <1>1 DEF Managers, Runs
  <2> QED BY <1>1, <1>2, <1>3, <1>5, <2>2, <2>3, <2>5, <2>6, HandMoves
<1> QED BY <1>4, <1>5

LEMMA ClearStep ==
    ASSUME IInv, NEW p \in Pids, Clear(p)
    PROVE  IInv' /\ (SInv /\ ~Overlap' => SInv')
<1>1. /\ p \in Live /\ p \in Hands /\ at[p] = "clear" /\ proc[p].kind \in {"command", "manager"}
  <2>1. p \in Live /\ at[p] = "clear" BY DEF Clear, Step, Live
  <2> QED BY <2>1, KindAt, LiveFacts
<1>2. self' = self /\ UNCHANGED <<pidfile, stopped>> /\ Observe BY DEF Clear
<1>3. Moves(p, Engines, "spawn", self[p])
  <2>1. self' = [self EXCEPT ![p] = self[p]] BY <1>2, StateTypes
  <2>2. Engines \in SUBSET Pids BY DEF Engines, Runs
  <2> QED BY <1>1, <2>1, <2>2, ProcessTypes DEF Clear, Step, Moves, Places, Engines
<1>4. IInv'
  <2>1. "spawn" \in PlacesOf(proc[p].kind) BY <1>1, PlacesAre
  <2>2. proc[p].kind = "manager" => self[p].crashes < MaxCrashes
    BY <1>1, ProcessTypes DEF Recalls
  <2> QED BY <1>1, <1>2, <1>3, <2>1, <2>2, StateTypes, MovesTypes
<1>5. ASSUME SInv, ~Overlap' PROVE SInv'
  <2>1. /\ at'[p] = "spawn" /\ Supervisors' = Supervisors \ Engines /\ Engines' = {}
    BY <1>3, MovesFacts
  <2>2. ~stopped /\ Quiet BY <1>1, <1>5, OnlyHand DEF Progress
  <2>3. Tracked' /\ Progress(p)' BY <2>1, <2>2 DEF Tracked, Progress, Quiet
  <2> QED BY <1>1, <1>2, <1>3, <1>5, <2>2, <2>3, HandMoves
<1> QED BY <1>4, <1>5

LEMMA RecordEngineStep ==
    ASSUME IInv, NEW p \in Pids, RecordEngine(p)
    PROVE  IInv' /\ (SInv /\ ~Overlap' => SInv')
<1>1. /\ p \in Live /\ p \in Hands /\ p \in Launching /\ at[p] = "record"
      /\ proc[p].kind \in {"command", "manager"} /\ ~screen
  <2>1. p \in Live /\ at[p] = "record" /\ ~screen BY DEF RecordEngine, Step, Live
  <2> QED BY <2>1, KindAt, LiveFacts
<1>2. /\ self' = self /\ proc' = proc /\ UNCHANGED stopped /\ Observe
      /\ pidfile' = [pidfile EXCEPT !["engine"] = self[p].engine]
  BY DEF RecordEngine
<1>3. /\ pidfile' \in [Labels -> Pids \cup {NoPid}]
      /\ pidfile'["engine"] = self[p].engine /\ pidfile'["manager"] = pidfile["manager"]
  BY <1>2, StateTypes, ProcessTypes
<1>4. Moves(p, {}, AfterLaunch(p), self[p])
  <2>1. self' = [self EXCEPT ![p] = self[p]] BY <1>2, StateTypes
  <2> QED BY <1>1, <1>2, <2>1, ProcessTypes DEF RecordEngine, Step, Moves, Places, AfterLaunch
<1>5. IInv'
  <2>1. AfterLaunch(p) \in PlacesOf(proc[p].kind) BY <1>1, PlacesAre DEF AfterLaunch
  <2>2. proc[p].kind = "manager" => self[p].crashes < MaxCrashes
    BY <1>1, ProcessTypes DEF Recalls
  <2> QED BY <1>1, <1>2, <1>3, <1>4, <2>1, <2>2, StateTypes, MovesTypes
<1>6. ASSUME SInv, ~Overlap' PROVE SInv'
  <2>1. /\ at'[p] = AfterLaunch(p) /\ self'[p] = self[p] /\ screen' = screen
        /\ Supervisors' = Supervisors /\ Engines' = Engines
    BY <1>4, MovesFacts, MovesAlive
  <2>2. /\ ~stopped /\ Managers \subseteq {p} /\ Supervisors = {}
        /\ Engines \subseteq {self[p].engine}
    BY <1>1, <1>6, OnlyHand DEF Progress
  <2>3. Tracked' BY <1>1, <1>3, <2>1, <2>2 DEF Tracked, Up
  <2>4. Remembers(p)' BY <1>3, <2>1 DEF Remembers
  <2>5. Progress(p)' BY <2>1, <2>4 DEF Progress, AfterLaunch
  <2>6. AfterLaunch(p) \notin {"wait", "hold"} BY DEF AfterLaunch
  <2> QED BY <1>1, <1>2, <1>3, <1>4, <1>6, <2>2, <2>3, <2>4, <2>5, <2>6, HandMoves
<1> QED BY <1>5, <1>6

LEMMA NoticeStep ==
    ASSUME IInv, NEW m \in Pids, Notice(m)
    PROVE  IInv' /\ (SInv /\ ~Overlap' => SInv')
<1> DEFINE memory == [self[m] EXCEPT !.crashes = Tally(m)]
           place == IF Tally(m) >= MaxCrashes THEN "scan" ELSE IF Stopping THEN "hold" ELSE "wait"
<1>1. /\ m \in Live /\ at[m] = "watch" /\ proc[m].kind = "manager" /\ m \in Managers
      /\ ~SeesEngine(m)
  BY DEF Notice, Step, Live, Managers, Runs
<1>2. proc' = proc /\ UNCHANGED <<pidfile, stopped>> /\ Observe BY DEF Notice
<1>3. /\ memory \in Memory /\ memory.crashes = Tally(m) /\ memory.cmd = self[m].cmd
      /\ memory.engine = self[m].engine /\ Tally(m) \in Nat
  <2>1. /\ self[m].crashes < MaxCrashes /\ self[m].crashes \in 0 .. MaxSupervised
        /\ self[m] \in Memory
    BY <1>1, ProcessTypes DEF Recalls
  <2>2. Tally(m) \in 0 .. MaxSupervised BY <2>1 DEF Tally
  <2> QED BY <2>1, <2>2 DEF Memory
<1> HIDE DEF memory
<1>4. Moves(m, {}, place, memory)
  <2>1. self' = [self EXCEPT ![m] = memory] BY DEF Notice, memory
  <2> QED BY <1>1, <1>2, <1>3, <2>1 DEF Notice, Step, Moves, Places
<1>5. IInv'
  <2>1. place \in PlacesOf(proc[m].kind) BY <1>1, PlacesAre
  <2>2. place # "scan" => memory.crashes < MaxCrashes BY <1>3
  <2>3. place \notin {"watch", "clear", "spawn", "record"} OBVIOUS
  <2> HIDE DEF place
  <2> QED BY <1>1, <1>2, <1>4, <2>1, <2>2, <2>3, StateTypes, MovesTypes
<1>6. ASSUME SInv, ~Overlap' PROVE SInv'
  <2>1. /\ Live' = Live /\ at'[m] = place /\ self'[m] = memory /\ screen' = screen
        /\ Managers' = Managers /\ Supervisors' = Supervisors /\ Engines' = Engines
        /\ \A r \in Pids \ {m} : at'[r] = at[r] /\ self'[r] = self[r]
    BY <1>4, MovesFacts, MovesAlive
  <2>2. Live \subseteq Pids /\ Managers \subseteq Live /\ Supervisors \subseteq Live
        /\ m \notin Supervisors
    BY <1>1, LiveFacts
  <2>3. (Up' <=> Up) /\ (Quiet' <=> Quiet) BY <1>2, <2>1 DEF Up, Quiet
  <2>4. \A r \in Live : at[r] # "record"
    <3>1. ASSUME NEW r \in Live, at[r] = "record" PROVE FALSE
      <4>1. r \in Hands /\ r \in Launching /\ r # m BY <1>1, <3>1, LiveFacts
      <4> QED BY <1>1, <1>6, <4>1, OnlyHand
    <3> QED BY <3>1
  <2>5. Quiet
    <3>1. Remembers(m) BY <1>1, <1>6 DEF SInv, ManagerInv
    <3>2. ~IsPidAlive(pidfile["engine"])
      BY <1>1, <3>1 DEF SeesEngine, Remembers, EngineAlive, IsPidAlive
    <3> QED BY <1>6, <2>4, <3>2, UpAlive, DeadQuiet
  <2>6. ASSUME NEW r \in Live' PROVE Progress(r)'
    <3>1. CASE r = m BY <2>1, <3>1 DEF Progress
    <3>2. CASE r # m
      <4>1. /\ Progress(r) /\ at'[r] = at[r] /\ self'[r] = self[r]
        BY <1>6, <2>1, <2>2, <2>6, <3>2 DEF SInv
      <4> QED BY <1>2, <2>1, <2>3, <4>1 DEF Progress, Remembers
    <3> QED BY <3>1, <3>2
  <2>7. Tracked' BY <2>5, <2>3 DEF Tracked, Quiet
  <2>8. ManagerInv'
    <3>1. ASSUME NEW r \in Managers', r # m
          PROVE  /\ pidfile'["manager"] = r
                 /\ at'[r] \in {"wait", "hold"} => Quiet'
                 /\ at'[r] = "watch" => Remembers(r)'
      BY <1>2, <1>6, <2>1, <2>2, <2>3, <3>1 DEF SInv, ManagerInv, Remembers
    <3>2. pidfile'["manager"] = m /\ Quiet' /\ at'[m] # "watch"
      BY <1>1, <1>2, <1>6, <2>1, <2>3, <2>5 DEF SInv, ManagerInv
    <3> QED BY <3>1, <3>2 DEF ManagerInv
  <2>9. SupervisorInv' BY <1>2, <1>6, <2>1, <2>2 DEF SInv, SupervisorInv
  <2>10. (\A d, e \in Engines' : d = e) /\ (stopped' => Live' = {})
    BY <1>2, <1>6, <2>1 DEF SInv
  <2> QED BY <1>6, <2>6, <2>7, <2>8, <2>9, <2>10 DEF SInv
<1> QED BY <1>5, <1>6

LEMMA WaitedStep ==
    ASSUME IInv, NEW m \in Pids, Waited(m)
    PROVE  IInv' /\ (SInv /\ ~Overlap' => SInv')
<1>1. /\ m \in Live /\ at[m] \in {"wait", "hold"} /\ proc[m].kind = "manager" /\ m \in Managers
      /\ at' = [at EXCEPT ![m] = "clear"]
  <2>1. /\ m \in Live /\ at[m] \in {"wait", "hold"} /\ at' = [at EXCEPT ![m] = "clear"]
    BY DEF Waited, Step, Live
  <2> QED BY <2>1, KindAt, LiveFacts
<1>2. self' = self /\ proc' = proc /\ UNCHANGED <<pidfile, stopped>> /\ Observe
  BY DEF Waited
<1>3. Moves(m, {}, "clear", self[m])
  <2>1. self' = [self EXCEPT ![m] = self[m]] BY <1>2, StateTypes
  <2> QED BY <1>1, <1>2, <2>1, ProcessTypes DEF Waited, Moves, Places
<1>4. IInv'
  <2>1. "clear" \in PlacesOf(proc[m].kind) BY <1>1, PlacesAre
  <2>2. self[m].crashes < MaxCrashes BY <1>1, ProcessTypes DEF Recalls
  <2> QED BY <1>1, <1>2, <1>3, <2>1, <2>2, StateTypes, MovesTypes
<1>5. ASSUME SInv, ~Overlap' PROVE SInv'
  <2>1. /\ Live' = Live /\ at'[m] = "clear" /\ screen' = screen
        /\ Managers' = Managers /\ Supervisors' = Supervisors /\ Engines' = Engines
        /\ \A r \in Pids \ {m} : at'[r] = at[r] /\ self'[r] = self[r]
    BY <1>3, MovesFacts, MovesAlive
  <2>2. Live \subseteq Pids /\ Managers \subseteq Live /\ Supervisors \subseteq Live
        /\ m \notin Supervisors
    BY <1>1, LiveFacts
  <2>3. Quiet /\ Quiet' BY <1>1, <1>5, <2>1 DEF SInv, ManagerInv, Quiet
  <2>4. ASSUME NEW r \in Live' PROVE Progress(r)'
    <3>1. CASE r = m BY <2>1, <2>3, <3>1 DEF Progress
    <3>2. CASE r # m
      <4>1. /\ Progress(r) /\ at'[r] = at[r] /\ self'[r] = self[r]
        BY <1>5, <2>1, <2>2, <2>4, <3>2 DEF SInv
      <4> QED BY <1>2, <2>1, <2>3, <4>1 DEF Progress, Remembers
    <3> QED BY <3>1, <3>2
  <2>5. Tracked' BY <2>3 DEF Tracked, Quiet
  <2>6. ManagerInv' BY <1>2, <1>5, <2>1, <2>2, <2>3 DEF SInv, ManagerInv, Remembers
  <2>7. SupervisorInv' BY <1>2, <1>5, <2>1, <2>2 DEF SInv, SupervisorInv
  <2>8. (\A d, e \in Engines' : d = e) /\ (stopped' => Live' = {})
    BY <1>2, <1>5, <2>1 DEF SInv
  <2> QED BY <1>5, <2>4, <2>5, <2>6, <2>7, <2>8 DEF SInv
<1> QED BY <1>4, <1>5

(* The supervisor of a session that the pid file names never suspects it.  *)
LEMMA NeverSuspects ==
    ASSUME IInv, SInv, NEW s \in Live, proc[s].kind = "supervisor"
    PROVE  EngineAlive /\ at[s] = "watch"
<1>1. s \in Supervisors BY LiveFacts
<1> QED BY <1>1, SupervisorUp, UpAlive DEF SInv, SupervisorInv

LEMMA SuspectStep ==
    ASSUME IInv, NEW s \in Pids, Suspect(s)
    PROVE  IInv' /\ (SInv /\ ~Overlap' => SInv')
<1>1. s \in Live /\ proc[s].kind = "supervisor" /\ ~EngineAlive
  BY DEF Suspect, Step, Live
<1>2. self' = self /\ proc' = proc /\ UNCHANGED <<pidfile, stopped>> /\ Observe
  BY DEF Suspect
<1>3. Moves(s, {}, "exists", self[s])
  <2>1. self' = [self EXCEPT ![s] = self[s]] BY <1>2, StateTypes
  <2> QED BY <1>1, <1>2, <2>1, ProcessTypes DEF Suspect, Step, Moves, Places
<1>4. IInv'
  <2>1. "exists" \in PlacesOf(proc[s].kind) BY <1>1, PlacesAre
  <2> QED BY <1>1, <1>2, <1>3, <2>1, StateTypes, MovesTypes
<1> QED BY <1>1, <1>4, NeverSuspects

LEMMA GiveUpStep ==
    ASSUME IInv, NEW s \in Pids, GiveUp(s)
    PROVE  IInv' /\ (SInv /\ ~Overlap' => SInv')
<1>1. s \in Live /\ proc[s].kind = "supervisor" /\ at[s] = "exists"
  <2>1. s \in Live /\ at[s] = "exists" BY DEF GiveUp, Step, Live
  <2> QED BY <2>1, KindAt
<1>2. self' = self /\ UNCHANGED <<pidfile, stopped>> /\ Observe
  BY DEF GiveUp
<1>3. Moves(s, {s}, "none", self[s])
  <2>1. self' = [self EXCEPT ![s] = self[s]] BY <1>2, StateTypes
  <2> QED BY <1>1, <2>1, ProcessTypes DEF GiveUp, Step, Exits, Moves, Places
<1>4. IInv' BY <1>1, <1>2, <1>3, StateTypes, MovesTypes
<1> QED BY <1>1, <1>4, NeverSuspects

LEMMA ScanStep ==
    ASSUME IInv, NEW p \in Pids, Scan(p)
    PROVE  IInv' /\ (SInv /\ ~Overlap' => SInv')
<1> DEFINE memory == [self[p] EXCEPT !.todo = {l \in Labels : pidfile[l] # NoPid}]
<1>1. /\ p \in Live /\ p \in Hands /\ at[p] = "scan" /\ proc[p].kind \in {"command", "manager"}
  <2>1. p \in Live /\ at[p] = "scan" BY DEF Scan, Step, Live
  <2> QED BY <2>1, KindAt, LiveFacts
<1>2. proc' = proc /\ UNCHANGED <<pidfile, stopped>> /\ Observe BY DEF Scan
<1>3. /\ memory \in Memory /\ memory.cmd = self[p].cmd /\ memory.crashes = self[p].crashes
      /\ memory.todo = {l \in Labels : pidfile[l] # NoPid}
  BY ProcessTypes DEF Memory
<1>4. self' = [self EXCEPT ![p] = memory] BY DEF Scan
<1> HIDE DEF memory
<1>5. Moves(p, {}, "kill", memory) BY <1>1, <1>2, <1>3, <1>4 DEF Scan, Step, Moves, Places
<1>6. IInv'
  <2>1. "kill" \in PlacesOf(proc[p].kind) BY <1>1, PlacesAre
  <2> QED BY <1>1, <1>2, <1>3, <1>5, <2>1, StateTypes, MovesTypes
<1>7. ASSUME SInv, ~Overlap' PROVE SInv'
  <2>1. /\ at'[p] = "kill" /\ self'[p] = memory /\ screen' = screen
        /\ Live' = Live /\ Managers' = Managers
        /\ Supervisors' = Supervisors /\ Engines' = Engines
    BY <1>5, MovesFacts, MovesAlive
  <2>2. /\ ~stopped /\ (Tracked <=> Engines = {} \/ Up)
        /\ \A r \in Live : at[r] # "record"
    BY <1>1, <1>7, OnlyHand, LiveFacts
  <2>3. Tracked' BY <1>2, <1>7, <2>1, <2>2 DEF SInv, Tracked, Up
  <2>4. Quiet' \/ "engine" \in memory.todo
    <3>1. Up => pidfile["engine"] # NoPid BY UpAlive DEF IsPidAlive
    <3>2. Quiet \/ Up BY <1>7, <2>2, DeadQuiet
    <3> QED BY <1>3, <2>1, <3>1, <3>2, StateTypes DEF Quiet
  <2>5. Managers' = {} \/ "manager" \in memory.todo
    BY <1>3, <1>7, <2>1, StateTypes, LiveFacts, NoPidFact DEF SInv, ManagerInv
  <2>6. Progress(p)' BY <2>1, <2>4, <2>5 DEF Progress
  <2> QED BY <1>1, <1>2, <1>5, <1>7, <2>2, <2>3, <2>6, HandMoves
<1> QED BY <1>6, <1>7

LEMMA KillEngineStep ==
    ASSUME IInv, NEW p \in Pids, KillEngine(p)
    PROVE  IInv' /\ (SInv /\ ~Overlap' => SInv')
<1> DEFINE memory == [self[p] EXCEPT !.todo = @ \ {"engine"}, !.victim = pidfile["engine"]]
<1>1. /\ p \in Live /\ p \in Hands /\ at[p] = "kill" /\ proc[p].kind \in {"command", "manager"}
  <2>1. p \in Live /\ at[p] = "kill" BY DEF KillEngine, Step, Live
  <2> QED BY <2>1, KindAt, LiveFacts
<1>2. UNCHANGED <<pidfile, stopped>> /\ Observe BY DEF KillEngine
<1>3. /\ memory \in Memory /\ memory.cmd = self[p].cmd /\ memory.crashes = self[p].crashes
      /\ memory.todo = self[p].todo \ {"engine"} /\ memory.victim = pidfile["engine"]
  <2>1. self[p] \in Memory /\ pidfile["engine"] \in Pids \cup {NoPid}
    BY StateTypes, ProcessTypes
  <2> QED BY <2>1 DEF Memory
<1>4. self' = [self EXCEPT ![p] = memory]
  <2>1. self' = [Done("engine", p) EXCEPT ![p].victim = pidfile["engine"]] BY DEF KillEngine
  <2> QED BY <2>1, StateTypes, ProcessTypes DEF Done
<1> HIDE DEF memory
<1>5. Moves(p, Engines, "reap", memory)
  <2>1. Engines \in SUBSET Pids BY DEF Engines, Runs
  <2> QED BY <1>1, <1>3, <1>4, <2>1 DEF KillEngine, Step, Moves, Places, Engines
<1>6. IInv'
  <2>1. "reap" \in PlacesOf(proc[p].kind) BY <1>1, PlacesAre
  <2> QED BY <1>1, <1>2, <1>3, <1>5, <2>1, StateTypes, MovesTypes
<1>7. ASSUME SInv, ~Overlap' PROVE SInv'
  <2>1. /\ at'[p] = "reap" /\ self'[p] = memory
        /\ Managers' = Managers \ Engines /\ Engines' = {}
    BY <1>5, MovesFacts
  <2>2. ~stopped /\ (Managers = {} \/ "manager" \in self[p].todo)
    BY <1>1, <1>7, OnlyHand DEF Progress
  <2>3. Progress(p)' BY <1>2, <1>3, <2>1, <2>2 DEF Progress
  <2>4. Tracked' BY <2>1 DEF Tracked
  <2> QED BY <1>1, <1>2, <1>5, <1>7, <2>2, <2>3, <2>4, HandMoves
<1> QED BY <1>6, <1>7

LEMMA KillSupervisorStep ==
    ASSUME IInv, NEW p \in Pids, KillSupervisor(p)
    PROVE  IInv' /\ (SInv /\ ~Overlap' => SInv')
<1> DEFINE memory == [self[p] EXCEPT !.victim = NoPid]
           S == {self[p].victim} \ {NoPid}
<1>1. /\ p \in Live /\ p \in Hands /\ at[p] = "reap" /\ proc[p].kind \in {"command", "manager"}
  <2>1. p \in Live /\ at[p] = "reap" BY DEF KillSupervisor, Step, Live
  <2> QED BY <2>1, KindAt, LiveFacts
<1>2. UNCHANGED stopped /\ Observe /\ pidfile' = [pidfile EXCEPT !["engine"] = NoPid]
  BY DEF KillSupervisor
<1>3. /\ pidfile' \in [Labels -> Pids \cup {NoPid}]
      /\ pidfile'["engine"] = NoPid /\ pidfile'["manager"] = pidfile["manager"]
  BY <1>2, StateTypes
<1>4. /\ memory \in Memory /\ memory.cmd = self[p].cmd /\ memory.crashes = self[p].crashes
      /\ memory.todo = self[p].todo
  BY ProcessTypes DEF Memory
<1>5. self' = [self EXCEPT ![p] = memory] BY DEF KillSupervisor
<1> HIDE DEF memory
<1>6. S \in SUBSET Pids /\ proc' = Dying(S)
  <2>1. self[p].victim \in Pids \cup {NoPid} BY ProcessTypes
  <2> QED BY <2>1, DyingNobody DEF KillSupervisor
<1>7. Moves(p, S, "kill", memory)
  BY <1>1, <1>4, <1>5, <1>6 DEF KillSupervisor, Step, Moves, Places
<1>8. IInv'
  <2>1. "kill" \in PlacesOf(proc[p].kind) BY <1>1, PlacesAre
  <2> QED BY <1>1, <1>2, <1>3, <1>4, <1>7, <2>1, StateTypes, MovesTypes
<1>9. ASSUME SInv, ~Overlap' PROVE SInv'
  <2>1. /\ at'[p] = "kill" /\ self'[p] = memory
        /\ Managers' = Managers \ S /\ Supervisors' = Supervisors \ S /\ Engines' = Engines \ S
    BY <1>7, MovesFacts
  <2>2. /\ ~stopped /\ Engines = {} /\ self[p].victim = pidfile["engine"]
        /\ Managers = {} \/ "manager" \in self[p].todo
    BY <1>1, <1>9, OnlyHand DEF Progress
  <2>3. Supervisors \ S = {}
    BY <1>9, <2>2, LiveFacts, NoPidFact DEF SInv, SupervisorInv
  <2>4. Quiet' BY <2>1, <2>2, <2>3 DEF Quiet
  <2>5. Progress(p)' BY <1>4, <2>1, <2>2, <2>4 DEF Progress
  <2>6. Tracked' BY <2>4 DEF Tracked, Quiet
  <2> QED BY <1>1, <1>2, <1>3, <1>7, <1>9, <2>2, <2>3, <2>5, <2>6, HandMoves
<1> QED BY <1>8, <1>9

LEMMA KillManagerStep ==
    ASSUME IInv, NEW p \in Pids, KillManager(p)
    PROVE  IInv' /\ (SInv /\ ~Overlap' => SInv')
<1> DEFINE memory == [self[p] EXCEPT !.todo = @ \ {"manager"}]
           S == {pidfile["manager"]}
<1>1. /\ p \in Live /\ p \in Hands /\ at[p] = "kill" /\ proc[p].kind \in {"command", "manager"}
  <2>1. p \in Live /\ at[p] = "kill" BY DEF KillManager, Step, Live
  <2> QED BY <2>1, KindAt, LiveFacts
<1>2. UNCHANGED stopped /\ Observe /\ pidfile["manager"] # NoPid
  BY DEF KillManager, IsPidAlive
<1>3. /\ pidfile' \in [Labels -> Pids \cup {NoPid}]
      /\ pidfile'["engine"] = pidfile["engine"]
      /\ pidfile'["manager"] \in {NoPid, pidfile["manager"]}
  <2>1. CASE pidfile' = pidfile BY <2>1, StateTypes
  <2>2. CASE pidfile' = [pidfile EXCEPT !["manager"] = NoPid] BY <2>2, StateTypes
  <2> QED BY <2>1, <2>2 DEF KillManager
<1>4. /\ memory \in Memory /\ memory.cmd = self[p].cmd /\ memory.crashes = self[p].crashes
      /\ memory.todo = self[p].todo \ {"manager"}
  BY ProcessTypes DEF Memory
<1>5. self' = [self EXCEPT ![p] = memory] BY DEF KillManager, Done
<1> HIDE DEF memory
<1>6. S \in SUBSET Pids /\ proc' = Dying(S) BY <1>2, StateTypes DEF KillManager
<1>7. Moves(p, S, "kill", memory)
  BY <1>1, <1>4, <1>5, <1>6 DEF KillManager, Step, Moves, Places
<1>8. IInv'
  <2>1. "kill" \in PlacesOf(proc[p].kind) BY <1>1, PlacesAre
  <2> QED BY <1>1, <1>2, <1>3, <1>4, <1>7, <2>1, StateTypes, MovesTypes
<1>9. ASSUME SInv, ~Overlap' PROVE SInv'
  <2>1. /\ at'[p] = "kill" /\ self'[p] = memory /\ screen' = screen /\ Live' = Live \ S
        /\ Managers' = Managers \ S /\ Supervisors' = Supervisors \ S /\ Engines' = Engines \ S
    BY <1>7, MovesFacts
  <2>2. /\ ~stopped /\ (Quiet \/ "engine" \in self[p].todo)
        /\ Tracked <=> Engines = {} \/ Up
        /\ \A r \in Live : at[r] # "record"
    BY <1>1, <1>9, OnlyHand, LiveFacts DEF Progress
  <2>3. Managers \ S = {} BY <1>9 DEF SInv, ManagerInv
  <2>4. Supervisors \ S = Supervisors /\ Engines \ S = Engines
    <3>1. proc[pidfile["manager"]].kind = "manager" BY <1>2 DEF IInv, NameInv
    <3> QED BY <3>1, LiveFacts
  <2>5. Tracked' BY <1>3, <1>9, <2>1, <2>2, <2>4 DEF SInv, Tracked, Up
  <2>6. Progress(p)' BY <1>4, <2>1, <2>2, <2>3, <2>4 DEF Progress, Quiet
  <2> QED BY <1>1, <1>2, <1>3, <1>7, <1>9, <2>2, <2>3, <2>5, <2>6, HandMoves
<1> QED BY <1>8, <1>9

LEMMA NotRunningStep ==
    ASSUME IInv, NEW p \in Pids, NEW l \in Labels, NotRunning(p, l)
    PROVE  IInv' /\ (SInv /\ ~Overlap' => SInv')
<1> DEFINE memory == [self[p] EXCEPT !.todo = @ \ {l}]
<1>1. /\ p \in Live /\ p \in Hands /\ at[p] = "kill" /\ proc[p].kind \in {"command", "manager"}
  <2>1. p \in Live /\ at[p] = "kill" BY DEF NotRunning, Step, Live
  <2> QED BY <2>1, KindAt, LiveFacts
<1>2. proc' = proc /\ UNCHANGED <<pidfile, stopped>> /\ Observe /\ ~IsPidAlive(pidfile[l])
  BY DEF NotRunning
<1>3. /\ memory \in Memory /\ memory.cmd = self[p].cmd /\ memory.crashes = self[p].crashes
      /\ memory.todo = self[p].todo \ {l}
  BY ProcessTypes DEF Memory
<1>4. self' = [self EXCEPT ![p] = memory] BY DEF NotRunning, Done
<1> HIDE DEF memory
<1>5. Moves(p, {}, "kill", memory)
  BY <1>1, <1>2, <1>3, <1>4 DEF NotRunning, Step, Moves, Places
<1>6. IInv'
  <2>1. "kill" \in PlacesOf(proc[p].kind) BY <1>1, PlacesAre
  <2> QED BY <1>1, <1>2, <1>3, <1>5, <2>1, StateTypes, MovesTypes
<1>7. ASSUME SInv, ~Overlap' PROVE SInv'
  <2>1. /\ at'[p] = "kill" /\ self'[p] = memory /\ screen' = screen
        /\ Live' = Live /\ Managers' = Managers
        /\ Supervisors' = Supervisors /\ Engines' = Engines
    BY <1>5, MovesFacts, MovesAlive
  <2>2. /\ ~stopped /\ (Quiet \/ "engine" \in self[p].todo)
        /\ Managers = {} \/ "manager" \in self[p].todo
        /\ Tracked <=> Engines = {} \/ Up
        /\ \A r \in Live : at[r] # "record"
    BY <1>1, <1>7, OnlyHand, LiveFacts DEF Progress
  <2>3. Tracked' BY <1>2, <1>7, <2>1, <2>2 DEF SInv, Tracked, Up
  <2>4. l = "engine" => Quiet BY <1>2, <1>7, <2>2, UpAlive, DeadQuiet
  <2>5. l = "manager" => Managers = {}
    BY <1>2, <1>7, LiveFacts DEF SInv, ManagerInv
  <2>6. Progress(p)' BY <1>3, <2>1, <2>2, <2>4, <2>5 DEF Progress, Quiet
  <2> QED BY <1>1, <1>2, <1>5, <1>7, <2>2, <2>3, <2>6, HandMoves
<1> QED BY <1>6, <1>7

LEMMA StoppedStep ==
    ASSUME IInv, NEW p \in Pids, Stopped(p)
    PROVE  IInv' /\ (SInv /\ ~Overlap' => SInv')
<1> DEFINE again == self[p].cmd = "restart"
           S == IF again THEN {} ELSE {p}
           place == IF again THEN "check" ELSE "none"
<1>1. /\ p \in Live /\ p \in Hands /\ at[p] = "kill" /\ proc[p].kind \in {"command", "manager"}
      /\ self[p].todo = {}
  <2>1. p \in Live /\ at[p] = "kill" /\ self[p].todo = {} BY DEF Stopped, Step, Live
  <2> QED BY <2>1, KindAt, LiveFacts
<1>2. self' = self /\ UNCHANGED pidfile /\ Observe /\ stopped' = (self[p].cmd = "stop")
  BY DEF Stopped
<1>3. Moves(p, S, place, self[p])
  <2>1. self' = [self EXCEPT ![p] = self[p]] BY <1>2, StateTypes
  <2> QED BY <1>1, <2>1, ProcessTypes DEF Stopped, Step, Exits, Moves, Places
<1> HIDE DEF S, place, again
<1>4. IInv'
  <2>1. again => proc[p].kind = "command" BY ProcessTypes DEF again, Recalls
  <2>2. p \in S \/ place \in PlacesOf(proc[p].kind)
    BY <1>1, <2>1, PlacesAre DEF S, place
  <2>3. place \notin {"watch", "wait", "hold", "clear", "spawn", "record"} BY DEF place
  <2> QED BY <1>1, <1>2, <1>3, <2>2, <2>3, StateTypes, MovesTypes
<1>5. ASSUME SInv, ~Overlap' PROVE SInv'
  <2>1. /\ Live' = Live \ S /\ at'[p] = place
        /\ Supervisors' = Supervisors \ S /\ Engines' = Engines \ S
    BY <1>3, MovesFacts
  <2>2. /\ Quiet /\ Managers = {} /\ \A r \in Hands : r = p
    BY <1>1, <1>5, OnlyHand DEF Progress
  <2>3. Tracked' BY <2>1, <2>2 DEF Tracked, Quiet
  <2>4. p \in S \/ Progress(p)' BY <2>1 DEF S, place, Progress
  <2>5. ASSUME stopped' PROVE Live \ S = {}
    <3>1. ~again BY <1>2, <2>5 DEF again
    <3>2. ASSUME NEW r \in Live, r # p PROVE FALSE
      <4>1. r \notin Hands /\ r \notin Engines \cup Supervisors \cup Managers
        BY <2>2, <3>2 DEF Quiet
      <4>2. proc[r].kind \in Kinds /\ at[r] \in PlacesOf(proc[r].kind)
        BY LiveFacts, ProcessTypes DEF Process
      <4> QED BY <3>2, <4>1, <4>2, LiveFacts, PlacesAre DEF Kinds
    <3> QED BY <3>1, <3>2 DEF S
  <2> QED BY <1>1, <1>2, <1>3, <1>5, <2>2, <2>3, <2>4, <2>5, HandMoves
<1> QED BY <1>4, <1>5

LEMMA CrashStep ==
    ASSUME IInv, NEW e \in Pids, Crash(e)
    PROVE  IInv' /\ (SInv /\ ~Overlap' => SInv')
<1>1. /\ e \in Engines /\ proc' = Dying({e}) /\ Observe
      /\ UNCHANGED <<mode, at, self, pidfile, stopped>>
      /\ budget.crashes < mode.crashes /\ budget' = [budget EXCEPT !.crashes = @ + 1]
  BY DEF Crash, Engines
<1>2. /\ proc' \in [Pids -> Process]
      /\ \A r \in Pids : /\ proc'[r].kind = proc[r].kind
                         /\ proc'[r].state = "unused" <=> proc[r].state = "unused"
                         /\ proc'[r].state = "running" <=> proc[r].state = "running" /\ r # e
  <2>1. {e} \in SUBSET Pids OBVIOUS
  <2> QED BY <1>1, <2>1, StateTypes, DyingFacts
<1>3. IInv'
  <2>1. budget' \in Budget
    <3>1. /\ budget \in Budget /\ mode.crashes \in 0 .. CrashLimit BY StateTypes
    <3> QED BY <1>1, <3>1 DEF Budget
  <2>2. overlapped' \in BOOLEAN BY <1>1, StateTypes, ObserveTypes
  <2>3. TypeOK'
    BY <1>1, <1>2, <2>1, <2>2, StateTypes
       DEF TypeOK, Process, Kinds, States, Places, Memory, Budget
  <2>4. \A r \in Pids : Recalls(r)' BY <1>1, <1>2 DEF IInv, Recalls
  <2>5. NameInv' BY <1>1, <1>2, StateTypes DEF IInv, NameInv
  <2> QED BY <2>3, <2>4, <2>5 DEF IInv
<1>4. ASSUME SInv, ~Overlap' PROVE SInv'
  <2>1. /\ Live' = Live \ {e} /\ Engines' = Engines \ {e}
        /\ Managers' = Managers /\ Supervisors' = Supervisors /\ screen' = screen
    BY <1>1, <1>2 DEF Live, Engines, Managers, Supervisors, Runs, screen
  <2>2. Engines' = {} BY <1>1, <1>4, <2>1 DEF SInv
  <2>3. Quiet => Quiet' BY <2>1, <2>2 DEF Quiet
  <2>4. ASSUME NEW r \in Live' PROVE Progress(r)'
    <3>1. Progress(r) BY <1>4, <2>1 DEF SInv
    <3> QED BY <1>1, <2>1, <2>2, <2>3, <3>1 DEF Progress, Remembers
  <2>5. ManagerInv' BY <1>1, <1>4, <2>1, <2>3 DEF SInv, ManagerInv, Remembers
  <2>6. SupervisorInv' BY <1>1, <1>4, <2>1 DEF SInv, SupervisorInv
  <2>7. stopped' => Live' = {} BY <1>1, <1>4, <2>1 DEF SInv
  <2> QED BY <1>4, <2>2, <2>4, <2>5, <2>6, <2>7 DEF SInv, Tracked
<1> QED BY <1>3, <1>4

(* A command remembers nothing but what it is. *)
LEMMA CommandMemory ==
    ASSUME IInv, NEW q \in Fresh,
           NEW cmd \in {"start", "stop", "restart"}, self' = [self EXCEPT ![q].cmd = cmd]
    PROVE  /\ self' \in [Pids -> Memory] /\ self'[q].crashes = 0
           /\ \A r \in Pids \ {q} : self'[r] = self[r]
<1> DEFINE memory == [self[q] EXCEPT !.cmd = cmd]
<1>1. self \in [Pids -> Memory] /\ q \in Pids /\ self[q] = NoMemory
  BY StateTypes, FreshIdle
<1>2. self' = [self EXCEPT ![q] = memory] OBVIOUS
<1>3. memory \in Memory /\ memory.crashes = 0 BY <1>1 DEF Memory, NoMemory
<1> HIDE DEF memory
<1> QED BY <1>1, <1>2, <1>3

(* The admin's commands, and the scheduled restart of a watchdog that      *)
(* exits.                                                                  *)
LEMMA CommandStarts ==
    ASSUME IInv, NEW S, S \subseteq Managers, NEW q \in Fresh,
           NEW cmd \in {"start", "stop", "restart"}, NEW place \in {"check", "scan"},
           Starts(S, q, "command", NoPid), MayCommand,
           self' = [self EXCEPT ![q].cmd = cmd],
           at' \in [Pids -> Places], at'[q] = place,
           \A r \in Pids \ (S \cup {q}) : at'[r] = at[r],
           NEW p \in Live \cup {NoPid}, S = {p} \ {NoPid},
           p # NoPid => self[p].crashes < MaxCrashes /\ at[p] = "watch",
           budget' = [budget EXCEPT !.commands = @ + 1],
           stopped' = FALSE, pidfile' = pidfile, Observe
    PROVE  IInv' /\ (SInv /\ ~Overlap' => SInv')
<1>1. /\ q \in Pids /\ q \notin Live /\ proc'[q].kind = "command"
      /\ Live' = (Live \ S) \cup {q} /\ screen' = screen
      /\ Managers' = Managers \ S /\ Supervisors' = Supervisors \ S /\ Engines' = Engines \ S
      /\ \A r \in Pids \ {q} : proc'[r].kind = proc[r].kind
  <2>1. /\ q \in Pids /\ q \notin Live /\ proc'[q].kind = "command"
        /\ Live' = (Live \ S) \cup {q} /\ screen' = screen
        /\ Managers' = (Managers \ S) \cup {} /\ Supervisors' = (Supervisors \ S) \cup {}
        /\ Engines' = (Engines \ S) \cup {}
        /\ \A r \in Pids \ {q} : proc'[r].kind = proc[r].kind
    BY StartsFacts
  <2> QED BY <2>1
<1>2. /\ self' \in [Pids -> Memory] /\ self'[q].crashes = 0
      /\ \A r \in Pids \ {q} : self'[r] = self[r]
  BY CommandMemory
<1>3. Live \subseteq Pids /\ Supervisors \cap S = {} /\ Engines \cap S = {}
      /\ Managers \subseteq Live /\ Supervisors \subseteq Live
  BY LiveFacts
<1>4. IInv'
  <2>1. budget' \in Budget
    <3>1. budget \in Budget /\ mode.commands \in 0 .. CommandLimit BY StateTypes
    <3> QED BY <3>1 DEF Budget, MayCommand
  <2>2. at'[q] \in PlacesOf("command") BY PlacesAre
  <2>3. p # NoPid => p \in Live /\ p \in S /\ p # q BY <1>1
  <2>4. \A r \in Pids \ {p, q} : at'[r] = at[r] /\ self'[r] = self[r] BY <1>2
  <2>5. p # NoPid => self'[p] = self[p] BY <1>2, <1>3, <2>3
  <2> QED BY <1>1, <1>2, <2>1, <2>2, <2>3, <2>4, <2>5, StateTypes, StartsTypes
<1>5. ASSUME SInv, ~Overlap' PROVE SInv'
  <2>1. q \in Hands' /\ \A r \in Live' : r # q => r \notin Hands'
    <3>1. q \in Hands' BY <1>1, <1>4, LiveFacts DEF Hands, Launching, Ending, Live
    <3> QED BY <1>5, <3>1 DEF Overlap
  <2>2. ASSUME NEW r \in Live', r # q
        PROVE  /\ r \in Live /\ r \notin S /\ at'[r] = at[r] /\ self'[r] = self[r]
               /\ at[r] \notin {"clear", "spawn", "record", "daemonize", "check", "scan",
                                "kill", "reap"}
    <3>1. r \in Live /\ r \notin S /\ at'[r] = at[r] /\ self'[r] = self[r]
      BY <1>1, <1>2, <1>3, <2>2
    <3>2. r \notin Hands' BY <2>1, <2>2
    <3> QED BY <2>2, <3>1, <3>2, <1>1, <1>3 DEF Hands, Launching, Ending, Live
  <2>3. \A r \in Live' : Progress(r)'
    <3>1. ASSUME NEW r \in Live', r # q PROVE Progress(r)'
      BY <2>2, <3>1 DEF Progress
    <3>2. Progress(q)' BY DEF Progress
    <3> QED BY <3>1, <3>2
  <2>4. /\ Engines' = Engines /\ Supervisors' = Supervisors
    BY <1>1, <1>3
  <2>5. (Quiet' <=> Quiet) /\ (Up' <=> Up) BY <1>1, <2>4 DEF Quiet, Up
  <2>6. Tracked'
    <3>1. CASE Engines = {} \/ Up BY <2>4, <2>5, <3>1 DEF Tracked
    <3>2. ASSUME NEW r \in Live, at[r] = "record" PROVE Tracked'
      <4>1. r \notin S
        <5>1. r \in S => r = p /\ p # NoPid OBVIOUS
        <5> QED BY <3>2, <5>1
      <4>2. r \in Live' /\ r # q BY <1>1, <3>2, <4>1
      <4> QED BY <2>2, <3>2, <4>2
    <3> QED BY <1>5, <3>1, <3>2 DEF SInv, Tracked
  <2>7. ManagerInv'
    <3>1. ASSUME NEW m \in Managers'
          PROVE  /\ pidfile'["manager"] = m
                 /\ at'[m] \in {"wait", "hold"} => Quiet'
                 /\ at'[m] = "watch" => Remembers(m)'
      <4>1. m \in Managers /\ m \in Live' /\ m # q /\ at'[m] = at[m] /\ self'[m] = self[m]
        BY <1>1, <1>3, <2>2, <3>1
      <4> QED BY <1>5, <2>5, <4>1 DEF SInv, ManagerInv, Remembers
    <3> QED BY <3>1 DEF ManagerInv
  <2>8. SupervisorInv'
    <3>1. ASSUME NEW s \in Supervisors'
          PROVE  screen' /\ pidfile'["engine"] = s /\ at'[s] = "watch"
      <4>1. s \in Supervisors /\ s \in Live' /\ s # q /\ at'[s] = at[s]
        BY <1>1, <1>3, <2>2, <2>4, <3>1
      <4> QED BY <1>1, <1>5, <4>1 DEF SInv, SupervisorInv
    <3> QED BY <3>1 DEF SupervisorInv
  <2>9. \A d, e \in Engines' : d = e BY <1>5, <2>4 DEF SInv
  <2> QED BY <1>5, <2>3, <2>6, <2>7, <2>8, <2>9 DEF SInv
<1> QED BY <1>4, <1>5

LEMMA IssueStep ==
    ASSUME IInv, NEW q \in Fresh, NEW cmd \in {"start", "stop", "restart"}, Issue(q, cmd)
    PROVE  IInv' /\ (SInv /\ ~Overlap' => SInv')
<1> DEFINE place == IF cmd = "start" THEN "check" ELSE "scan"
<1>1. /\ proc' = Forked(proc, q, "command", NoPid) /\ MayCommand
      /\ at' = [at EXCEPT ![q] = place] /\ self' = [self EXCEPT ![q].cmd = cmd]
      /\ budget' = [budget EXCEPT !.commands = @ + 1] /\ stopped' = FALSE
      /\ pidfile' = pidfile /\ mode' = mode /\ Observe
  BY DEF Issue
<1>2. place \in {"check", "scan"} OBVIOUS
<1> HIDE DEF place
<1>3. Starts({}, q, "command", NoPid) BY <1>1 DEF Starts, Kinds
<1>4. /\ at' \in [Pids -> Places] /\ at'[q] = place
      /\ \A r \in Pids \ ({} \cup {q}) : at'[r] = at[r]
  BY <1>1, <1>2, StateTypes, FreshIdle DEF Places
<1>5. {} = {NoPid} \ {NoPid} /\ {} \subseteq Managers OBVIOUS
<1> QED BY <1>1, <1>2, <1>3, <1>4, <1>5, CommandStarts

LEMMA TakeOverStep ==
    ASSUME IInv, NEW m \in Pids, NEW q \in Fresh, TakeOver(m, q)
    PROVE  IInv' /\ (SInv /\ ~Overlap' => SInv')
<1>1. /\ proc' = Forked(Dying({m}), q, "command", NoPid) /\ MayCommand
      /\ at' = [at EXCEPT ![m] = "none", ![q] = "scan"]
      /\ self' = [self EXCEPT ![q].cmd = "restart"]
      /\ budget' = [budget EXCEPT !.commands = @ + 1] /\ stopped' = FALSE
      /\ pidfile' = pidfile /\ mode' = mode /\ Observe
      /\ proc[m].kind = "manager" /\ m \in Live /\ m \in Managers /\ at[m] = "watch"
  BY DEF TakeOver, Live, Managers, Runs
<1>2. q \in Pids /\ q # m BY <1>1, FreshIdle
<1>3. Starts({m}, q, "command", NoPid) BY <1>1 DEF Starts, Kinds
<1>4. /\ at' \in [Pids -> Places] /\ at'[q] = "scan"
      /\ \A r \in Pids \ ({m} \cup {q}) : at'[r] = at[r]
  BY <1>1, <1>2, StateTypes DEF Places
<1>5. {m} = {m} \ {NoPid} /\ {m} \subseteq Managers BY <1>1, NoPidFact
<1>6. self[m].crashes < MaxCrashes BY <1>1, ProcessTypes DEF Recalls
<1> QED BY <1>1, <1>3, <1>4, <1>5, <1>6, CommandStarts

LEMMA SpawnStep ==
    ASSUME IInv, NEW p \in Pids, NEW q \in Fresh, Spawn(p, q)
    PROVE  IInv' /\ (SInv /\ ~Overlap' => SInv')
<1> DEFINE parent == IF screen THEN NoPid ELSE p
           engine == IF screen THEN NoPid ELSE q
           memory == [self[p] EXCEPT !.engine = engine]
<1>1. /\ p \in Live /\ p \in Hands /\ p \in Launching /\ at[p] = "spawn"
      /\ proc[p].kind \in {"command", "manager"}
  <2>1. p \in Live /\ at[p] = "spawn" BY DEF Spawn, Step, Live
  <2> QED BY <2>1, KindAt, LiveFacts
<1>2. /\ proc' = Forked(proc, q, "engine", parent) /\ at' = [at EXCEPT ![p] = "record"]
      /\ self' = [self EXCEPT ![p] = memory]
      /\ UNCHANGED <<mode, pidfile, budget, stopped>> /\ Observe
  BY DEF Spawn, Step
<1>3. q \in Pids /\ q # p /\ at[q] = "none" /\ self[q] = NoMemory BY <1>1, FreshIdle
<1>4. /\ memory \in Memory /\ memory.cmd = self[p].cmd /\ memory.crashes = self[p].crashes
      /\ memory.engine = engine
  BY <1>3, ProcessTypes DEF Memory
<1> HIDE DEF memory
<1>5. /\ at' \in [Pids -> Places] /\ at'[p] = "record" /\ at'[q] = "none"
      /\ self' \in [Pids -> Memory] /\ self'[p] = memory /\ self'[q] = NoMemory
      /\ \A r \in Pids \ {p} : at'[r] = at[r] /\ self'[r] = self[r]
  BY <1>2, <1>3, <1>4, StateTypes DEF Places
<1>6. PICK owner \in Pids \cup {NoPid} : Starts({}, q, "engine", owner)
  <2>1. parent \in Pids \cup {NoPid} /\ Starts({}, q, "engine", parent)
    BY <1>2 DEF Starts, Kinds
  <2> QED BY <2>1
<1> HIDE DEF parent
<1>7. IInv'
  <2>1. "record" \in PlacesOf(proc[p].kind) /\ at'[q] \in PlacesOf("engine")
    BY <1>1, <1>5, PlacesAre
  <2>2. proc[p].kind = "manager" => self[p].crashes < MaxCrashes
    BY <1>1, ProcessTypes DEF Recalls
  <2>3. self'[q].crashes = 0 /\ self'[q].cmd = "none" BY <1>5 DEF NoMemory
  <2> QED BY <1>1, <1>2, <1>3, <1>4, <1>5, <1>6, <2>1, <2>2, <2>3, StateTypes, StartsTypes
<1>8. ASSUME SInv, ~Overlap' PROVE SInv'
  <2>1. /\ Live' = (Live \ {}) \cup {q} /\ screen' = screen
        /\ Managers' = (Managers \ {}) \cup {} /\ Supervisors' = (Supervisors \ {}) \cup {}
        /\ Engines' = (Engines \ {}) \cup {q}
    <3>1. Live' = (Live \ {}) \cup {q} BY <1>6, StartsFacts
    <3>2. screen' = screen BY <1>6, StartsFacts
    <3>3. Managers' = (Managers \ {}) \cup {} BY <1>6, StartsFacts
    <3>4. Supervisors' = (Supervisors \ {}) \cup {} BY <1>6, StartsFacts
    <3>5. Engines' = (Engines \ {}) \cup {q} BY <1>6, StartsFacts
    <3> QED BY <3>1, <3>2, <3>3, <3>4, <3>5
  <2>2. /\ p \in Pids /\ Quiet /\ ~stopped /\ Managers \subseteq {p}
        /\ \A r \in Hands : r = p
    BY <1>1, <1>8, OnlyHand DEF Progress
  <2>3. /\ Managers' = Managers /\ Supervisors' = {} /\ Engines' = {q} /\ p \in Live'
    BY <1>1, <2>1, <2>2 DEF Quiet
  <2>4. ASSUME NEW r \in Live' PROVE Progress(r)'
    <3>1. CASE r = p BY <1>4, <1>5, <2>1, <2>3, <3>1 DEF Progress
    <3>2. CASE r = q BY <1>5, <3>2 DEF Progress
    <3>3. CASE r # p /\ r # q
      <4>1. r \in Live /\ r \notin Hands /\ at'[r] = at[r]
        BY <1>5, <2>1, <2>2, <3>3, LiveFacts
      <4> QED BY <4>1, LiveFacts DEF Progress
    <3> QED BY <3>1, <3>2, <3>3
  <2>5. Tracked' BY <1>5, <2>3 DEF Tracked
  <2>6. ManagerInv' BY <1>2, <1>5, <1>8, <2>2, <2>3 DEF SInv, ManagerInv
  <2>7. SupervisorInv' BY <2>3 DEF SupervisorInv
  <2> QED BY <1>2, <1>8, <2>2, <2>3, <2>4, <2>5, <2>6, <2>7 DEF SInv
<1> QED BY <1>7, <1>8

LEMMA RecordSupervisorStep ==
    ASSUME IInv, NEW p \in Pids, NEW q \in Fresh, RecordSupervisor(p, q)
    PROVE  IInv' /\ (SInv /\ ~Overlap' => SInv')
<1>1. /\ p \in Live /\ p \in Hands /\ p \in Launching /\ at[p] = "record"
      /\ proc[p].kind \in {"command", "manager"} /\ screen
  <2>1. p \in Live /\ at[p] = "record" /\ screen BY DEF RecordSupervisor, Live
  <2> QED BY <2>1, KindAt, LiveFacts
<1>2. /\ proc' = Forked(proc, q, "supervisor", p) /\ self' = self
      /\ at' = [at EXCEPT ![p] = AfterLaunch(p), ![q] = "watch"]
      /\ pidfile' = [pidfile EXCEPT !["engine"] = q]
      /\ UNCHANGED <<mode, budget, stopped>> /\ Observe
  BY DEF RecordSupervisor
<1>3. q \in Pids /\ q # p /\ self[q] = NoMemory BY <1>1, FreshIdle
<1>4. /\ AfterLaunch(p) \in {"watch", "daemonize"} /\ AfterLaunch(p) \in Places
      /\ AfterLaunch(p) \in PlacesOf(proc[p].kind)
  BY <1>1, PlacesAre DEF AfterLaunch, Places
<1>5. /\ at' \in [Pids -> Places] /\ at'[p] = AfterLaunch(p) /\ at'[q] = "watch"
      /\ \A r \in Pids \ {p, q} : at'[r] = at[r]
  BY <1>2, <1>3, <1>4, StateTypes DEF Places
<1>6. /\ pidfile' \in [Labels -> Pids \cup {NoPid}]
      /\ pidfile'["engine"] = q /\ pidfile'["manager"] = pidfile["manager"]
  BY <1>2, <1>3, StateTypes
<1>7. Starts({}, q, "supervisor", p) BY <1>2 DEF Starts, Kinds
<1>8. IInv'
  <2>1. at'[q] \in PlacesOf("supervisor") BY <1>5, PlacesAre
  <2>2. proc[p].kind = "manager" => self[p].crashes < MaxCrashes
    BY <1>1, ProcessTypes DEF Recalls
  <2>3. self'[q].crashes = 0 /\ self'[q].cmd = "none" BY <1>2, <1>3 DEF NoMemory
  <2> QED BY <1>1, <1>2, <1>3, <1>4, <1>5, <1>6, <1>7, <2>1, <2>2, <2>3, StateTypes, StartsTypes
<1>9. ASSUME SInv, ~Overlap' PROVE SInv'
  <2>1. /\ Live' = (Live \ {}) \cup {q} /\ screen' = screen
        /\ Managers' = (Managers \ {}) \cup {} /\ Supervisors' = (Supervisors \ {}) \cup {q}
        /\ Engines' = (Engines \ {}) \cup {}
    BY <1>7, StartsFacts
  <2>2. /\ p \in Pids /\ ~stopped /\ Managers \subseteq {p} /\ Supervisors = {}
        /\ self[p].engine = NoPid
        /\ \A r \in Hands : r = p
    BY <1>1, <1>9, OnlyHand DEF Progress
  <2>3. Managers' = Managers /\ Supervisors' = {q} /\ Engines' = Engines
    BY <2>1, <2>2
  <2>4. Up' /\ Tracked' BY <1>1, <1>6, <2>1, <2>3 DEF Up, Tracked
  <2>5. Remembers(p)' BY <1>2, <2>2 DEF Remembers
  <2>6. ASSUME NEW r \in Live' PROVE Progress(r)'
    <3>1. CASE r = p BY <1>4, <1>5, <2>5, <3>1 DEF Progress
    <3>2. CASE r = q BY <1>5, <3>2 DEF Progress
    <3>3. CASE r # p /\ r # q
      <4>1. r \in Live /\ r \notin Hands /\ at'[r] = at[r]
        BY <1>5, <2>1, <2>2, <3>3, LiveFacts
      <4> QED BY <4>1, LiveFacts DEF Progress
    <3> QED BY <3>1, <3>2, <3>3
  <2>7. ManagerInv' BY <1>4, <1>5, <1>6, <1>9, <2>2, <2>3, <2>5 DEF SInv, ManagerInv
  <2>8. SupervisorInv' BY <1>1, <1>5, <1>6, <2>1, <2>3 DEF SupervisorInv
  <2>9. \A d, e \in Engines' : d = e BY <1>9, <2>3 DEF SInv
  <2> QED BY <1>2, <1>9, <2>2, <2>4, <2>6, <2>7, <2>8, <2>9 DEF SInv
<1> QED BY <1>8, <1>9

LEMMA DaemonizeStep ==
    ASSUME IInv, NEW p \in Pids, NEW q \in Fresh, Daemonize(p, q)
    PROVE  IInv' /\ (SInv /\ ~Overlap' => SInv')
<1> DEFINE memory == [self[q] EXCEPT !.engine = self[p].engine]
<1>1. /\ p \in Live /\ p \in Hands /\ p \in Launching /\ at[p] = "daemonize"
      /\ proc[p].kind = "command"
  <2>1. p \in Live /\ at[p] = "daemonize" BY DEF Daemonize, Live
  <2> QED BY <2>1, KindAt, LiveFacts
<1>2. /\ proc' = Forked(Dying({p}), q, "manager", NoPid)
      /\ at' = [at EXCEPT ![p] = "none", ![q] = "watch"]
      /\ self' = [self EXCEPT ![q] = memory]
      /\ pidfile' = [pidfile EXCEPT !["manager"] = q]
      /\ UNCHANGED <<mode, budget, stopped>> /\ Observe
  BY DEF Daemonize
<1>3. q \in Pids /\ q # p /\ self[q] = NoMemory BY <1>1, FreshIdle
<1>4. /\ memory \in Memory /\ memory.cmd = "none" /\ memory.crashes = 0
      /\ memory.engine = self[p].engine
  <2>1. self[q] \in Memory /\ self[p].engine \in Pids \cup {NoPid} BY <1>3, ProcessTypes
  <2> QED BY <1>3, <2>1 DEF Memory, NoMemory
<1> HIDE DEF memory
<1>5. /\ at' \in [Pids -> Places] /\ at'[q] = "watch"
      /\ \A r \in Pids \ {p, q} : at'[r] = at[r]
      /\ self' \in [Pids -> Memory] /\ self'[q] = memory
      /\ \A r \in Pids \ {q} : self'[r] = self[r]
  BY <1>2, <1>3, <1>4, StateTypes DEF Places
<1>6. /\ pidfile' \in [Labels -> Pids \cup {NoPid}]
      /\ pidfile'["manager"] = q /\ pidfile'["engine"] = pidfile["engine"]
  BY <1>2, <1>3, StateTypes
<1>7. Starts({p}, q, "manager", NoPid) BY <1>2 DEF Starts, Kinds
<1>8. IInv'
  <2>1. at'[q] \in PlacesOf("manager") BY <1>5, PlacesAre
  <2>2. self'[p] = self[p] BY <1>3, <1>5
  <2> QED BY <1>1, <1>2, <1>3, <1>4, <1>5, <1>6, <1>7, <2>1, <2>2, StateTypes, StartsTypes
<1>9. ASSUME SInv, ~Overlap' PROVE SInv'
  <2>1. /\ Live' = (Live \ {p}) \cup {q} /\ screen' = screen
        /\ Managers' = (Managers \ {p}) \cup {q} /\ Supervisors' = (Supervisors \ {p}) \cup {}
        /\ Engines' = (Engines \ {p}) \cup {}
    BY <1>7, StartsFacts
  <2>2. /\ p \in Pids /\ ~stopped /\ Managers \subseteq {p} /\ Remembers(p)
        /\ (\A r \in Hands : r = p) /\ p \notin Supervisors /\ p \notin Engines
        /\ Tracked <=> Engines = {} \/ Up
    BY <1>1, <1>9, OnlyHand DEF Progress
  <2>3. /\ Managers' = {q} /\ Supervisors' = Supervisors /\ Engines' = Engines
        /\ Supervisors \subseteq Pids /\ q \notin Supervisors
    <3>1. q \notin Live /\ Supervisors \subseteq Live /\ Live \subseteq Pids
      BY FreshIdle, LiveFacts
    <3> QED BY <2>1, <2>2, <3>1
  <2>4. Tracked' BY <1>6, <1>9, <2>1, <2>2, <2>3 DEF SInv, Tracked, Up
  <2>5. ASSUME NEW r \in Live' PROVE Progress(r)'
    <3>1. CASE r = q BY <1>5, <3>1 DEF Progress
    <3>2. CASE r # q
      <4>1. r \in Live /\ r \notin Hands /\ at'[r] = at[r]
        BY <1>5, <2>1, <2>2, <2>5, <3>2, LiveFacts
      <4> QED BY <4>1, LiveFacts DEF Progress
    <3> QED BY <3>1, <3>2
  <2>6. ManagerInv' BY <1>4, <1>5, <1>6, <2>2, <2>3 DEF ManagerInv, Remembers
  <2>7. SupervisorInv' BY <1>5, <1>6, <1>9, <2>1, <2>2, <2>3 DEF SInv, SupervisorInv
  <2>8. \A d, e \in Engines' : d = e BY <1>9, <2>3 DEF SInv
  <2> QED BY <1>2, <1>9, <2>2, <2>4, <2>5, <2>6, <2>7, <2>8 DEF SInv
<1> QED BY <1>8, <1>9

LEMMA RespawnStep ==
    ASSUME IInv, NEW s \in Pids, NEW q \in Fresh, Respawn(s, q)
    PROVE  IInv' /\ (SInv /\ ~Overlap' => SInv')
<1> DEFINE last == self[s].crashes + 1 = MaxSupervised
           S == IF last THEN {s} ELSE {}
           place == IF last THEN "none" ELSE "watch"
           memory == [self[s] EXCEPT !.crashes = @ + 1]
<1>1. /\ s \in Live /\ at[s] = "exists" /\ proc[s].kind = "supervisor"
      /\ self[s].crashes < MaxSupervised
  <2>1. s \in Live /\ at[s] = "exists" /\ self[s].crashes < MaxSupervised
    BY DEF Respawn, Step, Live
  <2> QED BY <2>1, KindAt
<1>2. /\ proc' = Forked(IF last THEN Dying({s}) ELSE proc, q, "engine", NoPid)
      /\ at' = [at EXCEPT ![s] = place] /\ self' = [self EXCEPT ![s] = memory]
      /\ UNCHANGED <<mode, pidfile, budget, stopped>> /\ Observe
  BY DEF Respawn, Step
<1>3. q \in Pids /\ q # s /\ at[q] = "none" /\ self[q] = NoMemory BY <1>1, FreshIdle
<1>4. memory \in Memory /\ memory.cmd = self[s].cmd
  <2>1. self[s] \in Memory /\ self[s].crashes \in 0 .. MaxSupervised BY ProcessTypes
  <2>2. self[s].crashes + 1 \in 0 .. MaxSupervised BY <1>1, <2>1
  <2> QED BY <2>1, <2>2 DEF Memory
<1> HIDE DEF memory
<1>5. /\ at' \in [Pids -> Places] /\ at'[s] = place /\ at'[q] = "none"
      /\ self' \in [Pids -> Memory] /\ self'[s] = memory /\ self'[q] = NoMemory
      /\ \A r \in Pids \ {s} : at'[r] = at[r] /\ self'[r] = self[r]
  BY <1>2, <1>3, <1>4, StateTypes DEF Places
<1>6. Starts(S, q, "engine", NoPid)
  <2>1. CASE last BY <1>2, <2>1 DEF Starts, Kinds
  <2>2. CASE ~last BY <1>2, <2>2 DEF Starts, Kinds
  <2> QED BY <2>1, <2>2
<1>7. IInv'
  <2>1. s \in S \/ place \in PlacesOf(proc[s].kind) BY <1>1, PlacesAre
  <2>2. at'[q] \in PlacesOf("engine") BY <1>5, PlacesAre
  <2>3. self'[q].crashes = 0 /\ self'[q].cmd = "none" BY <1>5 DEF NoMemory
  <2> HIDE DEF S, place, last
  <2> QED BY <1>1, <1>2, <1>3, <1>4, <1>5, <1>6, <2>1, <2>2, <2>3, StateTypes, StartsTypes
<1> QED BY <1>1, <1>7, NeverSuspects

-----------------------------------------------------------------------------
LEMMA InitCInv == Init => CInv
<1> SUFFICES ASSUME Init PROVE CInv OBVIOUS
<1>0. 0 \in 0 .. MaxSupervised /\ 0 \in 0 .. CommandLimit /\ 0 \in 0 .. CrashLimit OBVIOUS
<1>1. NoMemory \in Memory BY <1>0 DEF NoMemory, Memory
<1>2. TypeOK
  BY <1>0, <1>1, TypesAre DEF Init, Process, Kinds, States, Places, Budget
<1>3. IInv BY <1>2 DEF Init, IInv, Recalls, NameInv, NoMemory, Labels
<1>4. Live = {} BY DEF Init, Live
<1>5. Managers = {} /\ Supervisors = {} /\ Engines = {} /\ Hands = {} /\ Launching = {}
  BY <1>3, <1>4, LiveFacts
<1>6. SInv
  BY <1>4, <1>5 DEF Init, SInv, Overlap, Tracked, ManagerInv, SupervisorInv
<1> QED BY <1>3, <1>6 DEF CInv

LEMMA NextCInv == CInv /\ [Next]_vars => CInv'
<1> SUFFICES ASSUME CInv, [Next]_vars PROVE CInv' OBVIOUS
<1>1. IInv /\ (~overlapped => SInv) BY DEF CInv
<1>2. CASE UNCHANGED vars
  <2>1. IInv' BY <1>1, <1>2 DEF vars, IInv, TypeOK, Recalls, NameInv
  <2>2. SInv' <=> SInv
    BY <1>2 DEF vars, SInv, Overlap, Tracked, Progress, ManagerInv, SupervisorInv, Quiet, Up,
                Remembers, Live, Hands, Launching, Ending, Engines, Managers, Supervisors, Runs,
                screen
  <2> QED BY <1>1, <1>2, <2>1, <2>2 DEF CInv, vars
<1>3. CASE Next
  <2>1. /\ IInv' /\ (SInv /\ ~Overlap' => SInv') /\ Observe
    <3>1. ASSUME NEW q \in Fresh, NEW cmd \in {"start", "stop", "restart"}, Issue(q, cmd)
          PROVE  IInv' /\ (SInv /\ ~Overlap' => SInv') /\ Observe
      BY <1>1, <3>1, IssueStep DEF Issue
    <3>2. ASSUME NEW p \in Pids, Works(p)
          PROVE  IInv' /\ (SInv /\ ~Overlap' => SInv') /\ Observe
      <4>1. CASE Check(p) BY <1>1, <4>1, CheckStep DEF Check
      <4>2. CASE Clear(p) BY <1>1, <4>2, ClearStep DEF Clear
      <4>3. CASE RecordEngine(p) BY <1>1, <4>3, RecordEngineStep DEF RecordEngine
      <4>4. CASE Notice(p) BY <1>1, <4>4, NoticeStep DEF Notice
      <4>5. CASE Waited(p) BY <1>1, <4>5, WaitedStep DEF Waited
      <4>6. CASE Suspect(p) BY <1>1, <4>6, SuspectStep DEF Suspect
      <4>7. CASE GiveUp(p) BY <1>1, <4>7, GiveUpStep DEF GiveUp
      <4>8. CASE Scan(p) BY <1>1, <4>8, ScanStep DEF Scan
      <4>9. CASE KillEngine(p) BY <1>1, <4>9, KillEngineStep DEF KillEngine
      <4>10. CASE KillSupervisor(p) BY <1>1, <4>10, KillSupervisorStep DEF KillSupervisor
      <4>11. CASE KillManager(p) BY <1>1, <4>11, KillManagerStep DEF KillManager
      <4>12. CASE Stopped(p) BY <1>1, <4>12, StoppedStep DEF Stopped
      <4>13. ASSUME NEW l \in Labels, NotRunning(p, l)
             PROVE  IInv' /\ (SInv /\ ~Overlap' => SInv') /\ Observe
        BY <1>1, <4>13, NotRunningStep DEF NotRunning
      <4>14. ASSUME NEW q \in Fresh, Spawn(p, q)
             PROVE  IInv' /\ (SInv /\ ~Overlap' => SInv') /\ Observe
        BY <1>1, <4>14, SpawnStep DEF Spawn
      <4>15. ASSUME NEW q \in Fresh, RecordSupervisor(p, q)
             PROVE  IInv' /\ (SInv /\ ~Overlap' => SInv') /\ Observe
        BY <1>1, <4>15, RecordSupervisorStep DEF RecordSupervisor
      <4>16. ASSUME NEW q \in Fresh, Daemonize(p, q)
             PROVE  IInv' /\ (SInv /\ ~Overlap' => SInv') /\ Observe
        BY <1>1, <4>16, DaemonizeStep DEF Daemonize
      <4>17. ASSUME NEW q \in Fresh, Respawn(p, q)
             PROVE  IInv' /\ (SInv /\ ~Overlap' => SInv') /\ Observe
        BY <1>1, <4>17, RespawnStep DEF Respawn
      <4> QED BY <3>2, <4>1, <4>2, <4>3, <4>4, <4>5, <4>6, <4>7, <4>8, <4>9, <4>10, <4>11,
                 <4>12, <4>13, <4>14, <4>15, <4>16, <4>17 DEF Works
    <3>3. ASSUME NEW p \in Pids, Crash(p)
          PROVE  IInv' /\ (SInv /\ ~Overlap' => SInv') /\ Observe
      BY <1>1, <3>3, CrashStep DEF Crash
    <3>4. ASSUME NEW p \in Pids, NEW q \in Fresh, TakeOver(p, q)
          PROVE  IInv' /\ (SInv /\ ~Overlap' => SInv') /\ Observe
      BY <1>1, <3>4, TakeOverStep DEF TakeOver
    <3> QED BY <1>3, <3>1, <3>2, <3>3, <3>4 DEF Next
  <2>2. ~overlapped' => ~overlapped /\ ~Overlap' BY <2>1 DEF Observe
  <2> QED BY <1>1, <2>1, <2>2 DEF CInv
<1> QED BY <1>2, <1>3

-----------------------------------------------------------------------------
(* The variables keep their types, whatever commands run at the same time  *)
(* and wherever engines crash.                                             *)
THEOREM TypeCorrect == Spec => []TypeOK
<1>1. CInv => TypeOK BY DEF CInv, IInv
<1> QED BY <1>1, InitCInv, NextCInv, PTL DEF Spec

(* Once a stop has finished, nothing of the instance runs until the next   *)
(* command, also when an engine had crashed and its watchdog was about to  *)
(* relaunch it, or had given up; for any number of processes, commands and *)
(* crashes, with and without screen sessions.  Only overlaps are excepted. *)
THEOREM StopIsFinal == Spec => []StopStops
<1>1. CInv => StopStops
  <2> SUFFICES ASSUME CInv, stopped, ~overlapped
               PROVE  Engines \cup Managers \cup Supervisors = {}
    BY DEF StopStops, Engines, Managers, Supervisors
  <2>1. IInv /\ Live = {} BY DEF CInv, SInv
  <2> QED BY <2>1, LiveFacts
<1> QED BY <1>1, InitCInv, NextCInv, PTL DEF Spec

(* There is one engine at most, through crashes, relaunches, restarts and  *)
(* stops, as long as no launch overlaps another process's work.            *)
THEOREM EngineIsAlone == Spec => []OneEngine
<1>1. CInv => OneEngine
  <2> SUFFICES ASSUME CInv, ~overlapped PROVE Cardinality(Engines) <= 1
    BY DEF OneEngine, Engines
  <2>1. \A d, e \in Engines : d = e BY DEF CInv, SInv
  <2>2. CASE Engines = {} BY <2>2, FS_EmptySet
  <2>3. ASSUME NEW e \in Engines PROVE Cardinality(Engines) <= 1
    <3>1. Engines = {e} BY <2>1
    <3>2. Cardinality({e}) = 1 BY FS_Singleton
    <3> QED BY <3>1, <3>2
  <2> QED BY <2>2, <2>3
<1> QED BY <1>1, InitCInv, NextCInv, PTL DEF Spec
=============================================================================
