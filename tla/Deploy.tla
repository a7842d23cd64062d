------------------------------- MODULE Deploy -------------------------------
(***************************************************************************)
(* Putting the wrapper in front of the game library: proxy_preflight and   *)
(* ensure_proxy of src/japm/japm.py, run by `japm start` and by the        *)
(* watchdog before they launch an engine, and LoadReal of                  *)
(* src/proxy/proxy.c, by which the wrapper then finds the library it       *)
(* stands in for.  Every instance is a japm process of its own, and all    *)
(* share the GameData directory.  A system call on a file is one action.   *)
(* The proxy is enabled in every configuration, and one process deploys    *)
(* for an instance at a time.                                              *)
(***************************************************************************)
EXTENDS Naturals, Sequences

CONSTANTS
    Instances,    \* the servers that are started
    MaxBuilds,    \* bound: builds of japlusproxy.so
    MaxInstalls,  \* bound: JA+ libraries the admin installs after the first
    MaxKills      \* bound: japm processes and supervisors that are killed

ASSUME DeployAssumption ==
    MaxBuilds \in Nat \ {0} /\ MaxInstalls \in Nat /\ MaxKills \in Nat

VARIABLES
    lib,       \* the game library's two names, in the directories searched
    owed,      \* history: the library to be kept, of each directory
    src,       \* the build of the wrapper in the repository; 0 when absent
    realLib,   \* what proxy.real_lib names
    builds, installs, kills,  \* how many so far
    pc,        \* how far each instance's japm process is
    job,       \* what ensure_proxy has read: its local variables
    opened,    \* the file that write_bytes has open
    watching,  \* the instances whose japm process has become a watchdog
    tracked,   \* the instances whose engine pid file names a live process
    engine,    \* what each instance's engine loaded
    mapped     \* the library file each engine has mapped

adminVars == <<owed, src, realLib, builds, installs>>
fileVars == <<lib, adminVars>>
engineVars == <<tracked, engine, mapped>>
vars == <<fileVars, kills, pc, job, opened, watching, engineVars>>

(* game_lib_dirs, in the order japm and the engine search them.            *)
Dirs == <<"japlus", "GameData">>
Names == {"stock", "real"}   \* GAME_LIB and REAL_LIB_NAME

None == [kind |-> "none", ver |-> 0]
Partial == [kind |-> "partial", ver |-> 0]
Original(v) == [kind |-> "original", ver |-> v]
Wrapper(v) == [kind |-> "wrapper", ver |-> v]

Content == {None, Partial} \cup {Original(v) : v \in 0 .. MaxInstalls}
                           \cup {Wrapper(v) : v \in 1 .. MaxBuilds}

Ref == (DOMAIN Dirs) \X Names
NoRef == <<0, "none">>
Unlinked == <<0, "unlinked">>     \* a file without a name, still open or mapped
Elsewhere == <<0, "elsewhere">>   \* a copy that the admin keeps outside Dirs
Nowhere == <<0, "nowhere">>       \* a path where no file is

At(ref) ==
    CASE ref \in Ref      -> lib[ref[1]][ref[2]]
      [] ref = Elsewhere -> Original(0)
      [] OTHER           -> None

NoJob == [dir |-> 0, current |-> None, wrapper |-> None]

Outcome == {"off", "protected", "unprotected", "chained", "broken"}

TypeOK ==
    /\ lib \in [DOMAIN Dirs -> [Names -> Content]]
    /\ owed \in [DOMAIN Dirs -> {None} \cup {Original(v) : v \in 0 .. MaxInstalls}]
    /\ src \in 0 .. builds /\ builds \in 1 .. MaxBuilds
    /\ realLib \in Ref \cup {NoRef, Elsewhere, Nowhere}
    /\ installs \in 0 .. MaxInstalls /\ kills \in 0 .. MaxKills
    /\ pc \in [Instances -> {"idle", "read", "check", "rename", "open", "write",
                             "launch"}]
    /\ job \in [Instances -> [dir : 0 .. Len(Dirs), current : Content,
                              wrapper : Content]]
    /\ opened \in [Instances -> Ref \cup {NoRef, Unlinked}]
    /\ watching \subseteq Instances /\ tracked \subseteq Instances
    /\ engine \in [Instances -> Outcome]
    /\ mapped \in [Instances -> Ref \cup {NoRef, Unlinked}]

(* The layouts a first start can meet: the original library in either      *)
(* directory or both, the wrapper deployed by hand as README says, or the  *)
(* wrapper alone, for which ensure_proxy has a branch of its own.          *)
Empty == [stock |-> None, real |-> None]
Untouched == [stock |-> Original(0), real |-> None]
ByHand == [stock |-> Wrapper(1), real |-> Original(0)]
Alone == [stock |-> Wrapper(1), real |-> None]

Init ==
    /\ lib \in { <<Untouched, Empty>>, <<Empty, Untouched>>,
                 <<Untouched, Untouched>>, <<Empty, ByHand>>, <<ByHand, Empty>>,
                 <<Empty, Alone>>, <<Alone, Untouched>> }
    /\ owed = [d \in DOMAIN Dirs |->
                 IF lib[d] \in {Untouched, ByHand} THEN Original(0) ELSE None]
    /\ realLib \in Ref \cup {NoRef, Elsewhere, Nowhere}
    /\ src = 1 /\ builds = 1 /\ installs = 0 /\ kills = 0
    /\ pc = [i \in Instances |-> "idle"]
    /\ job = [i \in Instances |-> NoJob]
    /\ opened = [i \in Instances |-> NoRef]
    /\ watching = {} /\ tracked = {}
    /\ engine = [i \in Instances |-> "off"]
    /\ mapped = [i \in Instances |-> NoRef]

Go(i, from, to) == pc[i] = from /\ pc' = [pc EXCEPT ![i] = to]

-----------------------------------------------------------------------------
(* game_lib_dir: the first directory that holds either name.               *)
Holds(d) == lib[d].stock # None \/ lib[d].real # None

IsLibDir(d) == Holds(d) /\ \A e \in DOMAIN Dirs : e < d => ~Holds(e)

(* proxy_preflight, then the same look-up again in ensure_proxy.  A start  *)
(* is refused when the preflight fails, or while the process in the        *)
(* engine's pid file lives: the engine, or with screen its supervisor.     *)
(* The watchdog asks for the same process before it relaunches.            *)
Preflight == src # 0 /\ \E d \in DOMAIN Dirs : Holds(d)

(* Wrong: a start does not look for a running engine. *)
RunningUnknown(i) == FALSE

Running(i) == i \in tracked

Begin(i) ==
    /\ ~Running(i)
    /\ Preflight
    /\ Go(i, "idle", "read")
    /\ \E d \in DOMAIN Dirs :
          /\ IsLibDir(d)
          /\ job' = [job EXCEPT ![i] = [NoJob EXCEPT !.dir = d]]
    /\ UNCHANGED <<fileVars, kills, opened, watching, engineVars>>

Dir(i) == job[i].dir

(* Wrong: the wrapper that was built last is deployed, present or not. *)
ReadMissing(i) ==
    /\ Go(i, "read", "check")
    /\ job' = [job EXCEPT ![i] = [dir |-> Dir(i), current |-> lib[Dir(i)].stock,
                                  wrapper |-> Wrapper(src)]]
    /\ UNCHANGED <<fileVars, kills, opened, watching, engineVars>>

(* current and wrapper are read once, before anything is tested.           *)
Read(i) ==
    /\ src # 0
    /\ Go(i, "read", "check")
    /\ job' = [job EXCEPT ![i] = [dir |-> Dir(i), current |-> lib[Dir(i)].stock,
                                  wrapper |-> Wrapper(src)]]
    /\ UNCHANGED <<fileVars, kills, opened, watching, engineVars>>

(* Wrong: what an interrupted deployment left behind passes for deployed. *)
StaleOriginal(i) == job[i].current.kind = "original"

Stale(i) == job[i].current # job[i].wrapper

(* Wrong: the test for the backup is inverted, or left out. *)
FirstDeployInverted(i) == lib[Dir(i)].real # None /\ lib[Dir(i)].stock # None
FirstDeployAlways(i) == lib[Dir(i)].stock # None

FirstDeploy(i) == lib[Dir(i)].real = None /\ lib[Dir(i)].stock # None

Check(i) ==
    /\ Go(i, "check", IF ~Stale(i) THEN "launch"
                      ELSE IF FirstDeploy(i) THEN "rename" ELSE "open")
    /\ UNCHANGED <<fileVars, kills, job, opened, watching, engineVars>>

(* A handle stays with its file when the file's name changes.              *)
Moved(ref, d) ==
    IF ref = <<d, "real">> THEN Unlinked
    ELSE IF ref = <<d, "stock">> THEN <<d, "real">> ELSE ref

(* stock.rename(real) replaces a file of that name.                        *)
Rename(i) ==
    /\ Go(i, "rename", "open")
    /\ lib[Dir(i)].stock # None
    /\ lib' = [lib EXCEPT ![Dir(i)] = [stock |-> None, real |-> @.stock]]
    /\ opened' = [j \in Instances |-> Moved(opened[j], Dir(i))]
    /\ mapped' = [j \in Instances |-> Moved(mapped[j], Dir(i))]
    /\ UNCHANGED <<adminVars, kills, job, watching, tracked, engine>>

(* write_bytes truncates the file it opens, and then fills it.             *)
Open(i) ==
    /\ Go(i, "open", "write")
    /\ lib' = [lib EXCEPT ![Dir(i)].stock = Partial]
    /\ opened' = [opened EXCEPT ![i] = <<Dir(i), "stock">>]
    /\ UNCHANGED <<adminVars, kills, job, watching, engineVars>>

Write(i) ==
    /\ Go(i, "write", "launch")
    /\ lib' = IF opened[i] \in Ref
              THEN [lib EXCEPT ![opened[i][1]][opened[i][2]] = job[i].wrapper]
              ELSE lib
    /\ opened' = [opened EXCEPT ![i] = NoRef]
    /\ UNCHANGED <<adminVars, kills, job, watching, engineVars>>

-----------------------------------------------------------------------------
(* The engine loads jampgamei386.so from the first directory that has it.  *)
Loads(d) ==
    /\ lib[d].stock # None
    /\ \A e \in DOMAIN Dirs : e < d => lib[e].stock = None

(* LoadReal's candidates, in order: JAPLUS_REAL as build_env sets it, next *)
(* to the wrapper itself, and in the working directory, GameData.          *)
Candidates(d) ==
    LET env == CHOOSE e \in DOMAIN Dirs : IsLibDir(e)
        japlusReal == IF realLib # NoRef THEN realLib ELSE <<env, "real">>
    IN  <<japlusReal, <<d, "real">>, <<d, "stock">>,
          <<Len(Dirs), "real">>, <<Len(Dirs), "stock">>>>

(* TryAdoptReal refuses what cannot be loaded, and the wrapper itself.     *)
Adoptable(ref, d) ==
    ref # <<d, "stock">> /\ At(ref).kind \in {"original", "wrapper"}

Adopted(d) ==
    LET c == Candidates(d)
        fit == {k \in DOMAIN c : Adoptable(c[k], d)}
    IN  IF fit = {} THEN None
        ELSE At(c[CHOOSE k \in fit : \A j \in fit : k <= j])

Result(d) ==
    CASE At(<<d, "stock">>).kind = "original" -> "unprotected"
      [] At(<<d, "stock">>).kind = "partial"  -> "broken"
      [] At(<<d, "stock">>).kind = "wrapper"  ->
            CASE Adopted(d).kind = "original" -> "protected"
              [] Adopted(d).kind = "wrapper"  -> "chained"
              [] OTHER                        -> "broken"

(* start_engine, up to the point where the engine has loaded its library.  *)
(* It kills what engine of the instance is left before.                    *)
Launch(i) ==
    /\ Go(i, "launch", "idle")
    /\ job' = [job EXCEPT ![i] = NoJob]
    /\ watching' = watching \cup {i} /\ tracked' = tracked \cup {i}
    /\ \/ \E d \in DOMAIN Dirs :
             /\ Loads(d)
             /\ engine' = [engine EXCEPT ![i] = Result(d)]
             /\ mapped' = [mapped EXCEPT ![i] = <<d, "stock">>]
       \/ /\ \A d \in DOMAIN Dirs : ~Loads(d)
          /\ engine' = [engine EXCEPT ![i] = "broken"]
          /\ mapped' = [mapped EXCEPT ![i] = NoRef]
    /\ UNCHANGED <<fileVars, kills, opened>>

(* The watchdog restarts its engine even when the preflight fails.         *)
Relaunch(i) ==
    /\ i \in watching /\ ~Running(i) /\ ~Preflight
    /\ Go(i, "idle", "launch")
    /\ UNCHANGED <<fileVars, kills, job, opened, watching, engineVars>>

(* The engine ends.  Until somebody has noticed, its pid file still names  *)
(* a process: the supervisor, or the child that nobody has waited for.     *)
EngineOff(i) ==
    /\ engine' = [engine EXCEPT ![i] = "off"]
    /\ mapped' = [mapped EXCEPT ![i] = NoRef]

Exit(i) ==
    /\ engine[i] # "off"
    /\ EngineOff(i)
    /\ UNCHANGED <<fileVars, kills, pc, job, opened, watching, tracked>>

Noticed(i) ==
    /\ i \in tracked /\ engine[i] = "off"
    /\ tracked' = tracked \ {i}
    /\ UNCHANGED <<fileVars, kills, pc, job, opened, watching, engine, mapped>>

(* japm stop: an engine whose pid file names nobody is not killed.         *)
Stop(i) ==
    /\ pc[i] = "idle"
    /\ \/ Running(i) /\ EngineOff(i)
       \/ ~Running(i) /\ i \in watching /\ UNCHANGED <<engine, mapped>>
    /\ watching' = watching \ {i} /\ tracked' = tracked \ {i}
    /\ UNCHANGED <<fileVars, kills, pc, job, opened>>

(* The process that deploys is killed between two system calls; it is the  *)
(* watchdog, or another one that `japm start` runs in.                     *)
KillJob(i) ==
    /\ pc[i] # "idle" /\ kills < MaxKills
    /\ kills' = kills + 1
    /\ pc' = [pc EXCEPT ![i] = "idle"]
    /\ job' = [job EXCEPT ![i] = NoJob]
    /\ opened' = [opened EXCEPT ![i] = NoRef]
    /\ watching' \in {watching, watching \ {i}}
    /\ UNCHANGED <<fileVars, engineVars>>

(* The watchdog is killed, or the supervisor: the engine runs on.          *)
KillKeeper(i) ==
    /\ kills < MaxKills
    /\ kills' = kills + 1
    /\ \/ /\ pc[i] = "idle" /\ i \in watching
          /\ watching' = watching \ {i}
          /\ UNCHANGED tracked
       \/ /\ i \in tracked
          /\ tracked' = tracked \ {i}
          /\ UNCHANGED watching
    /\ UNCHANGED <<fileVars, pc, job, opened, engine, mapped>>

(* A file that was there a moment ago is gone: the exception ends the      *)
(* start, or the watchdog's attempt.                                       *)
Raise(i) ==
    /\ \/ pc[i] = "read" /\ src = 0
       \/ pc[i] = "rename" /\ lib[Dir(i)].stock = None
    /\ pc' = [pc EXCEPT ![i] = "idle"]
    /\ job' = [job EXCEPT ![i] = NoJob]
    /\ UNCHANGED <<fileVars, kills, opened, watching, engineVars>>

-----------------------------------------------------------------------------
(* The admin: make, make clean, and unpacking a newer JA+.                 *)
Build ==
    /\ builds < MaxBuilds
    /\ builds' = builds + 1 /\ src' = builds + 1
    /\ UNCHANGED <<lib, owed, realLib, installs, kills, pc, job, opened, watching, engineVars>>

Clean ==
    /\ src # 0
    /\ src' = 0
    /\ UNCHANGED <<lib, owed, realLib, builds, installs, kills, pc, job, opened,
                   watching, engineVars>>

(* A library that is put where there is no backup is the one to be kept;   *)
(* one that is put over the wrapper is not: deployment preserves "once".   *)
Install ==
    /\ installs < MaxInstalls
    /\ \A i \in Instances : pc[i] = "idle" /\ engine[i] = "off"
    /\ installs' = installs + 1
    /\ \E d \in DOMAIN Dirs :
          /\ lib' = [lib EXCEPT ![d].stock = Original(installs + 1)]
          /\ owed' = IF lib[d].real = None
                     THEN [owed EXCEPT ![d] = Original(installs + 1)] ELSE owed
    /\ UNCHANGED <<src, realLib, builds, kills, pc, job, opened, watching, engineVars>>

Next ==
    \/ Build \/ Clean \/ Install
    \/ \E i \in Instances :
          \/ Begin(i) \/ Read(i) \/ Check(i) \/ Rename(i) \/ Open(i) \/ Write(i)
          \/ Launch(i) \/ Relaunch(i) \/ Exit(i) \/ Noticed(i) \/ Stop(i)
          \/ KillJob(i) \/ KillKeeper(i) \/ Raise(i)

Spec == Init /\ [][Next]_vars

-----------------------------------------------------------------------------
(* japm/README: the deployment "preserves the original as                  *)
(* japlus_real_i386.so once".  Whenever it is interrupted and whatever it  *)
(* is repeated on, the library that a directory held when it was first     *)
(* deployed there is still in one of its two files.  One that the admin    *)
(* unpacks over the wrapper later is not covered: ensure_proxy overwrites  *)
(* it without a copy.                                                      *)
OriginalKept ==
    \A d \in DOMAIN Dirs :
        owed[d] # None => owed[d] \in {lib[d].stock, lib[d].real}

(* What is under the backup's name is that library, never a wrapper, which *)
(* would end up calling itself, nor half of one.  A directory that held a  *)
(* wrapper without a backup is left out: ensure_proxy goes on, and makes   *)
(* that wrapper the backup once it has been rebuilt.                       *)
BackupIsOriginal ==
    \A d \in DOMAIN Dirs : owed[d] # None => lib[d].real \in {None, owed[d]}

(* ensure_proxy: "Returns True when the engine will load the wrapper".     *)
(* An engine launched after a deployment loads the whole wrapper, and the  *)
(* wrapper finds an original library behind it; also after attempts that   *)
(* were killed half-way, and when the wrapper has since been rebuilt.      *)
(* Unless proxy.real_lib names another wrapper, or no library was ever     *)
(* there to be kept.                                                       *)
ChainedByConfig(i) ==
    At(realLib).kind = "wrapper" /\ realLib # <<job[i].dir, "stock">>

LaunchesProtected ==
    [][\A i \in Instances :
          i \in tracked' \ tracked /\ job[i] # NoJob
            /\ owed[job[i].dir] # None /\ ~ChainedByConfig(i)
              => engine'[i] = "protected"]_vars

(* No library file is truncated while an engine has it mapped and its pid  *)
(* file names a live process.  Once the supervisor has been killed a start *)
(* overwrites the library of the engine it is about to kill.               *)
MappedUntouched ==
    [][\A i \in tracked, ref \in Ref :
          mapped[i] = ref /\ mapped'[i] = ref /\ At(ref) # Partial
              => lib'[ref[1]][ref[2]] # Partial]_vars
=============================================================================
