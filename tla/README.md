# Verification of japlusproxy and japm

TLA+ specifications of this repository: a wrapper library that sits between a
stock JA+ game server and its game module (`src/proxy`), and a manager that
deploys the wrapper and keeps the server running (`src/japm`). TLC checks the
specifications on small instances, TLAPS proves the theorems listed below for
all values of the constants.

    tlc -config RconGuard.cfg MCRconGuard.tla         # any run of PROJECT.json
    tlapm RconGuardProofs.tla                         # any module of proofs

`PROJECT.json` lists the runs, which lines of the source each definition models
(`map`), the disagreements found (`findings`) and the hazards the properties
are aimed at.

## The system

| Part | State | Operations | What is hard | Correct when |
|---|---|---|---|---|
| rcon guard, `patch.c` `Detour_Rcon` | table of 64 buckets, drop counter, time of last report | one per rcon packet | the `int` clock wraps; the table is full | an address gets a burst, then one attempt per period; no address owns two buckets |
| connectionless guard, `patch.c` `Detour_Connless` | 256 buckets, a shared bucket, cached rates, drop counter | one per packet; refresh of the rates | as above; rates change under the buckets; two limits in a row | both limits hold and stay armed; rates are not out of date |
| hook planting, `patch.c` `InstallPatches` | the code at four sites, trampolines, inventory, counters | plant one hook, summary, `RemoveHooks` | one of several fails; distances that do not fit | nothing is patched blindly; what is reported is true; what was saved is restored |
| donedl and siege guards, `patch.c` | drop counter, time of the last report | one decision each | the `int` clock wraps | every drop is reported, and soon |
| game module boundary, `proxy.c` `dllEntry`, `vmMain`, `Proxy_Syscall` | real entry points, `g_engine` | filter every call in both directions | calls in any order, re-entrance, lengths counted by hand | nothing refused reaches the other side; everything else does, unchanged; the game is entered before it is called |
| userinfo sanitizer, `proxy.c` | none | check and rewrite key/value data | repeated keys, length limits, its own output coming back | output acceptable, settles, legitimate data unchanged |
| loading, `proxy.c` `LoadReal` | `g_real`, `g_patches_done` | try candidates in order | may find itself | adopts an original library if there is one |
| deployment, `japm.py` `proxy_preflight`, `ensure_proxy` | two file names in two directories | rename, overwrite | several instances, interruption, rebuilt or reinstalled files | the original survives; engines load the wrapper |
| verification, `japm.py` `verify_proxy` | engine log | truncate, then read until a line shows up | races with the engine's writes | the verdict is about the engine just launched |
| lifecycle, `japm.py` `cmd_*`, watchdog, `start_engine`, `stop_processes` | processes, pid files | start, stop, restart, watch, supervise | processes that die between any two steps, zombies, pid files out of date | stop stops everything; a crash is followed by a restart; one engine |
| log watcher, RCON client, `japm.py` | file position, socket | poll, send, dispatch | torn lines, late and double answers | each event once and in order; answers match commands |
| standalone plugins, `japm.py` | processes, pid files, `standalone` | start, respawn, stop | deaths at any time, zombies, a stop during a respawn | one process per plugin; a stop stops them; the dead return |
| configuration, command line, installation | files | read, merge, render, print | – | – |

The engine loads the wrapper instead of the game module (`dllEntry`); the
wrapper finds the real module (`LoadReal`), patches it and the engine
(`InstallPatches`), and from then on is called by the engine (`vmMain`), by the
game (`Proxy_Syscall`) and by the patched functions (the detours), always on the
engine's main thread. japm's processes see the engine only through pid files,
signals, the screen session, the log and rcon; its watchdog deploys and launches
with the same functions as the start command.

## Modules

| Module | Models | Composes |
|---|---|---|
| `Int32` | the wrapping `int` of 2·`Half` values | |
| `LeakyBucket` | `OOB_NowMs`, `OOB_RateLimit`, `BucketFor`, the report gate | `Int32` |
| `RateContract` | no code: what a per-address throttle promises | |
| `RconGuard` | `Detour_Rcon` | `LeakyBucket`; implements `RateContract` |
| `OobGuard` | `Detour_Connless`, `OOB_ShouldDrop`, `OOB_RefreshCfg` | `LeakyBucket`; its shared bucket keeps `RateContract` |
| `HookPlant` | `InstallPatches`, `PlantHook`, `HookAuto`, `TrackHook`, `HookArmed`, `RemoveHooks` | `Int32` |
| `Deploy` | `proxy_preflight`, `ensure_proxy`, `build_env`, `LoadReal` | |
| `Userinfo` | `vmMain` on a changed userinfo, `SanitizeUserinfo`, `Info_Value`, `Info_Set`, `CleanName` | `Lists` |
| `Lists` | what `Info_Set` and `CleanName` leave of a sequence | |
| `Commands` | `ShouldBlockClientCommand`, `JAPlusBlock`, `VanillaBlock` and the tests they use; beside them the policy that the comments state | |
| `Donedl` | `Detour_DoneDownload` and its reports | `LeakyBucket` |
| `Boundary` | `dllEntry`, `LoadReal`'s outcome, every case of `vmMain` and `Proxy_Syscall`, `Detour_SiegeFind` | `Userinfo`, `Commands`, `Donedl` |
| `Lifecycle` | `cmd_start`, its daemon and watchdog, `start_engine` and its supervisor, `stop_processes`, `cmd_stop`, `cmd_restart` | |
| `RconClient` | `RCONClient` and what may become of a command and its answer | |
| `LogTail` | `LogWatcher` (`start`, `poll`, the outcomes of `_parse_line`) and the log it follows | |
| `Plugins` | `start_standalone_plugins`, the watchdog's respawn, what `stop_processes` does to plugins | |
| `Watch` | what `cmd_start` does to the two logs, `verify_proxy`, the manager's loop | `RconClient`, `LogTail`, `Plugins` |
| `MC*` | instances for TLC | |
| `OperatorProofs` | lemmas on the wrapping clock, the limiter, the tables, and on sequences | |
| `RconGuardProofs`, `OobGuardProofs`, `HookPlantProofs`, `BoundaryProofs`, `DeployProofs`, `LifecycleProofs`, `WatchProofs` | theorems about the module of their name | `OperatorProofs`, but for `DeployProofs` and `LifecycleProofs` |

Definitions keep the names of the source. Operators whose comment begins with
"Wrong:" are not part of a specification: each is a variant of the definition
that follows it, with a mistake one could make there, and shows that the
properties would notice.

**Guards.** A packet is handled to its end on one thread, so it is one action.
`now` is the machine's uptime, an unbounded number; the code sees
`ClockMs(now)`, its low bits. Signed overflow in `now - *lastTime` is taken to
wrap, as the i386 build does it. `clock_gettime` is taken to succeed. The 64
and 256 entries are a constant. History variables (`stamp`, `stampAll`,
`watch`, `changed`) are never read by the modelled code: `stamp[i]` is the
uptime whose low bits are the `lastTime` of bucket i, `watch` counts what one
address got through since some instant, `changed` is when an admin last set a
cvar. `OOB_NowMs` is read a second time for a report; the model lets both
readings fall in the same millisecond.

**Hooks.** A site runs its own code or jumps to an address. What was loaded is
the environment, fixed in the initial state: which sites have the recorded
bytes, on which the length disassembler agrees, at which memory can be had. The
distance of a site's jump is computed, and wraps; a trampoline is what it
resumes, and the distance of its own jump back (`patch.c:54`) is not computed.

**Userinfo.** One slot of the engine, whose string `vmMain` reads, replaces and
hands on in one call. The string is a sequence of pairs and a rest that is not a
pair. A value has a size and is good or bad for its key; the tests of its
characters are not modelled, but those of `CleanName` are, on the text of a
name. What `vmMain` writes back with `G_SET_USERINFO` the engine keeps up to
`MaxInfo`, its MAX_INFO_STRING: `Stored` cuts off the rest, between two pairs,
in a key or in a value (`CutValue`), and a value that has been cut may be good or
bad. `MayBeCut` says of a key that its pair is the last one of a userinfo that fills
what is kept. `Resend` is the client that sends what it has been given.

**Boundary.** The engine and the game are the environment: the engine connects
a client, has it begin, passes on its commands and userinfo and disconnects it;
the game asks for input and map tokens, sends commands and configstrings, and
drops clients. A call and everything that happens inside it is one action, and
`heard` is what the game is told in it, in order: a client whose command is a
cheat's is dropped (`G_DROP_CLIENT`), and the engine's disconnect reaches the game
before `vmMain` returns. There is one client; the slot it has is an
input. A word of a command is the literal it begins with, its size, the worst of
its characters and where that stands: enough to tell `StrCaseEq`'s counts, the
buffers' ends and the tests of characters apart. Buffers, limits and the game's
constants have their values in the code. Texts that are only printed, and
`G_PRINT`, are left out. `LoadReal` tries one library here; which file it is, is
in `Deploy`. A library that turns up after `dllEntry` is `LibAppears`.

**Watch.** One manager from the launch of the engine on. The log of the game is
a sequence of lines and halves of lines, since the engine may be caught between
two flushes; what the parser makes of a half is each of the outcomes the
expressions of `_parse_line` allow for some place to tear the line. The socket
is a queue: the server answers in none, one or two packets, at any time, also
after `send` has given up. What a plugin does with an event is that it may send
a command. The manager is sequential (`at`); a plugin that has a command out
holds it up. Plugin processes become zombies of whoever started them, as in
`Lifecycle`; the start command exits after the fork, unless `JAPM_FG` is set.
The stop may begin at any point of the loop.

**Deployment.** One action per system call on the two library names. A handle
(an open file, a mapped library) follows the file when it is renamed. `KillJob` kills
the process that deploys between any two calls; `KillKeeper` kills the watchdog, or,
with screen, the supervisor that the engine's pid file names (without screen that
process is the engine, and its death is `Exit`). Whether that process lives is
`tracked`, which is what a start asks for (`Running`), not whether the engine runs:
with screen the two part when the supervisor is killed. The admin builds, cleans,
and installs a newer JA+ while nothing of the server runs. `owed` remembers, for each
directory, the library that was there when it was first deployed to. The
initial states are seven layouts: the ones `src/README.md` and `src/japm/README.md`
set out, with the wrapper under the stock name, and the wrapper alone, without a
backup, for which `ensure_proxy` has a branch; and `proxy.real_lib` may be unset or
name any of the files, one elsewhere, or nothing. Layout B of `src/README.md`, with an
engine that loads `japlusproxy.so`, has no deployment and is left out. One process
at a time deploys for an instance; what two of them do to each other is
`deploy_race`, which needs two instances to have two processes.

**Lifecycle.** A process has a kind, a state and a parent. It becomes a zombie
when it dies before its parent and is gone when its parent is (japm waits for
none of the children it keeps). `IsPidAlive` is signal 0, which a zombie
answers. The commands are processes of their own with a program counter; the
daemon is the continuation of the start command. Numbers are not reused, the
killing of the engine and the screen session is one step, the port is not
modelled, plugins and logs are in `Watch`, and deploying is taken to succeed
(`Deploy` is about that). Engines crash anywhere, in the middle of a launch too.

Nothing in japm keeps two of its processes from working on one instance at once:
there is no lock. `Hands` are those that are launching or stopping, and the history
variable `overlapped` records that there have been two of them, or that an engine was
launched while another process's watchdog was on duty. That takes two commands at once;
a command while a watchdog relaunches the engine (between the end of its five seconds
and the pid file); or a start within the five seconds. A stop or a restart within
the five seconds is not an overlap, nor is a relaunch between two commands.
`StopStops` and `OneEngine` are for the time before the first overlap. After one they
fail: two starts at once both find no engine and launch two; a stop that scans before a
launch is recorded leaves what is launched; a start
within the five seconds leaves two watchdogs, of which a stop finds one.

## What is checked

Bounds are named constants; every one appears in a guard or in the `.cfg`.
Deadlock is not checked: a bounded clock, a bounded number of commands, and in
the code a server that is stopped, all end.

| Run | Instance | Shows |
|---|---|---|
| `rcon` | 3 addresses, 2 buckets, burst 2, period 2, clock of 8 values, loaded at any uptime to 5, ends at 7 | `TableInv`, `WindowBound`, and that every step is one of `RateContract` |
| `oob` | 2 addresses, 1 bucket, rates of 1 or 3 (address) and 2 or 3 (all) per second of 5 ticks, set anew once, clock of 30 values, uptime 13 to 16 | both limits armed and up to date, windows of one address and of all, the shared bucket within `RateContract` |
| `hook_plant` | all 4 sites, every environment | `HooksSound`, `HookedIsTrue`, `TrackedRestored` |
| `hook_all_armed` | the same | *violated*: 4/4 armed |
| `boundary` | five scenes: any userinfo of up to 3 pairs of 14 kinds, keys repeated, some so full that the engine cuts what is written back, or a name of up to 5 characters, handled 3 times; loading, connecting and dropping in any order; each literal of the filters a letter short, whole and a letter long, with up to three arguments at the limits; the system calls at their limits; donedl with a clock of 16 values | the game finds acceptable values unless the engine has cut them, other pairs stay, no key is lost of what the engine keeps whole, and it settles (`GameAccepts`, `LegitUntouched`, `Settles`); it gets no command the policy denies, and every harmless one (`PolicyKept`); it is entered first (`EntryFirst`), hears of a client only while it is there (`NoGhost`), and gets acceptable input (`GameShielded`); drops are reported (`ReportsTimely`) |
| `userinfo_cut` | the scene of userinfos | *violated*: what is appended fits MAX_INFO_STRING |
| `deploy_one` | 1 instance, 7 layouts, any `proxy.real_lib`, 3 builds, 1 install, 3 kills | the library first deployed over is kept, the backup is that one, launches are protected, no file is truncated under an engine whose pid file names a live process |
| `deploy_race` | 2 instances, 1 build | *violated*: the original is kept |
| `life` | 3 commands or scheduled restarts one after another and a crash anywhere, with and without screen; 3 overlapping restarts with screen | a stop stops everything and there is one engine, through crashes and relaunches, up to the first overlap; a restart comes back up; orphaned supervisors leave |
| `life_screen_crash` | 1 crash, screen | *violated*: a crash is followed by a restart |
| `watch` | eight scenes of up to 3 lines of the log, 3 commands in 1 or 2 packets, 2 deaths of a plugin, 1 crash, a stop, with and without screen and `JAPM_FG` | answers stay in step until one is late (`InStep`); a torn line costs no other (`WholeLinesTold`); the verdict is about an engine this manager launched (`VerdictFresh`); of a plugin no more processes run than there were launches, they stop, and one that the start command started returns (`OnePerPlugin`, `PluginsStop`, `PluginsReturn`); the loop comes round (`KeepsWatch`) |
| `plugin_respawn` | a daemon, 2 deaths of its plugin, nothing else | *violated*: a plugin that dies is started again |

*Why the bounds are enough.* The arithmetic of the guards depends on the ratios
of burst, period, window and clock range, not on their size: the instances have
more than one period per burst, more addresses than buckets, and clocks that
pass the change of sign while buckets are in use. `rcon` ends one tick short of
the clock's full circle: after a full circle under a bucket the limiter cannot
tell the pause from none, the debt is kept too long, and the contract, not
`WindowBound`, fails; the theorem has the same assumption, 2·`Half` ms being
49.7 days. `WindowBound` beyond the full circle, and for a period that does not
divide the clock's range, is what the theorem adds. In `oob` one value of a cvar
stands for its absence and one for a rate above the maximum, and a rate of 2
does not divide a second; two values for each cvar and one change of them meet
every pair of old and new rates. Its clock changes sign while buckets are in use, and its
uptime stays within half a turn after the game is loaded, which `ConfigFresh` needs:
over a longer silence `now - oob_cfg_time` is negative and the old rates are kept
for the first packets after it. A userinfo has six keys that
are handled alike but for their replacement, so three pairs meet every order of a
replaced, a repeated and an untouched key; the longest name is four characters
here, so that five hold a run of three, with a control or a blank beside it, and
one more than is allowed. `MaxInfo` and `Buffer` are scaled with them: three
pairs reach the one, so that what is written back may exceed it and be cut at any
character of its last pair, and a repaired userinfo never the other
(`UserinfoAssumption`), as with 1024 and 2048 in the code. The scenes of
`Boundary` divide what may happen by what it touches: a command or a system call
neither reads nor writes anything that another leaves behind, so each is judged
alone, but the order of calls is explored with samples of them all. The clock of
`Donedl` starts at three uptimes and passes its change of sign. The scenes of
`Watch` overlap in pairs: every kind of line torn before another, a crash amid
a line, deaths before, in and after a restart or a stop; the third command shows
that a late answer shifts all that follow. Deployment has two names in two directories and no other
state, so two instances and three builds meet every combination of contents. In
`Lifecycle` three commands are enough for a start, a crash and a relaunch with
a stop, a restart or a scheduled restart at any moment of it, and a command after that;
they start twelve processes at most while nothing overlaps, which is `processes`
of the first two scenes. In the third, overlapping restarts, nine may be used up, which
blocks launches but no supervisor's way out.

*Fairness.* `Lifecycle` assumes weak fairness of each japm process, that is,
that the operating system keeps scheduling it; `Watch` assumes it of the one
manager, whose wait for an answer ends after four seconds (`TimeOut`), and of
neither server, engine nor plugins. `KeepsWatch` also needs the log to be
bounded, which `MaxLines` is: `poll` reads to the end of the file.
Commands, crashes and scheduled
restarts are not fair. `Waited` carries the one assumption on timing:
the five seconds a watchdog sleeps before it restarts an engine outlast
the moment between the first and the last process a stop kills, so a stop that
has begun to kill gets to the watchdog. (A stop kills within a few commands of
each other; the one loop in it that can take longer, waiting for the port,
comes after the engine is dead and ends when it does not answer.) Without it
`StopStops` fails.

## What is proved

Each theorem holds for every value of the constants that the named assumptions of
its module admit (`HalfAssumption`: an `int` has at least two values;
`RconAssumption`: a burst that fits in half the clock's range, at least one
bucket; `UserinfoAssumption`: room in `vmMain`'s buffer for what the engine
keeps and three replacements; `BoundaryAssumption`: a command is a line of words of
at most 1023 characters; `LifecycleAssumption`: a watchdog gives up no later than a
supervisor; and so on). Nothing else is assumed, except where a theorem says so.

| Module | Theorem | Property |
|---|---|---|
| `RconGuardProofs` | `TypeCorrect`, `TableWellFormed`, `WindowBounded` | `TypeOK`, `TableInv`, `WindowBound` |
| | `ImplementsContract` | `RconGuard` implements `RateContract`, while the uptime stays below one turn of the clock |
| `OobGuardProofs` | `TypeCorrect`, `Armed`, `WindowBounded` | `TypeOK`, `LimiterArmed`, `WindowBound` |
| | `ConfigStaysFresh` | `ConfigFresh`, within half a turn of the clock (24.8 days) after loading |
| | `SharedBucketKeepsContract` | `AllContractKept`, within one turn after loading (`ClockLasts`) |
| `HookPlantProofs` | `TypeCorrect`, `NeverBlind`, `ReportsTrue`, `Restores` | `TypeOK`, `HooksSound`, `HookedIsTrue`, `TrackedRestored` |
| `BoundaryProofs` | `BoundaryTypes`, `EntryComesFirst`, `ReportsInTime`, `NoGhosts` | `TypeOK`, `EntryFirst`, `ReportsTimely`, `NoGhost` |
| | `GameGetsAcceptable`, `LegitKept` | `GameAccepts`, `LegitUntouched` |
| | `OutputSettles` | `SettlesUncut`: `Settles`, but for a userinfo that fills what the engine keeps |
| | `GameIsShielded`, `PolicyIsKept` | `GameShielded`, `PolicyKept` |
| `DeployProofs` | `TypeCorrect`, `OriginalSurvives`, `BackupSound`, `DeploymentProtects`, `MappingsSafe` | `TypeOK`, `OriginalKept`, `BackupIsOriginal`, `LaunchesProtected`, `MappedUntouched`, for one instance |
| `LifecycleProofs` | `TypeCorrect` | `TypeOK` |
| | `StopIsFinal`, `EngineIsAlone` | `StopStops`, `OneEngine`: up to the first overlap, for any commands and crashes |
| `WatchProofs` | `WatchTypes`, `AnswersInStep`, `WholeLinesAreTold`, `VerdictIsFresh` | `TypeOK`, `InStep`, `WholeLinesTold`, `VerdictFresh` |
| | `PluginsRunOnce`, `StopEndsPlugins` | `OnePerPlugin`, `PluginsStop` |

**Guards.** `WindowBound` is not inductive: it says nothing of the buckets. The
inductive invariant `Inv` adds that `lastTime` is the low bits of a past uptime
(`StampInv`), and that the address watched has a bucket whose *debt*,
burst · period + stamp, exceeds the window's start by one period for every
admission, up to one period of rounding (`WatchInv`). An admission raises the debt by
exactly one period, unless the limiter restarts the bucket, and then it raises
it by more or starts from a drained bucket: `DrainLemma` and `RateLimitLemma`
say this of the arithmetic, from `WrapDiff` and `IntervalLemma`, which recover
the pause from the wrapped difference. A level never exceeds the burst, which
turns the debt into the bound (`InvBounds`).

`OobGuard` follows the same argument twice, for the bucket of the address
watched (`IpOwes`) and for the shared one (`AllOwes`). Its bursts and periods are
cached rates that may change, so `IInv` also has `CfgInv`: as long as the rates
have never been read no bucket is in use, and afterwards both are between 1 and
`MaxRate`, whatever the cvars hold. That is what `LimiterArmed` follows from:
a period is the quotient of a second by a rate (`QuotientFacts`). New rates end
the window; the bucket's level, kept from the old ones, may then exceed the
burst, which is why `Owes` says that it does not.

The two action properties of `OobGuard` depend on how long ago something was, so
`AgeInv` remembers when the module was loaded, and that nothing was read or charged
before. The cached rates are those of the cvars or were read before the last
change (`ReadAt`); a distance below half a turn is seen as it is (`WrapDiff`), and
`CfgKept` then keeps them for less than `CfgTtl`. The shared bucket is the contract
with one caller: when it is charged and passes, its debt grows by one period
(`AllChargedFrom`, `AllAdmits`), and when it does not, nothing is charged
(`AllDrops`). `ClockLasts` is one turn of the clock less a second, and bursts that
leak out in half a turn: 10 000 · 1000 ms against 2³¹.

The refinement of `RconGuard` maps `due[a]` to the debt of the bucket of `a`. It is
virtual scheduling: a request passes iff the debt, seen from now, is at most
burst − 1 periods.

**Hooks.** The three properties are made inductive by two facts: a site whose
turn has not come runs its own code (`Untouched`), and what the inventory has
saved is a site's own code (`SavedOwn`). The rest is that a jump lands where it
should although its distance wraps (`TargetIsDetour`).

**Boundary.** `EntryInv` ties the four flags of loading together: once
`dllEntry` has been called and a library can be found, either the game's own
`dllEntry` has been called or the library was late. Every case of `vmMain` is
`VmMain` with other calls, so one lemma (`VmMainLemma`) settles them all.
`ReportInv` says that the time of the last report is the low bits of an uptime in
the past; a gate that stays shut then means that less than the gap has passed or
that the clock has changed sign (`WrapBelow`).

`NoGhost` compares what the game is told in a call with what it knew before:
`CallInv` says that the engine's view and the game's are the same between calls, and
each action is looked at for the calls it makes (`AfterOne`, `AfterTwo`). An input or
a line that has been judged is remembered with the verdict (`JudgedInv`); the rest of
`PolicyKept` is about the filter alone: what it lets through is allowed
(`PolicySound`) and what is harmless it lets through (`PolicyComplete`), both by cases
on the literals and on which of a line's arguments the buffers cut.

**Userinfo.** A pair is found, appended and left out (`LookupLemma`, `LookupAppend`,
`LookupFilter`); from these follow what one `Info_Set` leaves (`Info_SetLemma`), what
one key's check leaves (`SanitizeLemma`), and, key by key, what all six leave
(`Handled`, `HandledStep`): the keys that were dirty have a clean value or none, the
others are as they were and in order. `Handled` also counts the characters:
a replacement adds at most its own size, so the buffer, which has room for three of
them beside what the engine keeps, never refuses one (`RefillLemma`). What the engine
then keeps is those pairs up to one of them, and perhaps the beginning of that one
(`StoredLemma`): so a value is the one written or the last of a full userinfo and a
part of it (`StoredValue`), and, the replacements being behind the pairs that were left
alone, no other pair is lost (`StoredOthers`). `CleanTwice`
is the argument for `Settles`: cleaning drops controls and the beginnings of runs of three,
what a first pass leaves has no controls, so a second pass leaves no run of three
and no blank in front, and such a text a third pass does not change (`CleanOnce`,
`CleanFixed`).

**Deployment.** What a process has seen of a file may be out of date when it
acts. `JobInv` says how much of it one instance may rely on at each point of its
code: that there is no backup when it is about to rename, that there is one when
it truncates. `LibInv` says of each directory that the library owed is the
backup, or that there is no backup and it still has its own name (`Kept`). With two instances
`JobInv` fails, as `deploy_race` shows. For the two action properties, `LaunchInv` adds how
far a deployment has come when an engine is started (`Deployed`), and that the pid
file of an instance whose process deploys names nobody: nothing that is tracked maps what
is truncated.

**Lifecycle.** That the types are right needs to know what a process remembers
(`Recalls`): a watchdog that may find its engine gone has not used up its restarts,
an unused number has no memory. `StopStops`
and `OneEngine` follow from `CInv`: unless there has been an overlap, `SInv`
holds. It says that the one process with its hands on the instance is alone
(`OnlyHand`), and how far it has come (`Progress`): before it starts an engine there is
none; between the engine's start and the pid file's entry the engine is its own, dead
or alive; while it stops, whatever still runs is on its list, and the pid file that
leads there is right. An engine that runs and is not being launched is the one the pid
file names, or its supervisor is (`Tracked`, `Up`), so a test that finds that number
dead finds nothing running (`DeadQuiet`), which is why a watchdog that waits to
relaunch waits alone. A watchdog on duty is the one its pid file names
(`ManagerInv`), so a stop finds it, awake or asleep, and a supervisor never suspects
its engine gone (`NeverSuspects`). There is no assumption on which commands
are given, when engines crash, or how often watchdogs relaunch.

**Watch.** Each argument is about a part of the state, and all steps that leave it
alone are settled by one lemma. `RconInv`: as long as nothing has slipped, at
most one command or answer is on its way, the last one. `LogInv`: once the log
has been emptied it holds lines of this manager's launches, because the engine that prints is
the one launched last; `OrderInv` says that the manager never comes back to
the steps before that but by another launch, and that a stop finds it past them.
`PlugInv`: the process of a plugin that runs is the one the manager keeps and the
one in the pid file (`Single`), so a stop that goes by the pid files finds it, and
the loop replaces only what is dead (`StartLemma`); what ran when the stop began
is still on its list (`Awaited`). After a second launch `Single` fails; `CountInv` then counts: of a plugin's
processes, those that are not the one the manager keeps (`Others`) are fewer than the
launches, since only a launch makes the manager forget one that runs.

`WholeLinesTold` speaks of the moments when nothing is left to parse. `TellInv`
extends it to all others: what has been told, followed by what the pieces not yet
parsed have to tell, is what lies between where the watcher started and where it is.
A poll adds on both sides what `Split` makes of the unread cells; that its complete
pieces are exactly the whole lines, and that only the last piece can be the head of
a line (`TellLemma`), is shown one cell at a time (`SplitOK`, `SplitAppend`), from
the fact that the halves of a line are neighbours (`Joined`, in `GlogInv`). So when
the parser fails at a head there is no piece behind it to lose (`TellParse`), unless
an engine died in the middle of a line (`Spliced`), where the theorem says nothing.
`WatchTypes` adds that every launch but the first had its crash (`EngineInv`).

**Induction over data.** What `Filter`, `PairsSize`, `Length`, `After` and `Split`
compute for every sequence is proved without the library's induction theorems: a recursive
function is unfolded once and for all (`RecursionExists`, `FilterUnfold`,
`SizeUnfold`, `LengthUnfold`, `AfterUnfold`, `SplitUnfold`), and a fact about all sequences is the fact that
a set contains the empty one and is closed under `Append` (`SeqSetInduction`, from
the least number that is in a set, `LeastExists`).

*Model-checked only.* Liveness under fairness (`RestartReturns`, `OrphansLeave`,
`PluginsReturn`, `KeepsWatch`) and `ENABLED` are out of the prover's reach. Every
invariant and every other property of a passing run is a theorem, with the provisos the
table names; how `Settles` goes on after a cut is model-checked. No module
declares a `RECURSIVE` operator.

## Where the code and its documents differ

Five runs that TLC finds violated; `PROJECT.json` quotes the lines.

- `hook_all_armed`: `hooks_armed=4/4` is never reported. The inventory holds
  eight saved bytes, two hooks overwrite nine, and a hook without an entry
  counts as not armed.
- `deploy_race`: two instances deploying for the first time together can
  overwrite the preserved original with a wrapper.
- `life_screen_crash`: with screen, a crash is noticed by nobody.
- `userinfo_cut`: a replacement is appended "if it fits (MAX_INFO_STRING)"
  (`proxy.c:563`), but `Info_Set` tests the size it is given, which is 2048. What
  the wrapper writes back may be longer than what `UserinfoLooksEvil` takes for the
  engine's limit (`proxy.c:481`); the engine keeps the beginning, so a replacement may be
  lost, or cut to a value that the wrapper would replace again (`MayBeCut`).
- `plugin_respawn`: a plugin that the loop has started is its child, and a zombie
  when it dies, which signal 0 reaches (`japm.py:1012`): it is not started again,
  nor is any under `JAPM_FG`, where `src/japm/README.md:58` has "standalone plugin
  respawn". `PluginsReturn` is what holds: the ones of the start command are
  started again once.

The models reproduce more of them, which have no run of their own:

- `RemoveHooks` ("restore every planted hook", `patch.c:141`) leaves the two
  nine-byte hooks in place, for the reason above.
- In the 32-bit build every distance fits in `intptr_t`, so the absolute jump
  that `src/README.md:198` speaks of is never chosen. The jumps reach by
  wrapping (`HooksSound` holds).
- After the clock has changed sign, the tables evict their newest entries first
  (`Older`), where `patch.c:368` speaks of the oldest.
- The filter for `saber_droid` (`proxy.c:416`) compares ten letters of eleven, so
  the creature passes and `saber_droi` is refused; `PolicyKept` says nothing of that
  word.
- A JA+ library that is unpacked over the deployed wrapper differs from it and
  is overwritten without a copy: preserving is done "once" (`Install`, then `Check`).
  `OriginalKept` promises the first one only.
- The wrapper alone in a directory is accepted by `ensure_proxy`; rebuilt, it
  becomes the backup of its successor (`Alone`).
- With screen, a start asks for the supervisor. If that was killed, the
  library of the engine, which still runs, is overwritten before `start_engine`
  kills it, and a stop does not find it (`KillKeeper`).
- `CleanName` "collapses runs" (`proxy.c:583`), but a control character between
  blanks hides a run; `Settles` shows that the second call finds it.
- `StrCaseEq` is given 12 for `darksidetools` (`proxy.c:615`), one less than its
  length. In `Userinfo` a model that is "cheat" is the shorter word.
- The policy for `amrename` looks at the name only: what follows it may hold
  anything (`SeenWhole`). Words of more than 255 characters are judged by their
  first 255, and `strlen(arg2) >= 256` (`proxy.c:429`) is never true.
- A userinfo is not sanitized on GAME_CLIENT_CONNECT: the game has it as the
  client sent it until GAME_CLIENT_USERINFO_CHANGED.
- Without a library `vmMain` returns −1, which for GAME_CLIENT_CONNECT is not
  NULL. One that turns up after `dllEntry` is patched and called, but its own
  `dllEntry` never is (`late` in `EntryFirst`).
- After the clock has changed sign, no drops are reported until it comes round to
  where the last report was (`SignChanged`).
- With two instances in one GameData directory, the second one to start deploys
  a rebuilt wrapper into the file the first one's engine has mapped:
  `MappedUntouched` is for one instance.
- Without screen the watchdog restarts a crashed engine once. The engine it has
  started is its own child, a zombie when it crashes, and taken for alive: after a
  second crash `CrashRestarted` fails there too, and the five tries are never used up.
- A start in the watchdog's five seconds makes a second watchdog; a stop finds
  one of them, and the other starts the engine again. That, a stop in the middle
  of a relaunch and two commands at once are the overlaps that `StopStops` and
  `OneEngine` except.
- The engine's log, "never discarded" (`japm/README.md:54`), is emptied by every
  start, and after the launch: lines of a wrapper that is quicker than that are
  lost, and the verdict is "none". A restart by the watchdog does not empty it,
  and the verdict may be that of the lines of an earlier launch (`VerdictFresh` is
  for all of this manager's).
- `verify_proxy` reads until there is any line: with a skipped hook first, it
  may report "all hooks SKIPPED" of a wrapper that arms the next one.
- An answer to RCON that comes after four seconds is taken for that of the next
  command, and so on from there (`slipped`).
- After a restart of the engine every plugin is started once more, also those
  that still run (`OnePerPlugin` allows one for each launch). One that is started
  between the moment a stop lists the pid files and the moment it gets to the manager is
  stopped by nobody (`PluginsStop` is about those of before, `spared`).
- `ok` is a variable in `cmd_start` (`japm.py:1056`): `ok(...)` at
  `japm.py:1063` is a TypeError, and the rest of that round of the loop, among
  it the start of the plugins, is left out (`Relaunch`).
- The first half of a line about a client that is leaving may raise an
  IndexError. That costs nothing as long as it is the last thing a poll has read;
  but an engine that dies there leaves it before the next line, and what the
  same poll has read behind the two is lost (`Spliced` in `WholeLinesTold`).

## Not modelled

- Configuration (`load_config`, templates, `generate_server_cfg`) and the
  informational commands: sequential text processing; nothing of it is kept
  between commands but the files themselves.
- The vendored length disassembler (`hde32.c`): its verdict on each site is
  `env.aligned` of `HookPlant`.
- Build and installation scripts: their effect on the wrapper's file is `Build`,
  `Clean` and `Install` of `Deploy`.
- In the components that are modelled in part: waiting for the engine's port,
  foreground mode in `Lifecycle` (it is in `Watch`),
  the registry of the plugin manager and what the automessage plugin says.
- A second client, several games loaded at once, and detours that run on another
  thread: the engine is single-threaded, and its clients meet in the wrapper only
  in the tables of the guards.
