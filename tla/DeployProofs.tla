---------------------------- MODULE DeployProofs ----------------------------
(***************************************************************************)
(* The deployment by one instance, for any number of builds, of newer      *)
(* libraries and of processes that are killed: the library to be kept is   *)
(* kept, and what is launched after a deployment is protected by it.       *)
(***************************************************************************)
EXTENDS Deploy, TLAPS

(* The library to be kept is the backup, or there is none yet and it still *)
(* has its own name.                                                       *)
Kept(d) ==
    owed[d] # None =>
        lib[d].real = owed[d] \/ (lib[d].real = None /\ lib[d].stock = owed[d])

LibInv == \A d \in 1 .. 2 : Kept(d)

(* How much of what it saw a process may still rely on. *)
JobInv(i) ==
    /\ pc[i] \in {"read", "check", "rename", "open", "write"} => job[i].dir \in 1 .. 2
    /\ pc[i] \in {"read", "check"} => Holds(job[i].dir)
    /\ pc[i] = "rename" => lib[job[i].dir].real = None /\ lib[job[i].dir].stock # None
    /\ pc[i] \in {"open", "write"} => lib[job[i].dir].real # None
    /\ opened[i] \in Ref => pc[i] = "write" /\ opened[i] = <<job[i].dir, "stock">>

IInv ==
    /\ TypeOK
    /\ LibInv
    /\ \A i \in Instances : JobInv(i)

(* The two directories, and what the contents of a name can be. *)
LEMMA DirsFacts ==
    /\ DOMAIN Dirs = 1 .. 2 /\ Len(Dirs) = 2
    /\ Ref = (1 .. 2) \X {"stock", "real"}
  BY DEF Dirs, Ref, Names

LEMMA AtFacts ==
    \A d \in 1 .. 2 : At(<<d, "stock">>) = lib[d].stock /\ At(<<d, "real">>) = lib[d].real
<1> SUFFICES ASSUME NEW d \in 1 .. 2
             PROVE  At(<<d, "stock">>) = lib[d].stock /\ At(<<d, "real">>) = lib[d].real
  OBVIOUS
<1>1. <<d, "stock">> \in Ref /\ <<d, "real">> \in Ref BY DirsFacts
<1>2. /\ <<d, "stock">>[1] = d /\ <<d, "stock">>[2] = "stock"
      /\ <<d, "real">>[1] = d /\ <<d, "real">>[2] = "real"
  OBVIOUS
<1>3. Elsewhere \notin Ref BY DirsFacts DEF Elsewhere
<1>4. \A ref \in Ref : At(ref) = lib[ref[1]][ref[2]] BY <1>3 DEF At
<1> QED BY <1>1, <1>2, <1>4

LEMMA KindFacts ==
    ASSUME NEW c \in Content
    PROVE  /\ c.kind = "none" => c = None
           /\ c # None => c.kind \in {"partial", "original", "wrapper"}
<1>1. CASE c = None BY <1>1 DEF None
<1>2. CASE c = Partial BY <1>2 DEF Partial
<1>3. ASSUME NEW v, c = Original(v) \/ c = Wrapper(v)
      PROVE  c.kind \in {"original", "wrapper"}
  BY <1>3 DEF Original, Wrapper
<1> QED BY <1>1, <1>2, <1>3 DEF Content

LEMMA ContentFacts ==
    /\ None \in Content /\ Partial \in Content
    /\ \A v \in 0 .. MaxInstalls : Original(v) \in Content
    /\ \A v \in 1 .. MaxBuilds : Wrapper(v) \in Content
    /\ None.kind = "none" /\ Partial.kind = "partial"
    /\ \A v : Original(v).kind = "original" /\ Wrapper(v).kind = "wrapper"
    /\ \A v : Original(v) # None
<1>1. None \in Content /\ Partial \in Content BY DEF Content
<1>2. \A v \in 0 .. MaxInstalls : Original(v) \in Content BY DEF Content
<1>3. \A v \in 1 .. MaxBuilds : Wrapper(v) \in Content BY DEF Content
<1>4. None.kind = "none" /\ Partial.kind = "partial" BY DEF None, Partial
<1>5. \A v : Original(v).kind = "original" /\ Wrapper(v).kind = "wrapper"
  BY DEF Original, Wrapper
<1>6. \A v : Original(v) # None BY <1>4, <1>5
<1> QED BY <1>1, <1>2, <1>3, <1>4, <1>5, <1>6

(* What can be owed. *)
Owable == {None} \cup {Original(v) : v \in 0 .. MaxInstalls}

LEMMA InitInv == Init => IInv
<1> SUFFICES ASSUME Init PROVE IInv OBVIOUS
<1> USE DirsFacts, ContentFacts, DeployAssumption
<1>1. \A r \in {Empty, Untouched, ByHand, Alone} : r \in [Names -> Content]
  BY DEF Empty, Untouched, ByHand, Alone, Names
<1>2. /\ Untouched.stock = Original(0) /\ Untouched.real = None
      /\ ByHand.real = Original(0)
  BY DEF Untouched, ByHand
<1>3. /\ DOMAIN lib = 1 .. 2 /\ lib = [d \in 1 .. 2 |-> lib[d]]
      /\ \A d \in 1 .. 2 : lib[d] \in {Empty, Untouched, ByHand, Alone}
  BY DEF Init
<1>4. lib \in [DOMAIN Dirs -> [Names -> Content]] BY <1>1, <1>3
<1>5. /\ owed \in [DOMAIN Dirs -> Owable]
      /\ \A d \in 1 .. 2 : owed[d] # None => lib[d] \in {Untouched, ByHand} /\ owed[d] = Original(0)
  BY DEF Init, Owable
<1>6. TypeOK
  <2>1. NoJob \in [dir : 0 .. Len(Dirs), current : Content, wrapper : Content] BY DEF NoJob
  <2>2. src \in 0 .. builds /\ builds \in 1 .. MaxBuilds /\ installs \in 0 .. MaxInstalls
        /\ kills \in 0 .. MaxKills
    BY DEF Init
  <2> QED BY <1>4, <1>5, <2>1, <2>2 DEF Init, TypeOK, Outcome, Owable
<1>7. LibInv BY <1>2, <1>5 DEF LibInv, Kept
<1>8. \A i \in Instances : JobInv(i)
  <2>1. NoRef \notin Ref BY DEF NoRef
  <2> QED BY <2>1 DEF Init, JobInv
<1> QED BY <1>6, <1>7, <1>8 DEF IInv

-----------------------------------------------------------------------------
(* Most steps leave the two names alone. *)
LEMMA SameLib ==
    ASSUME IInv, lib' = lib, owed' = owed PROVE LibInv'
  BY DEF IInv, LibInv, Kept

(* What an engine that has found a library makes of it. *)
LEMMA ResultType ==
    ASSUME TypeOK, NEW d \in DOMAIN Dirs, Loads(d) PROVE Result(d) \in Outcome
<1>1. lib[d].stock \in Content /\ lib[d].stock # None
  BY DEF TypeOK, Names, Loads
<1>2. At(<<d, "stock">>) = lib[d].stock BY DirsFacts, AtFacts
<1>3. lib[d].stock.kind \in {"partial", "original", "wrapper"} BY <1>1, KindFacts
<1> QED BY <1>2, <1>3 DEF Result, Outcome

(* The steps that leave the names alone, one by one. *)
Quiet(i) ==
    \/ Begin(i) \/ Read(i) \/ Check(i) \/ Launch(i) \/ Relaunch(i) \/ Exit(i)
    \/ Noticed(i) \/ Stop(i) \/ KillJob(i) \/ KillKeeper(i) \/ Raise(i)

LEMMA QuietLemma ==
    ASSUME IInv, NEW i \in Instances, Instances = {i}, Quiet(i)
    PROVE  IInv'
<1> USE DirsFacts, ContentFacts, DeployAssumption
<1> USE DEF Go
<1>1. /\ lib \in [DOMAIN Dirs -> [Names -> Content]]
      /\ kills \in 0 .. MaxKills
      /\ pc \in [Instances -> {"idle", "read", "check", "rename", "open", "write", "launch"}]
      /\ job \in [Instances -> [dir : 0 .. Len(Dirs), current : Content, wrapper : Content]]
      /\ opened \in [Instances -> Ref \cup {NoRef, Unlinked}]
      /\ watching \subseteq Instances /\ tracked \subseteq Instances
      /\ engine \in [Instances -> Outcome]
      /\ mapped \in [Instances -> Ref \cup {NoRef, Unlinked}]
      /\ src \in 0 .. builds /\ builds \in 1 .. MaxBuilds
      /\ JobInv(i)
  BY DEF IInv, TypeOK
<1>2. NoJob \in [dir : 0 .. Len(Dirs), current : Content, wrapper : Content]
      /\ NoRef \notin Ref
  BY DEF NoJob, NoRef
<1>3. lib' = lib /\ owed' = owed /\ src' = src /\ realLib' = realLib /\ builds' = builds
      /\ installs' = installs
  BY DEF Quiet, Begin, Read, Check, Launch, Relaunch, Exit, Noticed, Stop, KillJob,
         KillKeeper, Raise, fileVars, adminVars
<1>4. ASSUME /\ kills' \in 0 .. MaxKills
             /\ pc' \in [Instances -> {"idle", "read", "check", "rename", "open", "write",
                                      "launch"}]
             /\ job' \in [Instances -> [dir : 0 .. Len(Dirs), current : Content,
                                        wrapper : Content]]
             /\ opened' \in [Instances -> Ref \cup {NoRef, Unlinked}]
             /\ watching' \subseteq Instances /\ tracked' \subseteq Instances
             /\ engine' \in [Instances -> Outcome]
             /\ mapped' \in [Instances -> Ref \cup {NoRef, Unlinked}],
             JobInv(i)'
      PROVE  IInv'
  <2>1. TypeOK'
    <3>1. TypeOK BY DEF IInv
    <3> QED BY <3>1, <1>3, <1>4 DEF TypeOK
  <2> QED BY <1>3, <1>4, <2>1, SameLib DEF IInv
<1>5. CASE Begin(i)
  <2>1. PICK d \in DOMAIN Dirs : IsLibDir(d) /\ job' = [job EXCEPT ![i] = [NoJob EXCEPT !.dir = d]]
    BY <1>5 DEF Begin
  <2>2. /\ pc[i] = "idle" /\ pc' = [pc EXCEPT ![i] = "read"] /\ kills' = kills
        /\ opened' = opened /\ watching' = watching /\ tracked' = tracked
        /\ engine' = engine /\ mapped' = mapped
    BY <1>5 DEF Begin, engineVars
  <2>3. job'[i].dir = d /\ Holds(d)' /\ d \in 1 .. 2
    BY <1>1, <1>3, <2>1 DEF IsLibDir, Holds, NoJob
  <2>4. [NoJob EXCEPT !.dir = d] \in [dir : 0 .. Len(Dirs), current : Content, wrapper : Content]
    BY <1>2, <2>3
  <2>5. JobInv(i)' BY <1>1, <1>3, <2>2, <2>3 DEF JobInv, Holds
  <2> QED BY <1>1, <1>4, <2>1, <2>2, <2>4, <2>5
<1>6. CASE Read(i)
  <2>1. /\ pc[i] = "read" /\ pc' = [pc EXCEPT ![i] = "check"] /\ kills' = kills /\ src # 0
        /\ opened' = opened /\ watching' = watching /\ tracked' = tracked
        /\ engine' = engine /\ mapped' = mapped
        /\ job' = [job EXCEPT ![i] = [dir |-> Dir(i), current |-> lib[Dir(i)].stock,
                                      wrapper |-> Wrapper(src)]]
    BY <1>6 DEF Read, engineVars
  <2>2. job[i].dir \in 1 .. 2 /\ Holds(job[i].dir) BY <1>1, <2>1 DEF JobInv
  <2>3. lib[Dir(i)].stock \in Content /\ Wrapper(src) \in Content
    BY <1>1, <2>1, <2>2 DEF Dir, Names
  <2>4. /\ job' \in [Instances -> [dir : 0 .. Len(Dirs), current : Content, wrapper : Content]]
        /\ job'[i].dir = job[i].dir
    <3> DEFINE new == [dir |-> Dir(i), current |-> lib[Dir(i)].stock, wrapper |-> Wrapper(src)]
    <3>1. new \in [dir : 0 .. Len(Dirs), current : Content, wrapper : Content]
      BY <2>2, <2>3 DEF Dir
    <3>2. new.dir = job[i].dir BY DEF Dir
    <3> HIDE DEF new
    <3>3. job' = [job EXCEPT ![i] = new] BY <2>1 DEF new
    <3> QED BY <1>1, <3>1, <3>2, <3>3
  <2>5. JobInv(i)' BY <1>1, <1>3, <2>1, <2>2, <2>4 DEF JobInv, Holds
  <2> QED BY <1>1, <1>4, <2>1, <2>4, <2>5
<1>7. CASE Check(i)
  <2>1. /\ pc[i] = "check" /\ kills' = kills /\ job' = job
        /\ opened' = opened /\ watching' = watching /\ tracked' = tracked
        /\ engine' = engine /\ mapped' = mapped
        /\ pc' = [pc EXCEPT ![i] = IF ~Stale(i) THEN "launch"
                                   ELSE IF FirstDeploy(i) THEN "rename" ELSE "open"]
    BY <1>7 DEF Check, engineVars
  <2>2. job[i].dir \in 1 .. 2 /\ Holds(job[i].dir) BY <1>1, <2>1 DEF JobInv
  <2>3. \/ pc'[i] = "launch"
        \/ /\ pc'[i] = "rename"
           /\ lib[job[i].dir].real = None /\ lib[job[i].dir].stock # None
        \/ pc'[i] = "open" /\ lib[job[i].dir].real # None
    BY <1>1, <2>1, <2>2 DEF FirstDeploy, Holds, Dir
  <2>4. JobInv(i)' BY <1>1, <1>3, <2>1, <2>2, <2>3 DEF JobInv
  <2>5. pc' \in [Instances -> {"idle", "read", "check", "rename", "open", "write", "launch"}]
    BY <1>1, <2>1
  <2> QED BY <1>1, <1>4, <2>1, <2>4, <2>5
<1>8. CASE Launch(i)
  <2>1. /\ pc[i] = "launch" /\ pc' = [pc EXCEPT ![i] = "idle"] /\ kills' = kills
        /\ job' = [job EXCEPT ![i] = NoJob] /\ opened' = opened
        /\ watching' = watching \cup {i} /\ tracked' = tracked \cup {i}
    BY <1>8 DEF Launch
  <2>2. /\ engine' \in [Instances -> Outcome]
        /\ mapped' \in [Instances -> Ref \cup {NoRef, Unlinked}]
    <3>1. CASE \E d \in DOMAIN Dirs : Loads(d)
      <4>1. PICK d \in DOMAIN Dirs : /\ Loads(d)
                                     /\ engine' = [engine EXCEPT ![i] = Result(d)]
                                     /\ mapped' = [mapped EXCEPT ![i] = <<d, "stock">>]
        BY <1>8, <3>1 DEF Launch
      <4>2. Result(d) \in Outcome /\ <<d, "stock">> \in Ref
        BY <4>1, ResultType DEF IInv
      <4> QED BY <1>1, <4>1, <4>2
    <3>2. CASE ~(\E d \in DOMAIN Dirs : Loads(d))
      <4>1. /\ engine' = [engine EXCEPT ![i] = "broken"]
            /\ mapped' = [mapped EXCEPT ![i] = NoRef]
        BY <1>8, <3>2 DEF Launch
      <4> QED BY <1>1, <4>1 DEF Outcome
    <3> QED BY <3>1, <3>2
  <2>3. JobInv(i)' BY <1>1, <2>1 DEF JobInv
  <2> QED BY <1>1, <1>2, <1>4, <2>1, <2>2, <2>3
<1>9. CASE Exit(i) \/ Noticed(i) \/ Stop(i)
  <2>1. /\ watching' \subseteq Instances /\ tracked' \subseteq Instances
        /\ kills' = kills /\ pc' = pc /\ job' = job /\ opened' = opened
    BY <1>1, <1>9 DEF Exit, Noticed, Stop
  <2>2. JobInv(i)' BY <1>1, <1>3, <2>1 DEF JobInv, Holds
  <2>3. /\ engine' = [engine EXCEPT ![i] = "off"] \/ engine' = engine
        /\ mapped' = [mapped EXCEPT ![i] = NoRef] \/ mapped' = mapped
    BY <1>9 DEF Exit, Noticed, Stop, EngineOff
  <2>4. /\ engine' \in [Instances -> Outcome]
        /\ mapped' \in [Instances -> Ref \cup {NoRef, Unlinked}]
    BY <1>1, <2>3 DEF Outcome
  <2> QED BY <1>1, <1>4, <2>1, <2>2, <2>4
<1>10. CASE Relaunch(i)
  <2>1. /\ pc[i] = "idle" /\ pc' = [pc EXCEPT ![i] = "launch"] /\ kills' = kills /\ job' = job
        /\ opened' = opened /\ watching' = watching /\ tracked' = tracked
        /\ engine' = engine /\ mapped' = mapped
    BY <1>10 DEF Relaunch, engineVars
  <2>2. JobInv(i)' BY <1>1, <2>1 DEF JobInv
  <2> QED BY <1>1, <1>4, <2>1, <2>2
<1>11. CASE KillJob(i)
  <2>1. /\ kills < MaxKills /\ kills' = kills + 1
        /\ pc' = [pc EXCEPT ![i] = "idle"] /\ job' = [job EXCEPT ![i] = NoJob]
        /\ opened' = [opened EXCEPT ![i] = NoRef] /\ watching' \subseteq Instances
        /\ tracked' = tracked /\ engine' = engine /\ mapped' = mapped
    BY <1>1, <1>11 DEF KillJob, engineVars
  <2>2. JobInv(i)' BY <1>1, <1>2, <2>1 DEF JobInv
  <2>3. kills' \in 0 .. MaxKills BY <1>1, <2>1
  <2> QED BY <1>1, <1>2, <1>4, <2>1, <2>2, <2>3
<1>12. CASE KillKeeper(i)
  <2>1. /\ kills < MaxKills /\ kills' = kills + 1
        /\ pc' = pc /\ job' = job /\ opened' = opened /\ engine' = engine /\ mapped' = mapped
    BY <1>12 DEF KillKeeper
  <2>2. watching' \subseteq Instances /\ tracked' \subseteq Instances
    BY <1>1, <1>12 DEF KillKeeper
  <2>3. JobInv(i)' BY <1>1, <1>3, <2>1 DEF JobInv, Holds
  <2>4. kills' \in 0 .. MaxKills BY <1>1, <2>1
  <2> QED BY <1>1, <1>4, <2>1, <2>2, <2>3, <2>4
<1>13. CASE Raise(i)
  <2>1. /\ pc[i] \in {"read", "rename"} /\ kills' = kills
        /\ pc' = [pc EXCEPT ![i] = "idle"] /\ job' = [job EXCEPT ![i] = NoJob]
        /\ opened' = opened /\ watching' = watching /\ tracked' = tracked
        /\ engine' = engine /\ mapped' = mapped
    BY <1>13 DEF Raise, engineVars
  <2>2. JobInv(i)' BY <1>1, <2>1 DEF JobInv
  <2> QED BY <1>1, <1>2, <1>4, <2>1, <2>2
<1> QED BY <1>5, <1>6, <1>7, <1>8, <1>9, <1>10, <1>11, <1>12, <1>13 DEF Quiet

-----------------------------------------------------------------------------
(* The steps that change a name. *)

(* A new value for one directory. *)
LEMMA LibType ==
    ASSUME TypeOK, NEW d \in 1 .. 2, NEW a \in Content, NEW b \in Content
    PROVE  LET new == [stock |-> a, real |-> b] IN
           /\ [lib EXCEPT ![d] = new] \in [DOMAIN Dirs -> [Names -> Content]]
           /\ \A e \in 1 .. 2 :
                 [lib EXCEPT ![d] = new][e] = IF e = d THEN new ELSE lib[e]
<1> DEFINE new == [stock |-> a, real |-> b]
<1>1. new \in [Names -> Content] BY DEF Names
<1>2. lib \in [1 .. 2 -> [Names -> Content]] BY DirsFacts DEF TypeOK
<1> HIDE DEF new
<1>3. /\ [lib EXCEPT ![d] = new] \in [1 .. 2 -> [Names -> Content]]
      /\ \A e \in 1 .. 2 : [lib EXCEPT ![d] = new][e] = IF e = d THEN new ELSE lib[e]
  BY <1>1, <1>2
<1> QED BY <1>3, DirsFacts DEF new

(* The original becomes the backup: there was none, so what the stock name *)
(* holds is an original.                                                   *)
LEMMA RenameLemma ==
    ASSUME IInv, NEW i \in Instances, Instances = {i}, Rename(i) PROVE IInv'
<1> USE DirsFacts, ContentFacts, DeployAssumption
<1> DEFINE d == job[i].dir
           new == [stock |-> None, real |-> lib[d].stock]
<1>1. TypeOK /\ JobInv(i) /\ pc[i] = "rename" /\ pc' = [pc EXCEPT ![i] = "open"]
  BY DEF IInv, Rename, Go
<1>2. d \in 1 .. 2 /\ lib[d].real = None /\ lib[d].stock # None /\ opened[i] \notin Ref
  BY <1>1 DEF JobInv
<1>3. lib' = [lib EXCEPT ![d] = new]
  <2>1. lib' = [lib EXCEPT ![d] = [stock |-> None, real |-> lib[d].stock]]
    BY <1>1, <1>2 DEF Rename, Dir, TypeOK
  <2> QED BY <2>1
<1>4. lib[d].stock \in Content BY <1>1, <1>2 DEF TypeOK, Names
<1>5. owed' = owed BY DEF Rename, adminVars
<1>6. /\ lib' \in [DOMAIN Dirs -> [Names -> Content]]
      /\ \A e \in 1 .. 2 : lib'[e] = IF e = d THEN new ELSE lib[e]
  <2>1. None \in Content OBVIOUS
  <2> HIDE DEF d
  <2> QED BY <1>1, <1>2, <1>3, <1>4, <2>1, LibType
<1>7. new.stock = None /\ new.real = lib[d].stock OBVIOUS
<1> HIDE DEF d, new
<1>8. owed[d] # None => lib[d].stock = owed[d]
  BY <1>2, ContentFacts DEF IInv, LibInv, Kept
<1>9. ASSUME NEW e \in 1 .. 2 PROVE Kept(e)'
  <2>1. CASE e = d BY <2>1, <1>2, <1>5, <1>6, <1>7, <1>8 DEF Kept
  <2>2. CASE e # d BY <2>2, <1>5, <1>6 DEF IInv, LibInv, Kept
  <2> QED BY <2>1, <2>2
<1>10. LibInv' BY <1>9 DEF LibInv
<1>11. \A ref \in Ref \cup {NoRef, Unlinked} :
          Moved(ref, d) \in Ref \cup {NoRef, Unlinked}
  BY <1>2 DEF Moved
<1>12. opened[i] \in {NoRef, Unlinked} BY <1>1, <1>2 DEF TypeOK
<1>13. Moved(opened[i], d) \notin Ref
  <2>1. <<d, "real">> \in Ref /\ <<d, "stock">> \in Ref BY <1>2
  <2>2. Moved(opened[i], d) = opened[i] BY <1>2, <2>1 DEF Moved
  <2> QED BY <2>2, <1>2
<1>14. /\ opened' = [j \in Instances |-> Moved(opened[j], d)]
       /\ mapped' = [j \in Instances |-> Moved(mapped[j], d)]
       /\ src' = src /\ realLib' = realLib /\ builds' = builds /\ installs' = installs
       /\ kills' = kills /\ job' = job /\ watching' = watching /\ tracked' = tracked
       /\ engine' = engine
  BY DEF Rename, Dir, adminVars, d
<1>15. /\ opened' \in [Instances -> Ref \cup {NoRef, Unlinked}]
       /\ mapped' \in [Instances -> Ref \cup {NoRef, Unlinked}]
  BY <1>1, <1>11, <1>14 DEF TypeOK
<1>16. TypeOK' BY <1>1, <1>5, <1>6, <1>14, <1>15 DEF TypeOK
<1>17. JobInv(i)'
  <2>1. pc'[i] = "open" BY <1>1 DEF TypeOK
  <2>2. lib'[d].real # None
    <3>1. lib'[d].real = lib[d].stock BY <1>2, <1>6, <1>7
    <3> QED BY <3>1, <1>2
  <2>3. job'[i].dir = d /\ opened'[i] \notin Ref BY <1>13, <1>14 DEF d
  <2> QED BY <2>1, <2>2, <2>3, <1>2 DEF JobInv
<1> QED BY <1>10, <1>16, <1>17 DEF IInv

(* The wrapper is written over the stock name, when there is a backup. *)
LEMMA OverwriteLemma ==
    ASSUME IInv, NEW i \in Instances, NEW a \in Content,
           pc[i] \in {"open", "write"}, owed' = owed,
           lib' = [lib EXCEPT ![job[i].dir].stock = a]
    PROVE  /\ lib' \in [DOMAIN Dirs -> [Names -> Content]]
           /\ LibInv'
           /\ lib'[job[i].dir].real # None
<1> USE DirsFacts, ContentFacts
<1> DEFINE d == job[i].dir
           new == [stock |-> a, real |-> lib[d].real]
<1>1. TypeOK /\ JobInv(i) BY DEF IInv
<1>2. d \in 1 .. 2 /\ lib[d].real # None BY <1>1 DEF JobInv
<1>3. lib[d] \in [Names -> Content] BY <1>1, <1>2 DEF TypeOK
<1>4. lib[d].real \in Content BY <1>3 DEF Names
<1>5. [lib[d] EXCEPT !.stock = a] = new BY <1>3 DEF Names
<1>6. lib' = [lib EXCEPT ![d] = new] BY <1>1, <1>2, <1>5 DEF TypeOK
<1>7. /\ lib' \in [DOMAIN Dirs -> [Names -> Content]]
      /\ \A e \in 1 .. 2 : lib'[e] = IF e = d THEN new ELSE lib[e]
  <2>1. a \in Content OBVIOUS
  <2> DEFINE b == lib[d].real
  <2>2. b \in Content BY <1>4
  <2>3. lib' = [lib EXCEPT ![d] = [stock |-> a, real |-> b]] BY <1>6
  <2> HIDE DEF d, b
  <2> DEFINE l == [lib EXCEPT ![d] = [stock |-> a, real |-> b]]
  <2>4. /\ l \in [DOMAIN Dirs -> [Names -> Content]]
        /\ \A e \in 1 .. 2 : l[e] = IF e = d THEN [stock |-> a, real |-> b] ELSE lib[e]
    <3>1. TypeOK /\ d \in 1 .. 2 BY <1>1, <1>2
    <3> QED BY <2>1, <2>2, <3>1, LibType, Zenon
  <2> HIDE DEF l
  <2>5. lib' = l BY <2>3 DEF l
  <2> QED BY <2>4, <2>5 DEF b
<1>8. new.stock = a /\ new.real = lib[d].real OBVIOUS
<1> HIDE DEF d, new
<1>9. LibInv' BY <1>2, <1>7, <1>8 DEF IInv, LibInv, Kept
<1> QED BY <1>2, <1>7, <1>8, <1>9 DEF d

LEMMA OpenLemma ==
    ASSUME IInv, NEW i \in Instances, Instances = {i}, Open(i) PROVE IInv'
<1> USE DirsFacts, ContentFacts
<1>1. /\ TypeOK /\ JobInv(i) /\ pc[i] = "open" /\ pc' = [pc EXCEPT ![i] = "write"]
      /\ lib' = [lib EXCEPT ![job[i].dir].stock = Partial]
      /\ opened' = [opened EXCEPT ![i] = <<job[i].dir, "stock">>]
      /\ owed' = owed /\ src' = src /\ realLib' = realLib /\ builds' = builds
      /\ installs' = installs /\ kills' = kills /\ job' = job /\ watching' = watching
      /\ tracked' = tracked /\ engine' = engine /\ mapped' = mapped
  BY DEF IInv, Open, Go, Dir, adminVars, engineVars
<1>2. /\ lib' \in [DOMAIN Dirs -> [Names -> Content]]
      /\ LibInv' /\ lib'[job[i].dir].real # None
  BY <1>1, OverwriteLemma
<1>3. job[i].dir \in 1 .. 2 /\ <<job[i].dir, "stock">> \in Ref BY <1>1 DEF JobInv
<1>4. TypeOK' BY <1>1, <1>2, <1>3 DEF TypeOK
<1>5. JobInv(i)'
  <2>1. pc'[i] = "write" /\ opened'[i] = <<job[i].dir, "stock">> BY <1>1 DEF TypeOK
  <2> QED BY <2>1, <1>1, <1>2, <1>3 DEF JobInv
<1> QED BY <1>2, <1>4, <1>5 DEF IInv

LEMMA WriteLemma ==
    ASSUME IInv, NEW i \in Instances, Instances = {i}, Write(i) PROVE IInv'
<1> USE DirsFacts, ContentFacts
<1>1. /\ TypeOK /\ JobInv(i) /\ pc[i] = "write" /\ pc' = [pc EXCEPT ![i] = "launch"]
      /\ opened' = [opened EXCEPT ![i] = NoRef]
      /\ owed' = owed /\ src' = src /\ realLib' = realLib /\ builds' = builds
      /\ installs' = installs /\ kills' = kills /\ job' = job /\ watching' = watching
      /\ tracked' = tracked /\ engine' = engine /\ mapped' = mapped
  BY DEF IInv, Write, Go, adminVars, engineVars
<1>2. /\ lib' \in [DOMAIN Dirs -> [Names -> Content]]
      /\ LibInv'
  <2>1. CASE opened[i] \in Ref
    <3>1. opened[i] = <<job[i].dir, "stock">> BY <1>1, <2>1 DEF JobInv
    <3>2. lib' = [lib EXCEPT ![job[i].dir].stock = job[i].wrapper]
      <4>1. lib' = [lib EXCEPT ![opened[i][1]][opened[i][2]] = job[i].wrapper]
        BY <2>1 DEF Write
      <4>2. opened[i][1] = job[i].dir /\ opened[i][2] = "stock" BY <3>1
      <4> QED BY <4>1, <4>2
    <3>3. job[i].wrapper \in Content BY <1>1 DEF TypeOK
    <3> QED BY <1>1, <3>2, <3>3, OverwriteLemma
  <2>2. CASE opened[i] \notin Ref
    <3>1. lib' = lib BY <2>2 DEF Write
    <3> QED BY <1>1, <3>1, SameLib DEF TypeOK
  <2> QED BY <2>1, <2>2
<1>3. TypeOK' BY <1>1, <1>2 DEF TypeOK
<1>4. JobInv(i)'
  <2>1. pc'[i] = "launch" /\ opened'[i] = NoRef BY <1>1 DEF TypeOK
  <2>2. NoRef \notin Ref BY DEF NoRef
  <2> QED BY <2>1, <2>2 DEF JobInv
<1> QED BY <1>2, <1>3, <1>4 DEF IInv

-----------------------------------------------------------------------------
(* The admin.  A newer library is unpacked while nothing runs. *)
LEMMA AdminLemma ==
    ASSUME IInv, NEW i \in Instances, Instances = {i}, Build \/ Clean \/ Install
    PROVE  IInv'
<1> USE DirsFacts, ContentFacts, DeployAssumption
<1>1. /\ TypeOK /\ JobInv(i) /\ kills' = kills /\ pc' = pc /\ job' = job
      /\ opened' = opened /\ watching' = watching /\ realLib' = realLib
      /\ tracked' = tracked /\ engine' = engine /\ mapped' = mapped
  BY DEF IInv, Build, Clean, Install, engineVars
<1>2. CASE Build \/ Clean
  <2>1. lib' = lib /\ owed' = owed /\ installs' = installs BY <1>2 DEF Build, Clean
  <2>2. src \in 0 .. builds /\ builds \in 1 .. MaxBuilds BY <1>1 DEF TypeOK
  <2>3. src' \in 0 .. builds' /\ builds' \in 1 .. MaxBuilds
    <3>1. CASE Build BY <3>1, <2>2 DEF Build
    <3>2. CASE Clean BY <3>2, <2>2 DEF Clean
    <3> QED BY <3>1, <3>2, <1>2
  <2>4. TypeOK' BY <1>1, <2>1, <2>3 DEF TypeOK
  <2>5. JobInv(i)' BY <1>1, <2>1 DEF JobInv, Holds
  <2> QED BY <2>1, <2>4, <2>5, SameLib DEF IInv
<1>3. CASE Install
  <2>1. PICK d \in 1 .. 2 :
          /\ lib' = [lib EXCEPT ![d].stock = Original(installs + 1)]
          /\ owed' = IF lib[d].real = None
                     THEN [owed EXCEPT ![d] = Original(installs + 1)] ELSE owed
    BY <1>3 DEF Install
  <2>2. /\ installs < MaxInstalls /\ installs' = installs + 1 /\ src' = src /\ builds' = builds
        /\ pc[i] = "idle"
    BY <1>3 DEF Install
  <2>3. installs' \in 0 .. MaxInstalls BY <1>1, <2>2 DEF TypeOK
  <2> DEFINE new == [stock |-> Original(installs + 1), real |-> lib[d].real]
  <2>4. lib[d] \in [Names -> Content] BY <1>1 DEF TypeOK
  <2>5. [lib[d] EXCEPT !.stock = Original(installs + 1)] = new BY <2>4 DEF Names
  <2>6. lib' = [lib EXCEPT ![d] = new] BY <1>1, <2>1, <2>5 DEF TypeOK
  <2>7. Original(installs + 1) \in Content /\ Original(installs + 1).kind = "original"
    BY <2>2, <2>3
  <2>8. lib[d].real \in Content BY <2>4 DEF Names
  <2>9. /\ lib' \in [DOMAIN Dirs -> [Names -> Content]]
        /\ \A e \in 1 .. 2 : lib'[e] = IF e = d THEN new ELSE lib[e]
    BY <1>1, <2>6, <2>7, <2>8, LibType
  <2>10. new.stock = Original(installs + 1) /\ new.real = lib[d].real OBVIOUS
  <2> HIDE DEF new
  <2>11. owed' \in [DOMAIN Dirs -> Owable] /\ \A e \in 1 .. 2 :
            owed'[e] = IF e = d /\ lib[d].real = None THEN Original(installs + 1) ELSE owed[e]
    <3>1. Original(installs + 1) \in Owable BY <2>2, <2>3 DEF Owable
    <3>2. owed \in [1 .. 2 -> Owable] BY <1>1 DEF TypeOK, Owable
    <3> HIDE DEF Owable
    <3> DEFINE v == Original(installs + 1)
    <3>3. v \in Owable BY <3>1
    <3>4. owed' = IF lib[d].real = None THEN [owed EXCEPT ![d] = v] ELSE owed BY <2>1
    <3> HIDE DEF v
    <3>5. owed' \in [1 .. 2 -> Owable] /\ \A e \in 1 .. 2 :
            owed'[e] = IF e = d /\ lib[d].real = None THEN v ELSE owed[e]
      BY <3>2, <3>3, <3>4
    <3> QED BY <3>5 DEF v
  <2>12. LibInv'
    <3>1. Kept(d) BY DEF IInv, LibInv
    <3>2. Kept(d)' BY <3>1, <2>9, <2>10, <2>11 DEF Kept
    <3>3. ASSUME NEW e \in 1 .. 2, e # d PROVE Kept(e)'
      BY <3>3, <2>9, <2>11 DEF IInv, LibInv, Kept
    <3> QED BY <3>2, <3>3 DEF LibInv
  <2>13. TypeOK' BY <1>1, <2>2, <2>3, <2>9, <2>11 DEF TypeOK, Owable
  <2>14. JobInv(i)' BY <1>1, <2>2 DEF JobInv
  <2> QED BY <2>12, <2>13, <2>14 DEF IInv
<1> QED BY <1>2, <1>3

LEMMA NextInv ==
    ASSUME NEW me, Instances = {me}
    PROVE  IInv /\ [Next]_vars => IInv'
<1> SUFFICES ASSUME IInv, [Next]_vars PROVE IInv' OBVIOUS
<1>1. me \in Instances OBVIOUS
<1>2. CASE Build \/ Clean \/ Install BY <1>1, <1>2, AdminLemma
<1>3. ASSUME NEW i \in Instances,
             Quiet(i)
      PROVE  IInv'
  BY <1>3, QuietLemma
<1>4. ASSUME NEW i \in Instances, Rename(i) PROVE IInv' BY <1>4, RenameLemma
<1>5. ASSUME NEW i \in Instances, Open(i) PROVE IInv' BY <1>5, OpenLemma
<1>6. ASSUME NEW i \in Instances, Write(i) PROVE IInv' BY <1>6, WriteLemma
<1>7. CASE UNCHANGED vars
  <2>1. /\ lib' = lib /\ owed' = owed /\ src' = src /\ realLib' = realLib /\ builds' = builds
        /\ installs' = installs /\ kills' = kills /\ pc' = pc /\ job' = job
        /\ opened' = opened /\ watching' = watching /\ tracked' = tracked
        /\ engine' = engine /\ mapped' = mapped
    BY <1>7 DEF vars, fileVars, adminVars, engineVars
  <2>2. TypeOK' BY <2>1 DEF IInv, TypeOK
  <2>3. \A i \in Instances : JobInv(i)' BY <2>1 DEF IInv, JobInv, Holds
  <2> QED BY <2>1, <2>2, <2>3, SameLib DEF IInv
<1> QED BY <1>2, <1>3, <1>4, <1>5, <1>6, <1>7 DEF Next, Quiet

(* The invariant holds in every state that one instance reaches.           *)
THEOREM Invariance ==
    ASSUME NEW me, Instances = {me}
    PROVE  Spec => []IInv
  BY InitInv, NextInv, PTL DEF Spec

(* Files, handles and what a process has read stay what they can be.       *)
THEOREM TypeCorrect ==
    ASSUME NEW me, Instances = {me}
    PROVE  Spec => []TypeOK
<1>1. IInv => TypeOK BY DEF IInv
<1> QED BY <1>1, Invariance, PTL

(* Whenever the deployment is interrupted, however often it is repeated,   *)
(* and whatever is built or installed in between, the library that a       *)
(* directory held when it was first deployed there is in one of its files. *)
THEOREM OriginalSurvives ==
    ASSUME NEW me, Instances = {me}
    PROVE  Spec => []OriginalKept
<1>1. IInv => OriginalKept BY DirsFacts DEF IInv, LibInv, Kept, OriginalKept
<1> QED BY <1>1, Invariance, PTL

(* What is kept as the real library is that one, never a wrapper, nor half *)
(* of one.                                                                 *)
THEOREM BackupSound ==
    ASSUME NEW me, Instances = {me}
    PROVE  Spec => []BackupIsOriginal
<1>1. IInv => BackupIsOriginal BY DirsFacts DEF IInv, LibInv, Kept, BackupIsOriginal
<1> QED BY <1>1, Invariance, PTL

-----------------------------------------------------------------------------
(* What happens to an engine.  While a process deploys, the pid file names *)
(* no live process; and what the process has found and written so far is   *)
(* still there, since nobody else writes.                                  *)
EngineInv(i) ==
    /\ pc[i] # "idle" => i \notin tracked
    /\ engine[i] = "off" => mapped[i] = NoRef
    /\ pc[i] = "idle" => job[i] = NoJob

(* A wrapper that has its original next to it, where the engine looks.     *)
Deployed(d) ==
    /\ IsLibDir(d)
    /\ lib[d].stock.kind = "wrapper" /\ lib[d].real # None

ProgressInv(i) ==
    /\ pc[i] \in {"read", "check", "rename", "open", "write"} => IsLibDir(Dir(i))
    /\ pc[i] \in {"check", "rename", "open", "write"} => job[i].wrapper.kind = "wrapper"
    /\ pc[i] = "check" => job[i].current = lib[Dir(i)].stock
    /\ pc[i] = "write" => opened[i] = <<Dir(i), "stock">>
    /\ pc[i] = "launch" /\ job[i] # NoJob =>
          Dir(i) \in 1 .. 2 /\ (owed[Dir(i)] # None => Deployed(Dir(i)))

LaunchInv == \A i \in Instances : EngineInv(i) /\ ProgressInv(i)

LEMMA InitLaunch == Init => LaunchInv
  BY DEF Init, LaunchInv, EngineInv, ProgressInv

(* What is told of an instance only depends on its own variables and on    *)
(* the names.                                                              *)
LEMMA SameDirs ==
    ASSUME lib' = lib
    PROVE  \A d : (IsLibDir(d)' <=> IsLibDir(d)) /\ (Deployed(d)' <=> Deployed(d))
  BY DEF IsLibDir, Holds, Deployed

(* The steps that leave the names alone. *)
LEMMA QuietLaunch ==
    ASSUME IInv, LaunchInv, NEW i \in Instances, Instances = {i},
           Quiet(i)
    PROVE  LaunchInv'
<1> USE DirsFacts, ContentFacts, DeployAssumption
<1> USE DEF Go, Dir
<1>1. /\ pc \in [Instances -> {"idle", "read", "check", "rename", "open", "write", "launch"}]
      /\ job \in [Instances -> [dir : 0 .. Len(Dirs), current : Content, wrapper : Content]]
      /\ opened \in [Instances -> Ref \cup {NoRef, Unlinked}]
      /\ engine \in [Instances -> Outcome]
      /\ mapped \in [Instances -> Ref \cup {NoRef, Unlinked}]
      /\ JobInv(i) /\ EngineInv(i) /\ ProgressInv(i)
  BY DEF IInv, TypeOK, LaunchInv
<1>2. /\ lib' = lib /\ owed' = owed
      /\ \A d : (IsLibDir(d)' <=> IsLibDir(d)) /\ (Deployed(d)' <=> Deployed(d))
  <2>1. lib' = lib /\ owed' = owed
    BY DEF Quiet, Begin, Read, Check, Launch, Relaunch, Exit, Noticed, Stop, KillJob,
           KillKeeper, Raise, fileVars, adminVars
  <2> QED BY <2>1, SameDirs
<1> SUFFICES EngineInv(i)' /\ ProgressInv(i)' BY DEF LaunchInv
<1>3. CASE Begin(i)
  <2>1. PICK d \in DOMAIN Dirs : IsLibDir(d) /\ job' = [job EXCEPT ![i] = [NoJob EXCEPT !.dir = d]]
    BY <1>3 DEF Begin
  <2>2. /\ pc[i] = "idle" /\ pc' = [pc EXCEPT ![i] = "read"] /\ i \notin tracked
        /\ tracked' = tracked /\ engine' = engine /\ mapped' = mapped
    BY <1>3 DEF Begin, Running, engineVars
  <2>3. job'[i].dir = d BY <1>1, <2>1 DEF NoJob
  <2> QED BY <1>1, <1>2, <2>1, <2>2, <2>3 DEF EngineInv, ProgressInv
<1>4. CASE Read(i)
  <2>1. /\ pc[i] = "read" /\ pc' = [pc EXCEPT ![i] = "check"]
        /\ tracked' = tracked /\ engine' = engine /\ mapped' = mapped
        /\ job' = [job EXCEPT ![i] = [dir |-> Dir(i), current |-> lib[Dir(i)].stock,
                                      wrapper |-> Wrapper(src)]]
    BY <1>4 DEF Read, engineVars
  <2>2. /\ job'[i].dir = job[i].dir /\ job'[i].current = lib[job[i].dir].stock
        /\ job'[i].wrapper = Wrapper(src)
    BY <1>1, <2>1
  <2>3. job'[i].wrapper.kind = "wrapper" BY <2>2
  <2> QED BY <1>1, <1>2, <2>1, <2>2, <2>3 DEF EngineInv, ProgressInv
<1>5. CASE Check(i)
  <2>1. /\ pc[i] = "check" /\ job' = job
        /\ tracked' = tracked /\ engine' = engine /\ mapped' = mapped
        /\ pc' = [pc EXCEPT ![i] = IF ~Stale(i) THEN "launch"
                                   ELSE IF FirstDeploy(i) THEN "rename" ELSE "open"]
    BY <1>5 DEF Check, engineVars
  <2>2. job[i].dir \in 1 .. 2 /\ IsLibDir(job[i].dir) /\ job[i].wrapper.kind = "wrapper"
        /\ job[i].current = lib[job[i].dir].stock
    BY <1>1, <2>1 DEF JobInv, ProgressInv
  <2>3. CASE Stale(i)
    <3>1. pc'[i] \in {"rename", "open"} BY <1>1, <2>1, <2>3
    <3> QED BY <1>1, <1>2, <2>1, <2>2, <3>1 DEF EngineInv, ProgressInv
  <2>4. CASE ~Stale(i)
    <3>1. pc'[i] = "launch" BY <1>1, <2>1, <2>4
    <3>2. lib[job[i].dir].stock.kind = "wrapper" BY <2>2, <2>4 DEF Stale
    <3>3. owed[job[i].dir] # None => lib[job[i].dir].real # None
      <4>1. Kept(job[i].dir) BY <2>2 DEF IInv, LibInv
      <4>2. owed[job[i].dir] # None => owed[job[i].dir].kind = "original"
        BY <2>2 DEF IInv, TypeOK
      <4> QED BY <3>2, <4>1, <4>2 DEF Kept
    <3>4. owed[job[i].dir] # None => Deployed(job[i].dir) BY <2>2, <3>2, <3>3 DEF Deployed
    <3> QED BY <1>1, <1>2, <2>1, <2>2, <3>1, <3>4 DEF EngineInv, ProgressInv
  <2> QED BY <2>3, <2>4
<1>6. CASE Launch(i)
  <2>1. /\ pc[i] = "launch" /\ pc' = [pc EXCEPT ![i] = "idle"]
        /\ job' = [job EXCEPT ![i] = NoJob]
    BY <1>6 DEF Launch
  <2>2. engine'[i] # "off"
    <3>1. CASE \E d \in DOMAIN Dirs : Loads(d)
      <4>1. PICK d \in DOMAIN Dirs : Loads(d) /\ engine' = [engine EXCEPT ![i] = Result(d)]
        BY <1>6, <3>1 DEF Launch
      <4>2. lib[d].stock.kind \in {"partial", "original", "wrapper"}
        <5>1. lib[d].stock \in Content /\ lib[d].stock # None
          BY <4>1 DEF IInv, TypeOK, Names, Loads
        <5> QED BY <5>1, KindFacts
      <4>3. At(<<d, "stock">>) = lib[d].stock BY AtFacts
      <4>4. Result(d) # "off" BY <4>2, <4>3 DEF Result
      <4> QED BY <1>1, <4>1, <4>4
    <3>2. CASE ~(\E d \in DOMAIN Dirs : Loads(d))
      <4>1. engine' = [engine EXCEPT ![i] = "broken"] BY <1>6, <3>2 DEF Launch
      <4> QED BY <1>1, <4>1
    <3> QED BY <3>1, <3>2
  <2>3. pc'[i] = "idle" /\ job'[i] = NoJob BY <1>1, <2>1
  <2> QED BY <2>2, <2>3 DEF EngineInv, ProgressInv
<1>7. CASE Exit(i) \/ Noticed(i) \/ Stop(i)
  <2>1. pc' = pc /\ job' = job /\ opened' = opened /\ tracked' \subseteq tracked
    BY <1>7 DEF Exit, Noticed, Stop
  <2>2. (engine' = engine /\ mapped' = mapped) \/ EngineOff(i)
    BY <1>7 DEF Exit, Noticed, Stop
  <2>3. engine'[i] = "off" => mapped'[i] = NoRef
    BY <1>1, <2>2 DEF EngineInv, EngineOff
  <2>4. EngineInv(i)' BY <1>1, <2>1, <2>3 DEF EngineInv
  <2>5. ProgressInv(i)' BY <1>1, <1>2, <2>1 DEF ProgressInv
  <2> QED BY <2>4, <2>5
<1>8. CASE Relaunch(i)
  <2>1. /\ pc[i] = "idle" /\ pc' = [pc EXCEPT ![i] = "launch"] /\ job' = job
        /\ i \notin tracked /\ tracked' = tracked /\ engine' = engine /\ mapped' = mapped
    BY <1>8 DEF Relaunch, Running, engineVars
  <2>2. pc'[i] = "launch" /\ job'[i] = NoJob BY <1>1, <2>1 DEF EngineInv
  <2> QED BY <1>1, <2>1, <2>2 DEF EngineInv, ProgressInv
<1>9. CASE KillJob(i) \/ Raise(i)
  <2>1. /\ pc' = [pc EXCEPT ![i] = "idle"] /\ job' = [job EXCEPT ![i] = NoJob]
        /\ engine' = engine /\ mapped' = mapped
    BY <1>9 DEF KillJob, Raise, engineVars
  <2>2. pc'[i] = "idle" /\ job'[i] = NoJob BY <1>1, <2>1
  <2> QED BY <1>1, <2>1, <2>2 DEF EngineInv, ProgressInv
<1>10. CASE KillKeeper(i)
  <2>1. /\ pc' = pc /\ job' = job /\ opened' = opened /\ tracked' \subseteq tracked
        /\ engine' = engine /\ mapped' = mapped
    BY <1>10 DEF KillKeeper
  <2> QED BY <1>1, <1>2, <2>1 DEF EngineInv, ProgressInv
<1> QED BY <1>3, <1>4, <1>5, <1>6, <1>7, <1>8, <1>9, <1>10 DEF Quiet

(* The steps that change a name: the directory stays the one searched.     *)
LEMMA WritingLaunch ==
    ASSUME IInv, IInv', LaunchInv, NEW i \in Instances, Instances = {i},
           Rename(i) \/ Open(i) \/ Write(i)
    PROVE  LaunchInv'
<1> USE DirsFacts, ContentFacts
<1> DEFINE d == job[i].dir
<1>1. /\ pc \in [Instances -> {"idle", "read", "check", "rename", "open", "write", "launch"}]
      /\ job \in [Instances -> [dir : 0 .. Len(Dirs), current : Content, wrapper : Content]]
      /\ opened \in [Instances -> Ref \cup {NoRef, Unlinked}]
      /\ lib \in [1 .. 2 -> [Names -> Content]]
      /\ JobInv(i) /\ EngineInv(i) /\ ProgressInv(i)
  BY DEF IInv, TypeOK, LaunchInv
<1>2. /\ pc[i] \in {"rename", "open", "write"} /\ job' = job /\ tracked' = tracked
      /\ owed' = owed /\ engine' = engine
      /\ pc' = [pc EXCEPT ![i] = CASE pc[i] = "rename" -> "open" [] pc[i] = "open" -> "write"
                                   [] OTHER -> "launch"]
  BY DEF Rename, Open, Write, Go, adminVars, engineVars
<1>3. /\ d \in 1 .. 2 /\ IsLibDir(d) /\ job[i].wrapper.kind = "wrapper"
      /\ i \notin tracked /\ (engine[i] = "off" => mapped[i] = NoRef)
  BY <1>1, <1>2 DEF JobInv, ProgressInv, EngineInv, Dir
<1>4. engine[i] = "off" => mapped'[i] = NoRef
  <2> SUFFICES ASSUME engine[i] = "off" PROVE mapped'[i] = NoRef OBVIOUS
  <2>1. CASE Rename(i)
    <3>1. mapped'[i] = Moved(mapped[i], d) BY <2>1 DEF Rename, Dir
    <3> QED BY <3>1, <1>3 DEF Moved, NoRef
  <2>2. CASE Open(i) \/ Write(i)
    <3>1. mapped' = mapped BY <2>2 DEF Open, Write, engineVars
    <3> QED BY <3>1, <1>3
  <2> QED BY <2>1, <2>2
<1>5. EngineInv(i)'
  <2>1. pc'[i] \in {"open", "write", "launch"} BY <1>1, <1>2
  <2> QED BY <2>1, <1>2, <1>3, <1>4 DEF EngineInv
<1>6. Holds(d)' /\ \A e \in 1 .. 2 : e # d => lib'[e] = lib[e]
  <2>1. CASE Rename(i)
    <3>1. lib' = [lib EXCEPT ![d] = [stock |-> None, real |-> lib[d].stock]]
          /\ lib[d].stock # None
      BY <1>1, <1>3, <2>1 DEF Rename, Dir
    <3>2. lib'[d].real = lib[d].stock /\ \A e \in 1 .. 2 : e # d => lib'[e] = lib[e]
      BY <1>1, <1>3, <3>1
    <3> QED BY <1>2, <3>1, <3>2 DEF Holds
  <2>2. CASE Open(i)
    <3>1. lib' = [lib EXCEPT ![d].stock = Partial] BY <2>2 DEF Open, Dir
    <3>2. lib[d].real # None BY <1>1, <2>2 DEF Open, Go, JobInv
    <3>3. lib'[d].real = lib[d].real /\ \A e \in 1 .. 2 : e # d => lib'[e] = lib[e]
      BY <1>1, <1>3, <3>1 DEF Names
    <3> QED BY <1>2, <3>2, <3>3 DEF Holds
  <2>3. CASE Write(i)
    <3>1. opened[i] = <<d, "stock">> /\ lib[d].real # None
      BY <1>1, <2>3 DEF Write, Go, ProgressInv, JobInv, Dir
    <3>2. lib' = [lib EXCEPT ![d].stock = job[i].wrapper]
      <4>1. opened[i] \in Ref BY <3>1, <1>3
      <4>2. lib' = [lib EXCEPT ![opened[i][1]][opened[i][2]] = job[i].wrapper]
        BY <2>3, <4>1 DEF Write
      <4>3. opened[i][1] = d /\ opened[i][2] = "stock" BY <3>1
      <4> QED BY <4>2, <4>3
    <3>3. lib'[d].real = lib[d].real /\ \A e \in 1 .. 2 : e # d => lib'[e] = lib[e]
      BY <1>1, <1>3, <3>2 DEF Names
    <3> QED BY <1>2, <3>1, <3>3 DEF Holds
  <2> QED BY <2>1, <2>2, <2>3
<1>7. IsLibDir(d)' BY <1>2, <1>3, <1>6 DEF IsLibDir, Holds
<1>8. ProgressInv(i)'
  <2>1. CASE Rename(i)
    <3>1. pc'[i] = "open" BY <1>1, <1>2, <2>1 DEF Rename, Go
    <3> QED BY <3>1, <1>2, <1>3, <1>7 DEF ProgressInv, Dir
  <2>2. CASE Open(i)
    <3>1. pc'[i] = "write" /\ opened'[i] = <<d, "stock">>
      BY <1>1, <2>2 DEF Open, Go, Dir
    <3> QED BY <3>1, <1>2, <1>3, <1>7 DEF ProgressInv, Dir
  <2>3. CASE Write(i)
    <3>1. pc[i] = "write" /\ pc'[i] = "launch" BY <1>1, <2>3 DEF Write, Go
    <3>2. opened[i] = <<d, "stock">> /\ lib[d].real # None
      BY <1>1, <3>1 DEF ProgressInv, JobInv, Dir
    <3>3. lib' = [lib EXCEPT ![d].stock = job[i].wrapper]
      <4>1. opened[i] \in Ref BY <3>2, <1>3
      <4>2. lib' = [lib EXCEPT ![opened[i][1]][opened[i][2]] = job[i].wrapper]
        BY <2>3, <4>1 DEF Write
      <4>3. opened[i][1] = d /\ opened[i][2] = "stock" BY <3>2
      <4> QED BY <4>2, <4>3
    <3>4. lib'[d].stock = job[i].wrapper /\ lib'[d].real = lib[d].real
      BY <1>1, <1>3, <3>3 DEF Names
    <3>5. Deployed(d)' BY <1>2, <1>3, <1>7, <3>2, <3>4 DEF Deployed
    <3> QED BY <3>1, <3>5, <1>2, <1>3 DEF ProgressInv, Dir
  <2> QED BY <2>1, <2>2, <2>3
<1> QED BY <1>5, <1>8 DEF LaunchInv

LEMMA NextLaunch ==
    ASSUME NEW me, Instances = {me}
    PROVE  IInv /\ IInv' /\ LaunchInv /\ [Next]_vars => LaunchInv'
<1> SUFFICES ASSUME IInv, IInv', LaunchInv, [Next]_vars PROVE LaunchInv' OBVIOUS
<1>1. CASE Build \/ Clean
  <2>1. /\ lib' = lib /\ owed' = owed /\ pc' = pc /\ job' = job /\ opened' = opened
        /\ tracked' = tracked /\ engine' = engine /\ mapped' = mapped
    BY <1>1 DEF Build, Clean, engineVars
  <2>2. \A d : (IsLibDir(d)' <=> IsLibDir(d)) /\ (Deployed(d)' <=> Deployed(d))
    BY <2>1, SameDirs
  <2> QED BY <2>1, <2>2 DEF LaunchInv, EngineInv, ProgressInv, Dir
<1>2. CASE Install
  <2>1. /\ pc' = pc /\ job' = job /\ opened' = opened /\ tracked' = tracked
        /\ engine' = engine /\ mapped' = mapped
        /\ \A i \in Instances : pc[i] = "idle"
    BY <1>2 DEF Install, engineVars
  <2> QED BY <2>1 DEF LaunchInv, EngineInv, ProgressInv, Dir
<1>3. ASSUME NEW i \in Instances,
             Quiet(i)
      PROVE  LaunchInv'
  BY <1>3, QuietLaunch
<1>4. ASSUME NEW i \in Instances, Rename(i) \/ Open(i) \/ Write(i) PROVE LaunchInv'
  BY <1>4, WritingLaunch
<1>5. CASE UNCHANGED vars
  <2>1. /\ lib' = lib /\ owed' = owed /\ pc' = pc /\ job' = job /\ opened' = opened
        /\ tracked' = tracked /\ engine' = engine /\ mapped' = mapped
    BY <1>5 DEF vars, fileVars, adminVars, engineVars
  <2>2. \A d : (IsLibDir(d)' <=> IsLibDir(d)) /\ (Deployed(d)' <=> Deployed(d))
    BY <2>1, SameDirs
  <2> QED BY <2>1, <2>2 DEF LaunchInv, EngineInv, ProgressInv, Dir
<1> QED BY <1>1, <1>2, <1>3, <1>4, <1>5 DEF Next, Quiet

LEMMA LaunchInvariance ==
    ASSUME NEW me, Instances = {me}
    PROVE  Spec => [](IInv /\ LaunchInv)
<1>1. Init => IInv /\ LaunchInv BY InitInv, InitLaunch
<1>2. IInv /\ LaunchInv /\ [Next]_vars => (IInv /\ LaunchInv)' BY NextInv, NextLaunch
<1> QED BY <1>1, <1>2, PTL DEF Spec

-----------------------------------------------------------------------------
(* The wrapper of a deployed directory finds the original next to itself,  *)
(* at the second place it looks, unless what proxy.real_lib names, the     *)
(* first place, is an original too.                                        *)
LEMMA DeployedProtects ==
    ASSUME IInv, NEW d \in 1 .. 2, Deployed(d), owed[d] # None,
           At(realLib).kind = "wrapper" => realLib = <<d, "stock">>
    PROVE  /\ \E e \in DOMAIN Dirs : Loads(e)
           /\ \A e \in DOMAIN Dirs : Loads(e) => e = d
           /\ Result(d) = "protected"
<1> USE DirsFacts, ContentFacts
<1>1. /\ lib[d].stock.kind = "wrapper" /\ lib[d].stock # None
      /\ lib[d].real # None /\ lib[d].real.kind = "original"
  <2>1. lib[d].real = owed[d] BY DEF IInv, LibInv, Kept, Deployed
  <2>2. owed[d] \in Owable BY DEF IInv, TypeOK, Owable
  <2>3. owed[d].kind = "original" BY <2>2 DEF Owable
  <2> QED BY <2>1, <2>3 DEF Deployed
<1>2. \A e \in 1 .. 2 : e < d => ~Holds(e) BY DEF Deployed, IsLibDir
<1>3. Loads(d) BY <1>1, <1>2 DEF Loads, Holds
<1>4. \A e \in DOMAIN Dirs : Loads(e) => e = d BY <1>1, <1>2, <1>3 DEF Loads, Holds
<1>5. \A e \in DOMAIN Dirs : IsLibDir(e) => e = d
  BY <1>2 DEF Deployed, IsLibDir
<1>6. (CHOOSE e \in DOMAIN Dirs : IsLibDir(e)) = d BY <1>5 DEF Deployed
<1> DEFINE c == Candidates(d)
           fit == {k \in DOMAIN c : Adoptable(c[k], d)}
           first == CHOOSE k \in fit : \A j \in fit : k <= j
<1>7. /\ c[1] = IF realLib # NoRef THEN realLib ELSE <<d, "real">>
      /\ c[2] = <<d, "real">> /\ DOMAIN c = 1 .. 5
  <2> DEFINE one == IF realLib # NoRef THEN realLib ELSE <<d, "real">>
  <2> DEFINE env == CHOOSE e \in DOMAIN Dirs : IsLibDir(e)
  <2>1. c = <<one, <<d, "real">>, <<d, "stock">>,
              <<Len(Dirs), "real">>, <<Len(Dirs), "stock">>>>
    <3>1. c = <<IF realLib # NoRef THEN realLib ELSE <<env, "real">>, <<d, "real">>,
                <<d, "stock">>, <<Len(Dirs), "real">>, <<Len(Dirs), "stock">>>>
      BY Zenon DEF Candidates
    <3>2. env = d BY <1>6
    <3> HIDE DEF env, c
    <3> QED BY <3>1, <3>2
  <2> HIDE DEF c, one
  <2>2. c[1] = one /\ c[2] = <<d, "real">> /\ DOMAIN c = 1 .. 5 BY <2>1
  <2> QED BY <2>2 DEF one
<1>8. <<d, "stock">> \in Ref /\ <<d, "real">> \in Ref OBVIOUS
<1>9. /\ At(<<d, "stock">>) = lib[d].stock /\ At(<<d, "real">>) = lib[d].real
      /\ <<d, "real">> # <<d, "stock">>
  BY AtFacts
<1>10. Adoptable(c[2], d) BY <1>1, <1>7, <1>9 DEF Adoptable
<1>11. 2 \in fit /\ fit \subseteq 1 .. 5 BY <1>7, <1>10
<1>12. Adoptable(c[1], d) => At(c[1]).kind = "original"
  BY <1>1, <1>7, <1>9 DEF Adoptable
<1>13. first \in fit /\ first \in 1 .. 2
  <2> HIDE DEF fit
  <2>1. CASE 1 \in fit
    <3>1. \A j \in fit : 1 <= j BY <1>11
    <3>2. \A k \in fit : (\A j \in fit : k <= j) => k = 1 BY <2>1, <1>11
    <3> QED BY <2>1, <3>1, <3>2
  <2>2. CASE 1 \notin fit
    <3>1. \A j \in fit : 2 <= j BY <1>11, <2>2
    <3>2. \A k \in fit : (\A j \in fit : k <= j) => k = 2
      <4> SUFFICES ASSUME NEW k \in fit, \A j \in fit : k <= j PROVE k = 2 OBVIOUS
      <4>1. k <= 2 /\ k \in 1 .. 5 /\ k # 1 BY <1>11, <2>2
      <4> QED BY <4>1
    <3>3. \E k \in fit : \A j \in fit : k <= j BY <1>11, <3>1
    <3>4. first \in fit /\ \A j \in fit : first <= j BY <3>3
    <3>5. first = 2 BY <3>2, <3>4
    <3> QED BY <3>4, <3>5
  <2> QED BY <2>1, <2>2
<1>14. Adopted(d) = At(c[first]) BY <1>11 DEF Adopted
<1>15. At(c[first]).kind = "original"
  <2>1. Adoptable(c[first], d) BY <1>13
  <2>2. first = 1 \/ first = 2 BY <1>13
  <2> HIDE DEF c, first
  <2>3. CASE first = 1 BY <2>1, <2>3, <1>12
  <2>4. CASE first = 2 BY <2>4, <1>1, <1>7, <1>9
  <2> QED BY <2>2, <2>3, <2>4
<1>16. Adopted(d).kind = "original" BY <1>14, <1>15
<1>17. Result(d) = "protected" BY <1>1, <1>9, <1>16 DEF Result
<1> QED BY <1>3, <1>4, <1>17

(* An engine that one instance starts after a deployment, in a directory   *)
(* that ever had a library to keep, runs the whole wrapper with an         *)
(* original library behind it, whatever was interrupted, rebuilt or        *)
(* installed before.                                                       *)
THEOREM DeploymentProtects ==
    ASSUME NEW me, Instances = {me}
    PROVE  Spec => LaunchesProtected
<1> DEFINE Step == \A i \in Instances :
                      i \in tracked' \ tracked /\ job[i] # NoJob
                        /\ owed[job[i].dir] # None /\ ~ChainedByConfig(i)
                          => engine'[i] = "protected"
<1>1. IInv /\ LaunchInv /\ [Next]_vars => [Step]_vars
  <2> SUFFICES ASSUME IInv, LaunchInv, Next, NEW i \in Instances,
                      i \in tracked', i \notin tracked, job[i] # NoJob,
                      owed[job[i].dir] # None, ~ChainedByConfig(i)
               PROVE  engine'[i] = "protected"
    OBVIOUS
  <2>1. engine \in [Instances -> Outcome] /\ ProgressInv(i) BY DEF IInv, TypeOK, LaunchInv
  <2>2. Launch(i)
    <3>1. ASSUME NEW j \in Instances PROVE j = i OBVIOUS
    <3>2. ~Build /\ ~Clean /\ ~Install BY DEF Build, Clean, Install, engineVars
    <3>3. ~Begin(i) /\ ~Read(i) /\ ~Check(i) /\ ~Relaunch(i) /\ ~Raise(i) /\ ~KillJob(i)
      BY DEF Begin, Read, Check, Relaunch, Raise, KillJob, engineVars
    <3>4. ~Rename(i) /\ ~Open(i) /\ ~Write(i) BY DEF Rename, Open, Write, engineVars
    <3>5. ~Exit(i) /\ ~Noticed(i) /\ ~Stop(i) /\ ~KillKeeper(i)
      BY DEF Exit, Noticed, Stop, KillKeeper
    <3> QED BY <3>1, <3>2, <3>3, <3>4, <3>5 DEF Next
  <2>3. Dir(i) \in 1 .. 2 /\ Deployed(Dir(i))
    BY <2>1, <2>2 DEF ProgressInv, Launch, Go, Dir
  <2>4. At(realLib).kind = "wrapper" => realLib = <<Dir(i), "stock">>
    BY DEF ChainedByConfig, Dir
  <2>5. owed[Dir(i)] # None BY DEF Dir
  <2>6. PICK e \in DOMAIN Dirs : Loads(e) /\ engine' = [engine EXCEPT ![i] = Result(e)]
    BY <2>2, <2>3, <2>4, <2>5, DeployedProtects DEF Launch
  <2>7. e = Dir(i) /\ Result(e) = "protected" BY <2>3, <2>4, <2>5, <2>6, DeployedProtects
  <2> QED BY <2>1, <2>6, <2>7
<1>2. Spec => [](IInv /\ LaunchInv) BY LaunchInvariance
<1>3. Spec => [][Step]_vars BY <1>1, <1>2, PTL DEF Spec
<1> QED BY <1>3 DEF LaunchesProtected

(* With one instance no file is truncated under an engine that maps it     *)
(* while its pid file names a live process: a start is refused.            *)
THEOREM MappingsSafe ==
    ASSUME NEW me, Instances = {me}
    PROVE  Spec => MappedUntouched
<1> DEFINE Step == \A i \in tracked, ref \in Ref :
                      mapped[i] = ref /\ mapped'[i] = ref /\ At(ref) # Partial
                         => lib'[ref[1]][ref[2]] # Partial
<1>1. IInv /\ LaunchInv /\ [Next]_vars => [Step]_vars
  <2> SUFFICES ASSUME IInv, LaunchInv, Next, NEW i \in tracked, NEW ref \in Ref,
                      mapped[i] = ref, At(ref) # Partial
               PROVE  lib'[ref[1]][ref[2]] # Partial
    OBVIOUS
  <2>1. i \in Instances BY DEF IInv, TypeOK
  <2>2. NoRef \notin Ref BY DirsFacts DEF NoRef
  <2>3. engine[i] # "off" /\ pc[i] = "idle" BY <2>1, <2>2 DEF LaunchInv, EngineInv
  <2>4. ASSUME NEW j \in Instances PROVE j = i BY <2>1
  <2>5. lib' = lib
    <3>1. ~Rename(i) /\ ~Open(i) /\ ~Write(i) /\ ~Install
      BY <2>1, <2>3 DEF Rename, Open, Write, Install, Go
    <3>2. CASE Build \/ Clean BY <3>2 DEF Build, Clean
    <3>3. CASE Quiet(i)
      BY <3>3 DEF Quiet, Begin, Read, Check, Launch, Relaunch, Exit, Noticed, Stop, KillJob,
                  KillKeeper, Raise, fileVars
    <3> QED BY <2>1, <2>4, <3>1, <3>2, <3>3 DEF Next, Quiet
  <2>6. Elsewhere \notin Ref BY DirsFacts DEF Elsewhere
  <2>7. At(ref) = lib[ref[1]][ref[2]] BY <2>6 DEF At
  <2> QED BY <2>5, <2>7
<1>2. Spec => [](IInv /\ LaunchInv) BY LaunchInvariance
<1>3. Spec => [][Step]_vars BY <1>1, <1>2, PTL DEF Spec
<1> QED BY <1>3 DEF MappedUntouched
=============================================================================
