---------------------------- MODULE WatchProofs ----------------------------
(***************************************************************************)
(* For any log, any number of plugins, commands and crashes: RCON answers  *)
(* are those of their commands until one is late, verify_proxy speaks of   *)
(* an engine that this manager has launched, no plugin runs more often     *)
(* than the engine has been launched, a stop leaves none of those that ran *)
(* when it began, and every line of the log that no poll tore is told      *)
(* once.                                                                   *)
(***************************************************************************)
EXTENDS Watch, OperatorProofs, FiniteSetTheorems, TLAPS

-----------------------------------------------------------------------------
(* At most one command or answer is on its way, that of the last command,  *)
(* and none when nobody waits.                                             *)
RconInv ==
    /\ asked \in Nat /\ wire \in Seq(Nat) /\ inbox \in Seq(Nat) /\ got \in Seq(Nat)
    /\ waiting \in BOOLEAN /\ slipped \in BOOLEAN
    /\ ~slipped =>
          /\ \A k \in DOMAIN got : got[k] = k
          /\ Len(got) + (IF waiting THEN 1 ELSE 0) = asked
          /\ Len(wire) + Len(inbox) <= IF waiting THEN 1 ELSE 0
          /\ \A k \in DOMAIN wire : wire[k] = asked
          /\ \A k \in DOMAIN inbox : inbox[k] = asked

LEMMA RconStart == Init => RconInv
<1> SUFFICES ASSUME Init PROVE RconInv OBVIOUS
<1>1. /\ asked = 0 /\ wire = <<>> /\ inbox = <<>> /\ got = <<>>
      /\ waiting = FALSE /\ slipped = FALSE
  BY DEF Init, RconInit
<1>2. <<>> \in Seq(Nat) /\ Len(<<>>) = 0 /\ DOMAIN <<>> = {} OBVIOUS
<1>3. /\ wire \in Seq(Nat) /\ Len(wire) = 0 /\ DOMAIN wire = {} BY <1>1, <1>2
<1>4. /\ inbox \in Seq(Nat) /\ Len(inbox) = 0 /\ DOMAIN inbox = {} BY <1>1, <1>2
<1>5. /\ got \in Seq(Nat) /\ Len(got) = 0 /\ DOMAIN got = {} BY <1>1, <1>2
<1>6. Len(got) + (IF waiting THEN 1 ELSE 0) = asked BY <1>1, <1>5
<1>7. Len(wire) + Len(inbox) <= IF waiting THEN 1 ELSE 0 BY <1>3, <1>4
<1>8. asked \in Nat /\ waiting \in BOOLEAN /\ slipped \in BOOLEAN BY <1>1
<1> QED BY <1>3, <1>4, <1>5, <1>6, <1>7, <1>8 DEF RconInv

LEMMA AskLemma ==
    ASSUME RconInv, ~waiting, Ask PROVE RconInv'
<1>1. /\ asked' = asked + 1 /\ wire' = Append(wire, asked + 1) /\ waiting' = TRUE
      /\ inbox' = inbox /\ got' = got /\ slipped' = slipped
  BY DEF Ask
<1>2. asked + 1 \in Nat /\ wire' \in Seq(Nat) BY <1>1 DEF RconInv
<1>3. CASE slipped BY <1>1, <1>2, <1>3 DEF RconInv
<1>4. CASE ~slipped
  <2>1. Len(wire) = 0 /\ Len(inbox) = 0 BY <1>4 DEF RconInv
  <2>2. Len(wire') = 1 /\ wire'[1] = asked + 1 /\ DOMAIN wire' = 1 .. 1
    BY <1>1, <1>2, <2>1 DEF RconInv
  <2>3. DOMAIN inbox = {} BY <2>1 DEF RconInv
  <2> QED BY <1>1, <1>2, <1>4, <2>1, <2>2, <2>3 DEF RconInv
<1> QED BY <1>3, <1>4

LEMMA ReceiveLemma ==
    ASSUME RconInv, Receive PROVE RconInv'
<1>1. /\ waiting /\ inbox # <<>> /\ got' = Append(got, Head(inbox))
      /\ inbox' = Tail(inbox) /\ waiting' = FALSE
      /\ asked' = asked /\ wire' = wire /\ slipped' = slipped
  BY DEF Receive
<1>2. Head(inbox) \in Nat /\ Head(inbox) = inbox[1] /\ got' \in Seq(Nat)
      /\ inbox' \in Seq(Nat) /\ Len(inbox) >= 1 /\ Len(inbox') = Len(inbox) - 1
  BY <1>1 DEF RconInv
<1>3. CASE slipped BY <1>1, <1>2, <1>3 DEF RconInv
<1>4. CASE ~slipped
  <2>1. Len(wire) = 0 /\ Len(inbox) = 1 /\ inbox[1] = asked /\ Len(got) = asked - 1
    BY <1>1, <1>2, <1>4 DEF RconInv
  <2>2. /\ Len(got') = asked /\ DOMAIN got' = 1 .. asked
        /\ \A k \in 1 .. (asked - 1) : got'[k] = got[k]
        /\ got'[asked] = asked
    BY <1>1, <1>2, <2>1 DEF RconInv
  <2>3. \A k \in DOMAIN got : got[k] = k BY <1>4 DEF RconInv
  <2>4. DOMAIN got = 1 .. (asked - 1) BY <2>1 DEF RconInv
  <2>5. \A k \in DOMAIN got' : got'[k] = k
    <3>1. asked \in Nat BY DEF RconInv
    <3> QED BY <2>2, <2>3, <2>4, <3>1
  <2>6. Len(inbox') = 0 /\ DOMAIN inbox' = {} /\ DOMAIN wire = {} BY <1>2, <2>1 DEF RconInv
  <2>7. /\ Len(got') + (IF waiting' THEN 1 ELSE 0) = asked'
        /\ Len(wire') + Len(inbox') <= IF waiting' THEN 1 ELSE 0
    <3>1. asked \in Nat BY DEF RconInv
    <3> QED BY <1>1, <2>1, <2>2, <2>6, <3>1
  <2>8. /\ \A k \in DOMAIN wire' : wire'[k] = asked'
        /\ \A k \in DOMAIN inbox' : inbox'[k] = asked'
    BY <1>1, <2>6
  <2> QED BY <1>1, <1>2, <1>4, <2>5, <2>7, <2>8 DEF RconInv
<1> QED BY <1>3, <1>4

LEMMA TimeOutLemma ==
    ASSUME RconInv, TimeOut PROVE RconInv'
<1>1. got' \in Seq(Nat) BY DEF RconInv, TimeOut
<1> QED BY <1>1 DEF RconInv, TimeOut

LEMMA LoseLemma ==
    ASSUME RconInv, Lose PROVE RconInv'
<1>1. /\ wire # <<>> /\ wire' = Tail(wire) /\ asked' = asked /\ inbox' = inbox
      /\ waiting' = waiting /\ got' = got /\ slipped' = slipped
  BY DEF Lose
<1>2. wire' \in Seq(Nat) /\ Len(wire') = Len(wire) - 1 /\ Len(wire) >= 1
      /\ \A k \in DOMAIN wire' : k + 1 \in DOMAIN wire /\ wire'[k] = wire[k + 1]
  BY <1>1 DEF RconInv
<1>3. CASE slipped BY <1>1, <1>2, <1>3 DEF RconInv
<1>4. CASE ~slipped
  <2>1. \A k \in DOMAIN wire' : wire'[k] = asked BY <1>2, <1>4 DEF RconInv
  <2>2. Len(inbox) \in Nat /\ Len(wire) \in Nat BY DEF RconInv
  <2>3. Len(wire') + Len(inbox) <= IF waiting THEN 1 ELSE 0
    BY <1>2, <1>4, <2>2 DEF RconInv
  <2> QED BY <1>1, <1>2, <1>4, <2>1, <2>3 DEF RconInv
<1> QED BY <1>3, <1>4

LEMMA AnswerLemma ==
    ASSUME RconInv, Answer PROVE RconInv'
<1>1. PICK n \in Packets : /\ inbox' = inbox \o [k \in 1 .. n |-> Head(wire)]
                           /\ slipped' = (slipped \/ n > 1)
  BY DEF Answer
<1>2. /\ wire # <<>> /\ wire' = Tail(wire) /\ asked' = asked
      /\ waiting' = waiting /\ got' = got
  BY DEF Answer
<1>3. n \in Nat BY RconClientAssumption
<1>4. wire' \in Seq(Nat) /\ Len(wire') = Len(wire) - 1 /\ Len(wire) >= 1
      /\ Head(wire) \in Nat /\ Head(wire) = wire[1]
  BY <1>2 DEF RconInv
<1> DEFINE packets == [k \in 1 .. n |-> Head(wire)]
<1>5. packets \in Seq(Nat) /\ Len(packets) = n /\ \A k \in 1 .. n : packets[k] = Head(wire)
  BY <1>3, <1>4
<1>6. /\ inbox' \in Seq(Nat) /\ Len(inbox') = Len(inbox) + n
      /\ \A k \in 1 .. Len(inbox) : inbox'[k] = inbox[k]
      /\ \A k \in (Len(inbox) + 1) .. (Len(inbox) + n) : inbox'[k] = packets[k - Len(inbox)]
  <2> HIDE DEF packets
  <2> QED BY <1>1, <1>3, <1>5 DEF RconInv, packets
<1> HIDE DEF packets
<1>7. CASE slipped'
  <2>1. slipped' \in BOOLEAN BY <1>1, <1>7
  <2> QED BY <1>2, <1>4, <1>6, <1>7, <2>1 DEF RconInv
<1>8. CASE ~slipped'
  <2>1. ~slipped /\ n <= 1
    <3>1. ~slipped /\ ~(n > 1) BY <1>1, <1>8, Zenon
    <3> QED BY <1>3, <3>1
  <2>2. Len(wire) = 1 /\ Len(inbox) = 0 /\ waiting /\ wire[1] = asked
    BY <1>4, <2>1 DEF RconInv
  <2>3. Len(wire') = 0 /\ DOMAIN wire' = {} BY <1>4, <2>2
  <2>4. \A k \in DOMAIN inbox' : inbox'[k] = asked
    <3>1. DOMAIN inbox' = 1 .. n BY <1>3, <1>6, <2>2
    <3> QED BY <1>3, <1>4, <1>5, <1>6, <2>2, <3>1
  <2>5. Len(wire') + Len(inbox') <= 1 BY <1>3, <1>6, <2>1, <2>2, <2>3
  <2>6. slipped' \in BOOLEAN BY <1>1, <2>1
  <2>7. \A k \in DOMAIN wire' : wire'[k] = asked' BY <2>3
  <2> QED BY <1>2, <1>4, <1>6, <2>1, <2>2, <2>4, <2>5, <2>6, <2>7 DEF RconInv
<1> QED BY <1>7, <1>8

LEMMA RconNext == RconInv /\ [Next]_vars => RconInv'
<1> SUFFICES ASSUME RconInv, [Next]_vars PROVE RconInv' OBVIOUS
<1>1. ASSUME UNCHANGED rconVars PROVE RconInv' BY <1>1 DEF rconVars, RconInv
<1>2. CASE Logs \/ Prints \/ Crash BY <1>1, <1>2 DEF Logs, Prints, Crash
<1>3. CASE Serves BY <1>3, AnswerLemma, LoseLemma DEF Serves, Serve
<1>4. CASE Launch \/ Relaunch \/ ClearGamesLog \/ OpenGamesLog \/ ClearEngineLog
  BY <1>1, <1>4 DEF Launch, Relaunch, Launches, ClearGamesLog, OpenGamesLog, ClearEngineLog
<1>5. CASE Verify \/ StartPlugins \/ Fork \/ PollLog \/ Tend
  BY <1>1, <1>5 DEF Verify, StartPlugins, Fork, PollLog, Tend
<1>6. ASSUME MayAsk, ~waiting PROVE RconInv' BY <1>1, <1>6, AskLemma DEF MayAsk
<1>7. CASE LoopAll BY <1>6, <1>7 DEF LoopAll, Goes
<1>8. ASSUME NEW outcome, ParsePiece(outcome) PROVE RconInv'
  BY <1>1, <1>6, <1>8 DEF ParsePiece, Goes
<1>9. CASE Waits BY <1>9, ReceiveLemma, TimeOutLemma DEF Waits
<1>10. CASE Manager BY <1>4, <1>5, <1>7, <1>8, <1>9, <1>10 DEF Manager
<1>11. ASSUME NEW p \in Procs, Plugin(p) PROVE RconInv' BY <1>1, <1>11 DEF Plugin
<1>12. CASE Stop \/ Stopped \/ StopManager BY <1>1, <1>12 DEF Stop, Stopped, StopManager
<1>13. ASSUME NEW n \in Names, StopsPlugin(n) PROVE RconInv'
  BY <1>1, <1>13 DEF StopsPlugin
<1>14. CASE UNCHANGED vars BY <1>1, <1>14 DEF vars
<1> QED BY <1>2, <1>3, <1>10, <1>11, <1>12, <1>13, <1>14 DEF Next

(* Until a command has timed out, or been answered twice, every answer is  *)
(* that of its own command, whatever the server and the plugins do.        *)
THEOREM AnswersInStep == Spec => []InStep
<1>1. RconInv => InStep BY DEF RconInv, InStep
<1> QED BY <1>1, RconStart, RconNext, PTL DEF Spec

-----------------------------------------------------------------------------
(* Where a manager is that has not yet emptied the engine's log, not yet   *)
(* verified it, and not yet started the plugins.                           *)
Early == {"launch", "clear", "open", "fresh"}
Unverified == Early \cup {"verify"}
Unplugged == Unverified \cup {"plugins"}

(* The manager never goes back to these but by launching the engine again, *)
(* and a stop finds it past them.                                          *)
OrderInv ==
    /\ at \in Starting \cup Looping \cup {"dead"}
    /\ launches \in Nat /\ (at = "launch" => launches = 0) /\ (at # "launch" => launches >= 1)
    /\ at \in Early => launches <= 1
    /\ at \in {"poll", "parse", "tend", "relaunch", "dead"} \/ launches >= 2 \/ todo = {}

(* Once the log has been emptied it holds lines of this manager's engines. *)
LogInv ==
    /\ elog \in Seq(ElogLine) /\ startup \in Seq({"hooked", "skipped"}) /\ mode \in Modes
    /\ at \notin Early => \A k \in DOMAIN elog : elog[k].launch \in 1 .. launches
    /\ launches <= 1 /\ at \in Unverified => verdict # "armed"
    /\ VerdictFresh

VerdictInv == OrderInv /\ LogInv

LEMMA VerdictStart == Init => VerdictInv
<1> SUFFICES ASSUME Init PROVE VerdictInv OBVIOUS
<1>1. /\ at = "launch" /\ launches = 0 /\ startup = <<>> /\ mode \in Modes /\ todo = {}
      /\ elog = <<[launch |-> 0, what |-> "hooked"]>> /\ verdict = "unknown"
  BY DEF Init, PlugInit
<1>2. [launch |-> 0, what |-> "hooked"] \in ElogLine BY DEF ElogLine
<1>3. elog \in Seq(ElogLine) /\ startup \in Seq({"hooked", "skipped"}) BY <1>1, <1>2
<1>4. OrderInv BY <1>1 DEF OrderInv, Starting
<1>5. LogInv BY <1>1, <1>3 DEF LogInv, VerdictFresh, Early
<1> QED BY <1>4, <1>5 DEF VerdictInv

(* A step that leaves the log, the verdict and the launches alone.         *)
LEMMA VerdictQuiet ==
    ASSUME VerdictInv, UNCHANGED <<mode, launches, startup, elog, verdict>>,
           at' \in Starting \cup Looping \cup {"dead"},
           at' = "launch" <=> at = "launch",
           at' \in Unverified => at \in Unverified,
           at' \in Early <=> at \in Early,
           at' \in {"poll", "parse", "tend", "relaunch", "dead"} \/ launches >= 2 \/ todo' = {}
    PROVE  VerdictInv'
<1>1. /\ mode' = mode /\ launches' = launches /\ startup' = startup
      /\ elog' = elog /\ verdict' = verdict
  OBVIOUS
<1>2. OrderInv' BY <1>1 DEF VerdictInv, OrderInv
<1>3. LogInv' BY <1>1 DEF VerdictInv, LogInv, VerdictFresh
<1> QED BY <1>2, <1>3 DEF VerdictInv

LEMMA LaunchLemma ==
    ASSUME VerdictInv, Launch \/ Relaunch PROVE VerdictInv'
<1>1. /\ launches' = launches + 1 /\ startup' \in mode.prints /\ mode' = mode
      /\ elog' = elog /\ verdict' = verdict /\ todo' = todo
  BY DEF Launch, Relaunch, Launches, plugVars
<1>2. launches \in Nat /\ mode \in Modes BY DEF VerdictInv, OrderInv, LogInv
<1>3. startup' \in Seq({"hooked", "skipped"}) BY <1>1, <1>2, WatchAssumption
<1>4. CASE Launch
  <2>1. at = "launch" /\ at' = "clear" BY <1>4 DEF Launch, Goes
  <2>2. launches = 0 /\ todo = {} BY <2>1 DEF VerdictInv, OrderInv
  <2>3. verdict # "armed" BY <2>1, <2>2 DEF VerdictInv, LogInv, Unverified, Early
  <2>4. OrderInv' BY <1>1, <2>1, <2>2 DEF OrderInv, Starting
  <2>5. at' \in Early BY <2>1 DEF Early
  <2>6. LogInv' BY <1>1, <1>3, <2>3, <2>5 DEF VerdictInv, LogInv, VerdictFresh
  <2> QED BY <2>4, <2>6 DEF VerdictInv
<1>5. CASE Relaunch
  <2>1. at = "relaunch" /\ at' \in {"verify", "poll"} BY <1>5 DEF Relaunch, Goes
  <2>2. launches >= 1 BY <2>1 DEF VerdictInv, OrderInv
  <2>3. OrderInv' BY <1>1, <1>2, <2>1, <2>2 DEF VerdictInv, OrderInv, Looping, Early
  <2>4. ~(launches' <= 1) /\ 1 .. launches \subseteq 1 .. launches' BY <1>1, <1>2, <2>2
  <2>5. at \notin Early BY <2>1 DEF Early
  <2>6. \A k \in DOMAIN elog : elog[k].launch \in 1 .. launches'
    BY <2>4, <2>5 DEF VerdictInv, LogInv
  <2>7. VerdictFresh' BY <1>1, <2>4 DEF VerdictInv, LogInv, VerdictFresh
  <2>8. LogInv' BY <1>1, <1>3, <2>4, <2>6, <2>7 DEF VerdictInv, LogInv
  <2> QED BY <2>3, <2>8 DEF VerdictInv
<1> QED BY <1>4, <1>5

LEMMA PrintsLemma ==
    ASSUME VerdictInv, Prints PROVE VerdictInv'
<1>1. /\ startup # <<>> /\ startup' = Tail(startup)
      /\ elog' = Append(elog, [launch |-> launches, what |-> Head(startup)])
      /\ mode' = mode /\ at' = at /\ launches' = launches /\ verdict' = verdict /\ todo' = todo
  BY DEF Prints, plugVars
<1>2. startup \in Seq({"hooked", "skipped"}) /\ elog \in Seq(ElogLine) /\ launches \in Nat
  BY DEF VerdictInv, OrderInv, LogInv
<1>3. Head(startup) \in {"hooked", "skipped"} /\ startup' \in Seq({"hooked", "skipped"})
  BY <1>1, <1>2
<1> DEFINE new == [launch |-> launches, what |-> Head(startup)]
<1>4. new \in ElogLine /\ new.launch = launches BY <1>2, <1>3 DEF ElogLine
<1>5. /\ elog' \in Seq(ElogLine) /\ DOMAIN elog' = DOMAIN elog \cup {Len(elog) + 1}
      /\ \A k \in DOMAIN elog : elog'[k] = elog[k]
      /\ elog'[Len(elog) + 1] = new
  <2> HIDE DEF new
  <2>1. elog' = Append(elog, new) BY <1>1 DEF new
  <2> QED BY <2>1, <1>2, <1>4
<1>6. OrderInv' BY <1>1 DEF VerdictInv, OrderInv
<1>7. ASSUME at \notin Early PROVE \A k \in DOMAIN elog' : elog'[k].launch \in 1 .. launches
  <2>1. launches >= 1 BY <1>7 DEF VerdictInv, OrderInv, Early
  <2>2. new.launch \in 1 .. launches BY <1>2, <1>4, <2>1
  <2>3. \A k \in DOMAIN elog : elog[k].launch \in 1 .. launches
    BY <1>7 DEF VerdictInv, LogInv
  <2> HIDE DEF new
  <2> QED BY <1>5, <2>2, <2>3
<1>8. VerdictFresh' BY <1>1, <1>5 DEF VerdictInv, LogInv, VerdictFresh
<1>9. LogInv' BY <1>1, <1>3, <1>5, <1>7, <1>8 DEF VerdictInv, LogInv
<1> QED BY <1>6, <1>9 DEF VerdictInv

LEMMA ClearLemma ==
    ASSUME VerdictInv, ClearEngineLog PROVE VerdictInv'
<1>1. /\ at = "fresh" /\ at' = "verify" /\ elog' = <<>> /\ mode' = mode
      /\ launches' = launches /\ startup' = startup /\ verdict' = verdict /\ todo' = todo
  BY DEF ClearEngineLog, Goes, plugVars
<1>2. elog' \in Seq(ElogLine) /\ DOMAIN elog' = {} BY <1>1
<1>3. launches <= 1 BY <1>1 DEF VerdictInv, OrderInv, Early
<1>4. verdict # "armed"
  BY <1>1, <1>3 DEF VerdictInv, LogInv, Unverified, Early
<1>5. OrderInv' BY <1>1 DEF VerdictInv, OrderInv, Starting, Early
<1>6. LogInv' BY <1>1, <1>2, <1>4 DEF VerdictInv, LogInv, VerdictFresh
<1> QED BY <1>5, <1>6 DEF VerdictInv

LEMMA VerifyLemma ==
    ASSUME VerdictInv, Verify PROVE VerdictInv'
<1>1. /\ at = "verify" /\ at' = "plugins" /\ elog' = elog /\ mode' = mode
      /\ launches' = launches /\ startup' = startup /\ todo' = todo
      /\ verdict' = "armed" => \E k \in DOMAIN elog : elog[k].what = "hooked"
  BY DEF Verify, Goes, plugVars
<1>2. OrderInv' BY <1>1 DEF VerdictInv, OrderInv, Starting, Early
<1>3. ASSUME verdict' = "armed"
      PROVE  \E k \in DOMAIN elog : elog[k].what = "hooked" /\ elog[k].launch \in 1 .. launches
  <2>1. PICK k \in DOMAIN elog : elog[k].what = "hooked" BY <1>1, <1>3
  <2>2. elog[k].launch \in 1 .. launches BY <1>1 DEF VerdictInv, LogInv, Early
  <2> QED BY <2>1, <2>2
<1>4. VerdictFresh' BY <1>1, <1>3 DEF VerdictFresh
<1>5. at' \notin Unverified /\ at \notin Early BY <1>1 DEF Unverified, Early
<1>6. LogInv' BY <1>1, <1>4, <1>5 DEF VerdictInv, LogInv
<1> QED BY <1>2, <1>6 DEF VerdictInv

LEMMA VerdictNext == VerdictInv /\ [Next]_vars => VerdictInv'
<1> SUFFICES ASSUME VerdictInv, [Next]_vars PROVE VerdictInv' OBVIOUS
<1> DEFINE Quiet == UNCHANGED <<mode, launches, startup, elog, verdict>>
           Places == Starting \cup Looping \cup {"dead"}
<1>1. OrderInv BY DEF VerdictInv
<1>2. ASSUME Quiet, at' = at, todo' \subseteq todo PROVE VerdictInv'
  BY <1>1, <1>2, VerdictQuiet DEF OrderInv
<1>3. ASSUME Quiet, at \notin Unverified, at' \in {"poll", "parse", "tend", "relaunch", "dead"}
      PROVE  VerdictInv'
  BY <1>3, VerdictQuiet DEF Looping, Unverified, Early
<1>4. CASE Logs \/ Serves BY <1>2, <1>4 DEF Logs, Serves, watchVars, plugVars
<1>5. CASE Crash
  <2>1. /\ mode' = mode /\ at' = at /\ launches' = launches /\ startup' = <<>>
        /\ elog' = elog /\ verdict' = verdict /\ todo' = todo
    BY <1>5 DEF Crash, plugVars
  <2>2. startup' \in Seq({"hooked", "skipped"}) BY <2>1
  <2>3. OrderInv' BY <1>1, <2>1 DEF OrderInv
  <2>4. LogInv' BY <2>1, <2>2 DEF VerdictInv, LogInv, VerdictFresh
  <2> QED BY <2>3, <2>4 DEF VerdictInv
<1>6. CASE ClearGamesLog \/ OpenGamesLog
  <2>1. /\ Quiet /\ todo' = todo /\ at \in {"clear", "open"} /\ at' \in {"open", "fresh"}
    BY <1>6 DEF ClearGamesLog, OpenGamesLog, Goes, plugVars
  <2>2. launches >= 2 \/ todo' = {} BY <1>1, <2>1 DEF OrderInv
  <2> QED BY <2>1, <2>2, VerdictQuiet DEF Starting, Unverified, Early
<1>7. CASE StartPlugins
  <2>1. Quiet /\ todo' = todo /\ at = "plugins" /\ at' = IF launches = 1 THEN "fork" ELSE "poll"
    BY <1>7 DEF StartPlugins, Start, Goes
  <2>2. launches >= 2 \/ todo' = {} BY <1>1, <2>1 DEF OrderInv
  <2>3. at' \in {"fork", "poll"} BY <2>1
  <2> QED BY <2>1, <2>2, <2>3, VerdictQuiet DEF Starting, Looping, Unverified, Early
<1>8. CASE Fork BY <1>3, <1>8 DEF Fork, Goes, Unverified, Early
<1>9. CASE PollLog \/ LoopAll
  BY <1>3, <1>9 DEF PollLog, LoopAll, Goes, Unverified, Early
<1>10. CASE Tend BY <1>3, <1>10 DEF Tend, Goes, Unverified, Early
<1>11. ASSUME NEW outcome, ParsePiece(outcome) PROVE VerdictInv'
  BY <1>3, <1>11 DEF ParsePiece, Goes, Unverified, Early
<1>12. CASE Waits BY <1>2, <1>12 DEF Waits, watchVars, plugVars
<1>13. CASE Manager
  BY <1>6, <1>7, <1>8, <1>9, <1>10, <1>11, <1>12, <1>13,
     LaunchLemma, ClearLemma, VerifyLemma DEF Manager
<1>14. ASSUME NEW p \in Procs, Plugin(p) PROVE VerdictInv'
  BY <1>2, <1>14 DEF Plugin, Die, watchVars
<1>15. CASE Stop
  <2>1. /\ Quiet /\ at' = at /\ at \in Looping /\ (at \in {"verify", "plugins"} => launches > 1)
    BY <1>15 DEF Stop
  <2>2. at \in {"poll", "parse", "tend", "relaunch"} \/ launches >= 2
    BY <1>1, <2>1 DEF Looping, OrderInv
  <2> QED BY <1>1, <2>1, <2>2, VerdictQuiet DEF OrderInv
<1>16. CASE Stopped BY <1>2, <1>16 DEF Stopped, plugVars
<1>17. CASE StopManager
  <2>1. Quiet /\ todo # {} /\ at' = "dead" BY <1>17 DEF StopManager
  <2>2. at \in {"poll", "parse", "tend", "relaunch", "dead"} \/ launches >= 2
    BY <1>1, <2>1 DEF OrderInv
  <2>3. OrderInv' BY <1>1, <2>1, <2>2 DEF OrderInv, Early
  <2>4. at \notin Early
    <3>1. launches >= 2 => ~(launches <= 1) BY <1>1 DEF OrderInv
    <3> QED BY <1>1, <2>2, <3>1 DEF OrderInv, Early
  <2>5. at' \notin Unverified BY <2>1 DEF Unverified, Early
  <2>6. LogInv' BY <2>1, <2>4, <2>5 DEF VerdictInv, LogInv, VerdictFresh
  <2> QED BY <2>3, <2>6 DEF VerdictInv
<1>18. ASSUME NEW n \in Names, StopsPlugin(n) PROVE VerdictInv'
  BY <1>2, <1>18 DEF StopsPlugin, StopPlugin, watchVars
<1>19. CASE UNCHANGED vars BY <1>2, <1>19 DEF vars, watchVars, plugVars
<1> QED BY <1>4, <1>5, <1>13, <1>14, <1>15, <1>16, <1>17, <1>18, <1>19, PrintsLemma DEF Next

(* What verify_proxy takes for armed hooks are those of engines that this  *)
(* manager has launched, however the engine's output and the emptying of   *)
(* its log are interleaved.                                                *)
THEOREM VerdictIsFresh == Spec => []VerdictFresh
<1>1. VerdictInv => VerdictFresh BY DEF VerdictInv, LogInv
<1> QED BY <1>1, VerdictStart, VerdictNext, PTL DEF Spec

-----------------------------------------------------------------------------
(* Until the engine has been launched again, the process of a plugin that  *)
(* runs is the one that the manager keeps and the one in the pid file; and *)
(* those that ran when a stop began are among what it has yet to look at.  *)
Single == \A n \in Names : \A p \in Running(n) : p = standalone[n] /\ p = plugPid[n]

Awaited == \A n \in Names : \A p \in Running(n) \cap spared : n \in todo

PlugInv ==
    /\ PlugTypeOK
    /\ \A p \in spared : p \in Procs /\ plugs[p].state # "unused"
    /\ stop = "done" => todo = {}
    /\ launches <= 1 =>
          /\ Single
          /\ at \in Unplugged => \A n \in Names : Running(n) = {}
          /\ stop # "none" => Awaited

LEMMA PlugStart == Init => PlugInv
<1> SUFFICES ASSUME Init PROVE PlugInv OBVIOUS
<1> USE DEF Init, PlugInit
<1>1. PlugTypeOK BY PluginAssumption DEF PlugTypeOK
<1>2. \A n \in Names : Running(n) = {} BY DEF Running
<1>3. spared = {} /\ stop = "none" OBVIOUS
<1> QED BY <1>1, <1>2, <1>3 DEF PlugInv, Single

(* The process that Start gives to a plugin is new, and the one that the   *)
(* manager keeps and writes down; the others go on as they were.           *)
LEMMA StartLemma ==
    ASSUME PlugTypeOK, NEW S \in SUBSET Names, Start(S)
    PROVE  /\ PlugTypeOK' /\ todo' = todo
           /\ \A p \in Procs : plugs[p].state # "unused" => plugs'[p] = plugs[p]
           /\ \A n \in Names : \A p \in Running(n)' :
                 \/ p \in Running(n)
                 \/ /\ plugs[p].state = "unused" /\ n \in S
                    /\ p = standalone'[n] /\ p = plugPid'[n]
           /\ \A n \in Names \ S : standalone'[n] = standalone[n] /\ plugPid'[n] = plugPid[n]
<1>1. PICK f \in [S -> Unused] :
        /\ Numbered(f, S) /\ plugs' = Launched(plugs, f, S)
        /\ standalone' = Merged(standalone, f, S) /\ plugPid' = Merged(plugPid, f, S)
        /\ deaths' = deaths /\ todo' = todo
  BY DEF Start
<1>2. \A n \in S : f[n] \in Procs /\ plugs[f[n]].state = "unused" BY <1>1 DEF Unused
<1>3. \A n, m \in S : f[n] = f[m] => n = m BY <1>1 DEF Numbered
<1>4. ASSUME NEW n \in S
      PROVE  plugs'[f[n]] = [of |-> n, state |-> "running", parent |-> "manager"]
  <2>1. (CHOOSE m \in S : f[m] = f[n]) = n BY <1>3
  <2> QED BY <1>1, <1>2, <2>1 DEF Launched
<1>5. \A p \in Procs : (\A n \in S : f[n] # p) => plugs'[p] = plugs[p]
  BY <1>1 DEF Launched
<1>6. \A p \in Procs : plugs[p].state # "unused" => plugs'[p] = plugs[p] BY <1>2, <1>5
<1>7. \A n \in Names : IF n \in S THEN standalone'[n] = f[n] /\ plugPid'[n] = f[n]
                       ELSE standalone'[n] = standalone[n] /\ plugPid'[n] = plugPid[n]
  BY <1>1 DEF Merged
<1>8. ASSUME NEW n \in Names, NEW p \in Running(n)'
      PROVE  \/ p \in Running(n)
             \/ plugs[p].state = "unused" /\ n \in S /\ p = standalone'[n] /\ p = plugPid'[n]
  <2>1. p \in Procs /\ plugs'[p].of = n /\ plugs'[p].state = "running" BY DEF Running
  <2>2. CASE \E m \in S : f[m] = p
    <3>1. PICK m \in S : f[m] = p BY <2>2
    <3>2. plugs'[f[m]] = [of |-> m, state |-> "running", parent |-> "manager"] BY <1>4
    <3>3. m = n BY <2>1, <3>1, <3>2
    <3> QED BY <1>2, <1>7, <3>1, <3>3
  <2>3. CASE \A m \in S : f[m] # p BY <1>5, <2>1, <2>3 DEF Running
  <2> QED BY <2>2, <2>3
<1>9. PlugTypeOK'
  <2> DEFINE Proc == [of : Names \cup {"none"}, parent : {"manager", "init"},
                      state : {"unused", "running", "zombie", "gone"}]
  <2>1. \A p \in Procs : plugs[p] \in Proc BY DEF PlugTypeOK
  <2>2. \A p \in Procs : plugs'[p] \in Proc
    <3> SUFFICES ASSUME NEW p \in Procs PROVE plugs'[p] \in Proc OBVIOUS
    <3>1. CASE \E m \in S : f[m] = p
      <4>1. PICK m \in S : f[m] = p BY <3>1
      <4>2. plugs'[f[m]] = [of |-> m, state |-> "running", parent |-> "manager"] BY <1>4
      <4> QED BY <4>1, <4>2
    <3>2. CASE \A m \in S : f[m] # p BY <1>5, <2>1, <3>2
    <3> QED BY <3>1, <3>2
  <2>3. plugs' = [p \in Procs |-> plugs'[p]] BY <1>1 DEF Launched
  <2>4. plugs' \in [Procs -> Proc] BY <2>2, <2>3
  <2>5. standalone' \in [Names -> Procs \cup {NoProc}] BY <1>1, <1>2 DEF Merged, PlugTypeOK
  <2>6. plugPid' \in [Names -> Procs \cup {NoProc}] BY <1>1, <1>2 DEF Merged, PlugTypeOK
  <2> QED BY <1>1, <2>4, <2>5, <2>6 DEF PlugTypeOK
<1> QED BY <1>1, <1>6, <1>7, <1>8, <1>9

(* A process that is killed does not run; nothing starts.                  *)
LEMMA KilledLemma ==
    ASSUME PlugTypeOK, NEW q \in Procs, plugs' = Killed(q)
    PROVE  /\ plugs' \in [Procs -> [of : Names \cup {"none"},
                                    state : {"unused", "running", "zombie", "gone"},
                                    parent : {"manager", "init"}]]
           /\ \A n \in Names : Running(n)' = Running(n) \ {q}
           /\ \A p \in Procs : plugs[p].state # "unused" => plugs'[p].state # "unused"
<1>1. \A p \in Procs : p # q => plugs'[p] = plugs[p] BY DEF Killed, PlugTypeOK
<1>2. plugs'[q].state = IF plugs[q].state # "running" THEN plugs[q].state
                        ELSE IF plugs[q].parent = "init" THEN "gone" ELSE "zombie"
  BY DEF Killed, PlugTypeOK
<1>3. plugs'[q].of = plugs[q].of BY DEF Killed, PlugTypeOK
<1> QED BY <1>1, <1>2, <1>3 DEF Killed, PlugTypeOK, Running

LEMMA OrphanLemma ==
    ASSUME PlugTypeOK, Orphan
    PROVE  /\ plugs' \in [Procs -> [of : Names \cup {"none"},
                                    state : {"unused", "running", "zombie", "gone"},
                                    parent : {"manager", "init"}]]
           /\ \A n \in Names : Running(n)' = Running(n)
           /\ \A p \in Procs : plugs[p].state # "unused" => plugs'[p].state # "unused"
<1>1. \A p \in Procs :
        /\ plugs'[p].of = plugs[p].of
        /\ plugs'[p].state = IF plugs[p].state = "zombie" THEN "gone" ELSE plugs[p].state
  BY DEF Orphan, PlugTypeOK
<1>2. \A n \in Names : Running(n)' = Running(n) BY <1>1 DEF Running
<1>3. \A p \in Procs : plugs[p].state # "unused" => plugs'[p].state # "unused" BY <1>1
<1> QED BY <1>2, <1>3 DEF Orphan, PlugTypeOK

LEMMA PlugQuiet ==
    ASSUME PlugInv, UNCHANGED <<plugVars, stop, spared>>,
           launches' <= 1 => launches <= 1 /\ (at' \in Unplugged => at \in Unplugged)
    PROVE  PlugInv'
<1>1. /\ plugs' = plugs /\ standalone' = standalone /\ plugPid' = plugPid
      /\ deaths' = deaths /\ todo' = todo /\ stop' = stop /\ spared' = spared
  BY DEF plugVars
<1>2. \A n \in Names : Running(n)' = Running(n) BY <1>1 DEF Running
<1> QED BY <1>1, <1>2 DEF PlugInv, PlugTypeOK, Single, Awaited

(* Plugins that do not run are started.                                    *)
LEMMA PlugStarts ==
    ASSUME PlugInv, NEW S \in SUBSET Names, Start(S), UNCHANGED <<launches, stop, spared>>,
           at' \notin Unplugged,
           launches <= 1 => \A n \in S : Running(n) = {}
    PROVE  PlugInv'
<1>1. PlugTypeOK BY DEF PlugInv
<1>2. /\ PlugTypeOK' /\ todo' = todo
      /\ \A p \in Procs : plugs[p].state # "unused" => plugs'[p] = plugs[p]
      /\ \A n \in Names : \A p \in Running(n)' :
            \/ p \in Running(n)
            \/ /\ plugs[p].state = "unused" /\ n \in S
               /\ p = standalone'[n] /\ p = plugPid'[n]
      /\ \A n \in Names \ S : standalone'[n] = standalone[n] /\ plugPid'[n] = plugPid[n]
  BY <1>1, StartLemma
<1>3. \A p \in spared : p \in Procs /\ plugs[p].state # "unused" BY DEF PlugInv
<1>4. \A p \in spared' : p \in Procs /\ plugs'[p].state # "unused" BY <1>2, <1>3
<1>5. ASSUME launches <= 1 PROVE Single'
  <2>1. ASSUME NEW n \in Names, NEW p \in Running(n)' PROVE p = standalone'[n] /\ p = plugPid'[n]
    <3>1. CASE p \in Running(n)
      <4>1. n \notin S BY <1>5, <3>1
      <4> QED BY <1>2, <1>5, <3>1, <4>1 DEF PlugInv, Single
    <3>2. CASE p \notin Running(n) BY <1>2, <2>1, <3>2
    <3> QED BY <3>1, <3>2
  <2> QED BY <2>1 DEF Single
<1>6. ASSUME launches <= 1, stop # "none" PROVE Awaited'
  <2>1. ASSUME NEW n \in Names, NEW p \in Running(n)', p \in spared PROVE n \in todo
    <3>1. p \in Running(n) BY <1>2, <1>3, <2>1
    <3> QED BY <1>6, <2>1, <3>1 DEF PlugInv, Awaited
  <2> QED BY <1>2, <2>1 DEF Awaited
<1> QED BY <1>2, <1>4, <1>5, <1>6 DEF PlugInv

(* Plugins die, are killed, or get another parent.                         *)
LEMMA PlugEnds ==
    ASSUME PlugInv, PlugTypeOK', UNCHANGED <<launches, stop, spared, standalone>>,
           todo' \subseteq todo,
           at' \in Unplugged => at \in Unplugged,
           \A n \in Names : Running(n)' \subseteq Running(n),
           \A p \in Procs : plugs[p].state # "unused" => plugs'[p].state # "unused",
           \A n \in Names : n \in todo \ todo' \/ plugPid'[n] # plugPid[n]
                => plugPid[n] \notin Running(n)'
    PROVE  PlugInv'
<1>1. \A p \in spared' : p \in Procs /\ plugs'[p].state # "unused" BY DEF PlugInv
<1>2. stop' = "done" => todo' = {} BY DEF PlugInv
<1>3. ASSUME launches <= 1 PROVE Single' BY <1>3 DEF PlugInv, Single
<1>4. ASSUME launches <= 1, stop # "none" PROVE Awaited'
  <2>1. ASSUME NEW n \in Names, NEW p \in Running(n)', p \in spared PROVE n \in todo'
    <3>1. p \in Running(n) /\ p = plugPid[n] BY <1>4, <2>1 DEF PlugInv, Single
    <3>2. n \in todo BY <1>4, <2>1, <3>1 DEF PlugInv, Awaited
    <3> QED BY <2>1, <3>1, <3>2
  <2> QED BY <2>1 DEF Awaited
<1>5. at' \in Unplugged /\ launches <= 1 => \A n \in Names : Running(n)' = {}
  BY DEF PlugInv
<1> QED BY <1>1, <1>2, <1>3, <1>4, <1>5 DEF PlugInv

LEMMA PlugNext == VerdictInv /\ PlugInv /\ [Next]_vars => PlugInv'
<1> SUFFICES ASSUME VerdictInv, PlugInv, [Next]_vars PROVE PlugInv' OBVIOUS
<1>1. OrderInv /\ PlugTypeOK BY DEF VerdictInv, PlugInv
<1>2. CASE Logs \/ Serves \/ Waits
  BY <1>2, PlugQuiet DEF Logs, Serves, Waits, watchVars
<1>3. CASE Prints \/ Crash BY <1>3, PlugQuiet DEF Prints, Crash
<1>4. CASE Launch \/ Relaunch
  <2>1. UNCHANGED <<plugVars, stop, spared>> /\ launches' = launches + 1
    BY <1>4 DEF Launch, Relaunch, Launches
  <2>2. at \in {"launch", "relaunch"} BY <1>4 DEF Launch, Relaunch, Goes
  <2>3. launches' <= 1 => launches <= 1 /\ at = "launch" BY <1>1, <2>1, <2>2 DEF OrderInv
  <2> QED BY <2>1, <2>3, PlugQuiet DEF Unplugged, Unverified, Early
<1>5. CASE ClearGamesLog \/ OpenGamesLog \/ ClearEngineLog \/ Verify
  BY <1>5, PlugQuiet DEF ClearGamesLog, OpenGamesLog, ClearEngineLog, Verify, Goes,
                         Unplugged, Unverified, Early
<1>6. CASE StartPlugins
  <2>1. /\ at = "plugins" /\ Start(Names) /\ UNCHANGED <<launches, stop, spared>>
        /\ at' \in {"fork", "poll"}
    BY <1>6 DEF StartPlugins, Goes
  <2>2. launches <= 1 => \A n \in Names : Running(n) = {} BY <2>1 DEF PlugInv, Unplugged
  <2> QED BY <2>1, <2>2, PlugStarts DEF Unplugged, Unverified, Early
<1>7. CASE Fork
  <2>1. /\ at' = "poll" /\ UNCHANGED <<launches, stop, spared, standalone, plugPid, todo, deaths>>
        /\ plugs' = plugs \/ Orphan
    BY <1>7 DEF Fork, Goes
  <2>2. at' \notin Unplugged BY <2>1 DEF Unplugged, Unverified, Early
  <2>3. CASE plugs' = plugs BY <2>1, <2>2, <2>3, PlugQuiet DEF plugVars
  <2>4. CASE Orphan
    <3>1. PlugTypeOK' BY <1>1, <2>1, <2>4, OrphanLemma DEF PlugTypeOK
    <3> QED BY <1>1, <2>1, <2>2, <2>4, <3>1, OrphanLemma, PlugEnds
  <2> QED BY <2>1, <2>3, <2>4
<1>8. CASE PollLog \/ LoopAll
  BY <1>8, PlugQuiet DEF PollLog, LoopAll, Goes, Unplugged, Unverified, Early
<1>9. ASSUME NEW outcome, ParsePiece(outcome) PROVE PlugInv'
  BY <1>9, PlugQuiet DEF ParsePiece, Goes, Unplugged, Unverified, Early
<1>10. CASE Tend
  <2>1. /\ at' \in {"poll", "relaunch"} /\ UNCHANGED <<launches, stop, spared>>
        /\ Start(Dead) \/ UNCHANGED plugVars
    BY <1>10 DEF Tend, Goes
  <2>2. at' \notin Unplugged BY <2>1 DEF Unplugged, Unverified, Early
  <2>3. Dead \in SUBSET Names BY DEF Dead
  <2>4. launches <= 1 => \A n \in Dead : Running(n) = {}
    BY DEF PlugInv, Single, Dead, Answers, Running
  <2>5. CASE Start(Dead) BY <2>1, <2>2, <2>3, <2>4, <2>5, PlugStarts
  <2>6. CASE UNCHANGED plugVars BY <2>1, <2>2, <2>6, PlugQuiet
  <2> QED BY <2>1, <2>5, <2>6
<1>11. CASE Manager
  BY <1>2, <1>4, <1>5, <1>6, <1>7, <1>8, <1>9, <1>10, <1>11 DEF Manager
<1>12. ASSUME NEW q \in Procs, Plugin(q) PROVE PlugInv'
  <2>1. /\ plugs' = Killed(q) /\ deaths < DeathLimit /\ deaths' = deaths + 1
        /\ UNCHANGED <<standalone, plugPid, todo, at, launches, stop, spared>>
    BY <1>12 DEF Plugin, Die, watchVars
  <2>2. PlugTypeOK'
    <3>1. deaths' \in 0 .. DeathLimit BY <1>1, <2>1, PluginAssumption DEF PlugTypeOK
    <3> QED BY <1>1, <2>1, <3>1, KilledLemma DEF PlugTypeOK
  <2> QED BY <1>1, <2>1, <2>2, KilledLemma, PlugEnds
<1>13. CASE Stop
  <2>1. /\ stop = "none" /\ stop' = "killing" /\ spared' = UNION {Running(n) : n \in Names}
        /\ todo' = {"manager"} \cup {n \in Names : plugPid[n] # NoProc}
        /\ UNCHANGED <<plugs, standalone, plugPid, deaths, at, launches>>
    BY <1>13 DEF Stop, List
  <2>2. \A n \in Names : Running(n)' = Running(n) BY <2>1 DEF Running
  <2>3. PlugTypeOK' BY <1>1, <2>1 DEF PlugTypeOK, Labels
  <2>4. \A p \in spared' : p \in Procs /\ plugs'[p].state # "unused"
    BY <2>1 DEF Running
  <2>5. ASSUME launches <= 1 PROVE Single' /\ Awaited'
    <3>1. Single BY <2>5 DEF PlugInv
    <3>2. \A n \in Names : \A p \in Running(n) : p # NoProc BY DEF Running, Procs, NoProc
    <3> QED BY <2>1, <2>2, <3>1, <3>2 DEF Single, Awaited
  <2> QED BY <2>1, <2>2, <2>3, <2>4, <2>5 DEF PlugInv
<1>14. CASE Stopped
  <2>1. /\ todo = {} /\ stop = "killing" /\ stop' = "done"
        /\ UNCHANGED <<plugVars, at, launches, spared>>
    BY <1>14 DEF Stopped
  <2>2. /\ plugs' = plugs /\ standalone' = standalone /\ plugPid' = plugPid
        /\ deaths' = deaths /\ todo' = todo
    BY <2>1 DEF plugVars
  <2>3. \A n \in Names : Running(n)' = Running(n) BY <2>2 DEF Running
  <2> QED BY <2>1, <2>2, <2>3 DEF PlugInv, PlugTypeOK, Single, Awaited
<1>15. CASE StopManager
  <2>1. /\ at' = "dead" /\ Orphan /\ todo' = todo \ {"manager"}
        /\ UNCHANGED <<launches, stop, spared, standalone, plugPid, deaths>>
    BY <1>15 DEF StopManager
  <2>2. \A n \in Names : n \notin todo \ todo' BY <2>1, PluginAssumption
  <2>3. at' \notin Unplugged BY <2>1 DEF Unplugged, Unverified, Early
  <2>4. PlugTypeOK' BY <1>1, <2>1, OrphanLemma DEF PlugTypeOK
  <2> QED BY <1>1, <2>1, <2>2, <2>3, <2>4, OrphanLemma, PlugEnds
<1>16. ASSUME NEW n \in Names, StopsPlugin(n) PROVE PlugInv'
  <2>1. /\ todo' = todo \ {n}
        /\ UNCHANGED <<at, launches, stop, spared, standalone, deaths>>
    BY <1>16 DEF StopsPlugin, StopPlugin, watchVars
  <2>2. CASE Answers(plugPid[n])
    <3>1. /\ plugs' = Killed(plugPid[n]) /\ plugPid' = [plugPid EXCEPT ![n] = NoProc]
      BY <1>16, <2>2 DEF StopsPlugin, StopPlugin
    <3>2. plugPid[n] \in Procs BY <1>1, <2>2 DEF Answers, PlugTypeOK
    <3>3. PlugTypeOK' BY <1>1, <2>1, <3>1, <3>2, KilledLemma DEF PlugTypeOK
    <3>4. \A m \in Names : m # n => plugPid'[m] = plugPid[m] BY <1>1, <3>1 DEF PlugTypeOK
    <3>5. \A m \in Names : Running(m)' = Running(m) \ {plugPid[n]}
      BY <1>1, <3>1, <3>2, KilledLemma
    <3>6. \A p \in Procs : plugs[p].state # "unused" => plugs'[p].state # "unused"
      BY <1>1, <3>1, <3>2, KilledLemma
    <3> QED BY <2>1, <3>3, <3>4, <3>5, <3>6, PlugEnds
  <2>3. CASE ~Answers(plugPid[n])
    <3>1. plugs' = plugs /\ plugPid' = plugPid
      BY <1>16, <2>3 DEF StopsPlugin, StopPlugin
    <3>2. PlugTypeOK' BY <1>1, <2>1, <3>1 DEF PlugTypeOK
    <3>3. \A m \in Names : Running(m)' = Running(m) BY <3>1 DEF Running
    <3>4. plugPid[n] \notin Running(n) BY <2>3 DEF Answers, Running, Procs, NoProc
    <3> QED BY <2>1, <3>1, <3>2, <3>3, <3>4, PlugEnds
  <2> QED BY <2>2, <2>3
<1>17. CASE UNCHANGED vars BY <1>17, PlugQuiet DEF vars, watchVars
<1> QED BY <1>2, <1>3, <1>11, <1>12, <1>13, <1>14, <1>15, <1>16, <1>17 DEF Next

LEMMA PluginInvariance == Spec => []PlugInv
  BY VerdictStart, VerdictNext, PlugStart, PlugNext, PTL DEF Spec

(* How many processes of a plugin run but for the one that the manager     *)
(* keeps: one for every launch before this one, at most.                   *)
Others(n) == IF at \in Unplugged THEN Running(n) ELSE Running(n) \ {standalone[n]}
CountInv == launches >= 1 => \A n \in Names : Cardinality(Others(n)) <= launches - 1

LEMMA Fewer ==
    ASSUME NEW S \in SUBSET Procs, NEW T \in SUBSET S
    PROVE  /\ Cardinality(S) \in Nat /\ Cardinality(T) \in Nat
           /\ Cardinality(T) <= Cardinality(S)
<1>1. IsFiniteSet(Procs) BY PluginAssumption, FS_Interval DEF Procs
<1>2. IsFiniteSet(S) BY <1>1, FS_Subset
<1> QED BY <1>2, FS_Subset, FS_CardinalityType

(* No other process runs, and the launch is the same.                      *)
LEMMA CountFewer ==
    ASSUME OrderInv, CountInv, launches' = launches,
           \A n \in Names : Others(n)' \subseteq Others(n)
    PROVE  CountInv'
<1> SUFFICES ASSUME launches >= 1, NEW n \in Names
             PROVE  Cardinality(Others(n)') <= launches - 1
  BY DEF CountInv
<1>1. Others(n) \in SUBSET Procs BY DEF Others, Running
<1>2. Cardinality(Others(n)) <= launches - 1 BY DEF CountInv
<1>3. /\ Cardinality(Others(n)) \in Nat /\ Cardinality(Others(n)') \in Nat
      /\ Cardinality(Others(n)') <= Cardinality(Others(n))
  BY <1>1, Fewer
<1> QED BY <1>2, <1>3 DEF OrderInv

LEMMA CountNext == VerdictInv /\ PlugInv /\ CountInv /\ [Next]_vars => CountInv'
<1> SUFFICES ASSUME VerdictInv, PlugInv, CountInv, [Next]_vars PROVE CountInv' OBVIOUS
<1>1. OrderInv /\ PlugTypeOK BY DEF VerdictInv, PlugInv
<1>2. ASSUME launches' = launches, standalone' = standalone,
             at' \in Unplugged => at \in Unplugged,
             \A n \in Names : Running(n)' \subseteq Running(n)
      PROVE  CountInv'
  <2>1. \A n \in Names : Others(n)' \subseteq Others(n) BY <1>2 DEF Others
  <2> QED BY <1>1, <1>2, <2>1, CountFewer
<1>3. ASSUME plugs' = plugs, launches' = launches, standalone' = standalone,
             at' \in Unplugged => at \in Unplugged
      PROVE  CountInv'
  BY <1>2, <1>3 DEF Running
<1>4. CASE Logs \/ Serves \/ Waits
  BY <1>3, <1>4 DEF Logs, Serves, Waits, watchVars, plugVars
<1>5. CASE Prints \/ Crash BY <1>3, <1>5 DEF Prints, Crash, plugVars
<1>6. CASE Launch \/ Relaunch
  <2>1. /\ plugs' = plugs /\ standalone' = standalone /\ launches' = launches + 1
        /\ at \in {"launch", "relaunch"} /\ launches \in Nat
    BY <1>1, <1>6 DEF Launch, Relaunch, Launches, plugVars, Goes, OrderInv
  <2> SUFFICES ASSUME NEW n \in Names PROVE Cardinality(Others(n)') <= launches
    BY <2>1 DEF CountInv
  <2>2. Others(n)' \in SUBSET Running(n) /\ Running(n) \in SUBSET Procs
    BY <2>1 DEF Others, Running
  <2>3. /\ Cardinality(Running(n)) \in Nat /\ Cardinality(Others(n)') \in Nat
        /\ Cardinality(Others(n)') <= Cardinality(Running(n))
    BY <2>2, Fewer
  <2>4. CASE at = "launch"
    <3>1. launches = 0 BY <1>1, <2>4 DEF OrderInv
    <3>2. Running(n) = {} BY <2>4, <3>1 DEF PlugInv, Unplugged, Unverified, Early
    <3>3. Cardinality(Running(n)) = 0 BY <3>2, FS_EmptySet
    <3> QED BY <2>3, <3>1, <3>3
  <2>5. CASE at = "relaunch"
    <3> DEFINE D == Running(n) \ {standalone[n]}
    <3>1. launches >= 1 /\ Others(n) = D
      BY <1>1, <2>5 DEF OrderInv, Others, Unplugged, Unverified, Early
    <3>2. Cardinality(D) <= launches - 1 BY <3>1 DEF CountInv
    <3>3. IsFiniteSet(Running(n))
      <4>1. IsFiniteSet(Procs) BY PluginAssumption, FS_Interval DEF Procs
      <4> QED BY <2>2, <4>1, FS_Subset
    <3>4. Cardinality(D) \in {Cardinality(Running(n)), Cardinality(Running(n)) - 1}
      BY <3>3, FS_RemoveElement
    <3> HIDE DEF D
    <3> QED BY <2>1, <2>3, <3>2, <3>4
  <2> QED BY <2>1, <2>4, <2>5
<1>7. CASE ClearGamesLog \/ OpenGamesLog \/ ClearEngineLog \/ Verify
  BY <1>3, <1>7 DEF ClearGamesLog, OpenGamesLog, ClearEngineLog, Verify, Goes, plugVars,
                    Unplugged, Unverified, Early
<1>8. ASSUME NEW S \in SUBSET Names, Start(S), launches' = launches, at' \notin Unplugged,
             at \in Unplugged => S = Names,
             at \notin Unplugged => \A n \in S : standalone[n] \notin Running(n)
      PROVE  CountInv'
  <2> SUFFICES ASSUME NEW n \in Names, NEW p \in Others(n)' PROVE p \in Others(n)
    BY <1>1, <1>8, CountFewer
  <2>1. p \in Running(n)' /\ p # standalone'[n] BY <1>8 DEF Others
  <2>2. /\ p \in Running(n) \/ (n \in S /\ p = standalone'[n])
        /\ n \notin S => standalone'[n] = standalone[n]
    BY <1>1, <1>8, <2>1, StartLemma
  <2>3. p \in Running(n) BY <2>1, <2>2
  <2> QED BY <1>8, <2>1, <2>2, <2>3 DEF Others
<1>9. CASE StartPlugins
  <2>1. /\ at = "plugins" /\ Start(Names) /\ launches' = launches
        /\ at' \in {"fork", "poll"}
    BY <1>9 DEF StartPlugins, Goes
  <2> QED BY <1>8, <2>1 DEF Unplugged, Unverified, Early
<1>10. CASE Fork
  <2>1. /\ at' = "poll" /\ launches' = launches /\ standalone' = standalone
        /\ plugs' = plugs \/ Orphan
    BY <1>10 DEF Fork, Goes
  <2>2. at' \notin Unplugged BY <2>1 DEF Unplugged, Unverified, Early
  <2>3. CASE plugs' = plugs BY <1>3, <2>1, <2>2, <2>3
  <2>4. CASE Orphan
    <3>1. \A n \in Names : Running(n)' \subseteq Running(n) BY <1>1, <2>4, OrphanLemma
    <3> QED BY <1>2, <2>1, <2>2, <3>1
  <2> QED BY <2>1, <2>3, <2>4
<1>11. CASE PollLog \/ LoopAll
  BY <1>3, <1>11 DEF PollLog, LoopAll, Goes, plugVars, Unplugged, Unverified, Early
<1>12. ASSUME NEW outcome, ParsePiece(outcome) PROVE CountInv'
  BY <1>3, <1>12 DEF ParsePiece, Goes, plugVars, Unplugged, Unverified, Early
<1>13. CASE Tend
  <2>1. /\ at = "tend" /\ at' \in {"poll", "relaunch"} /\ launches' = launches
        /\ Start(Dead) \/ UNCHANGED plugVars
    BY <1>13 DEF Tend, Goes
  <2>2. at \notin Unplugged /\ at' \notin Unplugged
    BY <2>1 DEF Unplugged, Unverified, Early
  <2>3. Dead \in SUBSET Names /\ \A n \in Dead : standalone[n] \notin Running(n)
    BY DEF Dead, Answers, Running
  <2>4. CASE Start(Dead) BY <1>8, <2>1, <2>2, <2>3, <2>4
  <2>5. CASE UNCHANGED plugVars BY <1>3, <2>1, <2>2, <2>5 DEF plugVars
  <2> QED BY <2>1, <2>4, <2>5
<1>14. CASE Manager
  BY <1>4, <1>6, <1>7, <1>9, <1>10, <1>11, <1>12, <1>13, <1>14 DEF Manager
<1>15. ASSUME NEW q \in Procs, Plugin(q) PROVE CountInv'
  <2>1. plugs' = Killed(q) /\ UNCHANGED <<standalone, at, launches>>
    BY <1>15 DEF Plugin, Die, watchVars
  <2>2. \A n \in Names : Running(n)' \subseteq Running(n) BY <1>1, <2>1, KilledLemma
  <2> QED BY <1>2, <2>1, <2>2
<1>16. CASE Stop BY <1>3, <1>16 DEF Stop, List
<1>17. CASE Stopped BY <1>3, <1>17 DEF Stopped, plugVars
<1>18. CASE StopManager
  <2>1. at' = "dead" /\ Orphan /\ UNCHANGED <<launches, standalone>> BY <1>18 DEF StopManager
  <2>2. at' \notin Unplugged BY <2>1 DEF Unplugged, Unverified, Early
  <2>3. \A n \in Names : Running(n)' \subseteq Running(n) BY <1>1, <2>1, OrphanLemma
  <2> QED BY <1>2, <2>1, <2>2, <2>3
<1>19. ASSUME NEW n \in Names, StopsPlugin(n) PROVE CountInv'
  <2>1. UNCHANGED <<at, launches, standalone>> BY <1>19 DEF StopsPlugin, StopPlugin, watchVars
  <2>2. CASE Answers(plugPid[n])
    <3>1. plugs' = Killed(plugPid[n]) /\ plugPid[n] \in Procs
      BY <1>1, <1>19, <2>2 DEF StopsPlugin, StopPlugin, Answers, PlugTypeOK
    <3>2. \A m \in Names : Running(m)' \subseteq Running(m) BY <1>1, <3>1, KilledLemma
    <3> QED BY <1>2, <2>1, <3>2
  <2>3. CASE ~Answers(plugPid[n])
    BY <1>3, <1>19, <2>1, <2>3 DEF StopsPlugin, StopPlugin
  <2> QED BY <2>2, <2>3
<1>20. CASE UNCHANGED vars BY <1>3, <1>20 DEF vars, watchVars, plugVars
<1> QED BY <1>4, <1>5, <1>14, <1>15, <1>16, <1>17, <1>18, <1>19, <1>20 DEF Next

(* However often plugins die, the watchdog starts none that still runs: no *)
(* more processes of a plugin run than the engine has been launched.       *)
THEOREM PluginsRunOnce == Spec => []OnePerPlugin
<1>1. Init => CountInv BY DEF Init, CountInv
<1>2. VerdictInv /\ PlugInv /\ CountInv => OnePerPlugin
  <2> SUFFICES ASSUME VerdictInv, PlugInv, CountInv, NEW n \in Names
               PROVE  Cardinality(Running(n)) <= launches
    BY DEF OnePerPlugin
  <2>1. OrderInv BY DEF VerdictInv
  <2>2. Running(n) \in SUBSET Procs /\ IsFiniteSet(Running(n))
    <3>1. IsFiniteSet(Procs) BY PluginAssumption, FS_Interval DEF Procs
    <3>2. Running(n) \in SUBSET Procs BY DEF Running
    <3> QED BY <3>1, <3>2, FS_Subset
  <2>3. Cardinality(Running(n)) \in Nat BY <2>2, FS_CardinalityType
  <2>4. CASE at = "launch"
    <3>1. launches = 0 BY <2>1, <2>4 DEF OrderInv
    <3>2. Running(n) = {} BY <2>4, <3>1 DEF PlugInv, Unplugged, Unverified, Early
    <3>3. Cardinality(Running(n)) = 0 BY <3>2, FS_EmptySet
    <3> QED BY <3>1, <3>3
  <2>5. CASE at # "launch"
    <3>1. launches \in Nat /\ launches >= 1 BY <2>1, <2>5 DEF OrderInv
    <3>2. Cardinality(Others(n)) <= launches - 1 BY <3>1 DEF CountInv
    <3>3. Cardinality(Others(n)) \in {Cardinality(Running(n)), Cardinality(Running(n)) - 1}
      BY <2>2, FS_RemoveElement DEF Others
    <3> QED BY <2>3, <3>1, <3>2, <3>3
  <2> QED BY <2>4, <2>5
<1>3. Spec => []VerdictInv BY VerdictStart, VerdictNext, PTL DEF Spec
<1>4. Spec => []CountInv
  <2>1. Init /\ [][Next]_vars /\ []VerdictInv /\ []PlugInv => []CountInv
    BY <1>1, CountNext, PTL
  <2> QED BY <1>3, <2>1, PluginInvariance, PTL DEF Spec
<1> QED BY <1>2, <1>3, <1>4, PluginInvariance, PTL

(* Whenever a stop begins and whatever dies or is started meanwhile, it    *)
(* leaves none of the plugin processes that ran when it began, unless the  *)
(* engine has been launched again.                                         *)
THEOREM StopEndsPlugins == Spec => []PluginsStop
<1>1. PlugInv => PluginsStop
  <2> SUFFICES ASSUME PlugInv, stop = "done", launches = 1, NEW n \in Names
               PROVE  Running(n) \cap spared = {}
    BY DEF PluginsStop
  <2> QED BY DEF PlugInv, Awaited
<1> QED BY <1>1, PluginInvariance, PTL

-----------------------------------------------------------------------------
(* Split, cell by cell. *)
Pieces(S) == Seq(S) \ {<<>>}

Grown(parts, new, c) ==
    IF new THEN Append(parts, <<c>>)
    ELSE [parts EXCEPT ![Len(parts)] = Append(@, c)]

SplitSteps(cells, F) ==
    /\ F[0] = <<>>
    /\ \A n \in 1 .. Len(cells) :
          F[n] = Grown(F[n - 1], n = 1 \/ EndsLine(cells[n - 1]), cells[n])

LEMMA GrownType ==
    ASSUME NEW S, NEW parts \in Seq(Pieces(S)), NEW new \in BOOLEAN, NEW c \in S
    PROVE  Grown(parts, new, c) \in Seq(Pieces(S))
<1> DEFINE Q == Pieces(S)
           N == Len(parts)
<1>1. <<c>> \in Q /\ N \in Nat /\ parts \in Seq(Q) BY LenProperties DEF Pieces
<1>2. CASE new
  <2> HIDE DEF Q
  <2>1. Append(parts, <<c>>) \in Seq(Q) BY <1>1, AppendProperties
  <2> QED BY <1>2, <2>1 DEF Grown, Q
<1>3. CASE ~new /\ N \in 1 .. N
  <2> DEFINE longer == Append(parts[N], c)
  <2>1. parts[N] \in Q
    <3> HIDE DEF Q
    <3> QED BY <1>1, <1>3, ElementOfSeq
  <2>2. longer \in Q BY <2>1, AppendProperties DEF Pieces
  <2>3. [parts EXCEPT ![N] = longer] \in Seq(Q)
    <3> HIDE DEF Q, longer, N
    <3> QED BY <1>1, <1>3, <2>2, ExceptSeq DEF N
  <2> QED BY <1>3, <2>3 DEF Grown
<1>4. CASE ~new /\ N \notin 1 .. N
  <2>1. N = 0 BY <1>1, <1>4
  <2>2. parts = <<>>
    <3> HIDE DEF Q
    <3> QED BY <1>1, <2>1, EmptySeq
  <2>3. [parts EXCEPT ![N] = Append(@, c)] = parts
    <3>1. DOMAIN parts = {} BY <2>2
    <3>2. parts = [x \in DOMAIN parts |-> parts[x]] BY <2>2
    <3> QED BY <3>1, <3>2
  <2> QED BY <1>4, <2>3 DEF Grown
<1> QED BY <1>2, <1>3, <1>4

LEMMA SplitUnfold ==
    ASSUME NEW S, NEW cells \in Seq(S)
    PROVE  \E F \in [0 .. Len(cells) -> Seq(Pieces(S))] :
              SplitSteps(cells, F) /\ Split(cells) = F[Len(cells)]
<1> DEFINE N == Len(cells)
           New(n) == n = 1 \/ EndsLine(cells[n - 1])
           Q == Seq(Pieces(S))
           D == [n \in 1 .. N |-> [x \in Q |-> Grown(x, New(n), cells[n])]]
           Body(g, n) == IF n = 0 THEN <<>> ELSE Grown(g[n - 1], New(n), cells[n])
           Fcn(g) == [n \in 0 .. N |-> Body(g, n)]
           Upto == CHOOSE g : g = Fcn(g)
<1>1. N \in Nat /\ \A n \in 1 .. N : cells[n] \in S BY LenProperties
<1>2. \A n \in 1 .. N, x \in Q : Grown(x, New(n), cells[n]) \in Q
  BY <1>1, GrownType
<1>3. \A n \in 1 .. N, x \in Q : D[n][x] = Grown(x, New(n), cells[n]) OBVIOUS
<1> HIDE DEF D
<1>4. PICK f : f \in [0 .. N -> Q] /\ f[0] = <<>> /\ \A n \in 1 .. N : f[n] = D[n][f[n - 1]]
  <2> DEFINE none == <<>>
  <2>1. none \in Q OBVIOUS
  <2>2. N \in Nat /\ \A n \in 1 .. N, x \in Q : D[n][x] \in Q BY <1>1, <1>2, <1>3
  <2>3. \E f : IsRun(N, Q, none, D, f)
    <3> HIDE DEF N, Q, none
    <3> QED BY <2>1, <2>2, RecursionExists
  <2> QED BY <2>3 DEF IsRun
<1>5. f = Fcn(f)
  <2>1. ASSUME NEW n \in 0 .. N PROVE f[n] = Body(f, n)
    <3>1. CASE n = 0 BY <1>4, <3>1
    <3>2. CASE n # 0
      <4>1. n \in 1 .. N /\ n - 1 \in 0 .. N BY <1>1, <3>2
      <4>2. f[n - 1] \in Q BY <1>4, <4>1
      <4> HIDE DEF Q, New
      <4> QED BY <1>3, <1>4, <3>2, <4>1, <4>2
    <3> QED BY <3>1, <3>2
  <2> HIDE DEF Body, Q
  <2> QED BY <1>4, <2>1
<1>6. Upto = Fcn(Upto)
  <2> HIDE DEF Fcn
  <2> QED BY <1>5
<1>7. Split(cells) = Upto[N] BY DEF Split, Grown
<1>8. SplitSteps(cells, Upto)
  <2> HIDE DEF Upto
  <2>1. Upto[0] = <<>> BY <1>1, <1>6
  <2>2. ASSUME NEW n \in 1 .. N
        PROVE  Upto[n] = Grown(Upto[n - 1], New(n), cells[n])
    <3>1. n \in 0 .. N /\ n # 0 BY <1>1
    <3>2. Upto[n] = Fcn(Upto)[n] BY <1>6
    <3> HIDE DEF N, New
    <3> QED BY <3>1, <3>2
  <2> QED BY <2>1, <2>2 DEF SplitSteps
<1>9. Upto \in [0 .. N -> Q]
  <2> DEFINE Good == {n \in Nat : n <= N => Upto[n] \in Q}
  <2> HIDE DEF Upto
  <2>1. 0 \in Good
    <3>1. <<>> \in Q OBVIOUS
    <3> QED BY <1>8, <3>1 DEF SplitSteps
  <2>2. ASSUME NEW n \in Nat, n \in Good PROVE n + 1 \in Good
    <3> SUFFICES ASSUME n + 1 <= N PROVE Upto[n + 1] \in Q OBVIOUS
    <3>1. Upto[n] \in Q /\ n + 1 \in 1 .. N /\ (n + 1) - 1 = n BY <1>1, <2>2
    <3>2. Upto[n + 1] = Grown(Upto[n], New(n + 1), cells[n + 1])
      BY <1>8, <3>1 DEF SplitSteps
    <3> HIDE DEF Q, New
    <3> QED BY <1>2, <3>1, <3>2
  <2>3. \A n \in Nat : n \in Good
    <3> HIDE DEF Good
    <3> QED BY <2>1, <2>2, NatSetInduction
  <2>4. \A n \in 0 .. N : Upto[n] \in Q BY <1>1, <2>3
  <2>5. Upto = [n \in 0 .. N |-> Upto[n]]
    <3>1. Fcn(Upto) = [n \in 0 .. N |-> Fcn(Upto)[n]] OBVIOUS
    <3> QED BY <1>6, <3>1
  <2> HIDE DEF Q
  <2> QED BY <2>4, <2>5
<1> HIDE DEF Upto
<1> QED BY <1>7, <1>8, <1>9

LEMMA SplitType ==
    ASSUME NEW S, NEW cells \in Seq(S) PROVE Split(cells) \in Seq(Pieces(S))
  BY SplitUnfold, LenProperties

LEMMA SplitEmpty == Split(<<>>) = <<>>
<1> DEFINE e == <<>>
<1>1. e \in Seq({}) /\ Len(e) = 0 OBVIOUS
<1> HIDE DEF e
<1>2. \E F : SplitSteps(e, F) /\ Split(e) = F[Len(e)] BY <1>1, SplitUnfold
<1>3. Split(e) = <<>> BY <1>1, <1>2 DEF SplitSteps
<1> QED BY <1>3 DEF e

LEMMA SplitAppend ==
    ASSUME NEW S, NEW cells \in Seq(S), NEW c \in S
    PROVE  Split(Append(cells, c))
             = Grown(Split(cells), cells = <<>> \/ EndsLine(cells[Len(cells)]), c)
<1> DEFINE t == Append(cells, c)
           N == Len(cells)
<1>1. /\ t \in Seq(S) /\ Len(t) = N + 1 /\ N \in Nat
      /\ \A n \in 1 .. N : t[n] = cells[n]
      /\ t[N + 1] = c
  BY AppendProperties, LenProperties
<1>2. PICK F : SplitSteps(cells, F) /\ Split(cells) = F[N] BY SplitUnfold
<1>3. PICK G : SplitSteps(t, G) /\ Split(t) = G[N + 1]
  <2> HIDE DEF t
  <2> QED BY <1>1, SplitUnfold
<1>4. N = 0 <=> cells = <<>> BY EmptySeq
<1> HIDE DEF t, N
<1>5. F[N] = G[N]
  <2> DEFINE Good == {n \in Nat : n <= N => F[n] = G[n]}
  <2>1. 0 \in Good BY <1>2, <1>3 DEF SplitSteps
  <2>2. ASSUME NEW n \in Nat, n \in Good PROVE n + 1 \in Good
    <3> SUFFICES ASSUME n + 1 <= N PROVE F[n + 1] = G[n + 1] OBVIOUS
    <3>1. F[n] = G[n] /\ n + 1 \in 1 .. N /\ n + 1 \in 1 .. (N + 1) /\ (n + 1) - 1 = n
      BY <1>1, <2>2
    <3>2. F[n + 1] = Grown(F[n], n + 1 = 1 \/ EndsLine(cells[n]), cells[n + 1])
      BY <1>2, <3>1 DEF SplitSteps, N
    <3>3. G[n + 1] = Grown(G[n], n + 1 = 1 \/ EndsLine(t[n]), t[n + 1])
      BY <1>1, <1>3, <3>1 DEF SplitSteps
    <3>4. t[n + 1] = cells[n + 1] /\ (n # 0 => t[n] = cells[n]) BY <1>1, <3>1
    <3>5. (n + 1 = 1 \/ EndsLine(cells[n])) = (n + 1 = 1 \/ EndsLine(t[n]))
      <4>1. CASE n = 0 BY <4>1
      <4>2. CASE n # 0 BY <3>4, <4>2
      <4> QED BY <4>1, <4>2
    <3> QED BY <3>1, <3>2, <3>3, <3>4, <3>5
  <2>3. N \in Good
    <3> HIDE DEF Good
    <3> QED BY <1>1, <2>1, <2>2, NatSetInduction
  <2> QED BY <2>3
<1>6. N + 1 \in 1 .. Len(t) /\ (N + 1) - 1 = N BY <1>1
<1>7. G[N + 1] = Grown(G[N], N + 1 = 1 \/ EndsLine(t[N]), c)
  BY <1>1, <1>3, <1>6 DEF SplitSteps
<1>8. (N + 1 = 1 \/ EndsLine(t[N])) = (cells = <<>> \/ EndsLine(cells[N]))
  <2>1. CASE N = 0 BY <1>4, <2>1
  <2>2. CASE N # 0
    <3>1. t[N] = cells[N] /\ cells # <<>> /\ N + 1 # 1 BY <1>1, <1>4, <2>2
    <3> QED BY <3>1
  <2> QED BY <2>1, <2>2
<1> QED BY <1>2, <1>3, <1>5, <1>7, <1>8 DEF t, N

-----------------------------------------------------------------------------
(* The halves of a line are neighbours, and alike. *)
Joined(cells) ==
    \A i \in 1 .. (Len(cells) - 1) :
        cells[i].line = cells[i + 1].line =>
            cells[i + 1].part # "head" /\ cells[i].kind = cells[i + 1].kind

(* The negation of Spliced, of any cells. *)
Unspliced(cells) ==
    \A i \in 1 .. (Len(cells) - 1) :
        cells[i].part = "head" => cells[i + 1].line = cells[i].line

Event(line) == [line |-> line, faithful |-> TRUE]
EventOfCell == [c \in Cell |-> Event(c.line)]
EventOfPiece == [p \in Pieces(Cell) |-> Event(p[1].line)]

(* The lines of cells, and of pieces, that are not in T. *)
WholeCells(T) == {c \in Cell : EndsLine(c) /\ c.kind # "other" /\ c.line \notin T}
WholePieces(T) ==
    {p \in Pieces(Cell) : Complete(p) /\ p[1].kind # "other" /\ p[1].line \notin T}

OfCells(cells, T) == Mapped(Filter(cells, WholeCells(T)), EventOfCell)
OfPieces(parts, T) == Mapped(Filter(parts, WholePieces(T)), EventOfPiece)

(* T has the lines of all pieces that are not complete. *)
Covers(parts, T) ==
    \A k \in 1 .. Len(parts) : ~Complete(parts[k]) => LinesOf(parts[k]) \subseteq T

LEMMA EventTypes ==
    /\ EventOfCell \in [Cell -> Told(1 .. MaxLines)]
    /\ EventOfPiece \in [Pieces(Cell) -> Told(1 .. MaxLines)]
<1>1. \A c \in Cell : Event(c.line) \in Told(1 .. MaxLines) BY DEF Cell, Event, Told
<1>2. ASSUME NEW p \in Pieces(Cell) PROVE p[1] \in Cell
  <2>1. p \in Seq(Cell) /\ p # <<>> BY DEF Pieces
  <2>2. Len(p) \in Nat \ {0} BY <2>1, EmptySeq
  <2> HIDE DEF Cell
  <2> QED BY <2>1, <2>2, ElementOfSeq
<1> QED BY <1>1, <1>2 DEF EventOfCell, EventOfPiece

LEMMA CellsAppend ==
    ASSUME NEW s \in Seq(Cell), NEW c \in Cell, NEW T
    PROVE  OfCells(Append(s, c), T) = IF c \in WholeCells(T)
                                      THEN Append(OfCells(s, T), Event(c.line))
                                      ELSE OfCells(s, T)
<1> DEFINE W == WholeCells(T)
           q == Filter(s, W)
<1>1. Filter(Append(s, c), W) = IF c \in W THEN Append(q, c) ELSE q BY FilterAppend
<1>2. q \in Seq(Cell) BY FilterType
<1>3. EventOfCell[c] = Event(c.line) BY DEF EventOfCell
<1> HIDE DEF q, W
<1>4. Mapped(Append(q, c), EventOfCell) = Append(Mapped(q, EventOfCell), EventOfCell[c])
  BY <1>2, EventTypes, MappedAppend
<1> QED BY <1>1, <1>3, <1>4 DEF OfCells, q, W

LEMMA PiecesAppend ==
    ASSUME NEW parts \in Seq(Pieces(Cell)), NEW p \in Pieces(Cell), NEW T
    PROVE  OfPieces(Append(parts, p), T) = IF p \in WholePieces(T)
                                           THEN Append(OfPieces(parts, T), Event(p[1].line))
                                           ELSE OfPieces(parts, T)
<1> DEFINE W == WholePieces(T)
           q == Filter(parts, W)
<1>1. Filter(Append(parts, p), W) = IF p \in W THEN Append(q, p) ELSE q BY FilterAppend
<1>2. q \in Seq(Pieces(Cell)) BY FilterType
<1>3. EventOfPiece[p] = Event(p[1].line) BY DEF EventOfPiece
<1> HIDE DEF q, W
<1>4. Mapped(Append(q, p), EventOfPiece) = Append(Mapped(q, EventOfPiece), EventOfPiece[p])
  BY <1>2, EventTypes, MappedAppend
<1> QED BY <1>1, <1>3, <1>4 DEF OfPieces, q, W

(* The pieces of cells the last of which ends its line. *)
Settled(parts, cells) ==
    /\ parts \in Seq(Pieces(Cell))
    /\ \A T : Covers(parts, T) => OfPieces(parts, T) = OfCells(cells, T)
    /\ Unspliced(cells) =>
          \A k \in 1 .. Len(parts) : ~Complete(parts[k]) => parts[k][1].part = "tail"

LEMMA PrefixLemma ==
    ASSUME NEW s \in Seq(Cell), NEW c \in Cell
    PROVE  LET t == Append(s, c)
           IN  /\ Joined(t) => Joined(s)
               /\ Unspliced(t) => Unspliced(s)
               /\ s # <<>> =>
                     /\ Joined(t) => (s[Len(s)].line = c.line =>
                                        c.part # "head" /\ s[Len(s)].kind = c.kind)
                     /\ Unspliced(t) => (s[Len(s)].part = "head" => c.line = s[Len(s)].line)
<1> DEFINE t == Append(s, c)
           N == Len(s)
<1>1. /\ Len(t) = N + 1 /\ N \in Nat /\ t[N + 1] = c
      /\ \A n \in 1 .. N : t[n] = s[n]
  BY AppendProperties, LenProperties
<1>2. s # <<>> => N >= 1 BY EmptySeq
<1> HIDE DEF t, N
<1>3. \A i \in 1 .. (N - 1) :
         i \in 1 .. (Len(t) - 1) /\ t[i] = s[i] /\ t[i + 1] = s[i + 1]
  BY <1>1
<1>4. Joined(t) => Joined(s) BY <1>3 DEF Joined, N
<1>5. Unspliced(t) => Unspliced(s) BY <1>3 DEF Unspliced, N
<1>6. s # <<>> => N \in 1 .. (Len(t) - 1) /\ t[N] = s[N] BY <1>1, <1>2
<1>7. s # <<>> => /\ Joined(t) => (s[N].line = c.line => c.part # "head" /\ s[N].kind = c.kind)
                  /\ Unspliced(t) => (s[N].part = "head" => c.line = s[N].line)
  BY <1>1, <1>6 DEF Joined, Unspliced
<1> QED BY <1>4, <1>5, <1>7 DEF t, N

(* A piece is added together with the cell that ends it.                   *)
LEMMA SettledAppend ==
    ASSUME NEW s \in Seq(Cell), NEW c \in Cell, EndsLine(c),
           NEW parts, Settled(parts, s), NEW p \in Pieces(Cell),
           Complete(p) => p[1].line = c.line /\ p[1].kind = c.kind,
           ~Complete(p) => c.line \in LinesOf(p),
           Unspliced(Append(s, c)) /\ ~Complete(p) => p[1].part = "tail"
    PROVE  Settled(Append(parts, p), Append(s, c))
<1> DEFINE more == Append(parts, p)
           t == Append(s, c)
           N == Len(parts)
<1>1. parts \in Seq(Pieces(Cell)) BY DEF Settled
<1>2. /\ more \in Seq(Pieces(Cell)) /\ Len(more) = N + 1 /\ N \in Nat /\ more[N + 1] = p
      /\ \A k \in 1 .. N : more[k] = parts[k]
  BY <1>1, AppendProperties, LenProperties
<1> HIDE DEF more, N
<1>3. ASSUME NEW T, Covers(more, T) PROVE OfPieces(more, T) = OfCells(t, T)
  <2>1. Covers(parts, T) /\ (~Complete(p) => LinesOf(p) \subseteq T)
    <3>1. \A k \in 1 .. N : k \in 1 .. Len(more) BY <1>2
    <3>2. N + 1 \in 1 .. Len(more) BY <1>2
    <3> QED BY <1>2, <1>3, <3>1, <3>2 DEF Covers, N
  <2>2. OfPieces(parts, T) = OfCells(s, T) BY <2>1 DEF Settled
  <2>3. p \in WholePieces(T) <=> c \in WholeCells(T)
    BY <2>1 DEF WholePieces, WholeCells
  <2>4. p \in WholePieces(T) => p[1].line = c.line BY DEF WholePieces
  <2>5. OfPieces(more, T) = IF p \in WholePieces(T)
                            THEN Append(OfPieces(parts, T), Event(p[1].line))
                            ELSE OfPieces(parts, T)
    BY <1>1, PiecesAppend DEF more
  <2>6. OfCells(t, T) = IF c \in WholeCells(T)
                        THEN Append(OfCells(s, T), Event(c.line)) ELSE OfCells(s, T)
    BY CellsAppend
  <2> HIDE DEF t
  <2>7. CASE p \in WholePieces(T) BY <2>2, <2>3, <2>4, <2>5, <2>6, <2>7
  <2>8. CASE p \notin WholePieces(T) BY <2>2, <2>3, <2>5, <2>6, <2>8
  <2> QED BY <2>7, <2>8
<1>4. ASSUME Unspliced(t), NEW k \in 1 .. Len(more), ~Complete(more[k])
      PROVE  more[k][1].part = "tail"
  <2>1. Unspliced(s) BY <1>4, PrefixLemma
  <2>2. CASE k = N + 1 BY <1>2, <1>4, <2>2
  <2>3. CASE k # N + 1
    <3>1. k \in 1 .. N /\ more[k] = parts[k] BY <1>2, <2>3
    <3> QED BY <1>4, <2>1, <3>1 DEF Settled, N
  <2> QED BY <2>2, <2>3
<1> QED BY <1>2, <1>3, <1>4 DEF Settled, more

(* A head leaves what is settled as it is. *)
LEMMA SettledHead ==
    ASSUME NEW s \in Seq(Cell), NEW c \in Cell, ~EndsLine(c), NEW parts, Settled(parts, s)
    PROVE  Settled(parts, Append(s, c))
<1>1. \A T : c \notin WholeCells(T) BY DEF WholeCells
<1>2. \A T : OfCells(Append(s, c), T) = OfCells(s, T) BY <1>1, CellsAppend
<1>3. Unspliced(Append(s, c)) => Unspliced(s) BY PrefixLemma
<1> QED BY <1>2, <1>3 DEF Settled

(* The last piece of cells that end in a head.                             *)
Open(q, cells) ==
    /\ q \in Pieces(Cell)
    /\ \A i \in 1 .. Len(q) : q[i].part = "head"
    /\ \A i \in 1 .. (Len(q) - 1) : q[i].line # q[i + 1].line
    /\ q[Len(q)] = cells[Len(cells)]
    /\ Unspliced(cells) => Len(q) = 1

SplitOK(cells) ==
    IF cells = <<>> \/ EndsLine(cells[Len(cells)]) THEN Settled(Split(cells), cells)
    ELSE \E parts, q : /\ Split(cells) = Append(parts, q)
                       /\ Settled(parts, cells) /\ Open(q, cells)

LEMMA GrowLast ==
    ASSUME NEW parts \in Seq(Pieces(Cell)), NEW q \in Pieces(Cell), NEW c \in Cell
    PROVE  Grown(Append(parts, q), FALSE, c) = Append(parts, Append(q, c))
<1> DEFINE old == Append(parts, q)
           N == Len(parts)
           longer == Append(q, c)
           left == [old EXCEPT ![N + 1] = longer]
           right == Append(parts, longer)
<1>1. longer \in Pieces(Cell)
  <2>1. q \in Seq(Cell) BY DEF Pieces
  <2> HIDE DEF Cell
  <2> QED BY <2>1, AppendProperties DEF Pieces
<1>2. /\ old \in Seq(Pieces(Cell)) /\ Len(old) = N + 1 /\ N \in Nat /\ old[N + 1] = q
      /\ \A k \in 1 .. N : old[k] = parts[k]
  BY AppendProperties, LenProperties
<1> HIDE DEF longer
<1>3. /\ right \in Seq(Pieces(Cell)) /\ Len(right) = N + 1 /\ right[N + 1] = longer
      /\ \A k \in 1 .. N : right[k] = parts[k]
  BY <1>1, AppendProperties
<1> HIDE DEF old, N, right
<1>4. N + 1 \in 1 .. Len(old) BY <1>2
<1>5. /\ left \in Seq(Pieces(Cell)) /\ Len(left) = Len(old)
      /\ \A j \in 1 .. Len(old) : left[j] = IF j = N + 1 THEN longer ELSE old[j]
  BY <1>1, <1>2, <1>4, ExceptSeq
<1>6. Grown(old, FALSE, c) = left
  BY <1>2 DEF Grown, longer
<1> HIDE DEF left
<1>7. \A j \in 1 .. (N + 1) : left[j] = right[j]
  <2> SUFFICES ASSUME NEW j \in 1 .. (N + 1) PROVE left[j] = right[j] OBVIOUS
  <2>1. CASE j = N + 1 BY <1>2, <1>3, <1>5, <2>1
  <2>2. CASE j # N + 1
    <3>1. j \in 1 .. N BY <1>2, <2>2
    <3> QED BY <1>2, <1>3, <1>5, <2>2, <3>1
  <2> QED BY <2>1, <2>2
<1>8. left = right BY <1>2, <1>3, <1>5, <1>7, SeqEqual
<1> QED BY <1>6, <1>8 DEF old, right, longer

(* Split, and what there is to tell of its pieces: one cell more.          *)
LEMMA SplitStart == SplitOK(<<>>)
<1> DEFINE e == <<>>
<1>1. e \in Seq(Pieces(Cell)) /\ Len(e) = 0 /\ Split(e) = e BY SplitEmpty
<1>2. \A T : Filter(e, WholeCells(T)) = e /\ Filter(e, WholePieces(T)) = e BY FilterEmpty
<1>3. Mapped(e, EventOfCell) = e /\ Mapped(e, EventOfPiece) = e BY MappedEmpty
<1>4. \A T : OfCells(e, T) = OfPieces(e, T) BY <1>2, <1>3 DEF OfCells, OfPieces
<1> HIDE DEF e
<1>5. Settled(e, e) BY <1>1, <1>4 DEF Settled
<1>6. e = <<>> BY DEF e
<1>7. SplitOK(e) BY <1>1, <1>5, <1>6 DEF SplitOK
<1> QED BY <1>7 DEF e

LEMMA SplitNew ==
    ASSUME NEW s \in Seq(Cell), NEW c \in Cell, SplitOK(s), Joined(Append(s, c)),
           s = <<>> \/ EndsLine(s[Len(s)])
    PROVE  SplitOK(Append(s, c))
<1> DEFINE t == Append(s, c)
           one == <<c>>
<1>1. /\ t \in Seq(Cell) /\ t # <<>> /\ Len(t) = Len(s) + 1 /\ t[Len(s) + 1] = c
      /\ t[Len(t)] = c
  BY AppendProperties
<1>2. /\ one \in Pieces(Cell) /\ Len(one) = 1 /\ one[1] = c /\ LinesOf(one) = {c.line}
  <2>1. one \in Seq(Cell) /\ one # <<>> /\ Len(one) = 1 /\ one[1] = c
    <3> HIDE DEF Cell
    <3> QED OBVIOUS
  <2>2. DOMAIN one = {1} BY <2>1
  <2> HIDE DEF one
  <2> QED BY <2>1, <2>2 DEF Pieces, LinesOf
<1>3. Settled(Split(s), s) BY DEF SplitOK
<1>4. Split(t) = Append(Split(s), one)
  <2>1. Split(t) = Grown(Split(s), s = <<>> \/ EndsLine(s[Len(s)]), c) BY SplitAppend
  <2> QED BY <2>1 DEF Grown
<1> HIDE DEF t, one
<1>5. CASE EndsLine(c)
  <2>1. ~Complete(one) => one[1].part = "tail" /\ c.line \in LinesOf(one)
    BY <1>2, <1>5 DEF Complete, EndsLine, Cell
  <2>2. Settled(Append(Split(s), one), t)
    BY <1>2, <1>3, <1>5, <2>1, SettledAppend DEF t
  <2>3. SplitOK(t) BY <1>1, <1>4, <1>5, <2>2 DEF SplitOK
  <2> QED BY <2>3 DEF t
<1>6. CASE ~EndsLine(c)
  <2>1. Settled(Split(s), t) BY <1>3, <1>6, SettledHead DEF t
  <2>2. Open(one, t) BY <1>1, <1>2, <1>6 DEF Open, EndsLine
  <2>3. SplitOK(t) <=> \E parts, q : Split(t) = Append(parts, q) /\ Settled(parts, t) /\ Open(q, t)
    BY <1>1, <1>6 DEF SplitOK
  <2> QED BY <1>4, <2>1, <2>2, <2>3 DEF t
<1> QED BY <1>5, <1>6 DEF t

LEMMA SplitGrows ==
    ASSUME NEW s \in Seq(Cell), NEW c \in Cell, SplitOK(s), Joined(Append(s, c)),
           s # <<>>, ~EndsLine(s[Len(s)])
    PROVE  SplitOK(Append(s, c))
<1> DEFINE t == Append(s, c)
           h == s[Len(s)]
<1>1. PICK parts, q : Split(s) = Append(parts, q) /\ Settled(parts, s) /\ Open(q, s)
  BY DEF SplitOK
<1> DEFINE qq == Append(q, c)
           M == Len(q)
<1>2. /\ t \in Seq(Cell) /\ t # <<>> /\ t[Len(t)] = c
  BY AppendProperties, LenProperties
<1>3. parts \in Seq(Pieces(Cell)) /\ q \in Pieces(Cell) BY <1>1 DEF Settled, Open
<1>4. q \in Seq(Cell) /\ M \in Nat \ {0}
  <2>1. q \in Seq(Cell) /\ q # <<>> BY <1>3 DEF Pieces
  <2> QED BY <2>1, EmptySeq
<1>5. /\ qq \in Pieces(Cell) /\ Len(qq) = M + 1 /\ qq[M + 1] = c
      /\ \A i \in 1 .. M : qq[i] = q[i]
  BY <1>4, AppendProperties DEF Pieces
<1>6. Split(t) = Append(parts, qq)
  <2>1. Split(t) = Grown(Split(s), s = <<>> \/ EndsLine(h), c) BY SplitAppend
  <2>2. (s = <<>> \/ EndsLine(h)) = FALSE OBVIOUS
  <2>3. Split(t) = Grown(Append(parts, q), FALSE, c) BY <1>1, <2>1, <2>2
  <2> QED BY <1>3, <2>3, GrowLast
<1>7. /\ q[M] = h /\ h.part = "head"
      /\ \A i \in 1 .. M : q[i].part = "head"
      /\ \A i \in 1 .. (M - 1) : q[i].line # q[i + 1].line
      /\ Unspliced(s) => M = 1
  BY <1>1 DEF Open, EndsLine
<1>8. /\ h.line = c.line => c.part # "head" /\ h.kind = c.kind
      /\ Unspliced(t) => Unspliced(s) /\ c.line = h.line
  BY <1>7, PrefixLemma
<1> HIDE DEF t, qq, M, h
<1>9. CASE EndsLine(c)
  <2>1. Complete(qq) => qq[1].line = c.line /\ qq[1].kind = c.kind
    <3> SUFFICES ASSUME Complete(qq) PROVE qq[1].line = c.line /\ qq[1].kind = c.kind OBVIOUS
    <3>1. Len(qq) = 2 /\ qq[1].line = qq[2].line BY <1>4, <1>5 DEF Complete
    <3>2. M = 1
      <4>1. M \in Nat /\ M + 1 = 2 BY <1>4, <1>5, <3>1
      <4> QED BY <4>1
    <3>3. qq[1] = h /\ qq[2] = c BY <1>5, <1>7, <3>2
    <3> QED BY <1>8, <3>1, <3>3
  <2>2. c.line \in LinesOf(qq)
    <3>1. M + 1 \in 1 .. Len(qq) BY <1>4, <1>5
    <3>2. DOMAIN qq = 1 .. Len(qq) BY <1>5, LenProperties DEF Pieces
    <3> QED BY <1>5, <3>1, <3>2 DEF LinesOf
  <2>3. ~(Unspliced(t) /\ ~Complete(qq))
    <3> SUFFICES ASSUME Unspliced(t) PROVE Complete(qq) OBVIOUS
    <3>1. M = 1 /\ c.line = h.line BY <1>7, <1>8
    <3>2. Len(qq) = 2 /\ qq[1] = h /\ qq[2] = c BY <1>5, <1>7, <3>1
    <3> QED BY <3>1, <3>2 DEF Complete
  <2>4. Settled(Append(parts, qq), t)
    BY <1>1, <1>5, <1>9, <2>1, <2>2, <2>3, SettledAppend DEF t
  <2>5. SplitOK(t) BY <1>2, <1>6, <1>9, <2>4 DEF SplitOK
  <2> QED BY <2>5 DEF t
<1>10. CASE ~EndsLine(c)
  <2>1. Settled(parts, t) BY <1>1, <1>10, SettledHead DEF t
  <2>2. c.part = "head" /\ h.line # c.line BY <1>8, <1>10 DEF EndsLine
  <2>3. \A i \in 1 .. Len(qq) : qq[i].part = "head"
    <3> SUFFICES ASSUME NEW i \in 1 .. Len(qq) PROVE qq[i].part = "head" OBVIOUS
    <3>1. CASE i = M + 1 BY <1>5, <2>2, <3>1
    <3>2. CASE i # M + 1
      <4>1. i \in 1 .. M BY <1>4, <1>5, <3>2
      <4> QED BY <1>5, <1>7, <4>1
    <3> QED BY <3>1, <3>2
  <2>4. \A i \in 1 .. (Len(qq) - 1) : qq[i].line # qq[i + 1].line
    <3> SUFFICES ASSUME NEW i \in 1 .. (Len(qq) - 1) PROVE qq[i].line # qq[i + 1].line OBVIOUS
    <3>1. CASE i = M
      <4>1. i \in 1 .. M BY <1>4, <3>1
      <4> QED BY <1>5, <1>7, <2>2, <3>1, <4>1
    <3>2. CASE i # M
      <4>1. i \in 1 .. M /\ i + 1 \in 1 .. M /\ i \in 1 .. (M - 1) BY <1>4, <1>5, <3>2
      <4> QED BY <1>5, <1>7, <4>1
    <3> QED BY <3>1, <3>2
  <2>5. ~Unspliced(t) BY <1>8, <2>2
  <2>6. qq[Len(qq)] = t[Len(t)] BY <1>2, <1>5
  <2>7. Open(qq, t) BY <1>5, <2>3, <2>4, <2>5, <2>6 DEF Open
  <2>8. SplitOK(t) <=> \E ps, r : Split(t) = Append(ps, r) /\ Settled(ps, t) /\ Open(r, t)
    BY <1>2, <1>10 DEF SplitOK
  <2>9. SplitOK(t) BY <1>6, <2>1, <2>7, <2>8
  <2> QED BY <2>9 DEF t
<1> QED BY <1>9, <1>10

LEMMA SplitLemma ==
    ASSUME NEW s \in Seq(Cell), Joined(s) PROVE SplitOK(s)
<1> DEFINE Good == {r \in Seq(Cell) : Joined(r) => SplitOK(r)}
<1>1. <<>> \in Good
  <2>1. <<>> \in Seq(Cell) OBVIOUS
  <2> QED BY <2>1, SplitStart
<1>2. ASSUME NEW r \in Seq(Cell), NEW c \in Cell, r \in Good PROVE Append(r, c) \in Good
  <2>1. Append(r, c) \in Seq(Cell) BY AppendProperties
  <2>2. ASSUME Joined(Append(r, c)) PROVE SplitOK(Append(r, c))
    <3>1. SplitOK(r) BY <1>2, <2>2, PrefixLemma
    <3>2. CASE r = <<>> \/ EndsLine(r[Len(r)]) BY <2>2, <3>1, <3>2, SplitNew
    <3>3. CASE r # <<>> /\ ~EndsLine(r[Len(r)]) BY <2>2, <3>1, <3>3, SplitGrows
    <3> QED BY <3>2, <3>3
  <2> QED BY <2>1, <2>2
<1>3. \A r \in Seq(Cell) : r \in Good
  <2> DEFINE e == <<>>
             S == Cell
  <2>1. e \in Good BY <1>1
  <2> HIDE DEF Good, e, S
  <2>2. e \in Good /\ e = <<>> BY <2>1 DEF e
  <2>3. \A r \in Seq(S), c \in S : r \in Good => Append(r, c) \in Good BY <1>2 DEF S
  <2>4. \A r \in Seq(S) : r \in Good BY <2>2, <2>3, SeqSetInduction
  <2> QED BY <2>4 DEF S
<1> QED BY <1>3

(* What there is to tell of all pieces is what there is to tell of the     *)
(* cells, and only the last one can be a head that the parser fails at.    *)
LEMMA TellLemma ==
    ASSUME NEW s \in Seq(Cell), Joined(s), NEW T, Covers(Split(s), T)
    PROVE  /\ OfPieces(Split(s), T) = OfCells(s, T)
           /\ Unspliced(s) =>
                 \A k \in 1 .. Len(Split(s)) :
                     ~Complete(Split(s)[k]) => k = Len(Split(s)) \/ Split(s)[k][1].part = "tail"
<1>1. SplitOK(s) BY SplitLemma
<1>2. CASE s = <<>> \/ EndsLine(s[Len(s)])
  <2>1. Settled(Split(s), s) BY <1>1, <1>2 DEF SplitOK
  <2> QED BY <2>1 DEF Settled
<1>3. CASE ~(s = <<>> \/ EndsLine(s[Len(s)]))
  <2>1. PICK parts, q : Split(s) = Append(parts, q) /\ Settled(parts, s) /\ Open(q, s)
    BY <1>1, <1>3 DEF SplitOK
  <2> DEFINE P == Split(s)
             N == Len(parts)
  <2>2. parts \in Seq(Pieces(Cell)) /\ q \in Pieces(Cell) BY <2>1 DEF Settled, Open
  <2>3. Len(P) = N + 1 /\ N \in Nat /\ \A k \in 1 .. N : P[k] = parts[k]
    BY <2>1, <2>2, AppendProperties, LenProperties
  <2> HIDE DEF P, N
  <2>4. ~Complete(q)
    <3>1. Len(q) \in Nat \ {0} BY <2>2, EmptySeq DEF Pieces
    <3>2. Len(q) = 1 => q[1].part = "head"
      <4>1. Len(q) = 1 => 1 \in 1 .. Len(q) BY <3>1
      <4> QED BY <2>1, <4>1 DEF Open
    <3>3. Len(q) = 2 => q[1].line # q[2].line
      <4>1. Len(q) = 2 => 1 \in 1 .. (Len(q) - 1) /\ 1 + 1 = 2 BY <3>1
      <4> QED BY <2>1, <4>1 DEF Open
    <3> QED BY <3>2, <3>3 DEF Complete
  <2>5. Covers(parts, T)
    <3>1. \A k \in 1 .. N : k \in 1 .. Len(P) BY <2>3
    <3> QED BY <2>3, <3>1 DEF Covers, P, N
  <2>6. OfPieces(parts, T) = OfCells(s, T) BY <2>1, <2>5 DEF Settled
  <2>7. q \notin WholePieces(T) BY <2>4 DEF WholePieces
  <2>8. OfPieces(P, T) = OfPieces(parts, T) BY <2>1, <2>2, <2>7, PiecesAppend DEF P
  <2>9. ASSUME Unspliced(s), NEW k \in 1 .. Len(P), ~Complete(P[k])
        PROVE  k = Len(P) \/ P[k][1].part = "tail"
    <3>1. CASE k = N + 1 BY <2>3, <3>1
    <3>2. CASE k # N + 1
      <4>1. k \in 1 .. N /\ P[k] = parts[k] BY <2>3, <3>2
      <4> QED BY <2>1, <2>9, <4>1 DEF Settled, N
    <3> QED BY <3>1, <3>2
  <2> QED BY <2>6, <2>8, <2>9 DEF P
<1> QED BY <1>2, <1>3

-----------------------------------------------------------------------------
(* The game's log, and how far the watcher has got with it: nothing before *)
(* it has opened it, which is after it has been emptied; no pieces but     *)
(* while it is parsing.                                                    *)
GlogInv ==
    /\ glog \in Seq(Cell) /\ lines \in 0 .. MaxLines /\ half \in Kinds \cup {"none"}
    /\ \A i \in 1 .. Len(glog) : glog[i].line <= lines
    /\ half # "none" =>
          /\ lines >= 1
          /\ glog # <<>> => glog[Len(glog)].line = lines /\ glog[Len(glog)].kind = half
    /\ Joined(glog)

TailInv ==
    /\ open \in BOOLEAN
    /\ open => pos \in 0 .. Len(glog) /\ from \in 0 .. pos
    /\ pieces \in Seq(Pieces(Cell)) /\ told \in Seq(Told(1 .. MaxLines))
    /\ torn \subseteq 1 .. MaxLines
    /\ at \in {"launch", "clear", "open"} => ~open
    /\ ~open => told = <<>> /\ pieces = <<>>
    /\ at \notin {"parse", "dead"} => pieces = <<>>

LEMMA GlogStart == Init => GlogInv /\ TailInv
<1> SUFFICES ASSUME Init PROVE GlogInv /\ TailInv OBVIOUS
<1>1. /\ glog \in {<<>>} \cup {<<[line |-> 1, kind |-> k, part |-> "whole"]>> : k \in Kinds}
      /\ lines = Len(glog) /\ half = "none" /\ at = "launch"
      /\ open = FALSE /\ pieces = <<>> /\ told = <<>> /\ torn = {}
  BY DEF Init, LogInit
<1>2. <<>> \in Seq(Pieces(Cell)) /\ <<>> \in Seq(Told(1 .. MaxLines)) /\ <<>> \in Seq(Cell)
  OBVIOUS
<1>3. TailInv BY <1>1, <1>2 DEF TailInv
<1>4. GlogInv
  <2>1. CASE glog = <<>>
    <3>1. Len(glog) = 0 /\ Joined(glog) BY <2>1 DEF Joined
    <3> QED BY <1>1, <1>2, <2>1, <3>1, LogAssumption DEF GlogInv
  <2>2. CASE glog # <<>>
    <3>1. PICK k \in Kinds : glog = <<[line |-> 1, kind |-> k, part |-> "whole"]>>
      BY <1>1, <2>2
    <3> DEFINE c == [line |-> 1, kind |-> k, part |-> "whole"]
    <3>2. c \in Cell /\ c.line = 1 BY LogAssumption DEF Cell
    <3> HIDE DEF c
    <3>3. glog \in Seq(Cell) /\ Len(glog) = 1 /\ glog[1].line = 1 BY <3>1, <3>2 DEF c
    <3>4. Joined(glog) BY <3>3 DEF Joined
    <3> QED BY <1>1, <3>3, <3>4, LogAssumption DEF GlogInv
  <2> QED BY <2>1, <2>2
<1> QED BY <1>3, <1>4

LEMMA JoinedAppend ==
    ASSUME NEW s \in Seq(Cell), NEW c \in Cell, Joined(s),
           s # <<>> /\ s[Len(s)].line = c.line => c.part # "head" /\ s[Len(s)].kind = c.kind
    PROVE  Joined(Append(s, c))
<1> DEFINE t == Append(s, c)
           N == Len(s)
<1>1. /\ Len(t) = N + 1 /\ N \in Nat /\ t[N + 1] = c
      /\ \A n \in 1 .. N : t[n] = s[n]
  BY AppendProperties, LenProperties
<1>2. N # 0 => s # <<>> OBVIOUS
<1> HIDE DEF t, N
<1>3. ASSUME NEW i \in 1 .. (Len(t) - 1), t[i].line = t[i + 1].line
      PROVE  t[i + 1].part # "head" /\ t[i].kind = t[i + 1].kind
  <2>1. CASE i = N
    <3>1. t[i] = s[N] /\ t[i + 1] = c /\ s # <<>> BY <1>1, <1>2, <2>1
    <3> QED BY <1>3, <3>1 DEF N
  <2>2. CASE i # N
    <3>1. i \in 1 .. (N - 1) /\ t[i] = s[i] /\ t[i + 1] = s[i + 1] BY <1>1, <2>2
    <3> QED BY <1>3, <3>1 DEF Joined, N
  <2> QED BY <2>1, <2>2
<1> QED BY <1>3 DEF Joined, t

LEMMA GameLogsLemma ==
    ASSUME GlogInv, GameLogs
    PROVE  /\ GlogInv'
           /\ \E c \in Cell : glog' = Append(glog, c)
           /\ UNCHANGED <<open, pos, from, pieces, told, torn>>
<1>1. PICK c \in Cell :
        /\ glog' = Append(glog, c) /\ lines' \in {lines, lines + 1} /\ lines' \in 1 .. MaxLines
        /\ c.line = lines' /\ half' \in Kinds \cup {"none"} /\ (half' # "none" => c.kind = half')
        /\ UNCHANGED <<open, pos, from, pieces, told, torn>>
        /\ glog # <<>> /\ glog[Len(glog)].line = c.line
             => c.part # "head" /\ glog[Len(glog)].kind = c.kind
  <2>1. ASSUME NEW kind \in Kinds, NEW part \in {"whole", "head"}, LogLine(kind, part)
        PROVE  LET c == [line |-> lines + 1, kind |-> kind, part |-> part]
               IN  /\ c \in Cell /\ glog' = Append(glog, c) /\ lines' = lines + 1
                   /\ lines' \in 1 .. MaxLines
                   /\ half' \in Kinds \cup {"none"} /\ (half' # "none" => c.kind = half')
                   /\ UNCHANGED <<open, pos, from, pieces, told, torn>>
                   /\ glog # <<>> => glog[Len(glog)].line # c.line
    <3>1. lines < MaxLines /\ lines \in 0 .. MaxLines /\ MaxLines \in Nat
      BY <2>1, LogAssumption DEF LogLine, GlogInv
    <3>2. glog # <<>> => glog[Len(glog)].line <= lines /\ glog[Len(glog)].line \in Nat
      <4> SUFFICES ASSUME glog # <<>>
                   PROVE  glog[Len(glog)].line <= lines /\ glog[Len(glog)].line \in Nat
        OBVIOUS
      <4>1. glog \in Seq(Cell) /\ Len(glog) \in 1 .. Len(glog) BY EmptySeq DEF GlogInv
      <4>2. glog[Len(glog)] \in Cell BY <4>1, ElementOfSeq
      <4> QED BY <4>1, <4>2 DEF GlogInv, Cell
    <3> QED BY <2>1, <3>1, <3>2 DEF LogLine, Cell
  <2>2. ASSUME LogRest
        PROVE  LET c == [line |-> lines, kind |-> half, part |-> "tail"]
               IN  /\ c \in Cell /\ glog' = Append(glog, c) /\ lines' = lines
                   /\ lines' \in 1 .. MaxLines /\ half' = "none"
                   /\ UNCHANGED <<open, pos, from, pieces, told, torn>>
                   /\ glog # <<>> => glog[Len(glog)].kind = half
    BY <2>2, LogAssumption DEF LogRest, GlogInv, Cell
  <2>3. CASE \E kind \in Kinds, part \in {"whole", "head"} : LogLine(kind, part)
    <3>1. PICK kind \in Kinds, part \in {"whole", "head"} : LogLine(kind, part) BY <2>3
    <3> DEFINE c == [line |-> lines + 1, kind |-> kind, part |-> part]
    <3>2. c.line = lines + 1 OBVIOUS
    <3> HIDE DEF c
    <3> QED BY <2>1, <3>1, <3>2 DEF c
  <2>4. CASE LogRest
    <3> DEFINE c == [line |-> lines, kind |-> half, part |-> "tail"]
    <3>2. c.line = lines /\ c.kind = half /\ c.part # "head" OBVIOUS
    <3> HIDE DEF c
    <3> QED BY <2>2, <2>4, <3>2 DEF c
  <2> QED BY <2>3, <2>4 DEF GameLogs
<1>2. glog \in Seq(Cell) /\ lines \in Nat /\ Joined(glog)
  BY LogAssumption DEF GlogInv
<1>3. /\ glog' \in Seq(Cell) /\ Len(glog') = Len(glog) + 1 /\ Len(glog) \in Nat
      /\ glog'[Len(glog) + 1] = c /\ \A i \in 1 .. Len(glog) : glog'[i] = glog[i]
  BY <1>1, <1>2, AppendProperties, LenProperties
<1>4. Joined(glog') BY <1>1, <1>2, JoinedAppend
<1>5. ASSUME NEW i \in 1 .. Len(glog') PROVE glog'[i].line <= lines'
  <2>1. CASE i = Len(glog) + 1
    <3>1. glog'[i].line = lines' /\ lines' \in Int BY <1>1, <1>3, <2>1
    <3> QED BY <3>1
  <2>2. CASE i # Len(glog) + 1
    <3>1. i \in 1 .. Len(glog) /\ glog'[i] = glog[i] BY <1>3, <2>2
    <3>2. glog[i] \in Cell BY <1>2, <3>1, ElementOfSeq
    <3>3. glog[i].line \in Nat /\ glog[i].line <= lines BY <3>1, <3>2 DEF GlogInv, Cell
    <3> QED BY <1>1, <1>2, <3>1, <3>3
  <2> QED BY <2>1, <2>2
<1>6. lines' \in 0 .. MaxLines /\ lines' >= 1 BY <1>1, LogAssumption
<1>7. GlogInv' BY <1>1, <1>3, <1>4, <1>5, <1>6 DEF GlogInv
<1> QED BY <1>1, <1>7

LEMMA UnreadLemma ==
    ASSUME GlogInv, TailInv, open
    PROVE  /\ Unread \in Seq(Cell)
           /\ Len(Unread) = Len(glog) - pos
           /\ \A i \in 1 .. Len(Unread) : Unread[i] = glog[pos + i]
           /\ pos \in Nat /\ from \in Nat /\ Len(glog) \in Nat /\ from <= pos /\ pos <= Len(glog)
           /\ Joined(Unread)
           /\ ~Spliced => Unspliced(Unread)
<1>1. glog \in Seq(Cell) BY DEF GlogInv
<1>2. /\ pos \in Nat /\ from \in Nat /\ Len(glog) \in Nat /\ from <= pos /\ pos <= Len(glog)
  BY <1>1, LenProperties DEF TailInv
<1>3. \A i \in (pos + 1) .. Len(glog) : glog[i] \in Cell BY <1>1, <1>2, ElementOfSeq
<1>4. /\ Unread \in Seq(Cell)
      /\ Len(Unread) = IF pos + 1 <= Len(glog) THEN Len(glog) - (pos + 1) + 1 ELSE 0
      /\ \A i \in 1 .. (Len(glog) - (pos + 1) + 1) : Unread[i] = glog[(pos + 1) + i - 1]
  <2> DEFINE C == Cell
  <2>1. \A i \in (pos + 1) .. Len(glog) : glog[i] \in C BY <1>3
  <2>2. pos + 1 \in Int /\ Len(glog) \in Int BY <1>2
  <2> HIDE DEF C
  <2> QED BY <2>1, <2>2, SubSeqProperties DEF Unread, C
<1>5. Len(Unread) = Len(glog) - pos BY <1>2, <1>4
<1>6. \A i \in 1 .. Len(Unread) : Unread[i] = glog[pos + i] /\ pos + i \in 1 .. Len(glog)
  BY <1>2, <1>4, <1>5
<1>7. \A i \in 1 .. (Len(Unread) - 1) :
        /\ Unread[i] = glog[pos + i] /\ Unread[i + 1] = glog[(pos + i) + 1]
        /\ pos + i \in 1 .. (Len(glog) - 1)
  BY <1>2, <1>5, <1>6
<1>8. Joined(Unread) BY <1>7 DEF GlogInv, Joined
<1>9. ~Spliced => Unspliced(Unread) BY <1>7 DEF Spliced, Unspliced
<1> QED BY <1>2, <1>4, <1>5, <1>6, <1>8, <1>9

LEMMA PollLemma ==
    ASSUME GlogInv, TailInv, Poll
    PROVE  /\ pieces' \in Seq(Pieces(Cell)) /\ pieces' = Split(Unread)
           /\ torn \subseteq torn' /\ torn' \subseteq 1 .. MaxLines
           /\ Covers(pieces', torn')
           /\ open /\ open' /\ pos' = Len(glog)
           /\ UNCHANGED <<glog, lines, half, from, told>>
<1>1. /\ open /\ pieces' = Split(Unread) /\ pos' = Len(glog)
      /\ torn' = torn \cup UNION {LinesOf(p) : p \in {q \in Range(pieces') : ~Complete(q)}}
      /\ UNCHANGED <<glog, lines, half, open, from, told>>
  BY DEF Poll
<1>2. pieces' \in Seq(Pieces(Cell)) BY <1>1, UnreadLemma, SplitType
<1>3. DOMAIN pieces' = 1 .. Len(pieces') BY <1>2, LenProperties
<1>4. \A k \in 1 .. Len(pieces') : pieces'[k] \in Range(pieces') BY <1>3 DEF Range
<1>5. Covers(pieces', torn') BY <1>1, <1>4 DEF Covers
<1>6. ASSUME NEW p \in Range(pieces') PROVE LinesOf(p) \subseteq 1 .. MaxLines
  <2>1. PICK k \in 1 .. Len(pieces') : p = pieces'[k] BY <1>3 DEF Range
  <2>2. p \in Pieces(Cell) BY <1>2, <2>1, ElementOfSeq
  <2>3. \A k1 \in DOMAIN p : p[k1] \in Cell BY <2>2, LenProperties DEF Pieces
  <2> QED BY <2>3 DEF LinesOf, Cell
<1>7. torn' \subseteq 1 .. MaxLines BY <1>1, <1>6 DEF TailInv
<1> QED BY <1>1, <1>2, <1>5, <1>7

LEMMA ParseLemma ==
    ASSUME TailInv, NEW outcome, Parse(outcome)
    PROVE  /\ open /\ pieces # <<>>
           /\ Head(pieces) \in Pieces(Cell) /\ Head(pieces) = pieces[1]
           /\ Head(pieces)[1] \in Cell
           /\ Tail(pieces) \in Seq(Pieces(Cell))
           /\ pieces' \in Seq(Pieces(Cell)) /\ told' \in Seq(Told(1 .. MaxLines))
           /\ outcome \in Outcomes(Head(pieces))
           /\ UNCHANGED <<glog, lines, half, open, pos, from, torn>>
<1>1. pieces # <<>> /\ open /\ pieces \in Seq(Pieces(Cell)) BY DEF Parse, TailInv
<1>2. Head(pieces) = pieces[1] /\ Len(pieces) \in Nat \ {0} BY <1>1, EmptySeq
<1>3. Head(pieces) \in Pieces(Cell) /\ Tail(pieces) \in Seq(Pieces(Cell))
  BY <1>1, HeadTailProperties
<1> DEFINE p == Head(pieces)
<1>4. p[1] \in Cell
  <2>1. p \in Seq(Cell) /\ p # <<>> BY <1>3 DEF Pieces
  <2> HIDE DEF p
  <2>2. Len(p) \in Nat \ {0} BY <2>1, EmptySeq
  <2> QED BY <2>1, <2>2, ElementOfSeq
<1>5. <<>> \in Seq(Pieces(Cell)) OBVIOUS
<1>6. pieces' \in Seq(Pieces(Cell)) BY <1>3, <1>5 DEF Parse
<1>7. \A b \in BOOLEAN : [line |-> p[1].line, faithful |-> b] \in Told(1 .. MaxLines)
  <2> HIDE DEF p
  <2> QED BY <1>4 DEF Cell, Told
<1>8. told' \in Seq(Told(1 .. MaxLines))
  <2> DEFINE e == [line |-> p[1].line, faithful |-> outcome = "event"]
             E == Told(1 .. MaxLines)
  <2>1. told \in Seq(E) BY DEF TailInv
  <2>2. e \in E BY <1>7
  <2>3. told' \in {told, Append(told, e)} BY DEF Parse
  <2> HIDE DEF e, E
  <2>4. told' \in Seq(E) BY <2>1, <2>2, <2>3, AppendProperties
  <2> QED BY <2>4 DEF E
<1> QED BY <1>1, <1>2, <1>3, <1>4, <1>6, <1>8 DEF Parse

Followed == GlogInv /\ TailInv

LEMMA LogQuiet ==
    ASSUME Followed, UNCHANGED logVars,
           at' \in {"launch", "clear", "open"} => at \in {"launch", "clear", "open"},
           at' \notin {"parse", "dead"} => pieces = <<>>
    PROVE  Followed'
<1>1. /\ glog' = glog /\ lines' = lines /\ half' = half /\ open' = open /\ pos' = pos
      /\ from' = from /\ pieces' = pieces /\ told' = told /\ torn' = torn
  BY DEF logVars
<1>2. GlogInv' BY <1>1 DEF Followed, GlogInv
<1>3. TailInv' BY <1>1 DEF Followed, TailInv
<1> QED BY <1>2, <1>3 DEF Followed

LEMMA FollowedNext == Followed /\ [Next]_vars => Followed'
<1> SUFFICES ASSUME Followed, [Next]_vars PROVE Followed' OBVIOUS
<1>1. GlogInv /\ TailInv BY DEF Followed
<1>2. ASSUME UNCHANGED logVars, at' = at PROVE Followed'
  BY <1>1, <1>2, LogQuiet DEF TailInv
<1>3. ASSUME UNCHANGED logVars, at \notin {"parse", "dead"},
             at' \in {"launch", "clear", "open"} => at \in {"launch", "clear", "open"}
      PROVE  Followed'
  BY <1>1, <1>3, LogQuiet DEF TailInv
<1>4. CASE Logs
  <2>1. GameLogs /\ at' = at BY <1>4 DEF Logs, watchVars
  <2>2. PICK c \in Cell : glog' = Append(glog, c) BY <1>1, <2>1, GameLogsLemma
  <2>3. Len(glog') = Len(glog) + 1 /\ Len(glog) \in Nat
    BY <1>1, <2>2, AppendProperties, LenProperties DEF GlogInv
  <2>4. UNCHANGED <<open, pos, from, pieces, told, torn>> BY <1>1, <2>1, GameLogsLemma
  <2>5. TailInv' BY <1>1, <2>1, <2>3, <2>4 DEF TailInv
  <2> QED BY <1>1, <2>1, <2>5, GameLogsLemma DEF Followed
<1>5. CASE Crash
  <2>1. half' = "none" /\ at' = at
        /\ UNCHANGED <<glog, lines, open, pos, from, pieces, told, torn>>
    BY <1>5 DEF Crash, GameDies
  <2>2. GlogInv' BY <1>1, <2>1 DEF GlogInv
  <2>3. TailInv' BY <1>1, <2>1 DEF TailInv
  <2> QED BY <2>2, <2>3 DEF Followed
<1>6. CASE Prints \/ Serves \/ Waits
  BY <1>2, <1>6 DEF Prints, Serves, Waits, watchVars
<1>7. CASE Launch \/ Relaunch
  <2>1. UNCHANGED logVars /\ at \in {"launch", "relaunch"} /\ at' \in {"clear", "verify", "poll"}
        /\ (at' = "clear" => at = "launch")
    BY <1>7 DEF Launch, Relaunch, Launches, Goes
  <2> QED BY <1>3, <2>1
<1>8. CASE ClearGamesLog
  <2>1. /\ at = "clear" /\ at' = "open" /\ glog' = <<>>
        /\ UNCHANGED <<lines, half, open, pos, from, pieces, told, torn>>
    BY <1>8 DEF ClearGamesLog, ClearLog, Goes
  <2>2. glog' \in Seq(Cell) /\ Len(glog') = 0 /\ Joined(glog') BY <2>1 DEF Joined
  <2>3. GlogInv' BY <1>1, <2>1, <2>2 DEF GlogInv
  <2>4. TailInv' BY <1>1, <2>1 DEF TailInv
  <2> QED BY <2>3, <2>4 DEF Followed
<1>9. CASE OpenGamesLog
  <2>1. /\ at = "open" /\ at' = "fresh" /\ open' = TRUE /\ pos' = Len(glog) /\ from' = Len(glog)
        /\ UNCHANGED <<glog, lines, half, pieces, told, torn>>
    BY <1>9 DEF OpenGamesLog, StartWatcher, Goes
  <2>2. Len(glog) \in Nat BY <1>1, LenProperties DEF GlogInv
  <2>3. GlogInv' BY <1>1, <2>1 DEF GlogInv
  <2>4. TailInv' BY <1>1, <2>1, <2>2 DEF TailInv
  <2> QED BY <2>3, <2>4 DEF Followed
<1>10. CASE ClearEngineLog \/ Verify \/ StartPlugins \/ Fork \/ Tend
  <2>1. UNCHANGED logVars /\ at \notin {"parse", "dead"} /\ at' \notin {"launch", "clear", "open"}
    BY <1>10 DEF ClearEngineLog, Verify, StartPlugins, Fork, Tend, Goes
  <2> QED BY <1>3, <2>1
<1>11. CASE PollLog
  <2>1. Poll /\ at' = "parse" BY <1>11 DEF PollLog, Goes
  <2>2. GlogInv' BY <1>1, <2>1, PollLemma DEF GlogInv
  <2>3. /\ pieces' \in Seq(Pieces(Cell)) /\ torn' \subseteq 1 .. MaxLines /\ open'
        /\ open /\ pos' = Len(glog) /\ glog' = glog /\ from' = from /\ told' = told
    BY <1>1, <2>1, PollLemma
  <2>4. from \in 0 .. Len(glog) /\ Len(glog) \in 0 .. Len(glog) BY <1>1, <2>3, UnreadLemma
  <2>5. open' = TRUE BY <2>1, <2>3, <1>1 DEF Poll, TailInv
  <2>6. TailInv' BY <1>1, <2>1, <2>3, <2>4, <2>5 DEF TailInv
  <2> QED BY <2>2, <2>6 DEF Followed
<1>12. ASSUME NEW outcome, ParsePiece(outcome) PROVE Followed'
  <2>1. Parse(outcome) /\ at' = (IF outcome = "raise" THEN "poll" ELSE "parse")
    BY <1>12 DEF ParsePiece, Goes
  <2>2. /\ pieces' \in Seq(Pieces(Cell)) /\ told' \in Seq(Told(1 .. MaxLines)) /\ open
        /\ UNCHANGED <<glog, lines, half, open, pos, from, torn>>
    BY <1>1, <2>1, ParseLemma
  <2>3. outcome = "raise" => pieces' = <<>> BY <2>1 DEF Parse
  <2>4. GlogInv' BY <1>1, <2>2 DEF GlogInv
  <2>5. TailInv' BY <1>1, <2>1, <2>2, <2>3 DEF TailInv
  <2> QED BY <2>4, <2>5 DEF Followed
<1>13. CASE LoopAll
  <2>1. UNCHANGED logVars /\ pieces = <<>> /\ at' = "tend" BY <1>13 DEF LoopAll, Goes
  <2> QED BY <2>1, LogQuiet
<1>14. CASE Manager
  BY <1>6, <1>7, <1>8, <1>9, <1>10, <1>11, <1>12, <1>13, <1>14 DEF Manager
<1>15. ASSUME NEW p \in Procs, Plugin(p) PROVE Followed' BY <1>2, <1>15 DEF Plugin, watchVars
<1>16. CASE Stop \/ Stopped BY <1>2, <1>16 DEF Stop, Stopped
<1>17. CASE StopManager
  <2>1. UNCHANGED logVars /\ at' = "dead" BY <1>17 DEF StopManager
  <2> QED BY <2>1, LogQuiet
<1>18. ASSUME NEW n \in Names, StopsPlugin(n) PROVE Followed'
  BY <1>2, <1>18 DEF StopsPlugin, watchVars
<1>19. CASE UNCHANGED vars BY <1>2, <1>19 DEF vars, watchVars
<1> QED BY <1>4, <1>5, <1>6, <1>14, <1>15, <1>16, <1>17, <1>18, <1>19 DEF Next

(* What has been told and what has yet to be parsed is what was there.     *)
TellInv ==
    open /\ ~Spliced =>
        /\ \A k \in 1 .. Len(pieces) :
              ~Complete(pieces[k]) =>
                  /\ LinesOf(pieces[k]) \subseteq torn
                  /\ k = Len(pieces) \/ pieces[k][1].part = "tail"
        /\ Filter(told, Told((1 .. MaxLines) \ torn)) \o OfPieces(pieces, torn)
             = OfCells(SubSeq(glog, from + 1, pos), torn)

(* To leave out more lines is to leave them out of what has been told.     *)
LEMMA FewerLines ==
    ASSUME NEW s \in Seq(Cell), NEW T, NEW U, T \subseteq U
    PROVE  OfCells(s, U) = Filter(OfCells(s, T), Told((1 .. MaxLines) \ U))
<1> DEFINE V == Told((1 .. MaxLines) \ U)
           Good == {r \in Seq(Cell) : OfCells(r, U) = Filter(OfCells(r, T), V)}
<1>1. <<>> \in Good
  <2> DEFINE e == <<>>
  <2>1. e \in Seq(Cell) /\ \A W : Filter(e, W) = e BY FilterEmpty
  <2>2. Mapped(e, EventOfCell) = e BY MappedEmpty
  <2> HIDE DEF e, V
  <2>3. e \in Good BY <2>1, <2>2 DEF OfCells
  <2> QED BY <2>3 DEF e
<1>2. ASSUME NEW r \in Seq(Cell), NEW c \in Cell, r \in Good PROVE Append(r, c) \in Good
  <2> DEFINE ev == Event(c.line)
             t == Append(r, c)
             f == OfCells(r, T)
  <2>1. t \in Seq(Cell) BY AppendProperties
  <2>2. f \in Seq(Told(1 .. MaxLines))
    <3>1. Filter(r, WholeCells(T)) \in Seq(Cell) BY FilterType
    <3> QED BY <3>1, EventTypes, MappedType DEF OfCells
  <2>3. ev \in Told(1 .. MaxLines) /\ (ev \in V <=> c.line \notin U)
    BY DEF Event, Told, Cell
  <2>4. OfCells(t, T) = IF c \in WholeCells(T) THEN Append(f, ev) ELSE f
    BY CellsAppend
  <2>5. OfCells(t, U) = IF c \in WholeCells(U) THEN Append(OfCells(r, U), ev) ELSE OfCells(r, U)
    BY CellsAppend
  <2>6. c \in WholeCells(U) <=> c \in WholeCells(T) /\ ev \in V
    BY <2>3 DEF WholeCells
  <2>7. OfCells(r, U) = Filter(f, V) BY <1>2
  <2> HIDE DEF V, t, f, ev
  <2>8. Filter(Append(f, ev), V) = IF ev \in V THEN Append(Filter(f, V), ev) ELSE Filter(f, V)
    BY <2>2, <2>3, FilterAppend
  <2>9. CASE c \in WholeCells(T)
    <3>1. OfCells(t, T) = Append(f, ev) BY <2>4, <2>9
    <3>2. CASE ev \in V BY <2>5, <2>6, <2>7, <2>8, <2>9, <3>1, <3>2, <2>1 DEF t
    <3>3. CASE ev \notin V BY <2>5, <2>6, <2>7, <2>8, <2>9, <3>1, <3>3, <2>1 DEF t
    <3> QED BY <3>2, <3>3
  <2>10. CASE c \notin WholeCells(T) BY <2>4, <2>5, <2>6, <2>7, <2>10, <2>1 DEF t
  <2> QED BY <2>9, <2>10
<1>3. \A r \in Seq(Cell) : r \in Good
  <2> DEFINE e == <<>>
             S == Cell
  <2>1. e \in Good BY <1>1
  <2> HIDE DEF Good, e, S
  <2>2. e \in Good /\ e = <<>> BY <2>1 DEF e
  <2>3. \A r \in Seq(S), c \in S : r \in Good => Append(r, c) \in Good BY <1>2 DEF S
  <2>4. \A r \in Seq(S) : r \in Good BY <2>2, <2>3, SeqSetInduction
  <2> QED BY <2>4 DEF S
<1> QED BY <1>3

LEMMA CellsConcat ==
    ASSUME NEW s \in Seq(Cell), NEW t \in Seq(Cell), NEW T
    PROVE  OfCells(s \o t, T) = OfCells(s, T) \o OfCells(t, T)
<1> DEFINE W == WholeCells(T)
           fs == Filter(s, W)
           ft == Filter(t, W)
<1>1. Filter(s \o t, W) = fs \o ft BY FilterConcat
<1>2. fs \in Seq(Cell) /\ ft \in Seq(Cell) BY FilterType
<1> HIDE DEF W, fs, ft
<1>3. Mapped(fs \o ft, EventOfCell) = Mapped(fs, EventOfCell) \o Mapped(ft, EventOfCell)
  BY <1>2, EventTypes, MappedConcat
<1> QED BY <1>1, <1>3 DEF OfCells, W, fs, ft

LEMMA CellsType ==
    ASSUME NEW s \in Seq(Cell), NEW T PROVE OfCells(s, T) \in Seq(Told(1 .. MaxLines))
<1>1. Filter(s, WholeCells(T)) \in Seq(Cell) BY FilterType
<1> QED BY <1>1, EventTypes, MappedType DEF OfCells

LEMMA PiecesType ==
    ASSUME NEW parts \in Seq(Pieces(Cell)), NEW T
    PROVE  OfPieces(parts, T) \in Seq(Told(1 .. MaxLines))
<1>1. Filter(parts, WholePieces(T)) \in Seq(Pieces(Cell)) BY FilterType
<1> QED BY <1>1, EventTypes, MappedType DEF OfPieces

LEMMA NoPieces == ASSUME NEW T PROVE OfPieces(<<>>, T) = <<>>
<1> DEFINE e == <<>>
<1>1. Filter(e, WholePieces(T)) = e /\ Mapped(e, EventOfPiece) = e
  BY FilterEmpty, MappedEmpty
<1> HIDE DEF e
<1>2. OfPieces(e, T) = e BY <1>1 DEF OfPieces
<1> QED BY <1>2 DEF e

(* The first piece, and the others. *)
LEMMA FirstPiece ==
    ASSUME NEW parts \in Seq(Pieces(Cell)), parts # <<>>, NEW T
    PROVE  OfPieces(parts, T) = (IF Head(parts) \in WholePieces(T)
                                 THEN <<Event(Head(parts)[1].line)>> ELSE <<>>)
                                \o OfPieces(Tail(parts), T)
<1> DEFINE p == Head(parts)
           rest == Tail(parts)
           none == <<>>
           one == Append(none, p)
           W == WholePieces(T)
           fo == Filter(one, W)
           fr == Filter(rest, W)
<1>1. p \in Pieces(Cell) /\ rest \in Seq(Pieces(Cell)) /\ none \in Seq(Pieces(Cell))
  BY HeadTailProperties
<1>2. one = <<p>> /\ one \in Seq(Pieces(Cell))
  <2>1. one \in Seq(Pieces(Cell))
    <3> HIDE DEF p, none
    <3> QED BY <1>1, AppendProperties
  <2> QED BY <2>1
<1>3. parts = one \o rest
  <2>1. Len(parts) \in Nat \ {0} BY EmptySeq
  <2> DEFINE N == Len(parts)
  <2>2. 1 \in 1 .. N /\ N \in 1 .. N BY <2>1
  <2> HIDE DEF N
  <2>3. SubSeq(parts, 1, N) = <<parts[1]>> \o SubSeq(parts, 1 + 1, N)
    BY <2>2, SubSeqRecursiveFirst DEF N
  <2>4. SubSeq(parts, 1, N) = parts /\ SubSeq(parts, 2, N) = rest
    BY SubSeqFull, TailIsSubSeq DEF N
  <2>5. p = parts[1] OBVIOUS
  <2> QED BY <1>2, <2>3, <2>4, <2>5
<1>4. OfPieces(one, T) = IF p \in W THEN <<Event(p[1].line)>> ELSE <<>>
  <2>1. OfPieces(none, T) = none BY NoPieces
  <2>2. OfPieces(one, T) = IF p \in W THEN Append(none, Event(p[1].line)) ELSE none
    <3> HIDE DEF none, p
    <3> QED BY <1>1, <2>1, PiecesAppend
  <2>3. Append(none, Event(p[1].line)) = <<Event(p[1].line)>> OBVIOUS
  <2> QED BY <2>2, <2>3
<1> HIDE DEF p, rest, none, one
<1>5. Filter(one \o rest, W) = fo \o fr
  <2>1. one \in Seq(Pieces(Cell)) /\ rest \in Seq(Pieces(Cell)) BY <1>1, <1>2
  <2> DEFINE S == Pieces(Cell)
  <2>2. one \in Seq(S) /\ rest \in Seq(S) BY <2>1
  <2> HIDE DEF S
  <2> QED BY <2>2, FilterConcat
<1>6. fo \in Seq(Pieces(Cell)) /\ fr \in Seq(Pieces(Cell)) BY <1>1, <1>2, FilterType
<1> HIDE DEF W, fo, fr
<1>7. Mapped(fo \o fr, EventOfPiece) = Mapped(fo, EventOfPiece) \o Mapped(fr, EventOfPiece)
  BY <1>6, EventTypes, MappedConcat
<1>8. OfPieces(parts, T) = OfPieces(one, T) \o OfPieces(rest, T)
  BY <1>3, <1>5, <1>7 DEF OfPieces, fo, fr, W
<1> QED BY <1>4, <1>8 DEF p, rest, W

LEMMA TellStart == Init => TellInv
  BY DEF Init, LogInit, TellInv

(* A step that leaves what was read and what was told alone. *)
LEMMA TellQuiet ==
    ASSUME TellInv, UNCHANGED logVars PROVE TellInv'
<1>1. /\ glog' = glog /\ open' = open /\ pos' = pos /\ from' = from
      /\ pieces' = pieces /\ told' = told /\ torn' = torn
  BY DEF logVars
<1>2. Spliced' = Spliced BY <1>1 DEF Spliced
<1> QED BY <1>1, <1>2 DEF TellInv

(* What the game adds is behind the position. *)
LEMMA TellLogs ==
    ASSUME Followed, TellInv, GameLogs PROVE TellInv'
<1>1. PICK c \in Cell : glog' = Append(glog, c) BY GameLogsLemma DEF Followed
<1>2. /\ open' = open /\ pos' = pos /\ from' = from
      /\ pieces' = pieces /\ told' = told /\ torn' = torn
  BY GameLogsLemma DEF Followed
<1> SUFFICES ASSUME open, ~Spliced' PROVE TellInv' BY <1>2 DEF TellInv
<1>3. glog \in Seq(Cell) BY DEF Followed, GlogInv
<1>4. ~Spliced
  <2>1. Unspliced(Append(glog, c)) BY <1>1 DEF Spliced, Unspliced
  <2>2. Unspliced(glog) BY <1>3, <2>1, PrefixLemma
  <2> QED BY <2>2 DEF Spliced, Unspliced
<1>5. pos \in 0 .. Len(glog) /\ from \in 0 .. pos /\ Len(glog) \in Nat
  BY <1>3, LenProperties DEF Followed, TailInv
<1>6. SubSeq(glog', from + 1, pos) = SubSeq(glog, from + 1, pos)
  <2> DEFINE old == SubSeq(glog, from + 1, pos)
             new == SubSeq(glog', from + 1, pos)
             C == Cell
  <2>1. /\ from + 1 \in Int /\ pos \in Int
        /\ \A i \in (from + 1) .. pos : i \in 1 .. Len(glog)
    BY <1>5
  <2>2. \A i \in 1 .. Len(glog) : glog'[i] = glog[i] BY <1>1, <1>3, AppendProperties
  <2>3. \A i \in (from + 1) .. pos : glog[i] \in C /\ glog'[i] = glog[i]
    BY <1>3, <2>1, <2>2, ElementOfSeq
  <2> HIDE DEF C
  <2>4. /\ old \in Seq(C)
        /\ Len(old) = IF from + 1 <= pos THEN pos - (from + 1) + 1 ELSE 0
        /\ \A i \in 1 .. (pos - (from + 1) + 1) : old[i] = glog[(from + 1) + i - 1]
    BY <2>1, <2>3, SubSeqProperties
  <2>5. /\ new \in Seq(C)
        /\ Len(new) = IF from + 1 <= pos THEN pos - (from + 1) + 1 ELSE 0
        /\ \A i \in 1 .. (pos - (from + 1) + 1) : new[i] = glog'[(from + 1) + i - 1]
    BY <2>1, <2>3, SubSeqProperties
  <2> HIDE DEF old, new
  <2>6. \A i \in 1 .. Len(old) : /\ i \in 1 .. (pos - (from + 1) + 1)
                                 /\ (from + 1) + i - 1 \in (from + 1) .. pos
    BY <1>5, <2>4
  <2>7. \A i \in 1 .. Len(old) : old[i] = new[i] BY <2>3, <2>4, <2>5, <2>6
  <2>8. old = new BY <2>4, <2>5, <2>7, SeqEqual
  <2> QED BY <2>8 DEF old, new
<1> QED BY <1>2, <1>4, <1>6 DEF TellInv

LEMMA TellOpen ==
    ASSUME Followed, at = "open", StartWatcher PROVE TellInv'
<1>1. /\ pos' = Len(glog) /\ from' = Len(glog) /\ glog' = glog
      /\ told' = <<>> /\ pieces' = <<>> /\ torn' = torn
  BY DEF Followed, TailInv, StartWatcher
<1>2. Len(glog) \in Nat BY LenProperties DEF Followed, GlogInv
<1> DEFINE e == <<>>
           V == Told((1 .. MaxLines) \ torn)
<1>3. SubSeq(glog', from' + 1, pos') = e
  <2>1. from' + 1 \in Int /\ pos' \in Int /\ pos' < from' + 1 BY <1>1, <1>2
  <2> QED BY <2>1, SubSeqEmpty
<1>4. e \in Seq(Cell) /\ e \in Seq(Told(1 .. MaxLines)) /\ Len(e) = 0 OBVIOUS
<1>5. Filter(e, V) = e /\ Filter(e, WholeCells(torn)) = e BY FilterEmpty
<1>6. Mapped(e, EventOfCell) = e BY MappedEmpty
<1>7. OfPieces(e, torn) = e BY NoPieces
<1>8. told' = e /\ pieces' = e BY <1>1
<1> HIDE DEF e, V
<1>9. OfCells(e, torn) = e BY <1>5, <1>6 DEF OfCells
<1>10. e \o e = e BY <1>4, ConcatEmptySeq
<1>11. \A k \in 1 .. Len(pieces') : FALSE BY <1>4, <1>8
<1>12. Filter(told', Told((1 .. MaxLines) \ torn')) \o OfPieces(pieces', torn')
         = OfCells(SubSeq(glog', from' + 1, pos'), torn')
  BY <1>1, <1>3, <1>5, <1>7, <1>8, <1>9, <1>10 DEF V
<1> QED BY <1>11, <1>12 DEF TellInv

(* What a poll reads is what it has yet to tell. *)
LEMMA TellPoll ==
    ASSUME Followed, TellInv, pieces = <<>>, Poll PROVE TellInv'
<1>1. GlogInv /\ TailInv BY DEF Followed
<1>2. /\ pieces' = Split(Unread) /\ torn \subseteq torn' /\ Covers(pieces', torn')
      /\ open /\ pos' = Len(glog) /\ glog' = glog /\ from' = from /\ told' = told
  BY <1>1, PollLemma
<1> SUFFICES ASSUME ~Spliced PROVE TellInv' BY <1>2 DEF TellInv, Spliced
<1>3. /\ Unread \in Seq(Cell) /\ Joined(Unread) /\ Unspliced(Unread)
      /\ pos \in Nat /\ from \in Nat /\ Len(glog) \in Nat /\ from <= pos /\ pos <= Len(glog)
  BY <1>1, <1>2, UnreadLemma
<1>4. /\ OfPieces(pieces', torn') = OfCells(Unread, torn')
      /\ \A k \in 1 .. Len(pieces') :
            ~Complete(pieces'[k]) => k = Len(pieces') \/ pieces'[k][1].part = "tail"
  BY <1>2, <1>3, TellLemma
<1>5. \A k \in 1 .. Len(pieces') : ~Complete(pieces'[k]) => LinesOf(pieces'[k]) \subseteq torn'
  BY <1>2 DEF Covers
<1> DEFINE before == SubSeq(glog, from + 1, pos)
           V == Told((1 .. MaxLines) \ torn)
           W == Told((1 .. MaxLines) \ torn')
           E == Told(1 .. MaxLines)
<1>6. before \in Seq(Cell) /\ before \o Unread = SubSeq(glog, from + 1, Len(glog))
  <2> DEFINE C == Cell
             g == glog
             m == from + 1
             n == Len(glog)
  <2>1. g \in Seq(C) BY <1>1 DEF GlogInv
  <2>2. m \in 1 .. Len(g) + 1 /\ pos \in m - 1 .. Len(g) /\ n \in pos .. Len(g) BY <1>3
  <2>3. m \in Int /\ pos \in Int /\ \A i \in m .. pos : i \in 1 .. Len(g) BY <1>3
  <2> HIDE DEF C, g, m, n
  <2>4. SubSeq(g, m, pos) \o SubSeq(g, pos + 1, n) = SubSeq(g, m, n)
    BY <2>1, <2>2, ConcatAdjacentSubSeq
  <2>5. \A i \in m .. pos : g[i] \in C BY <2>1, <2>3, ElementOfSeq
  <2>6. SubSeq(g, m, pos) \in Seq(C) BY <2>3, <2>5, SubSeqProperties
  <2> QED BY <2>4, <2>6 DEF C, g, m, n, Unread
<1>7. OfCells(SubSeq(glog, from + 1, Len(glog)), torn')
        = OfCells(before, torn') \o OfCells(Unread, torn')
  <2> HIDE DEF before
  <2>1. OfCells(before \o Unread, torn') = OfCells(before, torn') \o OfCells(Unread, torn')
    BY <1>3, <1>6, CellsConcat
  <2> QED BY <1>6, <2>1
<1>8. Filter(told, V) = OfCells(before, torn)
  <2> DEFINE e == <<>>
             f == Filter(told, V)
  <2>1. OfPieces(e, torn) = e BY NoPieces
  <2>2. told \in Seq(E) BY <1>1 DEF TailInv
  <2> HIDE DEF E
  <2>3. f \in Seq(E) BY <2>2, FilterType
  <2>4. f \o OfPieces(e, torn) = OfCells(before, torn) BY <1>2 DEF TellInv
  <2> HIDE DEF f
  <2>5. f \o <<>> = f BY <2>3, ConcatEmptySeq
  <2> QED BY <2>1, <2>4, <2>5 DEF f
<1>9. OfCells(before, torn') = Filter(OfCells(before, torn), W)
  <2> HIDE DEF before
  <2> QED BY <1>2, <1>6, FewerLines
<1>10. Filter(Filter(told, V), W) = Filter(told, W)
  <2>1. V \cap W = W BY <1>2 DEF Told
  <2>2. told \in Seq(E) BY <1>1 DEF TailInv
  <2> HIDE DEF V, W, E
  <2>3. Filter(Filter(told, V), W) = Filter(told, V \cap W) BY <2>2, FilterFilter
  <2> QED BY <2>1, <2>3
<1> HIDE DEF before, V, W
<1>11. Filter(told, W) \o OfPieces(pieces', torn')
         = OfCells(SubSeq(glog, from + 1, Len(glog)), torn')
  BY <1>4, <1>7, <1>8, <1>9, <1>10
<1>12. Filter(told', Told((1 .. MaxLines) \ torn')) \o OfPieces(pieces', torn')
         = OfCells(SubSeq(glog', from' + 1, pos'), torn')
  BY <1>2, <1>11 DEF W
<1> QED BY <1>4, <1>5, <1>12 DEF TellInv

(* A piece is told, or there was nothing to tell of it; and when the       *)
(* parser fails there is no other piece.                                   *)
LEMMA TellParse ==
    ASSUME Followed, TellInv, NEW outcome, Parse(outcome) PROVE TellInv'
<1> DEFINE p == Head(pieces)
           rest == Tail(pieces)
           V == Told((1 .. MaxLines) \ torn)
           E == Told(1 .. MaxLines)
           X == IF p \in WholePieces(torn) THEN <<Event(p[1].line)>> ELSE <<>>
           f == Filter(told, V)
           e == [line |-> p[1].line, faithful |-> outcome = "event"]
<1>1. TailInv BY DEF Followed
<1>2. /\ open /\ pieces # <<>> /\ p \in Pieces(Cell) /\ p = pieces[1] /\ p[1] \in Cell
      /\ rest \in Seq(Pieces(Cell)) /\ outcome \in Outcomes(p)
      /\ open' = open /\ glog' = glog /\ pos' = pos /\ from' = from /\ torn' = torn
  BY <1>1, ParseLemma
<1> SUFFICES ASSUME ~Spliced PROVE TellInv' BY <1>2 DEF TellInv, Spliced
<1>3. /\ told' = IF outcome \in {"event", "false"} THEN Append(told, e) ELSE told
      /\ pieces' = IF outcome = "raise" THEN <<>> ELSE rest
  BY DEF Parse
<1>4. /\ pieces \in Seq(Pieces(Cell)) /\ told \in Seq(E) BY <1>1 DEF TailInv
<1>5. /\ Len(pieces) \in Nat \ {0} /\ Len(rest) = Len(pieces) - 1
      /\ \A k \in 1 .. Len(rest) : rest[k] = pieces[k + 1]
  BY <1>2, <1>4, EmptySeq, HeadTailProperties
<1>6. \A k \in 1 .. Len(pieces) :
         ~Complete(pieces[k]) => /\ LinesOf(pieces[k]) \subseteq torn
                                 /\ k = Len(pieces) \/ pieces[k][1].part = "tail"
  BY <1>2 DEF TellInv
<1>7. OfPieces(pieces, torn) = X \o OfPieces(rest, torn) BY <1>2, <1>4, FirstPiece
<1>8. f \o OfPieces(pieces, torn) = OfCells(SubSeq(glog, from + 1, pos), torn)
  BY <1>2 DEF TellInv
<1>9. f \in Seq(E)
  <2> HIDE DEF V, E
  <2> QED BY <1>4, FilterType
<1>10. p[1].line \in 1 .. MaxLines /\ e \in E /\ Event(p[1].line) \in E
  <2> HIDE DEF p
  <2> QED BY <1>2 DEF Cell, Told, Event
<1>11. e \in V <=> p[1].line \notin torn
  <2> HIDE DEF p
  <2> QED BY <1>10 DEF Told
<1>12. ~Complete(p) => /\ p[1].line \in torn
                       /\ Len(pieces) = 1 \/ p[1].part = "tail"
  <2>1. 1 \in 1 .. Len(pieces) BY <1>5
  <2>2. ~Complete(p) => LinesOf(p) \subseteq torn /\ (1 = Len(pieces) \/ p[1].part = "tail")
    BY <1>2, <1>6, <2>1
  <2>3. p[1].line \in LinesOf(p)
    <3>1. p \in Seq(Cell) /\ p # <<>> BY <1>2 DEF Pieces
    <3> HIDE DEF p
    <3>2. 1 \in 1 .. Len(p) /\ DOMAIN p = 1 .. Len(p) BY <3>1, EmptySeq, LenProperties
    <3> QED BY <3>2 DEF LinesOf
  <2> QED BY <2>2, <2>3
<1> HIDE DEF p, rest, V, E, f
<1>13. Complete(p) => outcome = IF p[1].kind = "other" THEN "nothing" ELSE "event"
  BY <1>2 DEF Outcomes
<1>14. outcome = "raise" => ~Complete(p) /\ p[1].part # "tail"
  BY <1>2 DEF Outcomes
<1>15. outcome \in {"event", "false", "nothing", "raise"}
  BY <1>2 DEF Outcomes, HeadOutcomes
<1>16. p \in WholePieces(torn) <=> Complete(p) /\ p[1].kind # "other" /\ p[1].line \notin torn
  BY <1>2 DEF WholePieces
<1>17. CASE outcome = "raise"
  <2> DEFINE none == <<>>
  <2>1. p \notin WholePieces(torn) /\ Len(pieces) = 1 BY <1>12, <1>14, <1>16, <1>17
  <2>2. rest = none
    <3>1. Len(rest) = 0 BY <1>5, <2>1
    <3>2. rest # <<>> => Len(rest) \in Nat \ {0} BY <1>2, EmptySeq
    <3> QED BY <3>1, <3>2
  <2>3. OfPieces(rest, torn) = none BY <2>2, NoPieces
  <2>4. X = none BY <2>1
  <2>5. pieces' = none /\ told' = told BY <1>3, <1>17
  <2>6. \A k \in 1 .. Len(pieces') : FALSE BY <2>5
  <2>7. none \o none = none /\ none \in Seq(E) OBVIOUS
  <2>8. OfPieces(none, torn) = none BY NoPieces
  <2> HIDE DEF none, X
  <2>9. OfPieces(pieces, torn) = OfPieces(pieces', torn)
    BY <1>7, <2>3, <2>4, <2>5, <2>7, <2>8
  <2>10. Filter(told', V) \o OfPieces(pieces', torn) = OfCells(SubSeq(glog, from + 1, pos), torn)
    BY <1>8, <2>5, <2>9 DEF f
  <2> QED BY <1>2, <2>6, <2>10 DEF TellInv, V
<1>18. CASE outcome # "raise"
  <2>1. pieces' = rest BY <1>3, <1>18
  <2>2. Filter(told', V) = f \o X
    <3>1. CASE Complete(p) /\ p[1].kind # "other" /\ p[1].line \notin torn
      <4>1. outcome = "event" /\ p \in WholePieces(torn) BY <1>13, <1>16, <3>1
      <4>2. e = Event(p[1].line) BY <4>1 DEF Event
      <4>3. X = <<Event(p[1].line)>> BY <4>1
      <4> HIDE DEF e, X
      <4>4. told' = Append(told, e) /\ e \in V BY <1>3, <1>11, <3>1, <4>1
      <4>5. Filter(told', V) = Append(f, e)
        BY <1>4, <1>10, <4>4, FilterAppend DEF f
      <4>6. Append(f, e) = f \o <<e>> BY <1>9, <1>10, AppendIsConcat
      <4> QED BY <4>2, <4>3, <4>5, <4>6
    <3>2. CASE ~(Complete(p) /\ p[1].kind # "other" /\ p[1].line \notin torn)
      <4>1. X = <<>> BY <1>16, <3>2
      <4>2. told' = told \/ (told' = Append(told, e) /\ e \notin V)
        <5> HIDE DEF e
        <5>1. CASE Complete(p) BY <1>3, <1>11, <1>13, <3>2, <5>1
        <5>2. CASE ~Complete(p) BY <1>3, <1>11, <1>12, <5>2
        <5> QED BY <5>1, <5>2
      <4> HIDE DEF e, X
      <4>3. Filter(told', V) = f
        <5>1. CASE told' = told BY <5>1 DEF f
        <5>2. CASE told' = Append(told, e) /\ e \notin V
          <6>1. Filter(Append(told, e), V) = IF e \in V THEN Append(f, e) ELSE f
            BY <1>4, <1>10, FilterAppend DEF f
          <6> QED BY <5>2, <6>1
        <5> QED BY <4>2, <5>1, <5>2
      <4>4. f \o <<>> = f BY <1>9, ConcatEmptySeq
      <4> QED BY <4>1, <4>3, <4>4
    <3> QED BY <3>1, <3>2
  <2>3. X \in Seq(E)
    <3>1. <<>> \in Seq(E) /\ <<Event(p[1].line)>> \in Seq(E) BY <1>10
    <3> QED BY <3>1
  <2>4. OfPieces(rest, torn) \in Seq(E) BY <1>2, PiecesType DEF E
  <2> HIDE DEF X
  <2>5. (f \o X) \o OfPieces(rest, torn) = f \o (X \o OfPieces(rest, torn))
    BY <1>9, <2>3, <2>4, ConcatAssociative
  <2>6. Filter(told', V) \o OfPieces(pieces', torn) = OfCells(SubSeq(glog, from + 1, pos), torn)
    BY <1>7, <1>8, <2>1, <2>2, <2>5
  <2>7. \A k \in 1 .. Len(pieces') :
          ~Complete(pieces'[k]) => /\ LinesOf(pieces'[k]) \subseteq torn
                                   /\ k = Len(pieces') \/ pieces'[k][1].part = "tail"
    <3> SUFFICES ASSUME NEW k \in 1 .. Len(pieces'), ~Complete(pieces'[k])
                 PROVE  /\ LinesOf(pieces'[k]) \subseteq torn
                        /\ k = Len(pieces') \/ pieces'[k][1].part = "tail"
      OBVIOUS
    <3>1. k + 1 \in 1 .. Len(pieces) /\ pieces'[k] = pieces[k + 1] BY <1>5, <2>1
    <3>2. LinesOf(pieces[k + 1]) \subseteq torn
          /\ (k + 1 = Len(pieces) \/ pieces[k + 1][1].part = "tail")
      BY <1>6, <3>1
    <3> QED BY <1>5, <2>1, <3>1, <3>2
  <2> QED BY <1>2, <2>6, <2>7 DEF TellInv, V
<1> QED BY <1>17, <1>18

LEMMA TellNext == Followed /\ TellInv /\ [Next]_vars => TellInv'
<1> SUFFICES ASSUME Followed, TellInv, [Next]_vars PROVE TellInv' OBVIOUS
<1>1. GlogInv /\ TailInv BY DEF Followed
<1>2. CASE Logs BY <1>2, TellLogs DEF Logs
<1>3. CASE Crash
  <2>1. UNCHANGED <<glog, lines, open, pos, from, pieces, told, torn>>
    BY <1>3 DEF Crash, GameDies
  <2>2. Spliced' = Spliced BY <2>1 DEF Spliced
  <2> QED BY <2>1, <2>2 DEF TellInv
<1>4. CASE ClearGamesLog
  <2>1. ~open /\ open' = open
    BY <1>1, <1>4 DEF ClearGamesLog, ClearLog, Goes, TailInv
  <2> QED BY <2>1 DEF TellInv
<1>5. CASE OpenGamesLog
  BY <1>5, TellOpen DEF OpenGamesLog, Goes
<1>6. CASE PollLog
  <2>1. Poll /\ at = "poll" BY <1>6 DEF PollLog, Goes
  <2> QED BY <1>1, <2>1, TellPoll DEF TailInv
<1>7. ASSUME NEW outcome, ParsePiece(outcome) PROVE TellInv'
  BY <1>7, TellParse DEF ParsePiece
<1>8. CASE UNCHANGED logVars BY <1>8, TellQuiet
<1>9. CASE Manager
  BY <1>4, <1>5, <1>6, <1>7, <1>8, <1>9
     DEF Manager, Launch, Relaunch, Launches, ClearEngineLog, Verify, StartPlugins, Fork,
         LoopAll, Tend, Waits
<1>10. CASE Prints \/ Serves \/ Stop \/ Stopped \/ StopManager
  BY <1>8, <1>10 DEF Prints, Serves, Stop, Stopped, StopManager
<1>11. ASSUME NEW p \in Procs, Plugin(p) PROVE TellInv' BY <1>8, <1>11 DEF Plugin
<1>12. ASSUME NEW n \in Names, StopsPlugin(n) PROVE TellInv' BY <1>8, <1>12 DEF StopsPlugin
<1>13. CASE UNCHANGED vars BY <1>8, <1>13 DEF vars
<1> QED BY <1>2, <1>3, <1>9, <1>10, <1>11, <1>12, <1>13 DEF Next

LEMMA TellInvariance == Spec => [](Followed /\ TellInv)
  BY GlogStart, TellStart, FollowedNext, TellNext, PTL DEF Spec, Followed

(* However writing, polling and parsing take turns, and whatever the       *)
(* parser makes of a torn line, every line that the watcher was there for  *)
(* and that no poll tore is told once, in order and as it stands.          *)
THEOREM WholeLinesAreTold == Spec => []WholeLinesTold
<1>1. Followed /\ TellInv => WholeLinesTold
  <2> SUFFICES ASSUME Followed, TellInv, open, pieces = <<>>, ~Spliced
               PROVE  Filter(told, Told((1 .. MaxLines) \ torn)) = WholeLines
    BY DEF WholeLinesTold
  <2> DEFINE V == Told((1 .. MaxLines) \ torn)
             E == Told(1 .. MaxLines)
             f == Filter(told, V)
             e == <<>>
             W == WholeCells(torn)
             cells == Filter(SubSeq(glog, from + 1, pos), W)
  <2>1. told \in Seq(E) BY DEF Followed, TailInv
  <2>2. f \in Seq(E)
    <3> HIDE DEF V, E
    <3> QED BY <2>1, FilterType
  <2>3. f \o OfPieces(e, torn) = OfCells(SubSeq(glog, from + 1, pos), torn) BY DEF TellInv
  <2>4. OfPieces(e, torn) = e BY NoPieces
  <2>5. f = OfCells(SubSeq(glog, from + 1, pos), torn)
    <3> HIDE DEF f, E
    <3>1. f \o <<>> = f BY <2>2, ConcatEmptySeq
    <3> QED BY <2>3, <2>4, <3>1
  <2>6. cells \in Seq(Cell)
    <3> DEFINE C == Cell
               g == glog
    <3>1. g \in Seq(C) /\ Len(g) \in Nat BY LenProperties DEF Followed, GlogInv
    <3>2. pos \in 0 .. Len(g) /\ from \in 0 .. pos BY DEF Followed, TailInv
    <3>3. /\ from + 1 \in Int /\ pos \in Int
          /\ \A i \in (from + 1) .. pos : i \in 1 .. Len(g)
      BY <3>1, <3>2
    <3> HIDE DEF C, W, g
    <3>4. \A i \in (from + 1) .. pos : g[i] \in C BY <3>1, <3>3, ElementOfSeq
    <3>5. SubSeq(g, from + 1, pos) \in Seq(C) BY <3>3, <3>4, SubSeqProperties
    <3>6. Filter(SubSeq(g, from + 1, pos), W) \in Seq(C) BY <3>5, FilterType
    <3> QED BY <3>6 DEF C, g
  <2>7. OfCells(SubSeq(glog, from + 1, pos), torn) = [k \in DOMAIN cells |-> EventOfCell[cells[k]]]
    BY DEF OfCells, Mapped
  <2>8. WholeLines = [k \in DOMAIN cells |-> Event(cells[k].line)]
    BY DEF WholeLines, WholeCells, Event
  <2> HIDE DEF cells, f, V, W, e, E
  <2>9. ASSUME NEW k \in DOMAIN cells PROVE EventOfCell[cells[k]] = Event(cells[k].line)
    <3>1. DOMAIN cells = 1 .. Len(cells) BY <2>6, LenProperties
    <3>2. cells[k] \in Cell BY <2>6, <3>1, ElementOfSeq
    <3> QED BY <3>2 DEF EventOfCell
  <2>10. f = WholeLines BY <2>5, <2>7, <2>8, <2>9
  <2> QED BY <2>10 DEF f, V
<1> QED BY <1>1, TellInvariance, PTL

-----------------------------------------------------------------------------
(* The types of what the manager asks the server. *)
LEMMA RconTypes == RconTypeOK /\ [Next]_vars => RconTypeOK'
<1> SUFFICES ASSUME RconTypeOK, [Next]_vars PROVE RconTypeOK' OBVIOUS
<1> DEFINE C == 1 .. MaxCommands
           D == 0 .. MaxCommands
<1>1. /\ asked \in D /\ wire \in Seq(C) /\ inbox \in Seq(C) /\ got \in Seq(D)
      /\ waiting \in BOOLEAN /\ slipped \in BOOLEAN
  BY DEF RconTypeOK
<1>2. C \subseteq D /\ 0 \in D /\ MaxCommands \in Nat BY RconClientAssumption
<1>3. CASE UNCHANGED rconVars BY <1>1, <1>3 DEF rconVars, RconTypeOK
<1>4. CASE Ask
  <2>1. /\ asked' = asked + 1 /\ asked + 1 \in C /\ asked + 1 \in D
    BY <1>1, <1>2, <1>4 DEF Ask
  <2> HIDE DEF C, D
  <2>2. Append(wire, asked + 1) \in Seq(C) BY <1>1, <2>1, AppendProperties
  <2> QED BY <1>1, <1>4, <2>1, <2>2 DEF Ask, RconTypeOK, C, D
<1>5. CASE Receive
  <2> HIDE DEF C, D
  <2>1. Head(inbox) \in C /\ Tail(inbox) \in Seq(C) BY <1>1, <1>5, HeadTailProperties DEF Receive
  <2>2. Head(inbox) \in D BY <1>2, <2>1
  <2>3. Append(got, Head(inbox)) \in Seq(D) BY <1>1, <2>2, AppendProperties
  <2> QED BY <1>1, <1>5, <2>1, <2>3 DEF Receive, RconTypeOK, C, D
<1>6. CASE TimeOut
  <2> HIDE DEF C, D
  <2>1. Append(got, 0) \in Seq(D) BY <1>1, <1>2, AppendProperties
  <2> QED BY <1>1, <1>6, <2>1 DEF TimeOut, RconTypeOK, C, D
<1>7. CASE Lose
  <2> HIDE DEF C, D
  <2>1. Tail(wire) \in Seq(C) BY <1>1, <1>7, HeadTailProperties DEF Lose
  <2> QED BY <1>1, <1>7, <2>1 DEF Lose, RconTypeOK, C, D
<1>8. CASE Answer
  <2>1. PICK n \in Packets : /\ inbox' = inbox \o [k \in 1 .. n |-> Head(wire)]
                             /\ slipped' = (slipped \/ n > 1)
    BY <1>8 DEF Answer
  <2>2. n \in Nat BY RconClientAssumption
  <2>3. /\ wire # <<>> /\ wire' = Tail(wire) /\ asked' = asked
        /\ waiting' = waiting /\ got' = got
    BY <1>8 DEF Answer
  <2> DEFINE packets == [k \in 1 .. n |-> Head(wire)]
  <2> HIDE DEF C, D
  <2>4. Head(wire) \in C /\ Tail(wire) \in Seq(C) BY <1>1, <2>3, HeadTailProperties
  <2>5. packets \in Seq(C) BY <2>2, <2>4
  <2> HIDE DEF packets
  <2>6. inbox \o packets \in Seq(C) BY <1>1, <2>5, ConcatProperties
  <2>7. inbox' \in Seq(C) /\ slipped' \in BOOLEAN BY <2>1, <2>6 DEF packets
  <2> QED BY <1>1, <2>3, <2>4, <2>7 DEF RconTypeOK, C, D
<1>9. CASE Serves BY <1>7, <1>8, <1>9 DEF Serves, Serve
<1>10. CASE Waits BY <1>5, <1>6, <1>10 DEF Waits
<1>11. ASSUME NEW outcome, ParsePiece(outcome) PROVE RconTypeOK'
  BY <1>3, <1>4, <1>11 DEF ParsePiece, MayAsk
<1>12. CASE LoopAll BY <1>3, <1>4, <1>12 DEF LoopAll, MayAsk
<1>13. CASE Manager
  BY <1>3, <1>10, <1>11, <1>12, <1>13
     DEF Manager, Launch, Relaunch, Launches, ClearGamesLog, OpenGamesLog, ClearEngineLog,
         Verify, StartPlugins, Fork, PollLog, Tend
<1>14. CASE Logs \/ Prints \/ Crash \/ Stop \/ Stopped \/ StopManager
  BY <1>3, <1>14 DEF Logs, Prints, Crash, Stop, Stopped, StopManager
<1>15. ASSUME NEW p \in Procs, Plugin(p) PROVE RconTypeOK' BY <1>3, <1>15 DEF Plugin
<1>16. ASSUME NEW n \in Names, StopsPlugin(n) PROVE RconTypeOK' BY <1>3, <1>16 DEF StopsPlugin
<1>17. CASE UNCHANGED vars BY <1>3, <1>17 DEF vars
<1> QED BY <1>9, <1>13, <1>14, <1>15, <1>16, <1>17 DEF Next

(* The engine has crashed once for every launch but the one that is up, or *)
(* once more, and is down when it is launched again.                       *)
EngineInv ==
    /\ engine \in {"up", "down"} /\ launches \in 0 .. (CrashLimit + 1)
    /\ engine = "down" => launches <= CrashLimit
    /\ at \in {"launch", "relaunch"} => engine = "down"
    /\ verdict \in {"unknown", "armed", "skipped", "none"}
    /\ stop \in {"none", "killing", "done"}

LEMMA EngineStart == Init => EngineInv
  BY WatchAssumption DEF Init, EngineInv

LEMMA EngineQuiet ==
    ASSUME EngineInv, UNCHANGED <<engine, launches>>,
           at' \in {"launch", "relaunch"} => at = at' \/ engine = "down",
           verdict' \in {verdict, "armed", "skipped", "none"},
           stop' \in {stop, "killing", "done"}
    PROVE  EngineInv'
  BY DEF EngineInv

LEMMA EngineNext == mode \in Modes /\ EngineInv /\ [Next]_vars => EngineInv'
<1> SUFFICES ASSUME mode \in Modes, EngineInv, [Next]_vars PROVE EngineInv' OBVIOUS
<1>1. ASSUME UNCHANGED watchVars PROVE EngineInv' BY <1>1 DEF watchVars, EngineInv
<1>2. CASE Crash
  <2>1. /\ launches <= mode.crashes /\ engine' = "down" /\ launches' = launches /\ at' = at
        /\ verdict' = verdict /\ stop' = stop
    BY <1>2 DEF Crash
  <2>2. mode.crashes \in 0 .. CrashLimit /\ CrashLimit \in Nat BY WatchAssumption
  <2>3. launches <= CrashLimit BY <2>1, <2>2 DEF EngineInv
  <2> QED BY <2>1, <2>3 DEF EngineInv
<1>3. CASE Launch \/ Relaunch
  <2>1. /\ engine' = "up" /\ launches' = launches + 1 /\ verdict' = verdict /\ stop' = stop
        /\ at \in {"launch", "relaunch"} /\ at' \in {"clear", "verify", "poll"}
    BY <1>3 DEF Launch, Relaunch, Launches, Goes
  <2>2. launches \in Nat /\ launches <= CrashLimit /\ CrashLimit \in Nat
    BY <2>1, WatchAssumption DEF EngineInv
  <2> QED BY <2>1, <2>2 DEF EngineInv
<1>4. CASE ClearGamesLog \/ OpenGamesLog \/ ClearEngineLog \/ StartPlugins \/ Fork \/ PollLog
           \/ LoopAll
  BY <1>4, EngineQuiet DEF ClearGamesLog, OpenGamesLog, ClearEngineLog, StartPlugins, Fork,
                           PollLog, LoopAll, Goes
<1>5. CASE Verify
  <2>1. /\ at' = "plugins" /\ verdict' \in {"none", "armed", "skipped"}
        /\ UNCHANGED <<engine, launches, stop>>
    BY <1>5 DEF Verify, Goes
  <2> QED BY <2>1, EngineQuiet
<1>6. CASE Tend
  <2>1. /\ at' = "relaunch" => engine # "up"
        /\ at' \in {"poll", "relaunch"} /\ UNCHANGED <<engine, launches, verdict, stop>>
    BY <1>6 DEF Tend, Goes, Up
  <2> QED BY <2>1, EngineQuiet DEF EngineInv
<1>7. ASSUME NEW outcome, ParsePiece(outcome) PROVE EngineInv'
  BY <1>7, EngineQuiet DEF ParsePiece, Goes
<1>8. CASE Waits BY <1>1, <1>8 DEF Waits
<1>9. CASE Manager
  BY <1>3, <1>4, <1>5, <1>6, <1>7, <1>8, <1>9 DEF Manager
<1>10. CASE Logs \/ Serves BY <1>1, <1>10 DEF Logs, Serves
<1>11. CASE Prints BY <1>11, EngineQuiet DEF Prints
<1>12. CASE Stop \/ Stopped \/ StopManager
  BY <1>12, EngineQuiet DEF Stop, Stopped, StopManager
<1>13. ASSUME NEW p \in Procs, Plugin(p) PROVE EngineInv' BY <1>1, <1>13 DEF Plugin
<1>14. ASSUME NEW n \in Names, StopsPlugin(n) PROVE EngineInv' BY <1>1, <1>14 DEF StopsPlugin
<1>15. CASE UNCHANGED vars BY <1>1, <1>15 DEF vars
<1> QED BY <1>2, <1>9, <1>10, <1>11, <1>12, <1>13, <1>14, <1>15 DEF Next

(* Every variable of the manager and of what it manages keeps its type: no *)
(* position behind the end of the log, no line or command that was never   *)
(* begun, no launch without the crash that makes room for it.              *)
THEOREM WatchTypes == Spec => []TypeOK
<1>1. Init => RconTypeOK
  <2> SUFFICES ASSUME Init PROVE RconTypeOK OBVIOUS
  <2>1. /\ asked = 0 /\ wire = <<>> /\ inbox = <<>> /\ got = <<>>
        /\ waiting = FALSE /\ slipped = FALSE
    BY DEF Init, RconInit
  <2>2. <<>> \in Seq(1 .. MaxCommands) /\ <<>> \in Seq(0 .. MaxCommands) OBVIOUS
  <2>3. wire \in Seq(1 .. MaxCommands) /\ inbox \in Seq(1 .. MaxCommands)
        /\ got \in Seq(0 .. MaxCommands)
    BY <2>1, <2>2
  <2>4. asked \in 0 .. MaxCommands BY <2>1, RconClientAssumption
  <2> QED BY <2>1, <2>3, <2>4 DEF RconTypeOK
<1>2. Followed => LogTypeOK
  <2> SUFFICES ASSUME GlogInv, TailInv PROVE LogTypeOK BY DEF Followed
  <2>1. pieces \in Seq(Seq(Cell))
    <3>1. pieces \in Seq(Pieces(Cell)) /\ Pieces(Cell) \subseteq Seq(Cell)
      BY DEF TailInv, Pieces
    <3> QED BY <3>1, SeqMonotonic
  <2> QED BY <2>1 DEF GlogInv, TailInv, LogTypeOK
<1>3. VerdictInv => mode \in Modes BY DEF VerdictInv, LogInv
<1>4. RconTypeOK /\ Followed /\ PlugInv /\ VerdictInv /\ EngineInv => TypeOK
  BY <1>2 DEF PlugInv, VerdictInv, OrderInv, LogInv, EngineInv, TypeOK
<1>5. Spec => []VerdictInv BY VerdictStart, VerdictNext, PTL DEF Spec
<1>6. Spec => []EngineInv BY <1>3, <1>5, EngineStart, EngineNext, PTL DEF Spec
<1>7. Spec => []RconTypeOK BY <1>1, RconTypes, PTL DEF Spec
<1> QED BY <1>4, <1>5, <1>6, <1>7, TellInvariance, PluginInvariance, PTL
=============================================================================
