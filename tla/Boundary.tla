------------------------------ MODULE Boundary ------------------------------
(***************************************************************************)
(* The wrapper of src/proxy/proxy.c between the engine and the game: the   *)
(* engine calls dllEntry once and vmMain ever after, the game calls        *)
(* Proxy_Syscall, and either may happen inside the other: an engine that   *)
(* is told to drop a client calls vmMain before it returns.  The detours   *)
(* of src/proxy/patch.c that decide on one call each are here as well.     *)
(***************************************************************************)
EXTENDS Userinfo, Commands, Donedl

CONSTANTS
    Scenes,   \* bound: what a behaviour is about
    Given     \* bound: for each scene, what the engine and the game may pass

(* A client's command is a line of at most MAX_STRING_CHARS - 1 characters. *)
ASSUME BoundaryAssumption ==
    \A s \in Scenes :
        /\ \A line \in Given[s].lines : IsLine(line) /\ Length(Tail(line)) <= 1023
        /\ Given[s].infos \subseteq UserInfos /\ Given[s].uptimes \subseteq Uptimes
        /\ Given[s].running \subseteq BOOLEAN
        /\ \A cmd \in Given[s].usercmds : cmd.sel \in 0 .. 255
        /\ \A t \in Given[s].tokens : t.size \in Int /\ t.length \in Nat

VARIABLES
    scene,     \* what this behaviour is about
    lib,       \* whether a real game library can be found
    wrapper,   \* whether dllEntry has been called: g_engine is set
    real,      \* whether LoadReal has adopted the library: g_real
    patches,   \* how often InstallPatches has run
    entry,     \* whether the game's own dllEntry has been called
    late,      \* history: the library turned up after dllEntry
    client,    \* what the engine knows of the client
    game,      \* history: what the game has been told of the client
    heard,     \* the calls the game has got in the engine's last one
    last       \* the command or system call that has just been judged

wrapVars == <<lib, wrapper, real, patches, entry, late>>
callVars == <<client, game, heard>>
vars == <<infoVars, dlVars, scene, wrapVars, callVars, last>>

Calls == {"frame", "connect", "begin", "command", "userinfo", "disconnect"}
Nobody == [call |-> "none"]

TypeOK ==
    /\ InfoTypeOK /\ DlTypeOK
    /\ scene \in Scenes
    /\ {lib, wrapper, real, entry, late} \subseteq BOOLEAN
    /\ patches \in 0 .. 1
    /\ client \in {"free", "connected", "active"}
    /\ game \in {"free", "connected", "active"}
    /\ heard \in Seq(Calls)
    /\ last.call \in {"none", "command", "usercmd", "token", "send", "configstring", "siege"}

(* A scene begins before the game is loaded, or when a client plays.       *)
Init ==
    /\ scene \in Scenes
    /\ InfoInit(Given[scene].infos)
    /\ DlInit /\ uptime \in Given[scene].uptimes /\ allowed \in Given[scene].cvars
    /\ \E on \in Given[scene].running :
          /\ wrapper = on /\ real = on /\ entry = on /\ patches = (IF on THEN 1 ELSE 0)
          /\ lib \in {TRUE, on}
          /\ client = (IF on THEN "active" ELSE "free") /\ game = client
    /\ late = FALSE /\ heard = <<>> /\ last = Nobody

Only(what) == Given[scene][what]

(* Bound: a scene that is about what is judged judges one thing. *)
Unjudged(what) == IF Only("protocol") \/ last.call = "none" THEN Only(what) ELSE {}

-----------------------------------------------------------------------------
(* Loading.                                                                *)
Finds == real \/ lib

LoadReal ==
    /\ real' = Finds
    /\ patches' = IF Finds /\ ~real THEN patches + 1 ELSE patches

(* Wrong: the library is looked for when the game is first called. *)
DllEntryLazy ==
    /\ Only("protocol") /\ ~wrapper
    /\ wrapper' = TRUE /\ entry' = real
    /\ UNCHANGED <<infoVars, dlVars, scene, lib, real, patches, late, callVars, last>>

DllEntry ==
    /\ Only("protocol") /\ ~wrapper
    /\ wrapper' = TRUE
    /\ LoadReal
    /\ entry' = Finds
    /\ UNCHANGED <<infoVars, dlVars, scene, lib, late, callVars, last>>

(* The admin puts a library where LoadReal looks. *)
LibAppears ==
    /\ ~lib
    /\ lib' = TRUE /\ late' = wrapper
    /\ UNCHANGED <<infoVars, dlVars, scene, wrapper, real, patches, entry, callVars, last>>

-----------------------------------------------------------------------------
(* The engine calls vmMain.  Without a library -1 comes back, and nothing  *)
(* else happens.                                                           *)
Knows(view, call) ==
    CASE call = "connect" -> "connected"
      [] call = "begin" -> "active"
      [] call = "disconnect" -> "free"
      [] OTHER -> view

After(calls) ==
    LET View[n \in 0 .. Len(calls)] ==
            IF n = 0 THEN game ELSE Knows(View[n - 1], calls[n])
    IN  View[Len(calls)]

VmMain(calls) ==
    /\ wrapper /\ Finds
    /\ LoadReal
    /\ heard' = calls /\ game' = After(calls)
    /\ UNCHANGED <<dlVars, scene, lib, wrapper, entry, late>>

Frame ==
    /\ Only("protocol")
    /\ VmMain(<<"frame">>)
    /\ last' = Nobody
    /\ UNCHANGED <<infoVars, client>>

Connect ==
    /\ Only("protocol") /\ client = "free" /\ rounds < MaxRounds
    /\ VmMain(<<"connect">>)
    /\ client' = "connected" /\ slot' = "changed" /\ last' = Nobody
    /\ UNCHANGED <<info, rounds>>

(* MAX_CLIENTS is 32.  A number that is no slot is kept from the game.     *)
IsSlot(n) == n \in 0 .. 31

Begin(n) ==
    /\ Only("protocol") /\ client = "connected"
    /\ VmMain(IF IsSlot(n) THEN <<"begin">> ELSE <<>>)
    /\ client' = (IF IsSlot(n) THEN "active" ELSE client) /\ last' = Nobody
    /\ UNCHANGED infoVars

Disconnect ==
    /\ Only("protocol") /\ client # "free"
    /\ VmMain(<<"disconnect">>)
    /\ client' = "free" /\ last' = Nobody
    /\ UNCHANGED infoVars

(* The game itself has a client dropped, from within a call. *)
GameDrops ==
    /\ Only("protocol") /\ client # "free"
    /\ VmMain(<<"frame", "disconnect">>)
    /\ client' = "free" /\ last' = Nobody
    /\ UNCHANGED infoVars

(* A client that is dropped is disconnected before G_DROP_CLIENT returns.  *)
UserinfoRefused ==
    /\ client # "free"
    /\ DropClient
    /\ VmMain(<<"disconnect">>)
    /\ client' = "free" /\ last' = Nobody

UserinfoChanged ==
    /\ client # "free"
    /\ Forward
    /\ VmMain(<<"userinfo">>)
    /\ last' = Nobody
    /\ UNCHANGED client

SendsAgain ==
    /\ client # "free"
    /\ Resend
    /\ heard' = <<>> /\ last' = Nobody
    /\ UNCHANGED <<dlVars, scene, wrapVars, client, game>>

Judged(line) == [call |-> "command", line |-> line, passed |-> ~ShouldBlockClientCommand(line)]

(* Wrong: the command of a client that has been dropped is passed on. *)
CheaterForwarded(line) ==
    /\ client # "free" /\ CheatCommand(line)
    /\ VmMain(<<"disconnect", "command">>)
    /\ client' = "free" /\ last' = Judged(line)
    /\ UNCHANGED infoVars

CheaterDropped(line) ==
    /\ client # "free" /\ CheatCommand(line)
    /\ VmMain(<<"disconnect">>)
    /\ client' = "free" /\ last' = Judged(line)
    /\ UNCHANGED infoVars

ClientCommand(line) ==
    /\ client # "free" /\ ~CheatCommand(line)
    /\ VmMain(IF Judged(line).passed THEN <<"command">> ELSE <<>>)
    /\ last' = Judged(line)
    /\ UNCHANGED <<infoVars, client>>

-----------------------------------------------------------------------------
(* The game calls Proxy_Syscall, or a function with a detour in it.  What  *)
(* comes in and what goes out is kept in last.                             *)
Filters(call, in, out) ==
    /\ wrapper /\ entry
    /\ last' = [call |-> call, in |-> in, out |-> out]
    /\ heard' = <<>>
    /\ UNCHANGED <<infoVars, dlVars, scene, wrapVars, client, game>>

(* FP_LEVITATION is 1, NUM_FORCE_POWERS is 19; 255 selects none.           *)
Selected(sel) == IF sel = 1 \/ sel >= 19 THEN 255 ELSE sel

GetUsercmd(cmd) == Filters("usercmd", cmd, [sel |-> Selected(cmd.sel), roll |-> 0])

(* The token that the engine has put into a buffer of some size; over      *)
(* means that it has left out the end.                                     *)
Least(a, b) == IF a < b THEN a ELSE b

(* Wrong: the end of the buffer is taken to be within it. *)
TokenCutLate(t) ==
    IF t.returned /\ t.size > 0 THEN Least(t.length, Least(t.size, 1023)) ELSE t.length

TokenCut(t) ==
    IF t.returned /\ t.size > 0 THEN Least(t.length, Least(t.size - 1, 1023)) ELSE t.length

GetEntityToken(t) == Filters("token", t, TokenCut(t))

SendServerCommand(length) == Filters("send", length, length <= 1022)

SetConfigstring(cs) ==
    Filters("configstring", cs, cs.index \in 0 .. 2048 /\ cs.length < 8192)

(* Detour_SiegeFind: NULL has length -1. *)
SiegeFind(length) == Filters("siege", length, length \in 0 .. 63)

-----------------------------------------------------------------------------
(* donedl never crosses vmMain: the game hears nothing of it. *)
EngineOwn ==
    /\ Only("donedl") /\ wrapper /\ real
    /\ DropDonedl \/ PassDonedl \/ Allow \/ Tick
    /\ heard' = <<>>
    /\ UNCHANGED <<infoVars, scene, wrapVars, client, game, last>>

Next ==
    \/ DllEntry \/ LibAppears
    \/ Frame \/ Connect \/ Disconnect \/ GameDrops
    \/ \E n \in {-1, 0, 31, 32} : Begin(n)
    \/ UserinfoRefused \/ UserinfoChanged \/ SendsAgain
    \/ \E line \in Unjudged("lines") : ClientCommand(line) \/ CheaterDropped(line)
    \/ \E cmd \in Unjudged("usercmds") : GetUsercmd(cmd)
    \/ \E t \in Unjudged("tokens") : GetEntityToken(t)
    \/ \E n \in Unjudged("lengths") : SendServerCommand(n) \/ SiegeFind(n)
    \/ \E cs \in Unjudged("configstrings") : SetConfigstring(cs)
    \/ EngineOwn

Spec == Init /\ [][Next]_vars

-----------------------------------------------------------------------------
(* "Policy: exec sinks (amvstr/ammap) get single sanitized tokens; [...]   *)
(* everything else denies newline/command-chaining with sane size caps",   *)
(* and the crash vectors: the game gets no command that the policy denies, *)
(* as far as the buffers show it, and every command that nobody could      *)
(* object to.                                                              *)
PolicyKept ==
    last.call = "command" =>
        /\ last.passed /\ SeenWhole(last.line) => Permitted(last.line)
        /\ Legitimate(last.line) => last.passed

(* The game hears of a client only between its connect and its disconnect, *)
(* also when the client is dropped in the middle of a call about it, and   *)
(* game and engine agree on who is there.                                  *)
NoGhost ==
    [][/\ \A k \in DOMAIN heard' :
             LET before == After(SubSeq(heard', 1, k - 1)) IN
             /\ heard'[k] \in {"begin", "command", "userinfo"} => before # "free"
             /\ heard'[k] = "connect" => before = "free"
       /\ game' = client']_vars

(* The game is patched once, before it is called, and its dllEntry, which  *)
(* hands it the engine's services, has been called by then: unless its     *)
(* library turned up after the wrapper's own dllEntry, when vmMain adopts  *)
(* it and nobody calls its dllEntry any more.                              *)
EntryFirst == heard # <<>> => patches = 1 /\ (entry \/ late)

(* "Policy is deliberately non-mutating for legit maps": what the game     *)
(* gets is acceptable, and it gets what was acceptable as it was; the same *)
(* for player input.                                                       *)
SafePowers == {0, 255} \cup (2 .. 18)

GameShielded ==
    /\ last.call = "usercmd" =>
          /\ last.out.sel \in SafePowers /\ last.out.roll = 0
          /\ last.in.sel \in SafePowers => last.out.sel = last.in.sel
    /\ last.call = "token" /\ last.in.returned /\ last.in.size > 0 =>
          /\ last.out < last.in.size /\ last.out <= 1023
          /\ last.in.length < last.in.size /\ last.in.length <= 1023 => last.out = last.in.length
=============================================================================
