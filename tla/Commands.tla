------------------------------ MODULE Commands ------------------------------
(***************************************************************************)
(* Which client commands src/proxy/proxy.c keeps from the game:            *)
(* ShouldBlockClientCommand, JAPlusBlock, VanillaBlock and the tests of    *)
(* characters they use.                                                    *)
(*                                                                         *)
(* A line is a sequence of words, the command first.  A word has a size,   *)
(* the literal whose letters it begins with (as many of them as its size   *)
(* takes), the worst of its characters and where that is, and the value    *)
(* atoi finds in it.  Letters and digits are harmless; "path" is a slash,  *)
(* "up" is ../, "updir" a word that is just .., "chain" is ;, "crlf" is a  *)
(* line break, "other" is any other character.                             *)
(***************************************************************************)
EXTENDS Integers, Sequences

CONSTANT SlotCount   \* sv_maxclients

Kinds == {"letters", "digits", "path", "up", "updir", "chain", "crlf", "other"}

JAPlus == {"amsay", "ampsay", "amvstr", "ammap", "amlogin", "amrename", "amtele",
           "amtelemark", "amorigin", "amplayefx", "amweather", "ampoll"}

Literals ==
    JAPlus \cup
        {"none", "jkaDST_", "gc", "npc", "spawn", "ragnos", "saber_droid",
         "team", "follow1", "follow2", "callteamvote", "callvote", "capturelimit",
         "fraglimit", "g_doWarmup", "map_restart", "timelimit", "say", "say_team", "tell"}

Words ==
    {w \in [lit : Literals, size : Nat, of : Kinds, at : Nat, num : Int] : w.at <= w.size}

IsLine(line) == line \in Seq(Words) /\ line # <<>>

Empty == [lit |-> "none", size |-> 0, of |-> "letters", at |-> 0, num |-> 0]

(* The literals that the letters of lit begin with. *)
Stems(lit) ==
    {lit} \cup (IF lit \in JAPlus THEN {"am"} ELSE {})
          \cup (IF lit = "amtelemark" THEN {"amtele"} ELSE {})
          \cup (IF lit = "say_team" THEN {"say"} ELSE {})

StrCasePrefix(w, lit, n) == lit \in Stems(w.lit) /\ w.size >= n

(* Wrong: a prefix will do. *)
StrCaseEqPrefix(w, lit, n) == StrCasePrefix(w, lit, n)

(* n is given by hand, and need not be the length of the literal. *)
StrCaseEq(w, lit, n) == lit \in Stems(w.lit) /\ w.size = n

(* Engine_Argv into a buffer of n + 1 bytes. *)
Cut(w, n) ==
    IF w.size <= n THEN w
    ELSE [w EXCEPT !.size = n,
                   !.of = IF w.at > n THEN "letters" ELSE @,
                   !.at = IF w.at > n THEN 0 ELSE @]

Argv(line, i, n) == IF i < Len(line) THEN Cut(line[i + 1], n) ELSE Empty

(* The buffer for all arguments is as large as a command may be. *)
Args(line) == [i \in 1 .. (Len(line) - 1) |-> Cut(line[i + 1], 255)]

(* With a blank between two words. *)
Length(words) ==
    LET Upto[n \in 0 .. Len(words)] ==
            IF n = 0 THEN 0
            ELSE Upto[n - 1] + words[n].size + (IF n = 1 THEN 0 ELSE 1)
    IN  Upto[Len(words)]

HasCRLF(words) == \E i \in DOMAIN words : words[i].of = "crlf"
HasChaining(words) == \E i \in DOMAIN words : words[i].of = "chain"

IsTokenChars(w) == w.of \in {"letters", "digits"}
IsMapChars(w) == w.of \in {"letters", "digits", "path"}
IsPathChars(w) == w.of \in {"letters", "digits", "path", "updir"}
IsNumberChars(words) == \A i \in DOMAIN words : words[i].size = 0 \/ words[i].of = "digits"

-----------------------------------------------------------------------------
JAPlusBlock(line) ==
    LET args == Args(line)
        arg1 == Argv(line, 1, 127)
        Am(lit, n) == StrCasePrefix(Argv(line, 0, 127), lit, n)
        OneWord == Len(line) = 2 /\ arg1.size \in 1 .. 64
    IN  CASE Am("amsay", 5) \/ Am("ampsay", 6) -> HasCRLF(args) \/ Length(args) > 256
          [] Am("amvstr", 6) -> ~(OneWord /\ IsTokenChars(arg1))
          [] Am("ammap", 5) -> ~(OneWord /\ IsMapChars(arg1))
          [] Am("amlogin", 7) -> HasCRLF(args) \/ Length(args) > 128
          [] Am("amrename", 8) ->
                \/ arg1.size \notin 1 .. 64
                \/ HasCRLF(<<arg1>>) \/ HasChaining(<<arg1>>)
          [] Am("amtele", 6) \/ Am("amtelemark", 10) \/ Am("amorigin", 8) ->
                \/ HasCRLF(args) \/ HasChaining(args) \/ Length(args) > 512
                \/ ~IsNumberChars(args)
          [] Am("amplayefx", 9) \/ Am("amweather", 9) ->
                \/ HasCRLF(args) \/ HasChaining(args) \/ Length(args) > 512
                \/ arg1.size = 0 \/ ~IsPathChars(arg1)
          [] Am("ampoll", 6) -> HasCRLF(args) \/ HasChaining(args) \/ Length(args) > 256
          [] OTHER -> HasCRLF(args) \/ HasChaining(args) \/ Length(args) > 512

(* What the client is dropped for. *)
CheatCommand(line) ==
    /\ ~StrCasePrefix(Argv(line, 0, 127), "am", 2)
    /\ StrCasePrefix(Argv(line, 0, 127), "jkaDST_", 7)

Callvote(what, value) ==
    LET Is(lit, n) == StrCaseEq(what, lit, n) IN
    CASE Is("capturelimit", 12) \/ Is("fraglimit", 9) -> value < 0
      [] Is("g_doWarmup", 10) -> value \notin 0 .. 1
      [] Is("map_restart", 11) -> value \notin 0 .. 60
      [] Is("timelimit", 9) -> value \notin 0 .. 35790
      [] OTHER -> FALSE

VanillaBlock(line) ==
    LET args == Args(line)
        arg1 == Argv(line, 1, 127)
        Is(lit, n) == StrCaseEq(Argv(line, 0, 127), lit, n)
    IN  \/ CheatCommand(line)
        \/ Is("gc", 2) /\ arg1.num \notin 0 .. (SlotCount - 1)
        \/ /\ Is("npc", 3) /\ StrCaseEq(arg1, "spawn", 5)
           /\ \/ StrCaseEq(Argv(line, 2, 127), "ragnos", 6)
              \/ StrCaseEq(Argv(line, 2, 127), "saber_droid", 10)
        \/ Is("team", 4) /\ (StrCaseEq(arg1, "follow1", 7) \/ StrCaseEq(arg1, "follow2", 7))
        \/ Is("callteamvote", 12)
        \/ Is("callvote", 8) /\ Callvote(arg1, Argv(line, 2, 255).num)
        \/ HasCRLF(args)
        \/ IF Is("say", 3) \/ Is("say_team", 8) \/ Is("tell", 4)
           THEN Length(args) > 256
           ELSE HasChaining(args)

ShouldBlockClientCommand(line) ==
    IF StrCasePrefix(Argv(line, 0, 127), "am", 2) THEN JAPlusBlock(line) ELSE VanillaBlock(line)

-----------------------------------------------------------------------------
(* The policy that the comments set out, on the words as the client sent   *)
(* them: "exec sinks (amvstr/ammap) get single sanitized tokens; passwords *)
(* are compared-never-executed (newlines out only); chat-class allows ';'  *)
(* but never CR/LF; everything else denies newline/command-chaining with   *)
(* sane size caps", and the crash vectors named in VanillaBlock.           *)
Letters ==
    [gc |-> 2, npc |-> 3, say |-> 3, team |-> 4, tell |-> 4, amsay |-> 5, ammap |-> 5,
     spawn |-> 5, amvstr |-> 6, ampsay |-> 6, ragnos |-> 6, amlogin |-> 7, follow1 |-> 7,
     follow2 |-> 7, say_team |-> 8, amrename |-> 8, callvote |-> 8, timelimit |-> 9,
     fraglimit |-> 9, g_doWarmup |-> 10, map_restart |-> 11, saber_droid |-> 11,
     callteamvote |-> 12, capturelimit |-> 12]

Whole(w, lit) == lit \in Stems(w.lit) /\ w.size = Letters[lit]
Starts(w, lit) == lit \in Stems(w.lit) /\ w.size >= Letters[lit]
Among(w, lits) == \E lit \in lits : Whole(w, lit)

Rest(line) == Tail(line)
Word(line, i) == IF i < Len(line) THEN line[i + 1] ELSE Empty

ExecSink(line) == Starts(line[1], "amvstr") \/ Starts(line[1], "ammap")
Password(line) == Starts(line[1], "amlogin")
Chat(line) ==
    \/ Starts(line[1], "amsay") \/ Starts(line[1], "ampsay")
    \/ Among(line[1], {"say", "say_team", "tell"})

Limits ==
    [capturelimit |-> Nat, fraglimit |-> Nat, g_doWarmup |-> 0 .. 1,
     map_restart |-> 0 .. 60, timelimit |-> 0 .. 35790]

CrashesGame(line, creatures) ==
    LET cmd == line[1]
        arg1 == Word(line, 1)
        arg2 == Word(line, 2)
    IN  \/ Whole(cmd, "gc") /\ arg1.num \notin 0 .. (SlotCount - 1)
        \/ Whole(cmd, "npc") /\ Whole(arg1, "spawn") /\ Among(arg2, creatures)
        \/ Whole(cmd, "team") /\ Among(arg1, {"follow1", "follow2"})
        \/ Whole(cmd, "callteamvote")
        \/ /\ Whole(cmd, "callvote")
           /\ \E lit \in DOMAIN Limits : Whole(arg1, lit) /\ arg2.num \notin Limits[lit]

Sanitized(w) == w.size \in 1 .. 64 /\ w.of \in {"letters", "digits", "path"}

Cap(line) ==
    CASE Chat(line) -> 256
      [] Password(line) -> 128
      [] OTHER -> IF "am" \in Stems(line[1].lit) /\ line[1].size >= 2 THEN 512 ELSE 1023

Permitted(line) ==
    /\ ~HasCRLF(Rest(line))
    /\ Length(Rest(line)) <= Cap(line)
    /\ ExecSink(line) => Len(line) = 2 /\ Sanitized(line[2])
    /\ HasChaining(Rest(line)) => Password(line) \/ Chat(line)
    /\ ~CrashesGame(line, {"ragnos"})

(* What the buffers hold: a word of over 255 characters is seen in part.   *)
(* Of amrename only the name is looked at.                                 *)
SeenWhole(line) ==
    /\ \A i \in DOMAIN line : line[i].size <= 255
    /\ ~Starts(line[1], "amrename")

(* What nobody could object to.  The droid is refused by all but its last  *)
(* letter, and is left out.                                                *)
Legitimate(line) ==
    /\ \A i \in DOMAIN line : line[i].size \in 1 .. 64 /\ line[i].of \in {"letters", "digits"}
    /\ Length(Rest(line)) <= 128
    /\ Permitted(line) /\ ~CheatCommand(line)
    /\ \A i \in DOMAIN line : line[i].lit # "saber_droid"
    /\ "am" \in Stems(line[1].lit) => Len(line) = 2 /\ IsNumberChars(Rest(line))
=============================================================================
