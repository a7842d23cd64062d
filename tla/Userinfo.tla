------------------------------ MODULE Userinfo ------------------------------
(***************************************************************************)
(* What src/proxy/proxy.c does to the userinfo of a client, the string of  *)
(* \key\value pairs that the engine keeps for its slot: vmMain on          *)
(* GAME_CLIENT_USERINFO_CHANGED, SanitizeUserinfo and its helpers.         *)
(*                                                                         *)
(* A string is its pairs, and whether something that is not a pair comes   *)
(* after them.  A value is good or bad for its key, except that of name,   *)
(* which is its text; a model may also be "cheat", what StrCaseEq(val,     *)
(* "darksidetools", 12) matches: twelve characters and an end.  Keys stand *)
(* for themselves in upper and lower case.                                 *)
(***************************************************************************)
EXTENDS Lists, SequencesExt

CONSTANTS
    UserInfos,    \* what a client may send: a set of userinfos
    Chars,        \* characters of names: a blank, "*", "@", "ctl" and others
    Padawan,      \* the name of those who have none left
    MaxName,      \* 63, the characters of a name
    MaxInfo,      \* MAX_INFO_STRING, 1024: the engine keeps a character less
    Buffer,       \* 2048, the size of vmMain's buffer
    PairSize,     \* what a key and the two backslashes take
    DefaultSize,  \* the size of the default model and of the default powers
    MaxPairs,     \* bound: the pairs that a client sends
    MaxRounds     \* bound: how often a slot's userinfo is handled

(* What is skipped in front of a name, and what must not make a run of     *)
(* three in it.                                                            *)
Blanks == {" ", "*"}
Runs == {" ", "@"}

Checked == {"model", "forcepowers", "name", "siegeclass", "saber1", "saber2"}
Keys == Checked \cup {"other"}

Name(text) == [is |-> "text", text |-> text, size |-> Len(text)]
Plain(is, size) == [is |-> is, text |-> <<>>, size |-> size]
Nothing == Plain("good", 0)

IsValue(key, v) ==
    /\ key = "name" => v = Name(v.text)
    /\ key # "name" => v.is \in {"good", "bad", "cheat"} /\ v.text = <<>>
    /\ v.is = "cheat" => key = "model"

Values == [is : {"text", "good", "bad", "cheat"}, text : Seq(Chars), size : Nat]
Pairs(keys) == [key : keys, val : Values]

PairsSize(pairs) ==
    LET Upto[n \in 0 .. Len(pairs)] ==
            IF n = 0 THEN 0 ELSE Upto[n - 1] + PairSize + pairs[n].val.size
    IN  Upto[Len(pairs)]

Size(i) == PairsSize(i.pairs) + IF i.tail THEN 1 ELSE 0

IsInfo(i) ==
    /\ i.tail \in BOOLEAN /\ i.pairs \in Seq(Pairs(Keys))
    /\ \A k \in DOMAIN i.pairs : IsValue(i.pairs[k].key, i.pairs[k].val)

ASSUME UserinfoAssumption ==
    /\ {MaxName, PairSize, MaxInfo, Buffer, MaxPairs, MaxRounds} \subseteq Nat \ {0}
    /\ Padawan \in Seq(Chars) \ {<<>>} /\ Len(Padawan) <= MaxName
    /\ \A i \in DOMAIN Padawan : Padawan[i] \notin Blanks \cup Runs \cup {"ctl"}
    /\ DefaultSize \in [{"model", "forcepowers"} -> Nat \ {0}]
    /\ \A i \in UserInfos :
          IsInfo(i) /\ Size(i) < MaxInfo /\ Len(i.pairs) <= MaxPairs
    \* Room for every pair, and for the values that SanitizeUserinfo adds.
    /\ Buffer > MaxInfo + 3 * PairSize + MaxName
                  + DefaultSize["model"] + DefaultSize["forcepowers"]

VARIABLES
    info,    \* the userinfo that the engine keeps for the slot
    slot,    \* changed: vmMain is about to be called; told: the game has been
    rounds   \* how often vmMain has been called

infoVars == <<info, slot, rounds>>

(* Replacing a value never adds a pair. *)
InfoTypeOK ==
    /\ IsInfo(info) /\ Len(info.pairs) <= MaxPairs
    /\ slot \in {"changed", "told", "dropped"}
    /\ rounds \in 0 .. MaxRounds

InfoInit(infos) == info \in infos /\ slot = "changed" /\ rounds = 0

-----------------------------------------------------------------------------
(* Info_Value: the first pair counts. *)
First(i, key) == SelectInSeq(i.pairs, LAMBDA p : p.key = key)
Has(i, key) == First(i, key) # 0
Info_Value(i, key) == i.pairs[First(i, key)].val

(* Wrong: the buffer is taken to be as small as what comes in. *)
AppendedSmall(pairs, key, v) ==
    IF v.size > 0 /\ PairsSize(pairs) + PairSize + v.size < MaxInfo - 1
    THEN Append(pairs, [key |-> key, val |-> v]) ELSE pairs

(* A new pair goes to the end if the buffer holds it; an empty value needs *)
(* no pair.                                                                *)
Appended(pairs, key, v) ==
    IF v.size > 0 /\ PairsSize(pairs) + PairSize + v.size < Buffer - 1
    THEN Append(pairs, [key |-> key, val |-> v]) ELSE pairs

(* Wrong: the old pairs stay, in front of the new one. *)
Info_SetAppends(i, key, v) == [pairs |-> Appended(i.pairs, key, v), tail |-> FALSE]

(* Wrong: only the first pair of the key goes. *)
Info_SetFirst(i, key, v) ==
    [pairs |-> Appended(RemoveAt(i.pairs, First(i, key)), key, v), tail |-> FALSE]

(* Wrong: copying ends at the pair that is replaced. *)
Info_SetStops(i, key, v) ==
    [pairs |-> Appended(SubSeq(i.pairs, 1, First(i, key) - 1), key, v), tail |-> FALSE]

(* Every pair of the key goes, and so does what is not a pair. *)
Info_Set(i, key, v) ==
    [pairs |-> Appended(Filter(i.pairs, Pairs(Keys \ {key})), key, v), tail |-> FALSE]

(* Wrong: one of the blanks and stars at the beginning goes, not all. *)
SkippedOne(text) ==
    IF text # <<>> /\ text[1] \in Blanks THEN {1} ELSE {}

(* Blanks and stars at the beginning. *)
Skipped(text) == {i \in DOMAIN text : \A j \in 1 .. i : text[j] \in Blanks}

(* Three in a row of the same kind: the first is dropped. *)
Triple(text, i) ==
    /\ i + 2 <= Len(text)
    /\ \E c \in Runs : \A j \in i .. (i + 2) : text[j] = c

CleanName(text) ==
    LET kept == {i \in DOMAIN text \ Skipped(text) : text[i] # "ctl" /\ ~Triple(text, i)}
        order == Filter([i \in DOMAIN text |-> i], kept)
        out == [k \in DOMAIN order |-> text[order[k]]]
    IN  IF out = <<>> THEN Padawan
        ELSE SubSeq(out, 1, IF Len(out) < MaxName THEN Len(out) ELSE MaxName)

-----------------------------------------------------------------------------
(* SanitizeUserinfo. *)
Dirty(key, v) ==
    IF key = "name" THEN CleanName(v.text) # v.text ELSE v.is = "bad"

(* siegeclass and the sabers are left to the game's own defaults. *)
Replacement(key, v) ==
    CASE key = "name" -> Name(CleanName(v.text))
      [] key \in DOMAIN DefaultSize -> Plain("good", DefaultSize[key])
      [] OTHER -> Nothing

IsDirty(i, key) == Has(i, key) /\ Dirty(key, Info_Value(i, key))

Sanitize(i, key) ==
    IF IsDirty(i, key)
    THEN Info_Set(i, key, Replacement(key, Info_Value(i, key))) ELSE i

(* One key after the other. *)
SanitizeUserinfo(i) ==
    LET model == Sanitize(i, "model")
        powers == Sanitize(model, "forcepowers")
        name == Sanitize(powers, "name")
        class == Sanitize(name, "siegeclass")
        saber1 == Sanitize(class, "saber1")
    IN  Sanitize(saber1, "saber2")

(* G_SET_USERINFO: the engine keeps what comes before MAX_INFO_STRING.     *)
(* Only a pair that has been appended is cut: the powers, all of whose     *)
(* characters count, are bad then; a shorter model is a name like any      *)
(* other.                                                                  *)
CutValue(key, v, n) ==
    CASE key = "name" -> Name(SubSeq(v.text, 1, n))
      [] key = "forcepowers" -> Plain("bad", n)
      [] OTHER -> Plain(v.is, n)

CutPair(p, n) == [key |-> p.key, val |-> CutValue(p.key, p.val, n)]

(* How many pairs are kept as they are. *)
Fitting(pairs) == Max({n \in 0 .. Len(pairs) : PairsSize(SubSeq(pairs, 1, n)) < MaxInfo})

Stored(i) ==
    LET n == Fitting(i.pairs)
        kept == SubSeq(i.pairs, 1, n)
        room == MaxInfo - 1 - PairsSize(kept)
    IN  IF Size(i) < MaxInfo THEN i
        ELSE IF room < PairSize THEN [pairs |-> kept, tail |-> room > 0]
        ELSE [pairs |-> Append(kept, CutPair(i.pairs[n + 1], room - PairSize)),
              tail |-> FALSE]

Cheats == Has(info, "model") /\ Info_Value(info, "model").is = "cheat"

UserinfoLooksEvil == Size(info) = 0 \/ Size(info) >= MaxInfo

(* vmMain refuses: the engine is asked to drop the client. *)
DropClient ==
    /\ slot = "changed"
    /\ UserinfoLooksEvil \/ Cheats
    /\ slot' = "dropped" /\ rounds' = rounds + 1
    /\ UNCHANGED info

(* vmMain writes back what it has changed and calls the game.              *)
Forward ==
    /\ slot = "changed"
    /\ ~UserinfoLooksEvil /\ ~Cheats
    /\ info' = IF \E key \in Checked : IsDirty(info, key)
               THEN Stored(SanitizeUserinfo(info)) ELSE info
    /\ slot' = "told" /\ rounds' = rounds + 1

(* The client sends the string that it has been given. *)
Resend ==
    /\ slot = "told" /\ Size(info) < MaxInfo /\ rounds < MaxRounds
    /\ slot' = "changed"
    /\ UNCHANGED <<info, rounds>>

-----------------------------------------------------------------------------
(* The game, which also reads the first pair of a key, finds no value that *)
(* SanitizeUserinfo would refuse: also when a key occurs twice, and when   *)
(* another key's value has been replaced in front of it.  "Strips controls *)
(* [...], never returns empty" is said of CleanName.  The exception is the *)
(* last pair of a userinfo that fills what the engine keeps of one: it may *)
(* have been cut (see AppendedFits).                                       *)
Acceptable(key, v) ==
    IF key = "name"
    THEN /\ Len(v.text) \in 1 .. MaxName
         /\ \A i \in DOMAIN v.text : v.text[i] # "ctl"
    ELSE v.is = "good"

MayBeCut(i, key) == Size(i) = MaxInfo - 1 /\ First(i, key) = Len(i.pairs)

GameAccepts ==
    slot = "told" =>
        \A key \in Checked :
           Has(info, key) => Acceptable(key, Info_Value(info, key)) \/ MayBeCut(info, key)

(* README: sanitizing "rewrites only dirty keys so legit                   *)
(* names/models/sabers pass through untouched".  All pairs of other keys   *)
(* are still there, in the same order, however much longer the             *)
(* replacements are; and a client that came with a model, powers or a name *)
(* keeps one, if the engine keeps all that the wrapper has written.        *)
LegitUntouched ==
    [][slot = "changed" /\ slot' = "told" =>
         LET dirty == {key \in Checked : IsDirty(info, key)}
             Others(i) == Filter(i.pairs, Pairs(Keys \ dirty))
         IN  /\ Others(info') = Others(info)
             /\ dirty = {} => info' = info
             /\ Size(SanitizeUserinfo(info)) < MaxInfo =>
                   \A key \in {"model", "forcepowers", "name"} :
                      Has(info, key) => Has(info', key)]_infoVars

(* The wrapper does not argue with its own output: what it has written is  *)
(* clean when it comes back, but for the name, which takes a second round  *)
(* (a control character hides a run of blanks from the first one), and for *)
(* powers that the engine has cut, which are written, and cut, again.      *)
Settles ==
    [][slot = "changed" /\ slot' = "told" =>
         LET Unnamed(i) == Filter(i.pairs, Pairs(Keys \ {"name"}))
         IN  /\ rounds >= 1 => Unnamed(info') = Unnamed(info)
             /\ rounds >= 2 => info' = info]_infoVars

(* "Append new pair if it fits (MAX_INFO_STRING)": what is written back    *)
(* fits what the engine keeps of a userinfo.                               *)
AppendedFits ==
    [][slot = "changed" /\ slot' = "told" =>
         Size(SanitizeUserinfo(info)) < MaxInfo]_infoVars
=============================================================================
