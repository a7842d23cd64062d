----------------------------- MODULE MCBoundary -----------------------------
(* Small instances of Boundary for TLC. *)
EXTENDS Boundary

\* Characters: a letter, the ones that runs are made of, and a control.
NameChars == {"a", " ", "*", "@", "ctl"}
NoName == <<"a", "a">>
Sizes == [key \in {"model", "forcepowers"} |-> IF key = "model" THEN 1 ELSE 4]

Pair(key, val) == [key |-> key, val |-> val]

SomePairs ==
    {Pair("model", Plain(is, 1)) : is \in {"good", "bad", "cheat"}}
    \cup {Pair("forcepowers", Plain("good", 4)), Pair("forcepowers", Plain("bad", 1))}
    \cup {Pair(key, Plain(is, 2)) : key \in {"siegeclass", "saber1"}, is \in {"good", "bad"}}
    \cup {Pair("saber2", Plain("bad", 1)), Pair("other", Plain("good", 2))}
    \cup {Pair("name", Name(n)) : n \in {<<>>, <<"a">>, <<" ", "a">>}}

Tuples(S, n) == UNION {[1 .. m -> S] : m \in 0 .. n}

\* Any pairs that fit, and a name of any five characters.
Sent ==
    {i \in {[pairs |-> ps, tail |-> t] : ps \in Tuples(SomePairs, MaxPairs), t \in BOOLEAN} :
        Size(i) < MaxInfo}
    \cup {[pairs |-> <<Pair("name", Name(n))>>, tail |-> FALSE] :
             n \in Tuples(NameChars, 5)}
-----------------------------------------------------------------------------
(* Words of commands. *)
W(lit, size) == [lit |-> lit, size |-> size, of |-> "letters", at |-> 0, num |-> 0]
Spelled(lit) == W(lit, Letters[lit])
Bad(size, of, at) == [W("none", size) EXCEPT !.of = of, !.at = at]
Digits(n) == [W("none", 3) EXCEPT !.of = "digits", !.num = n]

\* Every literal, a letter short, and followed by another letter.
Near(lit) == {W(lit, Letters[lit] + d) : d \in {-1, 0, 1}}
Commands ==
    UNION {Near(lit) : lit \in DOMAIN Letters}
    \cup {W(lit, size) : lit \in {"amtele", "amtelemark"}, size \in {5, 6, 10}}
    \cup {W(lit, size) : lit \in {"amorigin", "amplayefx", "amweather", "ampoll"},
                        size \in {2, 6, 8, 9}}
    \cup {W("jkaDST_", 6), W("jkaDST_", 9), W("none", 4), W("none", 300)}

Arguments ==
    {Empty, W("none", 64), W("none", 65), W("none", 128), W("none", 129), W("none", 256),
     W("none", 257)}
    \cup {Bad(8, of, 4) : of \in Kinds} \cup {Bad(300, of, at) : of \in {"crlf", "chain"}, at \in {200, 280}}
    \cup {Digits(n) : n \in {-1, 0, 31, 32}}

Twos ==
    {<<x, y>> : x \in {Spelled("spawn"), W("none", 5)},
                y \in Near("ragnos") \cup Near("saber_droid")}
    \cup {<<x, Digits(n)>> : x \in UNION {Near(lit) : lit \in DOMAIN Limits},
                            n \in {-1, 0, 1, 2, 60, 61, 35790, 35791}}
    \cup {<<x>> : x \in Near("follow1") \cup Near("follow2")}
    \cup {<<x, y>> : x, y \in {W("none", 120), W("none", 255), Bad(8, "chain", 4),
                              Bad(8, "crlf", 8), Digits(1)}}
    \cup {<<W("none", 255), x, W("none", 3)>> : x \in {W("none", 252), W("none", 253)}}

AllLines ==
    {<<c>> : c \in Commands} \cup {<<c, a>> : c \in Commands, a \in Arguments}
    \cup {<<c>> \o args : c \in Commands, args \in Twos}

SomeLines ==
    {<<Spelled("say"), W("none", 5)>>, <<Spelled("say"), Bad(5, "crlf", 5)>>, <<W("jkaDST_", 9)>>}

-----------------------------------------------------------------------------
Silent ==
    [running |-> {TRUE}, protocol |-> FALSE, donedl |-> FALSE, uptimes |-> {3},
     cvars |-> {FALSE}, infos |-> {}, lines |-> {},
     usercmds |-> {}, tokens |-> {}, lengths |-> {}, configstrings |-> {}]

Info(pairs) == [pairs |-> pairs, tail |-> FALSE]
Good == Info(<<Pair("name", Name(<<"a">>))>>)
SomeInfos ==
    {Good, Info(<<>>), Info(<<Pair("model", Plain("cheat", 1))>>),
     Info(<<Pair("saber1", Plain("bad", 2))>>)}

Scene ==
    [userinfo |-> [Silent EXCEPT !.infos = Sent],
     calls    |-> [Silent EXCEPT !.infos = SomeInfos, !.running = {FALSE}, !.protocol = TRUE,
                                 !.lines = SomeLines],
     commands |-> [Silent EXCEPT !.infos = {Good}, !.lines = AllLines],
     syscalls |-> [Silent EXCEPT !.infos = {Good},
          !.usercmds = [sel : 0 .. 255, roll : {0, 1}],
          !.tokens = [size : {0, 1, 2, 1023, 1024, 1025, 2048}, returned : BOOLEAN,
                      length : {0, 1, 2, 1022, 1023, 1024, 1025, 2048}],
          !.lengths = {-1, 0, 63, 64, 1022, 1023},
          !.configstrings = [index : {-1, 0, 2048, 2049}, length : {0, 8191, 8192}]],
     donedl   |-> [Silent EXCEPT !.infos = {Good}, !.donedl = TRUE, !.uptimes = Uptimes,
                                 !.cvars = BOOLEAN]]
Names == DOMAIN Scene
=============================================================================
