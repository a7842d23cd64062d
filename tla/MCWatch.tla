------------------------------ MODULE MCWatch ------------------------------
(* Small instances of Watch for TLC. *)
EXTENDS Watch

Quiet == [fg |-> FALSE, screen |-> FALSE, prints |-> {<<>>}, lines |-> 0,
          kinds |-> {"chat", "leave"}, commands |-> 0, deaths |-> 0, crashes |-> 0,
          stops |-> FALSE]
Printing == {<<>>, <<"hooked">>, <<"skipped", "hooked">>}

(* Each manager meets a part of what may happen, the parts overlapping: a  *)
(* busy log, a slow server, dying plugins, a crashing engine.              *)
Scenes ==
    {[Quiet EXCEPT !.lines = 3],
     [Quiet EXCEPT !.lines = 2, !.kinds = Kinds],
     [Quiet EXCEPT !.lines = 2, !.crashes = 1, !.commands = 1, !.screen = TRUE],
     [Quiet EXCEPT !.lines = 1, !.commands = 3],
     [Quiet EXCEPT !.deaths = 2, !.crashes = 1, !.stops = TRUE],
     [Quiet EXCEPT !.deaths = 2, !.stops = TRUE, !.fg = TRUE, !.commands = 1],
     [Quiet EXCEPT !.deaths = 1, !.crashes = 1, !.stops = TRUE, !.screen = TRUE],
     [Quiet EXCEPT !.prints = Printing, !.crashes = 1, !.commands = 1]}

(* A daemon, of which a plugin dies twice; and nothing else happens. *)
Deaths == {[Quiet EXCEPT !.deaths = 2]}
=============================================================================
