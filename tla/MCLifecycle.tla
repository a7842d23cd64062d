---------------------------- MODULE MCLifecycle ----------------------------
(* Small instances of Lifecycle for TLC. *)
EXTENDS Lifecycle

OneByOne == [screen |-> FALSE, scheduled |-> TRUE,
             gives |-> {"start", "stop", "restart"}, commands |-> 3,
             sequential |-> TRUE, crashes |-> 1, processes |-> 12]

(* Commands and scheduled restarts one after another, with and without     *)
(* screen sessions; and restarts that overlap, in screen sessions, the     *)
(* first of which finds nothing to stop.                                   *)
Scenes == {OneByOne, [OneByOne EXCEPT !.screen = TRUE],
           [OneByOne EXCEPT !.screen = TRUE, !.scheduled = FALSE, !.gives = {"restart"},
                            !.commands = 3, !.sequential = FALSE, !.crashes = 0,
                            !.processes = 9]}

(* A crash in a screen session. *)
ScreenCrash == {[OneByOne EXCEPT !.screen = TRUE, !.scheduled = FALSE, !.commands = 1]}
=============================================================================
