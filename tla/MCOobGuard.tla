----------------------------- MODULE MCOobGuard -----------------------------
(* Small instances of OobGuard for TLC. *)
EXTENDS OobGuard

CONSTANTS a1, a2

TwoAddrs == {a1, a2}
WatchBoth == {a1, All}

\* An absent cvar, and one that asks for too much.
LiveCvars == {0, 9}
=============================================================================
