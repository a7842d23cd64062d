---------------------------- MODULE MCRconGuard ----------------------------
(* Small instances of RconGuard for TLC. *)
EXTENDS RconGuard, TLC

CONSTANTS a1, a2, a3

ThreeAddrs == {a1, a2, a3}

Symmetry == Permutations(Addrs)
=============================================================================
