------------------------------ MODULE MCDeploy ------------------------------
(* Small instances of Deploy for TLC. *)
EXTENDS Deploy

CONSTANTS i1, i2

One == {i1}
Two == {i1, i2}
=============================================================================
