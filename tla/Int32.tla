------------------------------- MODULE Int32 -------------------------------
(***************************************************************************)
(* C's int on i386: the integers -Half .. Half-1, Half being 2^31 in the   *)
(* program.  The build subtracts and adds with plain sub and add and       *)
(* branches on the sign of the result, so int arithmetic wraps.            *)
(***************************************************************************)
EXTENDS Integers

CONSTANT Half        \* half the number of values of an int

ASSUME HalfAssumption == Half \in Nat \ {0}

CInt == (-Half) .. (Half - 1)

(* The int that holds the low bits of x. *)
Wrap(x) == ((x + Half) % (2 * Half)) - Half
=============================================================================
