------------------------------- MODULE Lists -------------------------------
(* What is left of a sequence, written so that it can be reasoned about.   *)
EXTENDS Integers, Sequences

(* The elements of s that are in T, in their order.                        *)
Filter(s, T) ==
    LET Upto[n \in 0 .. Len(s)] ==
            IF n = 0 THEN <<>>
            ELSE IF s[n] \in T THEN Append(Upto[n - 1], s[n]) ELSE Upto[n - 1]
    IN  Upto[Len(s)]
=============================================================================
