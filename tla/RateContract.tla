---------------------------- MODULE RateContract ----------------------------
(***************************************************************************)
(* What a per-address throttle promises, with no bucket, table or wrapping *)
(* clock: virtual scheduling.  It remembers some addresses; due[a] is the  *)
(* instant at which address a has paid off its past attempts, one Period   *)
(* each.  An attempt passes iff the debt it finds is at most               *)
(* Burst - 1 periods, and then costs exactly one more.  The debt of an     *)
(* address that has been idle is written off up to the granularity of one  *)
(* Period.  The only thing the throttle may forget is the debt of one      *)
(* address, and only to make room for a new one.                           *)
(***************************************************************************)
EXTENDS Integers

CONSTANTS Addrs,     \* the addresses that make attempts
          Exempted,  \* the ones among them that are never throttled
          NoAddr,    \* not an address
          Burst, Period

VARIABLES now,      \* milliseconds
          due,      \* function from the remembered addresses to instants
          verdict   \* the attempt handled last: its address, and its fate

vars == <<now, due, verdict>>

Known == DOMAIN due

Later(x, y) == IF x < y THEN y ELSE x

(* The instants from which an attempt may be charged. *)
Charged(a) ==
    IF a \in Known
    THEN Later(due[a], now - Period + 1) .. Later(due[a], now)
    ELSE (now - Period + 1) .. now

InDebt(a) == a \in Known /\ due[a] > now + (Burst - 1) * Period

Init == /\ now \in Nat
        /\ due = [a \in {} |-> 0]
        /\ verdict = [addr |-> NoAddr, passed |-> TRUE]

Tick == /\ now' \in Nat /\ now' > now
        /\ UNCHANGED <<due, verdict>>

(* A remembered address displaces nobody; a new one may displace another. *)
Kept(a) == {Known} \cup IF a \in Known THEN {} ELSE {Known \ {b} : b \in Known}

Admit(a) ==
    /\ ~InDebt(a)
    /\ \E kept \in Kept(a), from \in Charged(a) :
           due' = [x \in kept \cup {a} |->
                        IF x = a THEN from + Period ELSE due[x]]
    /\ verdict' = [addr |-> a, passed |-> TRUE]
    /\ UNCHANGED now

Drop(a) ==
    /\ InDebt(a)
    /\ verdict' = [addr |-> a, passed |-> FALSE]
    /\ UNCHANGED <<now, due>>

Exempt(a) ==
    /\ verdict' = [addr |-> a, passed |-> TRUE]
    /\ UNCHANGED <<now, due>>

Next == \/ Tick
        \/ \E a \in Addrs \ Exempted : Admit(a) \/ Drop(a)
        \/ \E a \in Exempted : Exempt(a)

Spec == Init /\ [][Next]_vars
=============================================================================
