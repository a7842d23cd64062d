----------------------------- MODULE RconClient -----------------------------
(***************************************************************************)
(* RCONClient of src/japm/japm.py: one UDP socket over which the plugins   *)
(* of the manager send commands to the server, and what may become of a    *)
(* command and its answer.  Commands and answers are numbered; 0 is None.  *)
(***************************************************************************)
EXTENDS Naturals, SequencesExt

CONSTANTS
    Packets,      \* in how many packets the server may answer
    MaxCommands   \* bound: commands sent

ASSUME RconClientAssumption == Packets \subseteq Nat /\ MaxCommands \in Nat

VARIABLES
    asked,    \* commands sent so far
    wire,     \* commands that the server has not dealt with
    inbox,    \* answers in the receive buffer of the socket
    waiting,  \* whether send is waiting in recv
    got,      \* what send has returned, call by call
    slipped   \* history: a command timed out or had a second packet of answer

rconVars == <<asked, wire, inbox, waiting, got, slipped>>

RconTypeOK ==
    /\ asked \in 0 .. MaxCommands
    /\ wire \in Seq(1 .. MaxCommands) /\ inbox \in Seq(1 .. MaxCommands)
    /\ waiting \in BOOLEAN
    /\ got \in Seq(0 .. MaxCommands)
    /\ slipped \in BOOLEAN

RconInit ==
    /\ asked = 0 /\ wire = <<>> /\ inbox = <<>>
    /\ waiting = FALSE /\ got = <<>> /\ slipped = FALSE

-----------------------------------------------------------------------------
(* send: the command goes out; older answers are not looked for. *)
Ask ==
    /\ asked < MaxCommands
    /\ asked' = asked + 1
    /\ wire' = Append(wire, asked + 1)
    /\ waiting' = TRUE
    /\ UNCHANGED <<inbox, got, slipped>>

(* Wrong: the answer stays in the buffer. *)
Peek ==
    /\ waiting /\ inbox # <<>>
    /\ got' = Append(got, Head(inbox))
    /\ waiting' = FALSE
    /\ UNCHANGED <<asked, wire, inbox, slipped>>

(* recv returns the oldest answer there is. *)
Receive ==
    /\ waiting /\ inbox # <<>>
    /\ got' = Append(got, Head(inbox))
    /\ inbox' = Tail(inbox)
    /\ waiting' = FALSE
    /\ UNCHANGED <<asked, wire, slipped>>

(* Wrong: the socket has no timeout. *)
WaitForever == FALSE /\ UNCHANGED rconVars

(* Four seconds without an answer. *)
TimeOut ==
    /\ waiting /\ inbox = <<>>
    /\ got' = Append(got, 0)
    /\ waiting' = FALSE
    /\ slipped' = TRUE
    /\ UNCHANGED <<asked, wire, inbox>>

(* The server deals with commands in order and answers in order: the       *)
(* loopback device does not reorder packets.                               *)
Answer ==
    /\ wire # <<>>
    /\ \E n \in Packets :
          /\ inbox' = inbox \o [k \in 1 .. n |-> Head(wire)]
          /\ slipped' = (slipped \/ n > 1)
    /\ wire' = Tail(wire)
    /\ UNCHANGED <<asked, waiting, got>>

(* A server that is down, or busy, answers nothing. *)
Lose ==
    /\ wire # <<>>
    /\ wire' = Tail(wire)
    /\ UNCHANGED <<asked, inbox, waiting, got, slipped>>

Serve == Answer \/ Lose

-----------------------------------------------------------------------------
(* Nothing drains the socket before a command goes out, so one late answer *)
(* shifts all that come after it.  Until a command has timed out, or been  *)
(* answered twice, every answer is that of its own command.                *)
InStep == ~slipped => \A k \in DOMAIN got : got[k] = k
=============================================================================
