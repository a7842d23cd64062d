------------------------------ MODULE LogTail ------------------------------
(***************************************************************************)
(* LogWatcher of src/japm/japm.py, which follows the game's log while the  *)
(* engine writes it.  The log is a sequence of cells: a whole line, or the *)
(* head or the tail of one whose two halves were flushed separately; the   *)
(* newline is in the tail.                                                 *)
(*                                                                         *)
(* Kinds: a chat or kill line is recognised by its end; a line about a     *)
(* client that is connecting, or leaving or beginning, by how it starts;   *)
(* a bare one (ShutdownGame, Exit, InitGame) needs no more than its start. *)
(***************************************************************************)
EXTENDS Lists, SequencesExt

CONSTANTS
    Kinds,      \* of chat, connect, leave, bare and other
    MaxLines    \* bound: lines written

ASSUME LogAssumption == MaxLines \in Nat \ {0}

VARIABLES
    glog,    \* the game's log
    lines,   \* lines begun so far
    half,    \* the kind of the line whose tail the game has yet to write
    open,    \* whether the watcher has its file open
    pos,     \* the watcher's position in the file
    from,    \* history: the position it started at
    pieces,  \* what poll has read and not yet parsed
    told,    \* history: the events dispatched
    torn     \* history: lines that poll did not see in one piece

logVars == <<glog, lines, half, open, pos, from, pieces, told, torn>>

Cell == [line : 1 .. MaxLines, kind : Kinds, part : {"whole", "head", "tail"}]
Told(numbers) == [line : numbers, faithful : BOOLEAN]

LogTypeOK ==
    /\ glog \in Seq(Cell) /\ lines \in 0 .. MaxLines /\ half \in Kinds \cup {"none"}
    /\ open \in BOOLEAN
    /\ open => pos \in 0 .. Len(glog) /\ from \in 0 .. pos
    /\ pieces \in Seq(Seq(Cell))
    /\ told \in Seq(Told(1 .. MaxLines))
    /\ torn \subseteq 1 .. MaxLines

(* The log of an earlier run of the server, if there is one. *)
LogInit ==
    /\ glog \in {<<>>} \cup {<<[line |-> 1, kind |-> k, part |-> "whole"]>> : k \in Kinds}
    /\ lines = Len(glog)
    /\ half = "none"
    /\ open = FALSE /\ pos = 0 /\ from = 0 /\ pieces = <<>> /\ told = <<>> /\ torn = {}

-----------------------------------------------------------------------------
(* The game logs a line, or the beginning of one, or the rest. *)
LogLine(kind, part) ==
    /\ lines < MaxLines /\ half = "none"
    /\ glog' = Append(glog, [line |-> lines + 1, kind |-> kind, part |-> part])
    /\ lines' = lines + 1
    /\ half' = IF part = "head" THEN kind ELSE "none"
    /\ UNCHANGED <<open, pos, from, pieces, told, torn>>

LogRest ==
    /\ half # "none"
    /\ glog' = Append(glog, [line |-> lines, kind |-> half, part |-> "tail"])
    /\ half' = "none"
    /\ UNCHANGED <<lines, open, pos, from, pieces, told, torn>>

GameLogs ==
    \/ \E kind \in Kinds, part \in {"whole", "head"} : LogLine(kind, part)
    \/ LogRest

(* What had not been flushed is gone; the next line is appended to the     *)
(* head of this one.                                                       *)
GameDies ==
    /\ half' = "none"
    /\ UNCHANGED <<glog, lines, open, pos, from, pieces, told, torn>>

(* cmd_start empties the log, which the engine it has just launched has    *)
(* open for appending.                                                     *)
ClearLog ==
    /\ glog' = <<>>
    /\ UNCHANGED <<lines, half, open, pos, from, pieces, told, torn>>

(* Wrong: the position is that of the end before the log was emptied. *)
StartAtOldEnd ==
    /\ open' = TRUE /\ pos' = lines /\ from' = lines
    /\ UNCHANGED <<glog, lines, half, pieces, told, torn>>

(* LogWatcher.start: what is in the file already is passed over. *)
StartWatcher ==
    /\ open' = TRUE /\ pos' = Len(glog) /\ from' = Len(glog)
    /\ UNCHANGED <<glog, lines, half, pieces, told, torn>>

-----------------------------------------------------------------------------
(* The text between two newlines, or an end of what was read. *)
EndsLine(cell) == cell.part # "head"

Split(cells) ==
    LET Upto[n \in 0 .. Len(cells)] ==
            IF n = 0 THEN <<>>
            ELSE IF n = 1 \/ EndsLine(cells[n - 1])
                 THEN Append(Upto[n - 1], <<cells[n]>>)
                 ELSE [Upto[n - 1] EXCEPT ![Len(Upto[n - 1])] = Append(@, cells[n])]
    IN  Upto[Len(cells)]

Complete(piece) ==
    \/ Len(piece) = 1 /\ piece[1].part = "whole"
    \/ Len(piece) = 2 /\ piece[1].line = piece[2].line

LinesOf(piece) == {piece[k].line : k \in DOMAIN piece}

(* What is new: all there is behind the position. *)
Unread == SubSeq(glog, pos + 1, Len(glog))

(* Wrong: a line that is not complete is read again with the next poll.    *)
PollRereads ==
    /\ open
    /\ pieces' = Split(Unread)
    /\ torn' = torn
    /\ pos' = IF Unread # <<>> /\ ~Complete(Last(Split(Unread))) THEN pos ELSE Len(glog)
    /\ UNCHANGED <<glog, lines, half, open, from, told>>

(* LogWatcher.poll, up to parsing. *)
Poll ==
    /\ open
    /\ pieces' = Split(Unread)
    /\ torn' = torn \cup UNION {LinesOf(p) : p \in {q \in Range(pieces') : ~Complete(q)}}
    /\ pos' = Len(glog)
    /\ UNCHANGED <<glog, lines, half, open, from, told>>

(* What _parse_line makes of a piece: the event of the line, a false one   *)
(* (another number, another text), nothing, or an IndexError.              *)
HeadOutcomes(kind) ==
    CASE kind = "leave" -> {"nothing", "false", "raise"}
      [] kind = "bare"  -> {"nothing", "false", "event"}
      [] kind = "other" -> {"nothing"}
      [] OTHER          -> {"nothing", "false"}

Outcomes(piece) ==
    LET kind == piece[1].kind IN
    CASE Complete(piece) -> {IF kind = "other" THEN "nothing" ELSE "event"}
      [] ~Complete(piece) /\ piece[1].part = "tail" ->
            IF kind = "chat" THEN {"nothing", "false"} ELSE {"nothing"}
      [] OTHER -> HeadOutcomes(kind)

(* One piece is parsed, and its event dispatched to the plugins. *)
Parse(outcome) ==
    /\ pieces # <<>>
    /\ outcome \in Outcomes(Head(pieces))
    /\ told' = IF outcome \in {"event", "false"}
               THEN Append(told, [line |-> Head(pieces)[1].line,
                                  faithful |-> outcome = "event"])
               ELSE told
    /\ pieces' = IF outcome = "raise" THEN <<>> ELSE Tail(pieces)
    /\ UNCHANGED <<glog, lines, half, open, pos, from, torn>>

-----------------------------------------------------------------------------
(* The lines that the watcher was there for and that no poll tore. *)
WholeLines ==
    LET whole == {c \in Cell : EndsLine(c) /\ c.kind # "other" /\ c.line \notin torn}
        cells == Filter(SubSeq(glog, from + 1, pos), whole)
    IN  [k \in DOMAIN cells |-> [line |-> cells[k].line, faithful |-> TRUE]]

(* The engine died in the middle of a line, and another one is behind it.  *)
Spliced ==
    \E i \in 1 .. (Len(glog) - 1) :
        glog[i].part = "head" /\ glog[i + 1].line # glog[i].line

(* A torn line costs no other line anything: every line that is not torn   *)
(* is told, once, in order and as it stands, also when the half of a torn  *)
(* one makes the parser fail.  Lines behind one that the engine did not    *)
(* live to end are lost with it if the parser fails at the two.            *)
WholeLinesTold ==
    open /\ pieces = <<>> /\ ~Spliced =>
        Filter(told, Told((1 .. MaxLines) \ torn)) = WholeLines
=============================================================================
