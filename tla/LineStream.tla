----------------------------- MODULE LineStream -----------------------------
(***************************************************************************)
(* What the getch() functions of the monitor promise its main loop          *)
(* (monitor.c): a stream delivers whole lines, character by character, and  *)
(* once a line is begun every call returns its next character.              *)
(***************************************************************************)
EXTENDS SequencesExt

CONSTANTS
    Line,            \* lines a stream may deliver
    NoChar           \* result of a call without a character, -1

VARIABLES
    lines,           \* complete lines not begun
    rest,            \* what is left of the line being delivered
    ret              \* result of the last call

Init ==
    /\ lines = <<>>
    /\ rest = <<>>
    /\ ret = NoChar

Arrive ==
    /\ lines' # <<>> /\ Front(lines') = lines /\ Last(lines') \in Line
    /\ UNCHANGED <<rest, ret>>

\* A call: the next character of the line, the first one of the next line, or none.
Getch ==
    \/ /\ rest # <<>>
       /\ ret' = Head(rest) /\ rest' = Tail(rest)
       /\ UNCHANGED lines
    \/ /\ rest = <<>> /\ lines # <<>>
       /\ ret' = Head(Head(lines)) /\ rest' = Tail(Head(lines))
       /\ lines' = Tail(lines)
    \/ /\ rest = <<>>
       /\ ret' = NoChar
       /\ UNCHANGED <<lines, rest>>

Next == Arrive \/ Getch

Spec == Init /\ [][Next]_<<lines, rest, ret>>

=============================================================================
