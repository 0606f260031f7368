------------------------------- MODULE Monitor -------------------------------
(***************************************************************************)
(* The main loop of the monitor program of the MAC's Nios II                *)
(* (src/mac/sopc/software/source/monitor.c): ten streams are asked in turn, *)
(* a character at a time goes through one line parser, and the end of a     *)
(* line executes a command on the Avalon bus.  Streams 0 and 1 are the      *)
(* serial lines, as Console shows them to deliver whole lines; stream e + 2 *)
(* is the Ethernet port e, which delivers frames.                           *)
(*                                                                          *)
(* An action is one iteration of the loop: getch, the echo of the character, *)
(* the parser and, at the end of a line, cmdexec with all its output.       *)
(* Letters stand for both cases, characters written to a frame for the fact *)
(* that there are any.  Its names differ from those of Console, so that one *)
(* module may speak of both.                                                *)
(***************************************************************************)
EXTENDS Positions, Integers, Sequences, FiniteSets, SequencesExt

CONSTANTS
    NEth,            \* Ethernet ports, 8
    Source,          \* addresses and ports that frames come from
    Hex,             \* value of each hexadecimal character
    Word,            \* 2^32
    Delivered,       \* what the serial lines deliver
    Frames           \* what the Ethernet ports deliver, with End after the last

Nul == "nul"
End == "end"
NewLines == {"nl", Nul}
Blank == {" "} \cup NewLines
Sizes == {"1", "2", "4"}
MaxArg == 4
None == <<>>

ASSUME NEthAssumption == NEth \in Nat \ {0}
ASSUME WordAssumption == Word \in Nat \ {0} /\ \A c \in DOMAIN Hex : Hex[c] \in 0 .. 15
ASSUME HexAssumption == DOMAIN Hex \cap Blank = {}
ASSUME SourceAssumption == Source \subseteq (0 .. 255) \X (0 .. 15)
ASSUME DeliveredAssumption == \A l \in Delivered : l # <<>> /\ Last(l) \in NewLines
ASSUME FramesAssumption == \A f \in Frames : f # <<>> /\ Last(f) = End

VARIABLES
    stream,          \* io_stream
    rest,            \* what the current stream has still to deliver
    from,            \* source of the frame being read
    eth_srcaddr,
    fsm,             \* the line parser: sts, cmd0, cmd1, narg, arg, dat, argflag
    echo,            \* echo_flag, echo_eth, echo_addr, echo_port
    tx,              \* ports with characters waiting to be sent
    line,            \* characters since the parser restarted
    done,            \* the command executed in this step, or None
    sent,            \* the frame sent in this step, or None
    left             \* ports where output was left behind since their last frame

loopVars == <<stream, rest, from, eth_srcaddr, fsm, echo, tx, line, done, sent, left>>

Ports == 0 .. NEth - 1
StreamNumbers == 0 .. NEth + 1
IsEth(s) == s >= 2

\* Ports that the output to stream s goes to.
OutPorts(s, e) == IF IsEth(s) THEN {s - 2} ELSE IF e.flag THEN {e.eth} ELSE {}

LoopInit ==
    /\ stream = 0
    /\ rest = <<>>
    /\ from = <<0, 0>> /\ eth_srcaddr = <<0, 0>>
    /\ fsm = [sts |-> 0, cmd0 |-> Nul, cmd1 |-> Nul, narg |-> 0,
              arg |-> [i \in 1 .. MaxArg |-> 0], dat |-> 0, argflag |-> FALSE]
    /\ echo = [flag |-> FALSE, eth |-> 0, addr |-> 0, port |-> 0]
    /\ tx = {}
    /\ line = <<>>
    /\ done = None /\ sent = None
    /\ left = {}

-----------------------------------------------------------------------------
(***************************************************************************)
(* The line parser.                                                         *)
(***************************************************************************)
StartedStale(p) == [p EXCEPT !.sts = 3, !.dat = 0, !.argflag = FALSE]
Started(p) == [p EXCEPT !.sts = 3, !.narg = 0, !.dat = 0, !.argflag = FALSE]

TakesArg(p) == p.argflag /\ p.narg < MaxArg

WithArg(p) == [p EXCEPT !.arg = [@ EXCEPT ![p.narg + 1] = p.dat],
                        !.narg = @ + 1, !.dat = 0, !.argflag = FALSE]

WithDigit(p, c) == [p EXCEPT !.dat = (@ * 16 + Hex[c]) % Word, !.argflag = TRUE]

\* The names of the commands have two characters; 99, 100 and 101 are the states
\* after one, after a third, and after a wrong character in an argument.
Parse(p, c) ==
    CASE p.sts = 0 -> IF c \in Blank THEN [p EXCEPT !.cmd0 = Nul]
                                     ELSE [p EXCEPT !.cmd0 = c, !.sts = 1]
      [] p.sts = 1 -> IF c \in Blank THEN [p EXCEPT !.sts = 99]
                                     ELSE [p EXCEPT !.cmd1 = c, !.sts = 2]
      [] p.sts = 2 -> IF c \in Blank THEN Started(p) ELSE [p EXCEPT !.sts = 100]
      [] p.sts = 3 -> CASE c \in Blank -> IF TakesArg(p) THEN WithArg(p) ELSE p
                        [] c \in DOMAIN Hex -> WithDigit(p, c)
                        [] OTHER -> [p EXCEPT !.sts = 101]
      [] OTHER -> p

\* What cmdexec makes of the parser's state, with the arguments it uses.
Decoded(p) ==
    IF p.sts = 0 THEN <<"nop">> ELSE
    IF p.sts = 101 THEN <<"error">> ELSE
    CASE p.cmd0 = "R" /\ p.cmd1 \in Sizes /\ p.narg = 1 -> <<"read", p.cmd1, p.arg[1]>>
      [] p.cmd0 = "W" /\ p.cmd1 \in Sizes /\ p.narg = 2 -> <<"write", p.cmd1, p.arg[1], p.arg[2]>>
      [] p.cmd0 = "E" /\ p.cmd1 = "0" -> <<"echo off">>
      [] p.cmd0 = "E" /\ p.cmd1 = "1" /\ p.narg = 0 -> <<"echo on">>
      [] p.cmd0 = "E" /\ p.cmd1 = "1" /\ p.narg = 3 -> <<"echo on", p.arg[1], p.arg[2], p.arg[3]>>
      [] p.cmd0 = "?" -> <<"header">>
      [] OTHER -> <<"error">>

\* cmdecho.
EchoAfter(op) ==
    CASE op = <<"echo off">> -> [echo EXCEPT !.flag = FALSE]
      [] op = <<"echo on">> -> [echo EXCEPT !.flag = TRUE]
      [] op[1] = "echo on" /\ Len(op) = 4 ->
             [flag |-> TRUE, eth |-> op[2] % NEth, addr |-> op[3] % 256, port |-> op[4] % 16]
      [] OTHER -> echo

-----------------------------------------------------------------------------
(***************************************************************************)
(* Output.  A port takes a character unless it is not ready or full, and    *)
(* sends its frame unless it is not ready.                                  *)
(***************************************************************************)
Written(t, ports) == {t} \cup {t \cup ports}

\* Operations whose answer ends with output_send: all of them.
SendsUnlessError == {"nop", "read", "write", "echo off", "echo on", "header"}
Sends == {"nop", "read", "write", "echo off", "echo on", "header", "error"}

\* The end of a line: its character is echoed, the command executed and answered.
Execute(p) ==
    LET op == Decoded(p)
        new == EchoAfter(op)
        before == OutPorts(stream, echo)
        after == OutPorts(stream, new)
        to == IF IsEth(stream) THEN eth_srcaddr' ELSE <<new.addr, new.port>>
    IN  /\ done' = op /\ echo' = new
        /\ fsm' = [p EXCEPT !.sts = 0]
        /\ \E t \in Written(tx, before) : \E u \in Written(t, after) :
              \/ /\ after # {} /\ op[1] \in Sends
                 /\ sent' = <<CHOOSE e \in after : TRUE, to>>
                 /\ tx' = u \ after
                 /\ left' = (left \cup before) \ after
              \/ /\ sent' = None
                 /\ tx' = u
                 /\ left' = IF op[1] \in Sends THEN left \cup before \cup after ELSE left

-----------------------------------------------------------------------------
(***************************************************************************)
(* The main loop.                                                           *)
(***************************************************************************)
Following(s) == IF s + 1 > NEth + 1 THEN 0 ELSE s + 1

\* getch has no character: the next stream is asked, and the parser restarts.
Switch ==
    /\ stream' = Following(stream)
    /\ rest' = <<>>
    /\ fsm' = [fsm EXCEPT !.sts = 0]
    /\ line' = <<>>
    /\ done' = None /\ sent' = None
    /\ left' = IF line = <<>> THEN left ELSE left \cup OutPorts(stream, echo)
    /\ UNCHANGED <<from, echo, tx>>

NothingReady ==
    /\ rest = <<>>
    /\ Switch
    /\ UNCHANGED eth_srcaddr

FrameEnds ==
    /\ rest # <<>> /\ Head(rest) = End
    /\ Switch
    /\ UNCHANGED eth_srcaddr

\* A character 0 in a frame drops what is left of it.
EndOfString ==
    /\ IsEth(stream) /\ rest # <<>> /\ Head(rest) = Nul
    /\ Switch
    /\ eth_srcaddr' = from

\* A line is ready on a serial line, or a frame on a port, when it is asked.
LineReady ==
    /\ ~IsEth(stream) /\ rest = <<>>
    /\ rest' \in Delivered
    /\ done' = None /\ sent' = None
    /\ UNCHANGED <<stream, from, eth_srcaddr, fsm, echo, tx, line, left>>

FrameReady ==
    /\ IsEth(stream) /\ rest = <<>>
    /\ rest' \in Frames /\ from' \in Source
    /\ done' = None /\ sent' = None
    /\ UNCHANGED <<stream, eth_srcaddr, fsm, echo, tx, line, left>>

SourceKept == IF eth_srcaddr = <<0, 0>> THEN from ELSE eth_srcaddr
SourceRead == from

Character ==
    /\ rest # <<>> /\ Head(rest) # End /\ (IsEth(stream) => Head(rest) # Nul)
    /\ rest' = Tail(rest)
    /\ eth_srcaddr' = IF IsEth(stream) THEN SourceRead ELSE eth_srcaddr
    /\ IF Head(rest) \in NewLines
       THEN Execute(Parse(fsm, Head(rest))) /\ line' = <<>>
       ELSE /\ fsm' = Parse(fsm, Head(rest))
            /\ line' = Append(line, Head(rest))
            /\ tx' \in Written(tx, OutPorts(stream, echo))
            /\ done' = None /\ sent' = None
            /\ UNCHANGED <<echo, left>>
    /\ UNCHANGED <<stream, from>>

Iteration == NothingReady \/ FrameEnds \/ EndOfString \/ Character

LoopNext == Iteration \/ LineReady \/ FrameReady

LoopSpec == LoopInit /\ [][LoopNext]_loopVars /\ WF_loopVars(Iteration)

-----------------------------------------------------------------------------
Addresses == (0 .. 255) \X (0 .. 15)

LoopTypeOK ==
    /\ stream \in StreamNumbers
    /\ from \in Addresses /\ eth_srcaddr \in Addresses
    /\ fsm.sts \in {0, 1, 2, 3, 99, 100, 101}
    /\ fsm.narg \in 0 .. MaxArg
    /\ fsm.arg \in [1 .. MaxArg -> 0 .. Word - 1] /\ fsm.dat \in 0 .. Word - 1
    /\ fsm.argflag \in BOOLEAN
    /\ echo \in [flag : BOOLEAN, eth : Ports, addr : 0 .. 255, port : 0 .. 15]
    /\ tx \subseteq Ports /\ left \subseteq Ports
    /\ sent = None \/ sent \in Ports \X Addresses

\* A frame carries the output of one line only: characters wait in a port's buffer
\* from one line to the next only after a frame without an end of line, after the
\* port refused a frame, or after the echo was switched off or to another port.
NothingLeft ==
    tx \subseteq left \cup (IF line = <<>> THEN {} ELSE OutPorts(stream, echo))

\* The words of a line: what is between the blanks.
WordStarts(l) == {i \in 1 .. Len(l) : l[i] \notin Blank /\ (i = 1 \/ l[i - 1] \in Blank)}
WordStops(l) == {i \in 1 .. Len(l) : l[i] \notin Blank /\ (i = Len(l) \/ l[i + 1] \in Blank)}

Words(l) ==
    [k \in 1 .. Cardinality(WordStarts(l)) |-> SubSeq(l, Nth(WordStarts(l), k), Nth(WordStops(l), k))]

\* The number that a word of hexadecimal characters writes, in 32 bits.
Value(w) ==
    LET v[i \in 0 .. Len(w)] == IF i = 0 THEN 0 ELSE (v[i - 1] * 16 + Hex[w[i]]) % Word
    IN  v[Len(w)]

\* What a line says, in the words of header().
Meaning(l) ==
    LET ws == Words(l)
        name == ws[1]
        args == Tail(ws)
        val == [i \in 1 .. Len(args) |-> Value(args[i])]
    IN  IF ws = <<>> THEN <<"nop">> ELSE
        IF Len(name) = 2 /\ \E i \in 1 .. Len(args) : ToSet(args[i]) \ DOMAIN Hex # {}
        THEN <<"error">> ELSE
        CASE name[1] = "?" -> <<"header">>
          [] Len(name) = 2 /\ name[1] = "R" /\ name[2] \in Sizes /\ Len(args) = 1 -> <<"read", name[2]>> \o val
          [] Len(name) = 2 /\ name[1] = "W" /\ name[2] \in Sizes /\ Len(args) = 2 -> <<"write", name[2]>> \o val
          [] name = <<"E", "0">> -> <<"echo off">>
          [] name = <<"E", "1">> /\ Len(args) \in {0, 3} -> <<"echo on">> \o val
          [] OTHER -> <<"error">>

TwoCharacters(l) ==
    LET ws == Words(l) IN ws = <<>> \/ Len(ws[1]) = 2 \/ ws[1][1] = "?"

\* Whatever lines, parts of lines and frames of other streams came before, a line
\* whose command has two characters executes exactly what it says, with its own
\* arguments, and nothing if one of them is not a number.
LineMeaning ==
    [][done' # None /\ TwoCharacters(line) => done' = Meaning(line)]_loopVars

\* A line of a frame is answered to the sender of that frame.
AnswersSender ==
    [][sent' # None /\ IsEth(stream) => sent' = <<stream - 2, from>>]_loopVars

=============================================================================
