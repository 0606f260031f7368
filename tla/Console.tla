------------------------------- MODULE Console -------------------------------
(***************************************************************************)
(* The serial lines of the monitor program that runs on the Nios II of the   *)
(* MAC (src/mac/sopc/software/source): the small drivers of the JTAG and of  *)
(* the RS232 UART, the buffer of alt_getch_rs232_uart, the line buffers of   *)
(* jtag_uart_getch and rs232_uart_getch, and the blocking output with its    *)
(* timeout.  Nothing interrupts the program: the RS232 receiver holds one    *)
(* character and is read by idle_function, which every loop calls.           *)
(*                                                                          *)
(* A step is one access to a device, or the local work between two.  Of the  *)
(* main loop only its order is here: which stream is asked, and that a       *)
(* character is echoed and a line answered before the next is read; Monitor  *)
(* has the rest.  A buffer's cells that were read are shown as empty.        *)
(***************************************************************************)
EXTENDS Positions, Integers, Sequences, FiniteSets, SequencesExt

CONSTANTS
    Eol,             \* a character that ends a line: 0, \n, \r
    NoChar,          \* -1
    RxSize,          \* cells of rxbuffer, 64
    LineSize,        \* cells of buf, 32
    HwSize,          \* characters in the FIFO of the JTAG UART
    Timeout,         \* unsuccessful writes in a row before -EIO, 50000 and 1000
    Replies,         \* lengths of the strings of an answer
    Alphabets        \* characters that are typed on either line

Uarts == {"jtag", "rs232"}

ASSUME SizeAssumption == /\ RxSize \in Nat \ {0} /\ LineSize \in Nat \ {0}
                         /\ HwSize \in Nat /\ Timeout \in Nat
ASSUME ReplyAssumption == Replies \subseteq Seq(Nat \ {0})
ASSUME AlphabetAssumption == \A f \in Alphabets : DOMAIN f = Uarts /\ \A u \in Uarts : NoChar \notin f[u]

VARIABLES
    alphabet,        \* what is typed, fixed
    hw,              \* characters in the receivers
    rxbuffer, rdptr, wrptr, rxbuflen,
    buf,             \* line buffers, up to wrindex, or from rdindex when buflen > 0
    buflen, rdindex,
    flagfull,
    pc,              \* where the main loop is
    nloop,
    io_stream,
    todo,            \* calls of putch and putstr to be made, by their lengths
    timeout,
    ret              \* last result of each getch

rxVars == <<rxbuffer, rdptr, wrptr, rxbuflen>>
lineVars == <<buf, buflen, rdindex, flagfull>>
vars == <<alphabet, hw, rxVars, lineVars, pc, nloop, io_stream, todo, timeout, ret>>

Streams == Uarts \cup {"eth"}
NextStreamSkips == [jtag |-> "eth", rs232 |-> "eth", eth |-> "jtag"]
NextStream == [jtag |-> "rs232", rs232 |-> "eth", eth |-> "jtag"]

Init ==
    /\ alphabet \in Alphabets
    /\ hw = [u \in Uarts |-> <<>>]
    /\ rxbuffer = [i \in 0 .. RxSize - 1 |-> NoChar]
    /\ rdptr = 0 /\ wrptr = 0 /\ rxbuflen = 0
    /\ buf = [u \in Uarts |-> <<>>]
    /\ buflen = [u \in Uarts |-> 0] /\ rdindex = [u \in Uarts |-> 0]
    /\ flagfull = [u \in Uarts |-> FALSE]
    /\ pc = "Idle"
    /\ nloop = 0
    /\ io_stream = "jtag"
    /\ todo = <<>>
    /\ timeout = [u \in Uarts |-> 0]
    /\ ret = [u \in Uarts |-> NoChar]

-----------------------------------------------------------------------------
(***************************************************************************)
(* The receivers.                                                           *)
(***************************************************************************)
Room(u) == IF u = "jtag" THEN HwSize ELSE 1

\* A character arrives without error.  The JTAG UART has no place for one when its
\* FIFO is full; of those that overwrite each other in the RS232 receiver between
\* two polls only the last is shown.
Typed(u) ==
    /\ Len(hw[u]) < Room(u)
    /\ \E c \in alphabet[u] : hw' = [hw EXCEPT ![u] = Append(@, c)]
    /\ UNCHANGED <<alphabet, rxVars, lineVars, pc, nloop, io_stream, todo, timeout, ret>>

AfterLate(p) == IF p >= RxSize THEN 0 ELSE p + 1
After(p) == IF p >= RxSize - 1 THEN 0 ELSE p + 1

\* Every call of alt_getch_rs232_uart begins with a read of the UART; the
\* character goes into rxbuffer, or is discarded when that is full.
AcceptsFull == hw["rs232"] # <<>>
Accepts == hw["rs232"] # <<>> /\ rxbuflen < RxSize

Poll ==
    /\ hw' = [hw EXCEPT !["rs232"] = <<>>]
    /\ IF Accepts
       THEN /\ rxbuffer' = [rxbuffer EXCEPT ![wrptr] = Head(hw["rs232"])]
            /\ wrptr' = After(wrptr)
            /\ rxbuflen' = rxbuflen + 1
       ELSE UNCHANGED <<rxbuffer, wrptr, rxbuflen>>
    /\ UNCHANGED rdptr

-----------------------------------------------------------------------------
(***************************************************************************)
(* The line buffers.                                                        *)
(***************************************************************************)
\* c is stored if there is a cell for it.  The end of a line makes the buffer
\* ready, and takes the last cell of a full one.
StoredBeyond(u, c) == IF Len(buf[u]) <= LineSize THEN Append(buf[u], c) ELSE buf[u]
Stored(u, c) == IF Len(buf[u]) < LineSize THEN Append(buf[u], c) ELSE buf[u]

\* The end of a line that found the buffer full takes the last cell.
EndedPlain(line, full) == line
Ended(line, full) == IF full THEN [line EXCEPT ![Len(line)] = Eol] ELSE line

Store(u, c) ==
    LET full == flagfull[u] \/ Len(buf[u]) >= LineSize
        line == Stored(u, c)
    IN  /\ buf' = [buf EXCEPT ![u] = IF c = Eol THEN Ended(line, full) ELSE line]
        /\ buflen' = [buflen EXCEPT ![u] = IF c = Eol THEN Len(line) ELSE 0]
        /\ flagfull' = [flagfull EXCEPT ![u] = c # Eol /\ full]
        /\ UNCHANGED rdindex

\* getch returns c: it is echoed, and a line is answered.
Return(u, c) ==
    /\ ret' = [ret EXCEPT ![u] = c]
    /\ IF c = NoChar
       THEN todo' = todo /\ io_stream' = NextStream[io_stream] /\ pc' = "Idle"
       ELSE /\ IF c = Eol THEN \E r \in Replies : todo' = <<1>> \o r ELSE todo' = <<1>>
            /\ pc' = "PutIdle"
            /\ UNCHANGED io_stream

\* A ready buffer gives its next character.
Give(u) ==
    /\ pc = "Getch" /\ io_stream = u /\ buflen[u] > 0
    /\ buflen' = [buflen EXCEPT ![u] = @ - 1]
    /\ rdindex' = [rdindex EXCEPT ![u] = IF buflen[u] = 1 THEN 0 ELSE @ + 1]
    /\ buf' = [buf EXCEPT ![u] = IF buflen[u] = 1 THEN <<>> ELSE @]
    /\ Return(u, buf[u][rdindex[u] + 1])
    /\ UNCHANGED <<alphabet, hw, rxVars, flagfull, nloop, timeout>>

\* idle_function, at the beginning of the loop over the streams.
Idle ==
    /\ pc = "Idle"
    /\ Poll
    /\ pc' = "Getch"
    /\ UNCHANGED <<alphabet, lineVars, nloop, io_stream, todo, timeout, ret>>

\* No frame on any Ethernet port.
GetchEth ==
    /\ pc = "Getch" /\ io_stream = "eth"
    /\ pc' = "Idle" /\ io_stream' = NextStream[io_stream]
    /\ UNCHANGED <<alphabet, hw, rxVars, lineVars, nloop, todo, timeout, ret>>

\* What a driver's write makes of its counter of unsuccessful ones.
CountedSticks(t, trdy) == IF t >= Timeout THEN t ELSE t
Counted(t, trdy) == IF trdy THEN 0 ELSE IF t >= Timeout THEN t ELSE t + 1

\* A character of the JTAG UART is stored and echoed at once, without waiting;
\* if it was the last of a line, its first one is returned by the same call.
GetchJtag ==
    /\ pc = "Getch" /\ io_stream = "jtag" /\ buflen["jtag"] = 0
    /\ IF hw["jtag"] = <<>>
       THEN Return("jtag", NoChar) /\ UNCHANGED <<hw, lineVars, timeout>>
       ELSE /\ hw' = [hw EXCEPT !["jtag"] = Tail(@)]
            /\ Store("jtag", Head(hw["jtag"]))
            /\ \E trdy \in BOOLEAN :
                  timeout' = [timeout EXCEPT !["jtag"] = Counted(@, trdy)]
            /\ IF Head(hw["jtag"]) = Eol
               THEN pc' = "Getch" /\ UNCHANGED <<ret, todo, io_stream>>
               ELSE Return("jtag", NoChar)
    /\ UNCHANGED <<alphabet, rxVars, nloop>>

\* rs232_uart_getch takes as many characters as rxbuffer had when it began.
QueryRs232 ==
    /\ pc = "Getch" /\ io_stream = "rs232" /\ buflen["rs232"] = 0
    /\ Poll
    /\ nloop' = rxbuflen'
    /\ pc' = IF nloop' > 0 THEN "Read" ELSE "None"
    /\ UNCHANGED <<alphabet, lineVars, io_stream, todo, timeout, ret>>

ReadRs232 ==
    /\ pc = "Read"
    /\ Poll
    /\ pc' = "Take"
    /\ UNCHANGED <<alphabet, lineVars, nloop, io_stream, todo, timeout, ret>>

LoopsLeftStuck(c) == IF c = Eol THEN 0 ELSE nloop
LoopsLeft(c) == IF c = Eol THEN 0 ELSE nloop - 1

TakeRs232 ==
    /\ pc = "Take"
    /\ rdptr' = After(rdptr)
    /\ rxbuflen' = rxbuflen - 1
    /\ rxbuffer' = [rxbuffer EXCEPT ![rdptr] = NoChar]
    /\ Store("rs232", rxbuffer[rdptr])
    /\ nloop' = LoopsLeft(rxbuffer[rdptr])
    /\ pc' = CASE rxbuffer[rdptr] = Eol -> "Getch" [] nloop' > 0 -> "Read" [] OTHER -> "None"
    /\ UNCHANGED <<alphabet, hw, wrptr, io_stream, todo, timeout, ret>>

NoneRs232 ==
    /\ pc = "None"
    /\ Return("rs232", NoChar)
    /\ UNCHANGED <<alphabet, hw, rxVars, lineVars, nloop, timeout>>

-----------------------------------------------------------------------------
(***************************************************************************)
(* Output: alt_putch and alt_putstr, blocking, with idle_function before     *)
(* every attempt.                                                           *)
(***************************************************************************)
PutIdle ==
    /\ pc = "PutIdle"
    /\ Poll
    /\ pc' = "Write"
    /\ UNCHANGED <<alphabet, lineVars, nloop, io_stream, todo, timeout, ret>>

\* The calls left: one character written, this call given up, or tried again.
Left(trdy, t) ==
    CASE trdy /\ Head(todo) > 1 -> <<Head(todo) - 1>> \o Tail(todo)
      [] trdy /\ Head(todo) = 1 -> Tail(todo)
      [] ~trdy /\ t >= Timeout -> Tail(todo)
      [] OTHER -> todo

Write ==
    /\ pc = "Write"
    /\ \E trdy \in BOOLEAN :
          /\ timeout' = [timeout EXCEPT ![io_stream] = Counted(@, trdy)]
          /\ todo' = Left(trdy, timeout[io_stream])
    /\ pc' = IF todo' = <<>> THEN "Idle" ELSE "PutIdle"
    /\ UNCHANGED <<alphabet, hw, rxVars, lineVars, nloop, io_stream, ret>>

Main ==
    \/ Idle \/ GetchEth \/ GetchJtag
    \/ QueryRs232 \/ ReadRs232 \/ TakeRs232 \/ NoneRs232
    \/ PutIdle \/ Write
    \/ \E u \in Uarts : Give(u)

Next == Main \/ \E u \in Uarts : Typed(u)

Spec == Init /\ [][Next]_vars /\ WF_vars(Main)

-----------------------------------------------------------------------------
Chars == UNION {alphabet[u] : u \in Uarts}

TypeOK ==
    /\ alphabet \in Alphabets
    /\ hw \in [Uarts -> Seq(Chars)] /\ \A u \in Uarts : Len(hw[u]) <= Room(u)
    /\ buf \in [Uarts -> Seq(Chars)] /\ \A u \in Uarts : Len(buf[u]) <= LineSize
    /\ rdindex \in [Uarts -> 0 .. LineSize]
    /\ rxbuffer \in [0 .. RxSize - 1 -> Chars \cup {NoChar}]
    /\ rdptr \in 0 .. RxSize - 1 /\ wrptr \in 0 .. RxSize - 1 /\ rxbuflen \in 0 .. RxSize
    /\ buflen \in [Uarts -> 0 .. LineSize]
    /\ flagfull \in [Uarts -> BOOLEAN]
    /\ pc \in {"Idle", "Getch", "Read", "Take", "None", "PutIdle", "Write"}
    /\ nloop \in 0 .. RxSize
    /\ io_stream \in Streams
    /\ todo \in Seq(Nat)
    /\ timeout \in [Uarts -> 0 .. Timeout]
    /\ ret \in [Uarts -> Chars \cup {NoChar}]

\* The two pointers of rxbuffer and its length never disagree, whatever the order
\* of characters, of polls from the output loops and of reads: a cell is occupied
\* exactly when it lies in the rxbuflen cells from rdptr on; and rs232_uart_getch
\* never asks for a character that is not there.
RingConsistent ==
    /\ \A i \in 0 .. RxSize - 1 :
          (rxbuffer[i] # NoChar) <=> (i + (IF i < rdptr THEN RxSize ELSE 0) < rdptr + rxbuflen)
    /\ pc \in {"Read", "Take"} => rxbuflen >= nloop

\* What waits in rxbuffer, or in the JTAG UART.
Waiting(u) ==
    IF u = "jtag" THEN hw[u]
    ELSE [i \in 1 .. rxbuflen |-> rxbuffer[(rdptr + i - 1) % RxSize]]

\* A line as the line buffer makes it: its first characters, and always its end.
Cut(line) == IF Len(line) <= LineSize THEN line
             ELSE Append(SubSeq(line, 1, LineSize - 1), Eol)

\* Where the k-th line of a sequence of characters ends.
Ends(s) == {i \in 1 .. Len(s) : s[i] = Eol}
EndOf(s, k) == IF k = 0 THEN 0 ELSE Nth(Ends(s), k)

\* The complete lines of a sequence of characters.
CompleteLines(s) ==
    [k \in 1 .. Cardinality(Ends(s)) |-> Cut(SubSeq(s, EndOf(s, k - 1) + 1, EndOf(s, k)))]

Begun(u) == buflen[u] > 0 /\ rdindex[u] > 0
Ready(u) == buflen[u] > 0 /\ rdindex[u] = 0
Unread(u) == (IF buflen[u] > 0 THEN <<>> ELSE buf[u]) \o Waiting(u)

Lines == SeqOf(UNION {f[u] : f \in Alphabets, u \in Uarts}, LineSize) \ {<<>>}

LinesOf(u) == (IF Ready(u) THEN <<buf[u]>> ELSE <<>>) \o CompleteLines(Unread(u))
RestOf(u) == IF Begun(u) THEN SubSeq(buf[u], rdindex[u] + 1, Len(buf[u])) ELSE <<>>

Jtag == INSTANCE LineStream WITH Line <- Lines, lines <- LinesOf("jtag"),
                                 rest <- RestOf("jtag"), ret <- ret["jtag"]
Rs232 == INSTANCE LineStream WITH Line <- Lines, lines <- LinesOf("rs232"),
                                  rest <- RestOf("rs232"), ret <- ret["rs232"]

\* Both serial lines deliver whole lines, each character once and in order, cut to
\* the buffer's size but never without their end, and a line once begun is returned
\* without a gap ("getch() functions must generate a continuous sequence of
\* characters when a line is ready", monitor.c:442).
DeliversLines == Jtag!Spec /\ Rs232!Spec

\* Output always comes back to the main loop, even if no character is ever taken,
\* because of the timeouts.
PutReturns == pc \in {"PutIdle", "Write"} ~> pc = "Idle"

\* A line that waits is begun, unless the other of the two lines never pauses.
LineWaits(u) == Ready(u) \/ \E i \in 1 .. Len(Unread(u)) : Unread(u)[i] = Eol
LineServed ==
    \A u \in Uarts : \A o \in Uarts \ {u} :
        []<>(ret[o] = NoChar) =>
            (LineWaits(u) ~> (Ready(u) /\ pc = "Getch" /\ io_stream = u))

=============================================================================
