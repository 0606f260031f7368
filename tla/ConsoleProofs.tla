---------------------------- MODULE ConsoleProofs ----------------------------
(***************************************************************************)
(* Theorems about the monitor program: about its serial lines (Console), for *)
(* any sizes of the buffers, any time-out, any answers and any characters on *)
(* the two lines, and about what its main loop executes and sends (Monitor). *)
(***************************************************************************)
EXTENDS Console, Monitor, SequenceTheorems, FiniteSetTheorems, TLAPS

\* One cell of rxbuffer further, n cells in all from p on.
Along(p, n) == IF p + n >= RxSize THEN p + n - RxSize ELSE p + n

Occupied(i) == i + (IF i < rdptr THEN RxSize ELSE 0) < rdptr + rxbuflen

DeviceInv ==
    /\ alphabet \in Alphabets
    /\ hw \in [Uarts -> Seq(Chars)]
    /\ \A u \in Uarts : Len(hw[u]) <= Room(u)

\* wrptr, which nothing but Poll moves, is always where rdptr and the length put it.
RingInv ==
    /\ rxbuffer \in [0 .. RxSize - 1 -> Chars \cup {NoChar}]
    /\ rdptr \in 0 .. RxSize - 1 /\ wrptr \in 0 .. RxSize - 1 /\ rxbuflen \in 0 .. RxSize
    /\ \A i \in 0 .. RxSize - 1 : (rxbuffer[i] # NoChar) <=> Occupied(i)
    /\ wrptr = Along(rdptr, rxbuflen)

\* A ready buffer holds a line from rdindex to its end; any other is read from its
\* first cell.
LineInv ==
    /\ buf \in [Uarts -> Seq(Chars)]
    /\ buflen \in [Uarts -> 0 .. LineSize]
    /\ rdindex \in [Uarts -> 0 .. LineSize]
    /\ flagfull \in [Uarts -> BOOLEAN]
    /\ \A u \in Uarts : Len(buf[u]) <= LineSize
    /\ \A u \in Uarts : IF buflen[u] > 0 THEN rdindex[u] + buflen[u] = Len(buf[u]) ELSE rdindex[u] = 0

MainInv ==
    /\ pc \in {"Idle", "Getch", "Read", "Take", "None", "PutIdle", "Write"}
    /\ nloop \in 0 .. RxSize
    /\ io_stream \in Streams
    /\ todo \in Seq(Nat)
    /\ timeout \in [Uarts -> 0 .. Timeout]
    /\ ret \in [Uarts -> Chars \cup {NoChar}]
    /\ pc \in {"PutIdle", "Write"} => todo # <<>>

\* The loop of rs232_uart_getch has a character for each of its turns, and no line yet.
LoopInv ==
    pc \in {"Read", "Take"} => rxbuflen >= nloop /\ nloop > 0 /\ buflen["rs232"] = 0

IInv == DeviceInv /\ RingInv /\ LineInv /\ MainInv /\ LoopInv

LEMMA Chars1 ==
    ASSUME alphabet \in Alphabets PROVE NoChar \notin Chars
BY AlphabetAssumption DEF Chars, Uarts

LEMMA InitIInv == Init => IInv
<1> SUFFICES ASSUME Init PROVE IInv
  OBVIOUS
<1>1. DeviceInv
  BY SizeAssumption DEF Init, DeviceInv, Room
<1>2. RingInv
  BY SizeAssumption DEF Init, RingInv, Along, Occupied
<1>3. LineInv
  BY SizeAssumption DEF Init, LineInv
<1>4. MainInv /\ LoopInv
  BY SizeAssumption DEF Init, MainInv, LoopInv, Streams, Uarts
<1> QED BY <1>1, <1>2, <1>3, <1>4 DEF IInv

-----------------------------------------------------------------------------
(***************************************************************************)
(* What the shared parts of the actions preserve.                           *)
(***************************************************************************)
\* A poll stores a character behind the others, or leaves rxbuffer alone.
LEMMA PollStep ==
    ASSUME DeviceInv, RingInv, Poll, UNCHANGED alphabet
    PROVE  DeviceInv' /\ RingInv' /\ rxbuflen' >= rxbuflen
<1> Chars' = Chars
  BY DEF Chars
<1>1. DeviceInv'
  BY DEF DeviceInv, Poll, Room, Uarts
<1>2. CASE Accepts
  <2> DEFINE c == Head(hw["rs232"])
  <2>1. c \in Chars
    BY <1>2 DEF DeviceInv, Accepts, Uarts
  <2>2. c # NoChar
    BY <2>1, Chars1 DEF DeviceInv
  <2>3. /\ rxbuffer' = [rxbuffer EXCEPT ![wrptr] = c]
        /\ wrptr' = After(wrptr) /\ rxbuflen' = rxbuflen + 1 /\ rdptr' = rdptr
        /\ rxbuflen < RxSize
    BY <1>2 DEF Poll, Accepts
  <2> HIDE DEF c
  <2>4. rxbuffer' \in [0 .. RxSize - 1 -> Chars \cup {NoChar}]
    BY <2>1, <2>3 DEF RingInv
  <2>5. \A i \in 0 .. RxSize - 1 : Occupied(i)' <=> Occupied(i) \/ i = wrptr
    BY <2>3, SizeAssumption DEF RingInv, Occupied, Along
  <2>6. \A i \in 0 .. RxSize - 1 : (rxbuffer'[i] # NoChar) <=> Occupied(i)'
    BY <2>2, <2>3, <2>5 DEF RingInv
  <2>7. /\ wrptr' \in 0 .. RxSize - 1 /\ rxbuflen' \in 0 .. RxSize /\ rdptr' \in 0 .. RxSize - 1
        /\ wrptr' = Along(rdptr', rxbuflen')
    BY <2>3, SizeAssumption DEF RingInv, After, Along
  <2>8. RingInv'
    BY <2>4, <2>6, <2>7 DEF RingInv
  <2> QED BY <1>1, <2>3, <2>8 DEF RingInv
<1>3. CASE ~Accepts
  <2>1. UNCHANGED rxVars
    BY <1>3 DEF Poll, rxVars
  <2> QED BY <1>1, <2>1 DEF RingInv, rxVars, Occupied, Along
<1> QED BY <1>2, <1>3

\* A character is taken from the first occupied cell.
LEMMA TakeStep ==
    ASSUME DeviceInv, RingInv, rxbuflen > 0, UNCHANGED <<alphabet, wrptr>>,
           rdptr' = After(rdptr), rxbuflen' = rxbuflen - 1,
           rxbuffer' = [rxbuffer EXCEPT ![rdptr] = NoChar]
    PROVE  RingInv' /\ rxbuffer[rdptr] \in Chars
<1> Chars' = Chars
  BY DEF Chars
<1>1. rxbuffer[rdptr] \in Chars
  BY SizeAssumption DEF RingInv, Occupied
<1>2. rxbuffer' \in [0 .. RxSize - 1 -> Chars \cup {NoChar}]
  BY DEF RingInv
<1>3. \A i \in 0 .. RxSize - 1 : Occupied(i)' <=> Occupied(i) /\ i # rdptr
  BY SizeAssumption DEF RingInv, Occupied, After
<1>4. \A i \in 0 .. RxSize - 1 : (rxbuffer'[i] # NoChar) <=> Occupied(i)'
  BY <1>3 DEF RingInv
<1>5. /\ wrptr' \in 0 .. RxSize - 1 /\ rxbuflen' \in 0 .. RxSize /\ rdptr' \in 0 .. RxSize - 1
      /\ wrptr' = Along(rdptr', rxbuflen')
  BY SizeAssumption DEF RingInv, After, Along
<1> QED BY <1>1, <1>2, <1>4, <1>5 DEF RingInv

\* A character is stored in a line buffer that is not ready.
LEMMA StoreStep ==
    ASSUME NEW u \in Uarts, NEW c \in Chars, LineInv, buflen[u] = 0, Store(u, c),
           UNCHANGED alphabet
    PROVE  LineInv' /\ (c # Eol => buflen'[u] = 0)
<1> Chars' = Chars
  BY DEF Chars
<1> DEFINE full == flagfull[u] \/ Len(buf[u]) >= LineSize
           stored == Stored(u, c)
           new == IF c = Eol THEN Ended(stored, full) ELSE stored
<1>1. /\ buf[u] \in Seq(Chars) /\ Len(buf[u]) <= LineSize /\ Len(buf[u]) \in Nat
      /\ rdindex[u] = 0 /\ LineSize \in Nat \ {0}
  BY SizeAssumption, LenProperties DEF LineInv
<1>2. stored \in Seq(Chars) /\ Len(stored) \in 1 .. LineSize
  <2>1. CASE Len(buf[u]) < LineSize
    <3>1. stored = Append(buf[u], c)
      BY <2>1 DEF Stored
    <3> QED BY <1>1, <2>1, <3>1, AppendProperties
  <2>2. CASE ~(Len(buf[u]) < LineSize)
    BY <1>1, <2>2 DEF Stored
  <2> QED BY <2>1, <2>2
<1>3. c = Eol => Ended(stored, full) \in Seq(Chars) /\ Len(Ended(stored, full)) = Len(stored)
  BY <1>2, ExceptSeq DEF Ended
<1>4. new \in Seq(Chars) /\ Len(new) = Len(stored)
  BY <1>2, <1>3
<1>5. /\ buf' = [buf EXCEPT ![u] = new]
      /\ buflen' = [buflen EXCEPT ![u] = IF c = Eol THEN Len(stored) ELSE 0]
      /\ flagfull' = [flagfull EXCEPT ![u] = c # Eol /\ full]
      /\ rdindex' = rdindex
  BY DEF Store
<1>6. full \in BOOLEAN
  BY DEF LineInv
<1> HIDE DEF new, stored, full
<1>7. buf' \in [Uarts -> Seq(Chars)] /\ \A v \in Uarts : Len(buf'[v]) <= LineSize
  BY <1>2, <1>4, <1>5 DEF LineInv
<1>8. buflen' \in [Uarts -> 0 .. LineSize] /\ rdindex' \in [Uarts -> 0 .. LineSize]
  BY <1>1, <1>2, <1>5 DEF LineInv
<1>9. flagfull' \in [Uarts -> BOOLEAN]
  BY <1>5, <1>6, Zenon DEF LineInv
<1>10. \A v \in Uarts : IF buflen'[v] > 0 THEN rdindex'[v] + buflen'[v] = Len(buf'[v])
                        ELSE rdindex'[v] = 0
  BY <1>1, <1>2, <1>4, <1>5 DEF LineInv
<1>11. c # Eol => buflen'[u] = 0
  BY <1>5 DEF LineInv
<1> QED BY <1>7, <1>8, <1>9, <1>10, <1>11 DEF LineInv

\* getch returns to the main loop.
LEMMA ReturnStep ==
    ASSUME NEW u \in Uarts, NEW c \in Chars \cup {NoChar}, MainInv, Return(u, c),
           UNCHANGED <<alphabet, timeout>>, nloop' \in 0 .. RxSize
    PROVE  MainInv' /\ pc' \in {"Idle", "PutIdle"}
<1> Chars' = Chars
  BY DEF Chars
<1>1. ret' \in [Uarts -> Chars \cup {NoChar}]
  BY DEF MainInv, Return
<1>2. todo' \in Seq(Nat) /\ (c # NoChar => todo' # <<>>)
  <2>1. CASE c = NoChar
    BY <2>1 DEF MainInv, Return
  <2>2. CASE c # NoChar /\ c = Eol
    <3>1. PICK r \in Replies : todo' = <<1>> \o r
      BY <2>2 DEF Return
    <3>2. r \in Seq(Nat) /\ <<1>> \in Seq(Nat)
      BY ReplyAssumption
    <3>3. <<1>> \o r \in Seq(Nat) /\ Len(<<1>> \o r) = Len(<<1>>) + Len(r)
      BY <3>2, ConcatProperties
    <3>4. <<1>> \o r # <<>>
      BY <3>2, <3>3
    <3> QED BY <3>1, <3>3, <3>4
  <2>3. CASE c # NoChar /\ c # Eol
    <3>1. todo' = <<1>>
      BY <2>3 DEF Return
    <3> QED BY <3>1
  <2> QED BY <2>1, <2>2, <2>3
<1>3. pc' \in {"Idle", "PutIdle"} /\ (pc' = "PutIdle" => c # NoChar)
  BY DEF Return
<1>4. io_stream' \in Streams
  BY DEF MainInv, Return, NextStream, Streams, Uarts
<1> QED BY <1>1, <1>2, <1>3, <1>4 DEF MainInv

-----------------------------------------------------------------------------
(***************************************************************************)
(* The actions.                                                             *)
(***************************************************************************)
\* Actions that leave rxbuffer alone need not be looked at for it.
LEMMA RingKept ==
    ASSUME RingInv, UNCHANGED <<alphabet, rxVars>> PROVE RingInv'
BY DEF RingInv, rxVars, Occupied, Along, Chars

LEMMA LineKept ==
    ASSUME LineInv, UNCHANGED <<alphabet, lineVars>> PROVE LineInv'
BY DEF LineInv, lineVars, Chars

LEMMA DeviceKept ==
    ASSUME DeviceInv, UNCHANGED <<alphabet, hw>> PROVE DeviceInv'
BY DEF DeviceInv, Chars, Room

\* A poll that changes nothing of the main loop but its place.
LEMMA PollOnly ==
    ASSUME IInv, Poll, UNCHANGED <<alphabet, lineVars, nloop, io_stream, todo, timeout, ret>>,
           pc' \in {"Idle", "Getch", "Take", "Write"},
           pc' = "Take" => pc = "Read", pc' = "Write" => pc = "PutIdle"
    PROVE  IInv'
<1>1. DeviceInv' /\ RingInv' /\ rxbuflen' >= rxbuflen
  BY PollStep DEF IInv
<1>2. LineInv'
  BY LineKept DEF IInv
<1>3. MainInv'
  BY DEF IInv, MainInv, Chars
<1>4. rxbuflen \in Nat /\ rxbuflen' \in Nat /\ nloop \in Nat
  BY <1>1, SizeAssumption DEF IInv, RingInv, MainInv
<1>5. LoopInv'
  BY <1>1, <1>4 DEF IInv, LoopInv, lineVars
<1> QED BY <1>1, <1>2, <1>3, <1>5 DEF IInv

LEMMA NextIInv == IInv /\ [Next]_vars => IInv'
<1> SUFFICES ASSUME IInv, [Next]_vars PROVE IInv'
  OBVIOUS
<1>a. /\ DeviceInv /\ RingInv /\ LineInv /\ MainInv /\ LoopInv
      /\ rxbuflen \in Nat /\ nloop \in Nat /\ RxSize \in Nat \ {0}
  BY SizeAssumption DEF IInv, RingInv, MainInv
<1>1. ASSUME NEW u \in Uarts, Typed(u) PROVE IInv'
  <2>1. PICK c \in alphabet[u] : hw' = [hw EXCEPT ![u] = Append(@, c)]
    BY <1>1 DEF Typed
  <2>2. c \in Chars /\ Chars' = Chars
    BY <1>1 DEF Chars, Typed
  <2>3. /\ hw[u] \in Seq(Chars) /\ Append(hw[u], c) \in Seq(Chars)
        /\ Len(Append(hw[u], c)) = Len(hw[u]) + 1 /\ Len(hw[u]) \in Nat
    BY <1>a, <2>2, AppendProperties, LenProperties DEF DeviceInv
  <2>4. Len(hw[u]) + 1 <= Room(u)
    BY <1>1, <2>3, SizeAssumption DEF Typed, Room
  <2>5. hw' \in [Uarts -> Seq(Chars)] /\ \A v \in Uarts : Len(hw'[v]) <= Room(v)
    BY <1>a, <2>1, <2>3, <2>4 DEF DeviceInv
  <2>6. DeviceInv'
    BY <1>1, <1>a, <2>2, <2>5 DEF DeviceInv, Typed, Room
  <2>7. RingInv' /\ LineInv'
    BY <1>1, <1>a, RingKept, LineKept DEF Typed
  <2>8. MainInv' /\ LoopInv'
    BY <1>1, <1>a, <2>2 DEF Typed, MainInv, LoopInv, rxVars, lineVars
  <2> QED BY <2>6, <2>7, <2>8 DEF IInv
<1>2. CASE Idle
  BY <1>2, PollOnly DEF Idle
<1>3. CASE GetchEth
  <2>1. DeviceInv' /\ RingInv' /\ LineInv'
    BY <1>3, <1>a, DeviceKept, RingKept, LineKept DEF GetchEth
  <2>2. MainInv' /\ LoopInv'
    BY <1>3, <1>a DEF GetchEth, MainInv, LoopInv, NextStream, Streams, Uarts, Chars
  <2> QED BY <2>1, <2>2 DEF IInv
<1>4. CASE GetchJtag
  <2> "jtag" \in Uarts
    BY DEF Uarts
  <2> DEFINE c == Head(hw["jtag"])
  <2>1. CASE hw["jtag"] = <<>>
    <3>1. DeviceInv' /\ RingInv' /\ LineInv'
      BY <1>4, <1>a, <2>1, DeviceKept, RingKept, LineKept DEF GetchJtag
    <3>2. MainInv' /\ pc' \in {"Idle", "PutIdle"}
      BY <1>4, <1>a, <2>1, ReturnStep DEF GetchJtag, MainInv
    <3> QED BY <3>1, <3>2 DEF IInv, LoopInv
  <2>2. CASE hw["jtag"] # <<>>
    <3>1. /\ hw' = [hw EXCEPT !["jtag"] = Tail(@)] /\ Store("jtag", c)
          /\ buflen["jtag"] = 0 /\ UNCHANGED <<alphabet, rxVars, nloop>>
          /\ \E trdy \in BOOLEAN : timeout' = [timeout EXCEPT !["jtag"] = Counted(@, trdy)]
          /\ IF c = Eol THEN pc' = "Getch" /\ UNCHANGED <<ret, todo, io_stream>>
                        ELSE Return("jtag", NoChar)
      BY <1>4, <2>2 DEF GetchJtag
    <3>2. /\ c \in Chars /\ Tail(hw["jtag"]) \in Seq(Chars)
          /\ Len(Tail(hw["jtag"])) = Len(hw["jtag"]) - 1 /\ Len(hw["jtag"]) \in Nat
      BY <1>a, <2>2, HeadTailProperties, LenProperties DEF DeviceInv
    <3> HIDE DEF c
    <3>3. hw' \in [Uarts -> Seq(Chars)] /\ \A v \in Uarts : Len(hw'[v]) <= Room(v)
      BY <1>a, <3>1, <3>2, SizeAssumption DEF DeviceInv, Room
    <3>4. DeviceInv'
      BY <1>a, <3>1, <3>3 DEF DeviceInv, Chars, Room
    <3>5. RingInv'
      BY <1>a, <3>1, RingKept
    <3>6. LineInv'
      BY <1>a, <3>1, <3>2, StoreStep
    <3>7. timeout' \in [Uarts -> 0 .. Timeout]
      BY <1>a, <3>1, SizeAssumption DEF MainInv, Counted
    <3>8. /\ pc' \in {"Getch", "Idle"} /\ todo' = todo
          /\ io_stream' \in Streams
          /\ ret' \in [Uarts -> Chars \cup {NoChar}]
      BY <1>a, <3>1 DEF MainInv, Return, NextStream, Streams, Uarts
    <3>9. MainInv' /\ LoopInv'
      BY <1>a, <3>1, <3>7, <3>8 DEF MainInv, LoopInv, Chars
    <3> QED BY <3>4, <3>5, <3>6, <3>9 DEF IInv
  <2> QED BY <2>1, <2>2
<1>5. CASE QueryRs232
  <2>1. DeviceInv' /\ RingInv'
    BY <1>5, <1>a, PollStep DEF QueryRs232
  <2>2. LineInv'
    BY <1>5, <1>a, LineKept DEF QueryRs232
  <2>3. nloop' = rxbuflen' /\ nloop' \in 0 .. RxSize
    BY <1>5, <2>1 DEF QueryRs232, RingInv
  <2>4. MainInv'
    BY <1>5, <1>a, <2>3 DEF QueryRs232, MainInv, Chars
  <2>5. LoopInv'
    BY <1>5, <1>a, <2>3 DEF QueryRs232, LoopInv, lineVars
  <2> QED BY <2>1, <2>2, <2>4, <2>5 DEF IInv
<1>6. CASE ReadRs232
  BY <1>6, PollOnly DEF ReadRs232
<1>7. CASE TakeRs232
  <2> DEFINE c == rxbuffer[rdptr]
  <2>1. rxbuflen >= nloop /\ nloop > 0 /\ buflen["rs232"] = 0 /\ rxbuflen > 0
    BY <1>7, <1>a DEF TakeRs232, LoopInv
  <2>2. RingInv' /\ c \in Chars
    BY <1>7, <1>a, <2>1, TakeStep DEF TakeRs232
  <2>3. /\ Store("rs232", c) /\ rxbuflen' = rxbuflen - 1
        /\ nloop' = IF c = Eol THEN 0 ELSE nloop - 1
        /\ pc' = CASE c = Eol -> "Getch" [] nloop' > 0 -> "Read" [] OTHER -> "None"
        /\ UNCHANGED <<alphabet, hw, wrptr, io_stream, todo, timeout, ret>>
    BY <1>7 DEF TakeRs232, LoopsLeft
  <2> HIDE DEF c
  <2>4. LineInv' /\ (c # Eol => buflen'["rs232"] = 0)
    BY <1>a, <2>1, <2>2, <2>3, StoreStep DEF Uarts
  <2>5. DeviceInv'
    BY <1>a, <2>3, DeviceKept
  <2>6. nloop' \in 0 .. RxSize /\ pc' \in {"Getch", "Read", "None"}
    BY <1>a, <2>1, <2>3 DEF MainInv
  <2>7. MainInv'
    BY <1>a, <2>3, <2>6 DEF MainInv, Chars
  <2>8. LoopInv'
    BY <1>a, <2>1, <2>3, <2>4 DEF LoopInv
  <2> QED BY <2>2, <2>4, <2>5, <2>7, <2>8 DEF IInv
<1>8. CASE NoneRs232
  <2>1. DeviceInv' /\ RingInv' /\ LineInv'
    BY <1>8, <1>a, DeviceKept, RingKept, LineKept DEF NoneRs232
  <2>2. MainInv' /\ pc' \in {"Idle", "PutIdle"}
    BY <1>8, <1>a, ReturnStep DEF NoneRs232, MainInv, Uarts
  <2> QED BY <2>1, <2>2 DEF IInv, LoopInv
<1>9. CASE PutIdle
  BY <1>9, PollOnly DEF PutIdle
<1>10. CASE Write
  <2>1. DeviceInv' /\ RingInv' /\ LineInv'
    BY <1>10, <1>a, DeviceKept, RingKept, LineKept DEF Write
  <2>2. PICK trdy \in BOOLEAN :
          /\ timeout' = [timeout EXCEPT ![io_stream] = Counted(@, trdy)]
          /\ todo' = Left(trdy, timeout[io_stream])
    BY <1>10 DEF Write
  <2>3. timeout' \in [Uarts -> 0 .. Timeout]
    <3>1. \A t \in 0 .. Timeout : Counted(t, trdy) \in 0 .. Timeout
      BY SizeAssumption DEF Counted
    <3>2. timeout' = [timeout EXCEPT ![io_stream] = Counted(timeout[io_stream], trdy)]
      BY <2>2
    <3> QED BY <1>a, <3>1, <3>2 DEF MainInv
  <2>4. todo \in Seq(Nat) /\ Head(todo) \in Nat /\ Tail(todo) \in Seq(Nat)
    BY <1>10, <1>a, HeadTailProperties DEF Write, MainInv
  <2>5. Head(todo) > 1 => <<Head(todo) - 1>> \o Tail(todo) \in Seq(Nat)
    <3>1. Head(todo) > 1 => <<Head(todo) - 1>> \in Seq(Nat)
      BY <2>4
    <3> QED BY <2>4, <3>1, ConcatProperties
  <2>6. todo' \in Seq(Nat)
    BY <2>2, <2>4, <2>5 DEF Left
  <2>7. pc' \in {"Idle", "PutIdle"} /\ (pc' = "PutIdle" => todo' # <<>>)
    BY <1>10 DEF Write
  <2>8. MainInv' /\ LoopInv'
    BY <1>10, <1>a, <2>3, <2>6, <2>7 DEF Write, MainInv, LoopInv, Chars
  <2> QED BY <2>1, <2>8 DEF IInv
<1>11. ASSUME NEW u \in Uarts, Give(u) PROVE IInv'
  <2>1. /\ buf[u] \in Seq(Chars) /\ rdindex[u] + 1 \in 1 .. Len(buf[u])
        /\ buflen[u] \in 1 .. LineSize /\ rdindex[u] \in Nat /\ Len(buf[u]) \in Nat
        /\ rdindex[u] + buflen[u] = Len(buf[u]) /\ Len(buf[u]) <= LineSize
    BY <1>11, <1>a, SizeAssumption, LenProperties DEF Give, LineInv
  <2>2. buf[u][rdindex[u] + 1] \in Chars
    BY <2>1, ElementOfSeq
  <2>3. DeviceInv' /\ RingInv'
    BY <1>11, <1>a, DeviceKept, RingKept DEF Give
  <2>4. MainInv' /\ pc' \in {"Idle", "PutIdle"}
    BY <1>11, <1>a, <2>2, ReturnStep DEF Give, MainInv
  <2>5. LineInv'
    <3> DEFINE cells == IF buflen[u] = 1 THEN <<>> ELSE buf[u]
               next == IF buflen[u] = 1 THEN 0 ELSE rdindex[u] + 1
    <3>1. /\ buf' = [buf EXCEPT ![u] = cells]
          /\ rdindex' = [rdindex EXCEPT ![u] = next]
          /\ buflen' = [buflen EXCEPT ![u] = buflen[u] - 1]
          /\ UNCHANGED <<alphabet, flagfull>>
      BY <1>11 DEF Give
    <3>2. /\ cells \in Seq(Chars) /\ Len(cells) <= LineSize
          /\ next \in 0 .. LineSize /\ buflen[u] - 1 \in 0 .. LineSize
          /\ IF buflen[u] - 1 > 0 THEN next + (buflen[u] - 1) = Len(cells) ELSE next = 0
      <4>1. CASE buflen[u] = 1
        BY <2>1, <4>1, SizeAssumption
      <4>2. CASE buflen[u] > 1
        BY <2>1, <4>2, SizeAssumption
      <4> QED BY <2>1, <4>1, <4>2
    <3> HIDE DEF cells, next
    <3>3. /\ buf' \in [Uarts -> Seq(Chars)] /\ \A v \in Uarts : Len(buf'[v]) <= LineSize
          /\ buflen' \in [Uarts -> 0 .. LineSize] /\ rdindex' \in [Uarts -> 0 .. LineSize]
      BY <1>a, <3>1, <3>2 DEF LineInv
    <3>4. \A v \in Uarts : IF buflen'[v] > 0 THEN rdindex'[v] + buflen'[v] = Len(buf'[v])
                           ELSE rdindex'[v] = 0
      BY <1>a, <3>1, <3>2 DEF LineInv
    <3>5. Chars' = Chars /\ flagfull' \in [Uarts -> BOOLEAN]
      BY <1>a, <3>1, Zenon DEF LineInv, Chars
    <3> QED BY <3>3, <3>4, <3>5 DEF LineInv
  <2> QED BY <2>3, <2>4, <2>5 DEF IInv, LoopInv
<1>12. CASE UNCHANGED vars
  <2>1. DeviceInv' /\ RingInv' /\ LineInv'
    BY <1>12, <1>a, DeviceKept, RingKept, LineKept DEF vars
  <2>2. MainInv' /\ LoopInv'
    BY <1>12, <1>a DEF vars, rxVars, lineVars, MainInv, LoopInv, Chars
  <2> QED BY <2>1, <2>2 DEF IInv
<1> QED BY <1>1, <1>2, <1>3, <1>4, <1>5, <1>6, <1>7, <1>8, <1>9, <1>10, <1>11, <1>12
        DEF Next, Main

-----------------------------------------------------------------------------
\* Type correctness of the serial lines: no pointer of rxbuffer or of a line buffer
\* ever leaves it (alt_getch_rs232_uart.c:76, monitor.c:482), and no counter of
\* unsuccessful writes passes its limit.
THEOREM TypeCorrect == Spec => []TypeOK
<1>1. IInv => TypeOK
  BY DEF IInv, DeviceInv, RingInv, LineInv, MainInv, TypeOK
<1> QED BY <1>1, InitIInv, NextIInv, PTL DEF Spec

\* For every size of rxbuffer its pointers and its length agree, whatever the order of
\* polls and reads, and rs232_uart_getch never reads a cell that holds nothing.
THEOREM RingConsistentAlways == Spec => []RingConsistent
<1>1. IInv => RingConsistent
  BY DEF IInv, RingInv, LoopInv, Occupied, RingConsistent
<1> QED BY <1>1, InitIInv, NextIInv, PTL DEF Spec

-----------------------------------------------------------------------------
(***************************************************************************)
(* The k-th element of a finite set of numbers.                             *)
(***************************************************************************)
Upto(E, i) == {j \in E : j <= i}
Rank(E, i) == Cardinality(Upto(E, i))

\* Ranks count from 1, and grow with the elements.
LEMMA Ranks ==
    ASSUME NEW E \in SUBSET Nat, IsFiniteSet(E), NEW i \in E
    PROVE  /\ Rank(E, i) \in 1 .. Cardinality(E)
           /\ \A j \in E : i < j => Rank(E, i) < Rank(E, j)
<1>1. \A j : Upto(E, j) \in SUBSET E
  BY DEF Upto
<1>2. \A j : /\ IsFiniteSet(Upto(E, j)) /\ Rank(E, j) \in Nat
             /\ Rank(E, j) <= Cardinality(E)
  BY <1>1, FS_Subset, FS_CardinalityType DEF Rank
<1>3. Cardinality(E) \in Nat
  BY FS_CardinalityType
<1>4. Rank(E, i) # 0
  <2>1. i \in Upto(E, i)
    BY DEF Upto
  <2> QED BY <1>2, <2>1, FS_EmptySet DEF Rank
<1>5. ASSUME NEW j \in E, i < j PROVE Rank(E, i) < Rank(E, j)
  <2>1. Upto(E, i) \in SUBSET Upto(E, j) /\ j \in Upto(E, j) /\ j \notin Upto(E, i)
    <3>1. i \in Nat /\ j \in Nat /\ \A x \in E : x \in Nat
      OBVIOUS
    <3>2. \A x \in E : x <= i => x <= j
      BY <1>5, <3>1
    <3>3. ~(j <= i) /\ j <= j
      BY <1>5, <3>1
    <3>4. Upto(E, i) \subseteq Upto(E, j)
      BY <3>2 DEF Upto
    <3> QED BY <3>3, <3>4 DEF Upto
  <2>2. Rank(E, i) <= Rank(E, j) /\ (Rank(E, j) = Rank(E, i) => Upto(E, j) = Upto(E, i))
    BY <1>2, <2>1, FS_Subset DEF Rank
  <2> QED BY <1>2, <2>1, <2>2
<1> QED BY <1>2, <1>3, <1>4, <1>5

\* There is one element of each rank.
LEMMA NthIn ==
    ASSUME NEW E \in SUBSET Nat, IsFiniteSet(E), NEW k \in 1 .. Cardinality(E)
    PROVE  Nth(E, k) \in E /\ Rank(E, Nth(E, k)) = k
<1> DEFINE n == Cardinality(E)
           f == [i \in E |-> Rank(E, i)]
<1>1. n \in Nat
  BY FS_CardinalityType
<1>2. f \in [E -> 1 .. n]
  BY Ranks
<1>3. \A i, j \in E : Rank(E, i) = Rank(E, j) => i = j
  <2>1. \A i \in E : Rank(E, i) \in Nat
    BY <1>1, Ranks
  <2>2. \A i, j \in E : i < j => Rank(E, i) < Rank(E, j)
    BY Ranks
  <2>3. \A i, j \in E : i \in Nat /\ j \in Nat
    OBVIOUS
  <2> QED BY <2>1, <2>2, <2>3
<1>4. f \in Injection(E, 1 .. n)
  BY <1>2, <1>3 DEF Injection, IsInjective
<1>5. IsFiniteSet(1 .. n) /\ Cardinality(1 .. n) = n
  BY <1>1, FS_Interval
<1>6. f \in Surjection(E, 1 .. n)
  BY <1>4, <1>5, FS_Injection
<1>7. \E i \in E : f[i] = k
  BY <1>6 DEF Surjection
<1>8. \E i \in E : Cardinality({j \in E : j <= i}) = k
  BY <1>7 DEF Rank, Upto
<1> QED BY <1>8 DEF Nth, Rank, Upto

\* Only one element has a rank.
LEMMA NthUnique ==
    ASSUME NEW E \in SUBSET Nat, IsFiniteSet(E), NEW i \in E
    PROVE  Nth(E, Rank(E, i)) = i
<1> DEFINE k == Rank(E, i)
           m == Nth(E, k)
<1>1. k \in 1 .. Cardinality(E)
  BY Ranks
<1>2. m \in E /\ Rank(E, m) = k
  BY <1>1, NthIn
<1>3. i \in Nat /\ m \in Nat
  BY <1>2
<1>4. Rank(E, i) \in Int
  BY FS_CardinalityType, <1>1
<1>5. (i < m => Rank(E, i) < Rank(E, m)) /\ (m < i => Rank(E, m) < Rank(E, i))
  BY <1>2, Ranks
<1> QED BY <1>2, <1>3, <1>4, <1>5

\* The k-th element is the one with k elements up to it.
LEMMA NthIs ==
    ASSUME NEW E \in SUBSET Nat, IsFiniteSet(E), NEW i \in E, NEW k, Rank(E, i) = k
    PROVE  Nth(E, k) = i
BY NthUnique

\* As many elements, all further by d.
LEMMA MovedCount ==
    ASSUME NEW E, IsFiniteSet(E), E \in SUBSET Nat, NEW d \in Nat
    PROVE  /\ IsFiniteSet({i + d : i \in E})
           /\ Cardinality({i + d : i \in E}) = Cardinality(E)
<1> DEFINE F == {i + d : i \in E}
           g == [i \in E |-> i + d]
<1>1. /\ g \in [E -> F] /\ (\A i, j \in E : g[i] = g[j] => i = j)
      /\ \A b \in F : \E i \in E : g[i] = b
  OBVIOUS
<1>2. g \in Bijection(E, F)
  BY <1>1 DEF Bijection, Injection, Surjection, IsInjective
<1>3. ExistsBijection(E, F)
  BY <1>2 DEF ExistsBijection
<1> QED BY <1>3, FS_Bijection

\* Numbers that are all further by d keep their ranks.
LEMMA NthMoved ==
    ASSUME NEW E \in SUBSET Nat, IsFiniteSet(E), NEW d \in Nat, NEW k \in 1 .. Cardinality(E)
    PROVE  Nth({i + d : i \in E}, k) = Nth(E, k) + d
<1> DEFINE F == {i + d : i \in E}
           i == Nth(E, k)
<1>1. F \in SUBSET Nat /\ IsFiniteSet(F)
  <2>1. F \in SUBSET Nat
    <3>1. \A x \in E : x + d \in Nat
      OBVIOUS
    <3> QED BY <3>1
  <2> QED BY <2>1, MovedCount
<1>2. i \in E /\ Rank(E, i) = k
  BY NthIn
<1>3. \A x \in F : \E j \in E : x = j + d
  OBVIOUS
<1>4. \A j \in E : j + d \in F
  OBVIOUS
<1> HIDE DEF i, F
<1>5. i + d \in F
  BY <1>2, <1>4
<1>6. Upto(F, i + d) = {j + d : j \in Upto(E, i)}
  <2>1. \A j \in E : j \in Nat /\ i \in Nat
    BY <1>2
  <2> QED BY <1>3, <1>4, <2>1 DEF Upto
<1>7. Upto(E, i) \in SUBSET Nat /\ IsFiniteSet(Upto(E, i))
  <2>1. Upto(E, i) \in SUBSET E
    BY DEF Upto
  <2> QED BY <2>1, FS_Subset
<1>8. Rank(F, i + d) = k
  BY <1>2, <1>6, <1>7, MovedCount DEF Rank
<1>9. Nth(F, k) = i + d
  BY <1>1, <1>5, <1>8, NthIs
<1> QED BY <1>9 DEF i, F

\* One more element, behind all others.
LEMMA NthBehind ==
    ASSUME NEW E \in SUBSET Nat, IsFiniteSet(E), NEW m \in Nat, \A i \in E : i < m,
           NEW k \in 1 .. Cardinality(E)
    PROVE  Nth(E \cup {m}, k) = Nth(E, k)
<1> DEFINE F == E \cup {m}
           i == Nth(E, k)
<1>1. F \in SUBSET Nat /\ IsFiniteSet(F)
  BY FS_AddElement
<1>2. i \in E /\ Rank(E, i) = k /\ i \in F
  BY NthIn
<1> HIDE DEF i
<1>3. i < m /\ i \in Nat /\ ~(m <= i)
  BY <1>2
<1>4. Upto(F, i) = Upto(E, i)
  BY <1>3 DEF Upto
<1>5. Rank(F, i) = k
  BY <1>2, <1>4 DEF Rank
<1> HIDE DEF F
<1>6. Nth(F, k) = i
  BY <1>1, <1>2, <1>5, NthIs
<1> QED BY <1>6 DEF i, F

\* One more element, before all others.
LEMMA FirstBefore ==
    ASSUME NEW E \in SUBSET Nat, IsFiniteSet(E), NEW m \in Nat, \A i \in E : m < i
    PROVE  Nth(E \cup {m}, 1) = m
<1> DEFINE F == E \cup {m}
<1>1. F \in SUBSET Nat /\ IsFiniteSet(F) /\ m \in F
  BY FS_AddElement
<1>2. Upto(F, m) = {m}
  <2>1. m <= m /\ \A x \in E : ~(x <= m)
    OBVIOUS
  <2> QED BY <2>1 DEF Upto
<1>3. Rank(F, m) = 1
  BY <1>2, FS_Singleton DEF Rank
<1> HIDE DEF F
<1>4. Nth(F, 1) = m
  BY <1>1, <1>3, NthIs
<1> QED BY <1>4 DEF F

\* One more element, before all others, takes the first rank: the others move by one.
LEMMA NthBefore ==
    ASSUME NEW E \in SUBSET Nat, IsFiniteSet(E), NEW m \in Nat, \A i \in E : m < i,
           NEW k \in 1 .. Cardinality(E)
    PROVE  Nth(E \cup {m}, k + 1) = Nth(E, k)
<1> DEFINE F == E \cup {m}
           i == Nth(E, k)
<1>1. F \in SUBSET Nat /\ IsFiniteSet(F)
  BY FS_AddElement
<1>2. i \in E /\ Rank(E, i) = k /\ i \in F
  BY NthIn
<1>3. m \notin E
  <2>1. ~(m < m)
    OBVIOUS
  <2> QED BY <2>1
<1> HIDE DEF i
<1>4. Upto(F, i) = Upto(E, i) \cup {m}
  BY <1>2 DEF Upto
<1>5. IsFiniteSet(Upto(E, i)) /\ m \notin Upto(E, i)
  <2>1. Upto(E, i) \in SUBSET E
    BY DEF Upto
  <2> QED BY <1>3, <2>1, FS_Subset
<1>6. Rank(F, i) = k + 1
  BY <1>2, <1>4, <1>5, FS_AddElement DEF Rank
<1> HIDE DEF F
<1>7. Nth(F, k + 1) = i
  BY <1>1, <1>2, <1>6, NthIs
<1> QED BY <1>7 DEF i, F

-----------------------------------------------------------------------------
(***************************************************************************)
(* The complete lines of a sequence of characters.                          *)
(***************************************************************************)
LineSet(S) == SeqOf(S, LineSize) \ {<<>>}

\* The same characters at other places of another sequence.
LEMMA SubSeqAgrees ==
    ASSUME NEW S, NEW s, NEW t, NEW a \in Int, NEW b \in Int, NEW d \in Int,
           \A i \in a .. b : t[i] \in S /\ s[i + d] = t[i]
    PROVE  SubSeq(s, a + d, b + d) = SubSeq(t, a, b)
<1> DEFINE x == SubSeq(s, a + d, b + d)
           y == SubSeq(t, a, b)
           n == IF a <= b THEN b - a + 1 ELSE 0
<1>1. \A i \in a .. b : t[i] \in S
  OBVIOUS
<1>2. y \in Seq(S) /\ Len(y) = n /\ \A i \in 1 .. b - a + 1 : y[i] = t[a + i - 1]
  BY <1>1, SubSeqProperties
<1>3. \A i \in a + d .. b + d : s[i] \in S
  <2> SUFFICES ASSUME NEW i \in a + d .. b + d PROVE s[i] \in S
    OBVIOUS
  <2>1. i - d \in a .. b /\ (i - d) + d = i
    OBVIOUS
  <2> QED BY <2>1
<1>4. /\ x \in Seq(S)
      /\ Len(x) = IF a + d <= b + d THEN (b + d) - (a + d) + 1 ELSE 0
      /\ \A i \in 1 .. (b + d) - (a + d) + 1 : x[i] = s[(a + d) + i - 1]
  <2>1. a + d \in Int /\ b + d \in Int
    OBVIOUS
  <2> QED BY <1>3, <2>1, SubSeqProperties
<1>5. Len(x) = n
  BY <1>4
<1>6. \A i \in 1 .. n : x[i] = y[i]
  <2> SUFFICES ASSUME NEW i \in 1 .. n PROVE x[i] = y[i]
    OBVIOUS
  <2>1. i \in 1 .. b - a + 1 /\ i \in 1 .. (b + d) - (a + d) + 1
    OBVIOUS
  <2>2. a + i - 1 \in a .. b /\ (a + i - 1) + d = (a + d) + i - 1
    BY <2>1
  <2>3. x[i] = s[(a + d) + i - 1] /\ y[i] = t[a + i - 1]
    BY <1>2, <1>4, <2>1
  <2>4. s[(a + i - 1) + d] = t[a + i - 1]
    BY <2>2
  <2> QED BY <2>2, <2>3, <2>4
<1> HIDE DEF x, y, n
<1>7. x = y
  BY <1>2, <1>4, <1>5, <1>6, SeqEqual
<1> QED BY <1>7 DEF x, y

\* The ends of the lines are a finite set of places.
LEMMA EndsOK ==
    ASSUME NEW S, NEW s \in Seq(S)
    PROVE  /\ Ends(s) \in SUBSET Nat /\ IsFiniteSet(Ends(s))
           /\ Cardinality(Ends(s)) \in Nat
           /\ \A i \in Ends(s) : i \in 1 .. Len(s)
<1>1. Len(s) \in Nat
  OBVIOUS
<1>2. Ends(s) \in SUBSET (1 .. Len(s)) /\ IsFiniteSet(1 .. Len(s))
  BY <1>1, FS_Interval DEF Ends
<1>3. IsFiniteSet(Ends(s))
  BY <1>2, FS_Subset
<1> QED BY <1>1, <1>2, <1>3, FS_CardinalityType

\* The lines end one behind the other.
LEMMA EndOfOK ==
    ASSUME NEW S, NEW s \in Seq(S)
    PROVE  /\ EndOf(s, 0) = 0
           /\ \A k \in 1 .. Cardinality(Ends(s)) :
                 /\ EndOf(s, k) \in Ends(s) /\ EndOf(s, k) = Nth(Ends(s), k)
                 /\ EndOf(s, k - 1) \in Nat /\ EndOf(s, k - 1) < EndOf(s, k)
           /\ EndOf(s, Cardinality(Ends(s))) \in 0 .. Len(s)
<1> DEFINE E == Ends(s)
           n == Cardinality(E)
<1>1. /\ E \in SUBSET Nat /\ IsFiniteSet(E) /\ n \in Nat
      /\ \A i \in E : i \in 1 .. Len(s)
  BY EndsOK
<1>2. Len(s) \in Nat
  OBVIOUS
<1>3. EndOf(s, 0) = 0
  BY DEF EndOf
<1>4. \A k \in 1 .. n : k # 0 /\ EndOf(s, k) = Nth(E, k)
  BY <1>1 DEF EndOf
<1> HIDE DEF E, n
<1>5. \A k \in 1 .. n : Nth(E, k) \in E /\ Rank(E, Nth(E, k)) = k
  BY <1>1, NthIn DEF n
<1>6. ASSUME NEW k \in 1 .. n
      PROVE  /\ EndOf(s, k) \in E /\ EndOf(s, k - 1) \in Nat
             /\ EndOf(s, k - 1) < EndOf(s, k)
  <2>1. EndOf(s, k) \in E /\ EndOf(s, k) \in Nat \ {0} /\ Rank(E, EndOf(s, k)) = k
    <3>1. EndOf(s, k) = Nth(E, k) /\ Nth(E, k) \in E /\ Rank(E, Nth(E, k)) = k
      BY <1>4, <1>5
    <3>2. \A i \in E : i \in Nat \ {0}
      BY <1>1, <1>2
    <3> QED BY <3>1, <3>2
  <2>2. CASE k = 1
    BY <1>3, <2>1, <2>2
  <2>3. CASE k # 1
    <3> DEFINE a == EndOf(s, k - 1)
               b == EndOf(s, k)
    <3>1. k - 1 \in 1 .. n
      BY <1>1, <2>3
    <3>2. a \in E /\ Rank(E, a) = k - 1 /\ a \in Nat
      BY <1>1, <1>4, <1>5, <3>1
    <3>3. b \in E /\ Rank(E, b) = k /\ b \in Nat
      BY <2>1
    <3> HIDE DEF a, b
    <3>4. b < a => Rank(E, b) < Rank(E, a)
      BY <1>1, <3>2, <3>3, Ranks
    <3>5. a < b
      <4>1. a # b /\ ~(k < k - 1)
        BY <1>1, <3>2, <3>3
      <4> QED BY <3>2, <3>3, <3>4, <4>1
    <3> QED BY <2>1, <3>2, <3>5 DEF a, b
  <2> QED BY <2>2, <2>3
<1>7. EndOf(s, n) \in 0 .. Len(s)
  <2>1. CASE n = 0
    BY <1>2, <1>3, <2>1
  <2>2. CASE n # 0
    <3>1. n \in 1 .. n
      BY <1>1, <2>2
    <3>2. EndOf(s, n) \in E
      BY <1>6, <3>1
    <3>3. EndOf(s, n) \in 1 .. Len(s)
      BY <1>1, <3>2
    <3> QED BY <1>2, <3>3
  <2> QED BY <2>1, <2>2
<1> QED BY <1>3, <1>4, <1>6, <1>7 DEF E, n

\* A line that is cut is not longer than the buffer, and not empty.
LEMMA CutTyped ==
    ASSUME NEW S, NEW q \in Seq(S), q # <<>>, Eol \in S
    PROVE  Cut(q) \in LineSet(S)
<1>0. LineSize \in Nat \ {0} /\ Len(q) \in Nat \ {0}
  BY SizeAssumption, EmptySeq
<1>1. \A x \in Seq(S) : Len(x) \in 1 .. LineSize => x \in LineSet(S)
  <2> SUFFICES ASSUME NEW x \in Seq(S), Len(x) \in 1 .. LineSize PROVE x \in LineSet(S)
    OBVIOUS
  <2>1. x \in [1 .. Len(x) -> S] /\ x # <<>> /\ Len(x) \in 0 .. LineSize
    BY <1>0, LenProperties
  <2> QED BY <2>1 DEF LineSet, SeqOf
<1>2. CASE Len(q) <= LineSize
  BY <1>0, <1>1, <1>2 DEF Cut
<1>3. CASE Len(q) > LineSize
  <2> DEFINE x == SubSeq(q, 1, LineSize - 1)
  <2>1. x \in Seq(S) /\ Len(x) = LineSize - 1
    <3>1. \A i \in 1 .. LineSize - 1 : q[i] \in S
      BY <1>0, <1>3, ElementOfSeq
    <3>2. LineSize - 1 \in Int /\ 1 \in Int
      BY <1>0
    <3>3. x \in Seq(S) /\ Len(x) = IF 1 <= LineSize - 1 THEN (LineSize - 1) - 1 + 1 ELSE 0
      BY <3>1, <3>2, SubSeqProperties
    <3> QED BY <1>0, <3>3
  <2> HIDE DEF x
  <2>2. Append(x, Eol) \in Seq(S) /\ Len(Append(x, Eol)) = LineSize
    BY <1>0, <2>1, AppendProperties
  <2>3. Cut(q) = Append(x, Eol)
    BY <1>0, <1>3 DEF Cut, x
  <2>4. Len(Append(x, Eol)) \in 1 .. LineSize
    BY <1>0, <2>2
  <2>5. Append(x, Eol) \in LineSet(S)
    BY <1>1, <2>2, <2>4
  <2> QED BY <2>3, <2>5
<1> QED BY <1>0, <1>2, <1>3

\* The lines between two ends are sequences of characters.
LEMMA LineTyped ==
    ASSUME NEW S, NEW s \in Seq(S), NEW a \in Nat, NEW b \in Ends(s), a < b
    PROVE  Cut(SubSeq(s, a + 1, b)) \in LineSet(S)
<1>1. b \in 1 .. Len(s) /\ s[b] = Eol /\ Len(s) \in Nat
  BY DEF Ends
<1>2. Eol \in S
  BY <1>1, ElementOfSeq
<1>3. \A i \in a + 1 .. b : s[i] \in S
  BY <1>1, ElementOfSeq
<1>4. SubSeq(s, a + 1, b) \in Seq(S) /\ Len(SubSeq(s, a + 1, b)) = b - a
  <2>1. a + 1 \in Int /\ b \in Int /\ a + 1 <= b /\ b - (a + 1) + 1 = b - a
    BY <1>1
  <2> QED BY <1>3, <2>1, SubSeqProperties
<1>5. SubSeq(s, a + 1, b) # <<>>
  BY <1>1, <1>4
<1> QED BY <1>2, <1>4, <1>5, CutTyped

\* The complete lines of a sequence.
LEMMA LinesTyped ==
    ASSUME NEW S, NEW s \in Seq(S)
    PROVE  /\ CompleteLines(s) \in Seq(LineSet(S))
           /\ Len(CompleteLines(s)) = Cardinality(Ends(s))
           /\ \A k \in 1 .. Cardinality(Ends(s)) :
                 CompleteLines(s)[k] = Cut(SubSeq(s, EndOf(s, k - 1) + 1, EndOf(s, k)))
<1> DEFINE n == Cardinality(Ends(s))
           e(k) == Cut(SubSeq(s, EndOf(s, k - 1) + 1, EndOf(s, k)))
<1>1. n \in Nat
  BY EndsOK
<1>2. \A k \in 1 .. n : e(k) \in LineSet(S)
  BY EndOfOK, LineTyped
<1>3. CompleteLines(s) = [k \in 1 .. n |-> e(k)]
  BY DEF CompleteLines
<1> HIDE DEF n, e
<1>4. CompleteLines(s) \in Seq(LineSet(S)) /\ Len(CompleteLines(s)) = n
  BY <1>1, <1>2, <1>3
<1>5. \A k \in 1 .. n : CompleteLines(s)[k] = e(k)
  BY <1>3
<1> QED BY <1>4, <1>5 DEF n, e

\* A character that ends no line does not change the complete lines.
LEMMA MoreOfALine ==
    ASSUME NEW S, NEW s \in Seq(S), NEW c \in S, c # Eol
    PROVE  CompleteLines(Append(s, c)) = CompleteLines(s)
<1> DEFINE t == Append(s, c)
           n == Cardinality(Ends(s))
<1>1. /\ t \in Seq(S) /\ Len(t) = Len(s) + 1 /\ Len(s) \in Nat
      /\ (\A i \in 1 .. Len(s) : t[i] = s[i]) /\ t[Len(s) + 1] = c
  BY AppendProperties, LenProperties
<1> HIDE DEF t
<1>2. Ends(t) = Ends(s)
  <2>1. \A i : i \in Ends(t) <=> i \in Ends(s)
    BY <1>1 DEF Ends
  <2> QED BY <2>1
<1>3. \A k : EndOf(t, k) = EndOf(s, k)
  BY <1>2 DEF EndOf
<1>4. ASSUME NEW k \in 1 .. n
      PROVE  CompleteLines(t)[k] = CompleteLines(s)[k]
  <2> DEFINE a == EndOf(s, k - 1)
             b == EndOf(s, k)
  <2>1. a \in Nat /\ b \in 1 .. Len(s)
    BY EndOfOK, EndsOK
  <2> HIDE DEF a, b
  <2>2. \A i \in a + 1 .. b : s[i] \in S /\ t[i + 0] = s[i]
    BY <1>1, <2>1, ElementOfSeq
  <2>3. a + 1 \in Int /\ b \in Int /\ 0 \in Int /\ (a + 1) + 0 = a + 1 /\ b + 0 = b
    BY <1>1, <2>1
  <2>4. SubSeq(t, (a + 1) + 0, b + 0) = SubSeq(s, a + 1, b)
    BY <2>2, <2>3, SubSeqAgrees
  <2>5. SubSeq(t, a + 1, b) = SubSeq(s, a + 1, b)
    BY <2>3, <2>4
  <2>6. CompleteLines(s)[k] = Cut(SubSeq(s, a + 1, b))
    BY LinesTyped DEF a, b
  <2>7. CompleteLines(t)[k] = Cut(SubSeq(t, EndOf(t, k - 1) + 1, EndOf(t, k)))
    BY <1>1, <1>2, LinesTyped
  <2>8. CompleteLines(t)[k] = Cut(SubSeq(t, a + 1, b))
    BY <1>3, <2>7 DEF a, b
  <2> QED BY <2>5, <2>6, <2>8
<1>5. /\ CompleteLines(s) \in Seq(LineSet(S)) /\ CompleteLines(t) \in Seq(LineSet(S))
      /\ Len(CompleteLines(s)) = n /\ Len(CompleteLines(t)) = n
  BY <1>1, <1>2, LinesTyped
<1>6. CompleteLines(t) = CompleteLines(s)
  BY <1>4, <1>5, SeqEqual
<1> QED BY <1>6 DEF t

\* The end of a line adds one line behind the others.
LEMMA OneMoreLine ==
    ASSUME NEW S, NEW s \in Seq(S), Eol \in S
    PROVE  \E l \in LineSet(S) : CompleteLines(Append(s, Eol)) = Append(CompleteLines(s), l)
<1> DEFINE t == Append(s, Eol)
           n == Cardinality(Ends(s))
           l == CompleteLines(t)[n + 1]
<1>1. /\ t \in Seq(S) /\ Len(t) = Len(s) + 1 /\ Len(s) \in Nat
      /\ (\A i \in 1 .. Len(s) : t[i] = s[i]) /\ t[Len(s) + 1] = Eol
  BY AppendProperties, LenProperties
<1> HIDE DEF t
<1>2. Ends(t) = Ends(s) \cup {Len(s) + 1}
  <2>1. \A i : i \in Ends(t) <=> i \in Ends(s) \/ i = Len(s) + 1
    BY <1>1 DEF Ends
  <2> QED BY <2>1
<1>3. /\ Ends(s) \in SUBSET Nat /\ IsFiniteSet(Ends(s)) /\ n \in Nat
      /\ \A i \in Ends(s) : i \in 1 .. Len(s)
  BY EndsOK
<1>4. /\ Cardinality(Ends(t)) = n + 1
      /\ \A k \in 1 .. n : Nth(Ends(t), k) = Nth(Ends(s), k)
  <2> DEFINE m == Len(s) + 1
             E == Ends(s)
  <2>1. m \in Nat /\ (\A i \in E : i < m) /\ Ends(t) = E \cup {m} /\ E \in SUBSET Nat /\ IsFiniteSet(E)
    BY <1>1, <1>2, <1>3
  <2>2. m \notin E
    <3>1. ~(m < m)
      BY <1>1
    <3> QED BY <2>1, <3>1
  <2> HIDE DEF m, E
  <2>3. Cardinality(E \cup {m}) = Cardinality(E) + 1
    BY <2>1, <2>2, FS_AddElement
  <2>4. \A k \in 1 .. Cardinality(E) : Nth(E \cup {m}, k) = Nth(E, k)
    BY <2>1, NthBehind
  <2> QED BY <2>1, <2>3, <2>4 DEF E
<1>5. \A k \in 0 .. n : EndOf(t, k) = EndOf(s, k)
  BY <1>3, <1>4 DEF EndOf
<1>6. ASSUME NEW k \in 1 .. n
      PROVE  CompleteLines(t)[k] = CompleteLines(s)[k]
  <2> DEFINE a == EndOf(s, k - 1)
             b == EndOf(s, k)
  <2>1. a \in Nat /\ b \in 1 .. Len(s)
    BY EndOfOK, EndsOK
  <2>0. k \in 0 .. n /\ k - 1 \in 0 .. n /\ k \in 1 .. n + 1
    BY <1>3
  <2>9. EndOf(t, k - 1) = a /\ EndOf(t, k) = b
    BY <1>5, <2>0
  <2>6. CompleteLines(s)[k] = Cut(SubSeq(s, a + 1, b))
    BY LinesTyped
  <2>7. CompleteLines(t)[k] = Cut(SubSeq(t, EndOf(t, k - 1) + 1, EndOf(t, k)))
    BY <1>1, <1>4, <2>0, LinesTyped
  <2>8. CompleteLines(t)[k] = Cut(SubSeq(t, a + 1, b))
    BY <2>7, <2>9
  <2> HIDE DEF a, b
  <2>2. \A i \in a + 1 .. b : s[i] \in S /\ t[i + 0] = s[i]
    BY <1>1, <2>1, ElementOfSeq
  <2>3. a + 1 \in Int /\ b \in Int /\ 0 \in Int /\ (a + 1) + 0 = a + 1 /\ b + 0 = b
    BY <1>1, <2>1
  <2>4. SubSeq(t, (a + 1) + 0, b + 0) = SubSeq(s, a + 1, b)
    BY <2>2, <2>3, SubSeqAgrees
  <2>5. SubSeq(t, a + 1, b) = SubSeq(s, a + 1, b)
    BY <2>3, <2>4
  <2> QED BY <2>5, <2>6, <2>8
<1>7. /\ CompleteLines(s) \in Seq(LineSet(S)) /\ CompleteLines(t) \in Seq(LineSet(S))
      /\ Len(CompleteLines(s)) = n /\ Len(CompleteLines(t)) = n + 1
  BY <1>1, <1>4, LinesTyped
<1>8. l \in LineSet(S)
  <2>1. n + 1 \in 1 .. Len(CompleteLines(t))
    BY <1>3, <1>7
  <2> QED BY <1>7, <2>1, ElementOfSeq
<1> HIDE DEF n
<1>9. CompleteLines(t) = Append(CompleteLines(s), l)
  <2> DEFINE L == CompleteLines(s)
             M == CompleteLines(t)
  <2> HIDE DEF L, M, l
  <2>1. /\ L \in Seq(LineSet(S)) /\ M \in Seq(LineSet(S)) /\ Len(L) = n /\ Len(M) = n + 1
        /\ \A k \in 1 .. n : M[k] = L[k]
    BY <1>6, <1>7 DEF L, M
  <2>2. M[n + 1] = l /\ n \in Nat
    BY <1>3 DEF M, l, n
  <2>3. /\ Append(L, l) \in Seq(LineSet(S)) /\ Len(Append(L, l)) = n + 1
        /\ (\A i \in 1 .. n : Append(L, l)[i] = L[i]) /\ Append(L, l)[n + 1] = l
    BY <1>8, <2>1, AppendProperties
  <2>4. \A i \in 1 .. n + 1 : M[i] = Append(L, l)[i]
    <3> SUFFICES ASSUME NEW i \in 1 .. n + 1 PROVE M[i] = Append(L, l)[i]
      OBVIOUS
    <3>1. i \in 1 .. n \/ i = n + 1
      BY <2>2
    <3> QED BY <2>1, <2>2, <2>3, <3>1
  <2>5. M = Append(L, l)
    BY <2>1, <2>3, <2>4, SeqEqual
  <2> QED BY <2>5 DEF L, M
<1> QED BY <1>8, <1>9 DEF t

\* The first line of a sequence of characters, and the others.
LEMMA FirstLine ==
    ASSUME NEW S, Eol \in S, NEW p \in Seq(S), \A i \in 1 .. Len(p) : p[i] # Eol,
           NEW w \in Seq(S)
    PROVE  CompleteLines(Append(p, Eol) \o w) = <<Cut(Append(p, Eol))>> \o CompleteLines(w)
<1> DEFINE m == Len(p) + 1
           q == Append(p, Eol)
           s == q \o w
           E == Ends(w)
           D == {i + m : i \in E}
           n == Cardinality(E)
<1>1. /\ q \in Seq(S) /\ Len(q) = m /\ m \in Nat \ {0} /\ q[m] = Eol
      /\ \A i \in 1 .. m - 1 : q[i] # Eol
  <2>1. q \in Seq(S) /\ Len(q) = Len(p) + 1 /\ q[Len(p) + 1] = Eol
        /\ (\A i \in 1 .. Len(p) : q[i] = p[i]) /\ Len(p) \in Nat
    BY AppendProperties, LenProperties
  <2> QED BY <2>1
<1> HIDE DEF q, m
<1>2. /\ s \in Seq(S) /\ Len(s) = m + Len(w) /\ Len(w) \in Nat
      /\ \A i \in 1 .. m + Len(w) : s[i] = IF i <= m THEN q[i] ELSE w[i - m]
  <2>1. /\ s \in Seq(S) /\ Len(s) = Len(q) + Len(w)
        /\ \A i \in 1 .. Len(q) + Len(w) : s[i] = IF i <= Len(q) THEN q[i] ELSE w[i - Len(q)]
    BY <1>1, ConcatProperties
  <2> HIDE DEF s
  <2>2. Len(w) \in Nat
    BY LenProperties
  <2> QED BY <1>1, <2>1, <2>2
<1> HIDE DEF s
<1>3. /\ E \in SUBSET Nat /\ IsFiniteSet(E) /\ n \in Nat
      /\ \A i \in E : i \in 1 .. Len(w)
  BY EndsOK
<1>4. Ends(s) = D \cup {m}
  <2>1. ASSUME NEW i \in 1 .. m + Len(w), s[i] = Eol PROVE i \in D \cup {m}
    <3>1. CASE i = m
      BY <3>1
    <3>2. CASE i < m
      <4>1. i \in 1 .. m - 1 /\ i <= m
        BY <1>1, <3>2
      <4> QED BY <1>1, <1>2, <2>1, <4>1
    <3>3. CASE i > m
      <4>1. i - m \in 1 .. Len(w) /\ ~(i <= m) /\ (i - m) + m = i
        BY <1>1, <1>2, <3>3
      <4>2. w[i - m] = Eol
        BY <1>2, <2>1, <4>1
      <4>3. i - m \in E
        BY <4>1, <4>2 DEF Ends
      <4> QED BY <4>1, <4>3
    <3> QED BY <1>1, <1>2, <3>1, <3>2, <3>3
  <2>2. ASSUME NEW i \in D PROVE i \in 1 .. m + Len(w) /\ s[i] = Eol
    <3>1. PICK j \in E : i = j + m
      OBVIOUS
    <3>2. j \in 1 .. Len(w) /\ w[j] = Eol
      BY DEF Ends
    <3>3. i \in 1 .. m + Len(w) /\ ~(i <= m) /\ i - m = j
      BY <1>1, <1>2, <3>1, <3>2
    <3>4. s[i] = w[j]
      BY <1>2, <3>3
    <3> QED BY <3>2, <3>3, <3>4
  <2>3. m \in 1 .. m + Len(w) /\ s[m] = Eol
    BY <1>1, <1>2
  <2> HIDE DEF D
  <2> QED BY <1>2, <2>1, <2>2, <2>3 DEF Ends
<1>5. /\ D \in SUBSET Nat /\ IsFiniteSet(D) /\ Cardinality(D) = n
      /\ \A i \in D : m < i
  <2>1. D \in SUBSET Nat /\ \A i \in D : m < i
    BY <1>1, <1>3
  <2>2. IsFiniteSet(D) /\ Cardinality(D) = n
    BY <1>1, <1>3, MovedCount
  <2> QED BY <2>1, <2>2
<1>6. \A k \in 1 .. n : Nth(D, k) = Nth(E, k) + m
  BY <1>1, <1>3, NthMoved
<1> HIDE DEF D
<1>7. /\ Cardinality(Ends(s)) = n + 1
      /\ Nth(Ends(s), 1) = m
      /\ \A k \in 1 .. n : Nth(Ends(s), k + 1) = Nth(D, k)
  <2>1. m \notin D
    <3>1. ~(m < m)
      BY <1>1
    <3> QED BY <1>5, <3>1
  <2>2. Cardinality(D \cup {m}) = n + 1
    BY <1>5, <2>1, FS_AddElement
  <2>3. Nth(D \cup {m}, 1) = m
    BY <1>1, <1>5, FirstBefore
  <2>4. \A k \in 1 .. n : Nth(D \cup {m}, k + 1) = Nth(D, k)
    <3>1. \A k \in 1 .. Cardinality(D) : Nth(D \cup {m}, k + 1) = Nth(D, k)
      BY <1>1, <1>5, NthBefore
    <3> QED BY <1>5, <3>1
  <2> QED BY <1>4, <2>2, <2>3, <2>4
<1>8. EndOf(s, 0) = 0 /\ \A k \in 0 .. n : EndOf(s, k + 1) = EndOf(w, k) + m
  <2>1. EndOf(s, 0) = 0
    BY DEF EndOf
  <2>2. ASSUME NEW k \in 0 .. n PROVE EndOf(s, k + 1) = EndOf(w, k) + m
    <3>1. k + 1 # 0 /\ EndOf(s, k + 1) = Nth(Ends(s), k + 1)
      BY DEF EndOf
    <3>2. CASE k = 0
      <4>1. EndOf(w, k) = 0 /\ k + 1 = 1
        BY <3>2 DEF EndOf
      <4> QED BY <1>1, <1>7, <3>1, <4>1
    <3>3. CASE k # 0
      <4>1. k \in 1 .. n /\ EndOf(w, k) = Nth(E, k)
        BY <3>3 DEF EndOf
      <4> QED BY <1>6, <1>7, <3>1, <4>1
    <3> QED BY <3>2, <3>3
  <2> QED BY <2>1, <2>2
<1>9. /\ CompleteLines(s) \in Seq(LineSet(S)) /\ CompleteLines(w) \in Seq(LineSet(S))
      /\ Len(CompleteLines(s)) = n + 1 /\ Len(CompleteLines(w)) = n
  BY <1>2, <1>7, LinesTyped
<1>10. CompleteLines(s)[1] = Cut(q)
  <2>1. 1 \in 1 .. Cardinality(Ends(s)) /\ 1 - 1 = 0 /\ 0 \in 0 .. n
    BY <1>3, <1>7
  <2>2. EndOf(s, 1) = m
    <3>1. EndOf(w, 0) = 0 /\ 0 + 1 = 1
      BY DEF EndOf
    <3> QED BY <1>1, <1>8, <2>1, <3>1
  <2>3. CompleteLines(s)[1] = Cut(SubSeq(s, EndOf(s, 1 - 1) + 1, EndOf(s, 1)))
    BY <1>2, <2>1, LinesTyped
  <2>4. EndOf(s, 1 - 1) = 0 /\ 0 + 1 = 1
    BY <1>8, <2>1
  <2>5. CompleteLines(s)[1] = Cut(SubSeq(s, 1, m))
    BY <2>2, <2>3, <2>4
  <2>6. \A i \in 1 .. m : q[i] \in S /\ s[i + 0] = q[i]
    BY <1>1, <1>2, ElementOfSeq
  <2>7. 1 \in Int /\ m \in Int /\ 0 \in Int /\ 1 + 0 = 1 /\ m + 0 = m
    BY <1>1
  <2>8. SubSeq(s, 1 + 0, m + 0) = SubSeq(q, 1, m)
    BY <2>6, <2>7, SubSeqAgrees
  <2>9. SubSeq(q, 1, m) = q
    BY <1>1, SubSeqFull
  <2>10. SubSeq(s, 1, m) = q
    BY <2>7, <2>8, <2>9
  <2> QED BY <2>5, <2>10
<1>11. ASSUME NEW k \in 1 .. n PROVE CompleteLines(s)[k + 1] = CompleteLines(w)[k]
  <2> DEFINE a == EndOf(w, k - 1)
             b == EndOf(w, k)
  <2>1. a \in Nat /\ b \in 1 .. Len(w)
    BY <1>3, EndOfOK
  <2>2. k \in 0 .. n /\ k - 1 \in 0 .. n /\ k + 1 \in 1 .. n + 1 /\ (k + 1) - 1 = k /\ (k - 1) + 1 = k
    BY <1>3
  <2>3. EndOf(s, k) = a + m /\ EndOf(s, k + 1) = b + m
    BY <1>8, <2>2
  <2>4. CompleteLines(w)[k] = Cut(SubSeq(w, a + 1, b))
    BY LinesTyped
  <2>5. CompleteLines(s)[k + 1] = Cut(SubSeq(s, EndOf(s, (k + 1) - 1) + 1, EndOf(s, k + 1)))
    BY <1>2, <1>7, <2>2, LinesTyped
  <2>6. CompleteLines(s)[k + 1] = Cut(SubSeq(s, (a + m) + 1, b + m))
    BY <2>2, <2>3, <2>5
  <2> HIDE DEF a, b
  <2>7. \A i \in a + 1 .. b : w[i] \in S /\ s[i + m] = w[i]
    <3> SUFFICES ASSUME NEW i \in a + 1 .. b PROVE w[i] \in S /\ s[i + m] = w[i]
      OBVIOUS
    <3>1. i \in 1 .. Len(w) /\ i + m \in 1 .. m + Len(w) /\ ~(i + m <= m) /\ (i + m) - m = i
      BY <1>1, <1>2, <2>1
    <3> QED BY <1>2, <3>1, ElementOfSeq
  <2>8. a + 1 \in Int /\ b \in Int /\ m \in Int /\ (a + 1) + m = (a + m) + 1
    BY <1>1, <2>1
  <2>9. SubSeq(s, (a + 1) + m, b + m) = SubSeq(w, a + 1, b)
    <3> DEFINE c == a + 1
    <3>1. c \in Int /\ b \in Int /\ m \in Int /\ \A i \in c .. b : w[i] \in S /\ s[i + m] = w[i]
      BY <2>7, <2>8
    <3> HIDE DEF c
    <3>2. SubSeq(s, c + m, b + m) = SubSeq(w, c, b)
      BY <3>1, SubSeqAgrees
    <3> QED BY <3>2 DEF c
  <2> QED BY <2>4, <2>6, <2>8, <2>9
<1> HIDE DEF n, E
<1>12. CompleteLines(s) = <<Cut(q)>> \o CompleteLines(w)
  <2> DEFINE L == CompleteLines(s)
             M == CompleteLines(w)
             l == Cut(q)
             T == LineSet(S)
  <2>1. n \in Nat /\ L \in Seq(T) /\ M \in Seq(T) /\ Len(L) = n + 1 /\ Len(M) = n
    BY <1>3, <1>9
  <2>2. L[1] = l /\ \A k \in 1 .. n : L[k + 1] = M[k]
    BY <1>10, <1>11
  <2> HIDE DEF L, M, l, T
  <2>3. l \in T
    <3>1. 1 \in 1 .. Len(L)
      BY <2>1
    <3> QED BY <2>1, <2>2, <3>1, ElementOfSeq
  <2>4. /\ <<l>> \o M \in Seq(T) /\ Len(<<l>> \o M) = n + 1
        /\ \A i \in 1 .. n + 1 : (<<l>> \o M)[i] = IF i <= 1 THEN l ELSE M[i - 1]
    <3>1. <<l>> \in Seq(T) /\ Len(<<l>>) = 1 /\ <<l>>[1] = l
      BY <2>3
    <3> HIDE DEF l
    <3>2. /\ <<l>> \o M \in Seq(T) /\ Len(<<l>> \o M) = Len(<<l>>) + Len(M)
          /\ \A i \in 1 .. Len(<<l>>) + Len(M) : (<<l>> \o M)[i] =
                IF i <= Len(<<l>>) THEN <<l>>[i] ELSE M[i - Len(<<l>>)]
      BY <2>1, <3>1, ConcatProperties
    <3>3. \A i \in 1 .. n + 1 : i <= 1 => i = 1
      BY <2>1
    <3> QED BY <2>1, <3>1, <3>2, <3>3
  <2>5. \A i \in 1 .. n + 1 : L[i] = (<<l>> \o M)[i]
    <3> SUFFICES ASSUME NEW i \in 1 .. n + 1 PROVE L[i] = (<<l>> \o M)[i]
      OBVIOUS
    <3>1. CASE i = 1
      BY <2>2, <2>4, <3>1
    <3>2. CASE i # 1
      <4>1. i - 1 \in 1 .. n /\ (i - 1) + 1 = i /\ ~(i <= 1)
        BY <2>1, <3>2
      <4>2. L[i] = M[i - 1]
        BY <2>2, <4>1
      <4> QED BY <2>4, <4>1, <4>2
    <3> QED BY <3>1, <3>2
  <2>6. L = <<l>> \o M
    BY <2>1, <2>4, <2>5, SeqEqual
  <2> QED BY <2>6 DEF L, M, l
<1> QED BY <1>12 DEF s, q

\* Lines that begin with the same characters, as many as the buffer has cells, are
\* the same when cut.
LEMMA SameCut ==
    ASSUME NEW S, NEW x \in Seq(S), NEW y \in Seq(S), Len(x) > LineSize, Len(y) > LineSize,
           \A i \in 1 .. LineSize : x[i] = y[i]
    PROVE  Cut(x) = Cut(y)
<1>1. LineSize \in Nat \ {0} /\ Len(x) \in Nat /\ Len(y) \in Nat
  BY SizeAssumption, LenProperties
<1>2. \A i \in 1 .. LineSize - 1 : y[i] \in S /\ x[i + 0] = y[i]
  <2> SUFFICES ASSUME NEW i \in 1 .. LineSize - 1 PROVE y[i] \in S /\ x[i + 0] = y[i]
    OBVIOUS
  <2>1. i \in 1 .. LineSize /\ i \in 1 .. Len(y) /\ i + 0 = i
    BY <1>1
  <2> QED BY <2>1, ElementOfSeq
<1>3. SubSeq(x, 1, LineSize - 1) = SubSeq(y, 1, LineSize - 1)
  <2> DEFINE b == LineSize - 1
  <2>1. 1 \in Int /\ b \in Int /\ 0 \in Int /\ 1 + 0 = 1 /\ b + 0 = b
    BY <1>1
  <2>2. \A i \in 1 .. b : y[i] \in S /\ x[i + 0] = y[i]
    BY <1>2
  <2> HIDE DEF b
  <2>3. SubSeq(x, 1 + 0, b + 0) = SubSeq(y, 1, b)
    BY <2>1, <2>2, SubSeqAgrees
  <2>4. SubSeq(x, 1, b) = SubSeq(y, 1, b)
    BY <2>1, <2>3
  <2> QED BY <2>4 DEF b
<1>4. ~(Len(x) <= LineSize) /\ ~(Len(y) <= LineSize)
  BY <1>1
<1> QED BY <1>3, <1>4, Zenon DEF Cut

\* A character that finds the buffer full changes no line.
LEMMA Dropped ==
    ASSUME NEW S, NEW p \in Seq(S), Len(p) = LineSize, \A i \in 1 .. Len(p) : p[i] # Eol,
           NEW c \in S, c # Eol, NEW w \in Seq(S)
    PROVE  CompleteLines(Append(p, c) \o w) = CompleteLines(p \o w)
<1> DEFINE N == LineSize
           r == Append(p, c)
           s == r \o w
           t == p \o w
           E == Ends(t)
           n == Cardinality(E)
<1>0. N \in Nat \ {0} /\ Len(w) \in Nat
  BY SizeAssumption, LenProperties
<1>1. /\ r \in Seq(S) /\ Len(r) = N + 1 /\ r[N + 1] = c
      /\ \A i \in 1 .. N : r[i] = p[i]
  BY AppendProperties
<1> HIDE DEF r
<1>2. /\ t \in Seq(S) /\ Len(t) = N + Len(w)
      /\ \A i \in 1 .. N + Len(w) : t[i] = IF i <= N THEN p[i] ELSE w[i - N]
  <2>1. /\ t \in Seq(S) /\ Len(t) = Len(p) + Len(w)
        /\ \A i \in 1 .. Len(p) + Len(w) : t[i] = IF i <= Len(p) THEN p[i] ELSE w[i - Len(p)]
    BY ConcatProperties
  <2> HIDE DEF t
  <2> QED BY <2>1
<1>3. /\ s \in Seq(S) /\ Len(s) = N + Len(w) + 1
      /\ \A i \in 1 .. N + Len(w) + 1 : s[i] = IF i <= N + 1 THEN r[i] ELSE w[i - (N + 1)]
  <2>1. /\ s \in Seq(S) /\ Len(s) = Len(r) + Len(w)
        /\ \A i \in 1 .. Len(r) + Len(w) : s[i] = IF i <= Len(r) THEN r[i] ELSE w[i - Len(r)]
    BY <1>1, ConcatProperties
  <2> HIDE DEF s
  <2>2. N + 1 + Len(w) = N + Len(w) + 1
    BY <1>0
  <2> QED BY <1>0, <1>1, <2>1, <2>2
<1> HIDE DEF s, t, N
<1>4. \A i \in 1 .. N : s[i] = p[i] /\ t[i] = p[i]
  <2> SUFFICES ASSUME NEW i \in 1 .. N PROVE s[i] = p[i] /\ t[i] = p[i]
    OBVIOUS
  <2>1. i \in 1 .. N + Len(w) /\ i \in 1 .. N + Len(w) + 1 /\ i <= N /\ i <= N + 1
    BY <1>0
  <2> QED BY <1>1, <1>2, <1>3, <2>1
<1>5. s[N + 1] = c
  <2>1. N + 1 \in 1 .. N + Len(w) + 1 /\ N + 1 <= N + 1
    BY <1>0
  <2> QED BY <1>1, <1>3, <2>1
<1>6. \A i \in N + 1 .. N + Len(w) : s[i + 1] = t[i]
  <2> SUFFICES ASSUME NEW i \in N + 1 .. N + Len(w) PROVE s[i + 1] = t[i]
    OBVIOUS
  <2>1. i \in 1 .. N + Len(w) /\ ~(i <= N) /\ i + 1 \in 1 .. N + Len(w) + 1 /\ ~(i + 1 <= N + 1)
        /\ (i + 1) - (N + 1) = i - N
    BY <1>0
  <2>2. t[i] = w[i - N]
    BY <1>2, <2>1
  <2>3. s[i + 1] = w[(i + 1) - (N + 1)]
    BY <1>3, <2>1
  <2> QED BY <2>1, <2>2, <2>3
<1>7. /\ E \in SUBSET Nat /\ IsFiniteSet(E) /\ n \in Nat
      /\ \A i \in E : i \in N + 1 .. N + Len(w)
  <2>1. /\ E \in SUBSET Nat /\ IsFiniteSet(E) /\ n \in Nat
        /\ \A i \in E : i \in 1 .. Len(t)
    BY <1>2, EndsOK
  <2>2. \A i \in E : t[i] = Eol
    BY DEF Ends
  <2>3. \A i \in 1 .. N : t[i] # Eol
    BY <1>4 DEF N
  <2> HIDE DEF E
  <2>4. \A i \in E : i \in N + 1 .. N + Len(w)
    BY <1>0, <1>2, <2>1, <2>2, <2>3
  <2> QED BY <2>1, <2>4
<1>8. Ends(s) = {i + 1 : i \in E}
  <2>1. ASSUME NEW i \in 1 .. N + Len(w) + 1, s[i] = Eol PROVE \E j \in E : i = j + 1
    <3>1. i # N + 1 /\ ~(i \in 1 .. N)
      BY <1>4, <1>5, <2>1 DEF N
    <3>2. i - 1 \in N + 1 .. N + Len(w) /\ (i - 1) + 1 = i /\ i - 1 \in 1 .. N + Len(w)
      BY <1>0, <3>1
    <3>3. t[i - 1] = Eol
      BY <1>6, <2>1, <3>2
    <3>4. i - 1 \in E
      BY <1>2, <3>2, <3>3 DEF Ends
    <3> QED BY <3>2, <3>4
  <2>2. ASSUME NEW j \in E PROVE j + 1 \in 1 .. N + Len(w) + 1 /\ s[j + 1] = Eol
    <3>1. j \in N + 1 .. N + Len(w) /\ t[j] = Eol
      BY <1>7 DEF Ends
    <3> QED BY <1>0, <1>6, <3>1
  <2> HIDE DEF E
  <2> QED BY <1>3, <2>1, <2>2 DEF Ends
<1> HIDE DEF E
<1>9. Cardinality(Ends(s)) = n
  <2>1. Cardinality({i + 1 : i \in E}) = Cardinality(E)
    BY <1>7, MovedCount
  <2> QED BY <1>8, <2>1
<1>10. \A k \in 1 .. n : Nth(Ends(s), k) = Nth(E, k) + 1
  BY <1>7, <1>8, NthMoved
<1>11. \A k \in 1 .. n : EndOf(s, k) = EndOf(t, k) + 1
  BY <1>7, <1>10 DEF EndOf, E
<1>12. /\ CompleteLines(s) \in Seq(LineSet(S)) /\ CompleteLines(t) \in Seq(LineSet(S))
       /\ Len(CompleteLines(s)) = n /\ Len(CompleteLines(t)) = n
  BY <1>2, <1>3, <1>9, LinesTyped DEF E
<1>13. ASSUME NEW k \in 1 .. n PROVE CompleteLines(s)[k] = CompleteLines(t)[k]
  <2> DEFINE a == EndOf(t, k - 1)
             b == EndOf(t, k)
             x == SubSeq(s, EndOf(s, k - 1) + 1, b + 1)
             y == SubSeq(t, a + 1, b)
  <2>1. b \in E /\ b \in N + 1 .. N + Len(w) /\ a \in Nat /\ a < b
    <3>1. EndOf(t, k) \in Ends(t) /\ EndOf(t, k - 1) \in Nat /\ EndOf(t, k - 1) < EndOf(t, k)
      BY <1>2, EndOfOK DEF E
    <3>2. b \in E
      BY <3>1 DEF E
    <3> QED BY <1>7, <3>1, <3>2
  <2>2. CompleteLines(t)[k] = Cut(y)
    BY <1>2, LinesTyped DEF E
  <2>3. CompleteLines(s)[k] = Cut(x)
    <3>1. CompleteLines(s)[k] = Cut(SubSeq(s, EndOf(s, k - 1) + 1, EndOf(s, k)))
      BY <1>3, <1>9, LinesTyped
    <3> QED BY <1>11, <3>1
  <2>4. CASE k = 1
    <3>1. k - 1 = 0 /\ EndOf(s, 0) = 0 /\ EndOf(t, 0) = 0 /\ 0 + 1 = 1
      BY <2>4 DEF EndOf
    <3>2. x = SubSeq(s, 1, b + 1) /\ y = SubSeq(t, 1, b)
      BY <3>1
    <3> HIDE DEF x, y, b
    <3>3. \A i \in 1 .. b + 1 : s[i] \in S
      BY <1>0, <1>3, <2>1, ElementOfSeq
    <3>4. \A i \in 1 .. b : t[i] \in S
      BY <1>0, <1>2, <2>1, ElementOfSeq
    <3>5. 1 \in Int /\ b \in Int /\ b + 1 \in Int /\ 1 <= b /\ 1 <= b + 1
      BY <1>0, <2>1
    <3>6. /\ x \in Seq(S) /\ Len(x) = (b + 1) - 1 + 1
          /\ \A i \in 1 .. (b + 1) - 1 + 1 : x[i] = s[1 + i - 1]
      BY <3>2, <3>3, <3>5, SubSeqProperties
    <3>7. /\ y \in Seq(S) /\ Len(y) = b - 1 + 1
          /\ \A i \in 1 .. b - 1 + 1 : y[i] = t[1 + i - 1]
      BY <3>2, <3>4, <3>5, SubSeqProperties
    <3>8. Len(x) > N /\ Len(y) > N
      BY <1>0, <2>1, <3>6, <3>7
    <3>9. \A i \in 1 .. N : x[i] = y[i]
      <4> SUFFICES ASSUME NEW i \in 1 .. N PROVE x[i] = y[i]
        OBVIOUS
      <4>1. i \in 1 .. (b + 1) - 1 + 1 /\ i \in 1 .. b - 1 + 1 /\ 1 + i - 1 = i
        BY <1>0, <2>1
      <4> QED BY <1>4, <3>6, <3>7, <4>1
    <3>10. Cut(x) = Cut(y)
      BY <3>6, <3>7, <3>8, <3>9, SameCut DEF N
    <3> QED BY <2>2, <2>3, <3>10
  <2>5. CASE k # 1
    <3>1. k - 1 \in 1 .. n
      BY <1>7, <2>5
    <3>2. a \in E /\ a \in N + 1 .. N + Len(w) /\ EndOf(s, k - 1) = a + 1
      <4>1. EndOf(t, k - 1) \in Ends(t)
        BY <1>2, <3>1, EndOfOK DEF E
      <4> QED BY <1>7, <1>11, <3>1, <4>1 DEF E
    <3>3. x = SubSeq(s, (a + 1) + 1, b + 1)
      BY <3>2
    <3> HIDE DEF a, b, x
    <3>4. \A i \in a + 1 .. b : t[i] \in S /\ s[i + 1] = t[i]
      <4> SUFFICES ASSUME NEW i \in a + 1 .. b PROVE t[i] \in S /\ s[i + 1] = t[i]
        OBVIOUS
      <4>1. i \in N + 1 .. N + Len(w) /\ i \in 1 .. N + Len(w)
        BY <1>0, <2>1, <3>2
      <4> QED BY <1>2, <1>6, <4>1, ElementOfSeq
    <3>5. SubSeq(s, (a + 1) + 1, b + 1) = SubSeq(t, a + 1, b)
      <4> DEFINE d == a + 1
      <4>1. d \in Int /\ b \in Int /\ 1 \in Int /\ \A i \in d .. b : t[i] \in S /\ s[i + 1] = t[i]
        BY <1>0, <2>1, <3>2, <3>4
      <4> HIDE DEF d
      <4>2. SubSeq(s, d + 1, b + 1) = SubSeq(t, d, b)
        BY <4>1, SubSeqAgrees
      <4> QED BY <4>2 DEF d
    <3> QED BY <2>2, <2>3, <3>3, <3>5
  <2> QED BY <2>4, <2>5
<1> HIDE DEF n
<1>14. CompleteLines(s) = CompleteLines(t)
  BY <1>12, <1>13, SeqEqual
<1> QED BY <1>14 DEF s, t, r

-----------------------------------------------------------------------------
(***************************************************************************)
(* What waits in rxbuffer.                                                  *)
(***************************************************************************)
\* The cell that is n cells from p on.
LEMMA CellAt ==
    ASSUME NEW p \in 0 .. RxSize - 1, NEW i \in 1 .. RxSize
    PROVE  (p + i - 1) % RxSize = Along(p, i - 1) /\ Along(p, i - 1) \in 0 .. RxSize - 1
<1> DEFINE n == p + i - 1
<1>0. RxSize \in Nat \ {0} /\ n \in Nat /\ n < RxSize + RxSize /\ n = p + (i - 1)
  BY SizeAssumption
<1> HIDE DEF n
<1>1. CASE n < RxSize
  <2>1. n % RxSize = n
    BY <1>0, <1>1
  <2> QED BY <1>0, <1>1, <2>1 DEF n, Along
<1>2. CASE n >= RxSize
  <2>1. n % RxSize = n - RxSize
    BY <1>0, <1>2
  <2> QED BY <1>0, <1>2, <2>1 DEF n, Along
<1> QED BY <1>0, <1>1, <1>2

\* What waits in rxbuffer, from rdptr on, is made of characters that were typed.
LEMMA RingWaiting ==
    ASSUME RingInv
    PROVE  /\ Waiting("rs232") = [i \in 1 .. rxbuflen |-> rxbuffer[Along(rdptr, i - 1)]]
           /\ Waiting("rs232") \in Seq(Chars) /\ Len(Waiting("rs232")) = rxbuflen
<1> DEFINE e == [i \in 1 .. rxbuflen |-> rxbuffer[Along(rdptr, i - 1)]]
<1>1. RxSize \in Nat \ {0} /\ rdptr \in 0 .. RxSize - 1 /\ rxbuflen \in 0 .. RxSize
  BY SizeAssumption DEF RingInv
<1>2. \A i \in 1 .. rxbuflen : (rdptr + i - 1) % RxSize = Along(rdptr, i - 1)
                               /\ Along(rdptr, i - 1) \in 0 .. RxSize - 1
  <2> SUFFICES ASSUME NEW i \in 1 .. rxbuflen
               PROVE  (rdptr + i - 1) % RxSize = Along(rdptr, i - 1)
                      /\ Along(rdptr, i - 1) \in 0 .. RxSize - 1
    OBVIOUS
  <2>1. i \in 1 .. RxSize
    BY <1>1
  <2> QED BY <1>1, <2>1, CellAt
<1>3. Waiting("rs232") = e
  <2>1. Waiting("rs232") = [i \in 1 .. rxbuflen |-> rxbuffer[(rdptr + i - 1) % RxSize]]
    BY DEF Waiting
  <2> QED BY <1>2, <2>1
<1>4. \A i \in 1 .. rxbuflen : rxbuffer[Along(rdptr, i - 1)] \in Chars
  <2> SUFFICES ASSUME NEW i \in 1 .. rxbuflen PROVE rxbuffer[Along(rdptr, i - 1)] \in Chars
    OBVIOUS
  <2> DEFINE a == Along(rdptr, i - 1)
  <2>1. a \in 0 .. RxSize - 1
    BY <1>2
  <2>2. Occupied(a)
    BY <1>1 DEF Occupied, Along
  <2> HIDE DEF a
  <2>3. rxbuffer[a] # NoChar /\ rxbuffer[a] \in Chars \cup {NoChar}
    BY <2>1, <2>2 DEF RingInv
  <2> QED BY <2>3 DEF a
<1>5. e \in Seq(Chars) /\ Len(e) = rxbuflen
  BY <1>1, <1>4
<1> QED BY <1>3, <1>5

\* The same of the next state.
WaitingCells ==
    /\ Waiting("rs232") = [i \in 1 .. rxbuflen |-> rxbuffer[Along(rdptr, i - 1)]]
    /\ Waiting("rs232") \in Seq(Chars) /\ Len(Waiting("rs232")) = rxbuflen

\* The same of the next state.
LEMMA RingWaitingNext == RingInv' => WaitingCells'
<1>1. RingInv => WaitingCells
  BY RingWaiting, Zenon DEF WaitingCells
<1> QED BY <1>1, PTL

\* A poll leaves what waits alone or adds one character.
LEMMA PollWaiting ==
    ASSUME DeviceInv, RingInv, Poll, UNCHANGED alphabet
    PROVE  \/ Waiting("rs232")' = Waiting("rs232")
           \/ \E c \in Chars : Waiting("rs232")' = Append(Waiting("rs232"), c)
<1>0. RingInv' /\ Chars' = Chars
  BY PollStep DEF Chars
<1> DEFINE V == Waiting("rs232")
           W == Waiting("rs232")'
<1>1. /\ V = [i \in 1 .. rxbuflen |-> rxbuffer[Along(rdptr, i - 1)]]
      /\ V \in Seq(Chars) /\ Len(V) = rxbuflen
  BY RingWaiting
<1>2. /\ W = [i \in 1 .. rxbuflen' |-> rxbuffer'[Along(rdptr', i - 1)]]
      /\ W \in Seq(Chars) /\ Len(W) = rxbuflen'
  BY <1>0, RingWaitingNext DEF WaitingCells, Along
<1> HIDE DEF V, W
<1>3. CASE Accepts
  <2> DEFINE c == Head(hw["rs232"])
  <2>1. c \in Chars
    BY <1>3 DEF DeviceInv, Accepts, Uarts
  <2>2. /\ rxbuffer' = [rxbuffer EXCEPT ![wrptr] = c]
        /\ rxbuflen' = rxbuflen + 1 /\ rdptr' = rdptr /\ rxbuflen < RxSize
    BY <1>3 DEF Poll, Accepts
  <2> HIDE DEF c
  <2>3. /\ RxSize \in Nat \ {0} /\ rdptr \in 0 .. RxSize - 1 /\ rxbuflen \in 0 .. RxSize
        /\ wrptr = Along(rdptr, rxbuflen) /\ wrptr \in 0 .. RxSize - 1
        /\ DOMAIN rxbuffer = 0 .. RxSize - 1
    BY SizeAssumption DEF RingInv
  <2>4. ASSUME NEW i \in 1 .. rxbuflen PROVE W[i] = V[i]
    <3>1. i \in 1 .. rxbuflen' /\ Along(rdptr, i - 1) # wrptr
      BY <2>2, <2>3 DEF Along
    <3> QED BY <1>1, <1>2, <2>2, <2>3, <3>1
  <2>5. W[rxbuflen + 1] = c
    <3>1. rxbuflen + 1 \in 1 .. rxbuflen' /\ (rxbuflen + 1) - 1 = rxbuflen
      BY <2>2, <2>3
    <3>2. W[rxbuflen + 1] = rxbuffer'[Along(rdptr, rxbuflen)]
      BY <1>2, <2>2, <3>1
    <3> QED BY <2>2, <2>3, <3>2
  <2>6. /\ Append(V, c) \in Seq(Chars) /\ Len(Append(V, c)) = rxbuflen + 1
        /\ (\A i \in 1 .. rxbuflen : Append(V, c)[i] = V[i]) /\ Append(V, c)[rxbuflen + 1] = c
    <3>1. /\ Append(V, c) \in Seq(Chars) /\ Len(Append(V, c)) = Len(V) + 1
          /\ (\A i \in 1 .. Len(V) : Append(V, c)[i] = V[i]) /\ Append(V, c)[Len(V) + 1] = c
      <4>1. V \in Seq(Chars) /\ c \in Chars
        BY <1>1, <2>1
      <4>2. \A v \in Seq(Chars), x \in Chars :
              /\ Append(v, x) \in Seq(Chars) /\ Len(Append(v, x)) = Len(v) + 1
              /\ (\A i \in 1 .. Len(v) : Append(v, x)[i] = v[i]) /\ Append(v, x)[Len(v) + 1] = x
        BY AppendProperties
      <4> QED BY <4>1, <4>2, Zenon
    <3> QED BY <1>1, <3>1
  <2>7. \A i \in 1 .. rxbuflen + 1 : W[i] = Append(V, c)[i]
    <3> SUFFICES ASSUME NEW i \in 1 .. rxbuflen + 1 PROVE W[i] = Append(V, c)[i]
      OBVIOUS
    <3>1. i \in 1 .. rxbuflen \/ i = rxbuflen + 1
      BY <2>3
    <3> QED BY <2>4, <2>5, <2>6, <3>1
  <2>8. W = Append(V, c)
    BY <1>2, <2>2, <2>6, <2>7, SeqEqual
  <2> QED BY <2>1, <2>8 DEF V, W
<1>4. CASE ~Accepts
  <2>1. UNCHANGED <<rxbuffer, rdptr, rxbuflen>>
    BY <1>4 DEF Poll
  <2>2. W = V
    BY <1>1, <1>2, <2>1
  <2> QED BY <2>2 DEF V, W
<1> QED BY <1>3, <1>4

\* A character taken from rxbuffer is the first that waited.
LEMMA TakeWaiting ==
    ASSUME DeviceInv, RingInv, rxbuflen > 0, UNCHANGED <<alphabet, wrptr>>,
           rdptr' = After(rdptr), rxbuflen' = rxbuflen - 1,
           rxbuffer' = [rxbuffer EXCEPT ![rdptr] = NoChar]
    PROVE  Waiting("rs232") = <<rxbuffer[rdptr]>> \o Waiting("rs232")'
<1>0. RingInv' /\ Chars' = Chars /\ rxbuffer[rdptr] \in Chars
  BY TakeStep DEF Chars
<1> DEFINE V == Waiting("rs232")
           W == Waiting("rs232")'
           c == rxbuffer[rdptr]
<1>1. /\ V = [i \in 1 .. rxbuflen |-> rxbuffer[Along(rdptr, i - 1)]]
      /\ V \in Seq(Chars) /\ Len(V) = rxbuflen
  BY RingWaiting
<1>2. /\ W = [i \in 1 .. rxbuflen' |-> rxbuffer'[Along(rdptr', i - 1)]]
      /\ W \in Seq(Chars) /\ Len(W) = rxbuflen'
  BY <1>0, RingWaitingNext DEF WaitingCells, Along
<1>3. /\ RxSize \in Nat \ {0} /\ rdptr \in 0 .. RxSize - 1 /\ rxbuflen \in 1 .. RxSize
      /\ DOMAIN rxbuffer = 0 .. RxSize - 1
  BY SizeAssumption DEF RingInv
<1> HIDE DEF V, W
<1>4. V[1] = c
  <2>1. 1 \in 1 .. rxbuflen /\ Along(rdptr, 1 - 1) = rdptr
    BY <1>3 DEF Along
  <2> QED BY <1>1, <2>1
<1> HIDE DEF c
<1>5. ASSUME NEW i \in 2 .. rxbuflen PROVE V[i] = W[i - 1]
  <2>1. i \in 1 .. rxbuflen /\ i - 1 \in 1 .. rxbuflen'
    BY <1>3
  <2>2. Along(rdptr', (i - 1) - 1) = Along(rdptr, i - 1) /\ Along(rdptr, i - 1) # rdptr
        /\ Along(rdptr, i - 1) \in 0 .. RxSize - 1
    BY <1>3 DEF Along, After
  <2>3. W[i - 1] = rxbuffer'[Along(rdptr', (i - 1) - 1)]
    BY <1>2, <2>1
  <2>4. V[i] = rxbuffer[Along(rdptr, i - 1)]
    BY <1>1, <2>1
  <2> QED BY <1>3, <2>2, <2>3, <2>4
<1>6. /\ <<c>> \o W \in Seq(Chars) /\ Len(<<c>> \o W) = rxbuflen
      /\ \A i \in 1 .. rxbuflen : (<<c>> \o W)[i] = IF i <= 1 THEN c ELSE W[i - 1]
  <2>1. <<c>> \in Seq(Chars) /\ Len(<<c>>) = 1 /\ <<c>>[1] = c
    BY <1>0 DEF c
  <2>2. /\ <<c>> \o W \in Seq(Chars) /\ Len(<<c>> \o W) = Len(<<c>>) + Len(W)
        /\ \A i \in 1 .. Len(<<c>>) + Len(W) : (<<c>> \o W)[i] =
              IF i <= Len(<<c>>) THEN <<c>>[i] ELSE W[i - Len(<<c>>)]
    <3> DEFINE x == <<c>>
    <3>1. x \in Seq(Chars) /\ W \in Seq(Chars)
      BY <1>2, <2>1
    <3> HIDE DEF x
    <3>2. /\ x \o W \in Seq(Chars) /\ Len(x \o W) = Len(x) + Len(W)
          /\ \A i \in 1 .. Len(x) + Len(W) : (x \o W)[i] = IF i <= Len(x) THEN x[i] ELSE W[i - Len(x)]
      BY <3>1, ConcatProperties
    <3> QED BY <3>2 DEF x
  <2>3. \A i \in 1 .. rxbuflen : i <= 1 => i = 1
    BY <1>3
  <2>4. 1 + rxbuflen' = rxbuflen
    BY <1>3
  <2> QED BY <1>2, <2>1, <2>2, <2>3, <2>4
<1>7. \A i \in 1 .. rxbuflen : V[i] = (<<c>> \o W)[i]
  <2> SUFFICES ASSUME NEW i \in 1 .. rxbuflen PROVE V[i] = (<<c>> \o W)[i]
    OBVIOUS
  <2>1. CASE i = 1
    BY <1>4, <1>6, <2>1
  <2>2. CASE i # 1
    <3>1. i \in 2 .. rxbuflen /\ ~(i <= 1)
      BY <1>3, <2>2
    <3> QED BY <1>5, <1>6, <3>1
  <2> QED BY <2>1, <2>2
<1>8. V = <<c>> \o W
  BY <1>1, <1>6, <1>7, SeqEqual
<1> QED BY <1>8 DEF V, W, c

-----------------------------------------------------------------------------
(***************************************************************************)
(* The line buffers.                                                        *)
(***************************************************************************)
\* A buffer that is not ready holds no end of a line, and flagfull says only of such
\* a buffer that it is full.
UnfinishedInv ==
    \A u \in Uarts :
       /\ buflen[u] = 0 => \A i \in 1 .. Len(buf[u]) : buf[u][i] # Eol
       /\ flagfull[u] => buflen[u] = 0 /\ Len(buf[u]) = LineSize

\* rs232_uart_getch returns no character only with a buffer that is not ready.
NoneInv == pc = "None" => buflen["rs232"] = 0

StreamInv == IInv /\ UnfinishedInv /\ NoneInv

\* The end of a line that finds the buffer full takes its last cell: the line is cut.
LEMMA EndedIsCut ==
    ASSUME NEW S, Eol \in S, NEW p \in Seq(S), Len(p) = LineSize
    PROVE  Cut(Append(p, Eol)) = [p EXCEPT ![Len(p)] = Eol]
<1> DEFINE q == Append(p, Eol)
           x == SubSeq(q, 1, LineSize - 1)
           y == [p EXCEPT ![Len(p)] = Eol]
<1>1. LineSize \in Nat \ {0}
  BY SizeAssumption
<1>2. /\ q \in Seq(S) /\ Len(q) = LineSize + 1
      /\ \A i \in 1 .. LineSize : q[i] = p[i]
  BY AppendProperties
<1>3. /\ y \in Seq(S) /\ Len(y) = LineSize
      /\ \A i \in 1 .. LineSize : y[i] = IF i = LineSize THEN Eol ELSE p[i]
  <2>1. Len(p) \in 1 .. Len(p)
    BY <1>1
  <2> QED BY <2>1, ExceptSeq
<1> HIDE DEF q, y
<1>4. /\ x \in Seq(S) /\ Len(x) = LineSize - 1
      /\ \A i \in 1 .. LineSize - 1 : x[i] = q[i]
  <2>1. \A i \in 1 .. LineSize - 1 : q[i] \in S
    BY <1>1, <1>2, ElementOfSeq
  <2> DEFINE n == LineSize - 1
  <2>2. 1 \in Int /\ n \in Int /\ n \in Nat /\ n - 1 + 1 = n /\ \A i \in 1 .. n : q[i] \in S
    BY <1>1, <2>1
  <2> HIDE DEF n
  <2>3. /\ SubSeq(q, 1, n) \in Seq(S) /\ Len(SubSeq(q, 1, n)) = IF 1 <= n THEN n - 1 + 1 ELSE 0
        /\ \A i \in 1 .. n - 1 + 1 : SubSeq(q, 1, n)[i] = q[1 + i - 1]
    BY <2>2, SubSeqProperties
  <2>4. Len(SubSeq(q, 1, n)) = n /\ \A i \in 1 .. n : SubSeq(q, 1, n)[i] = q[i]
    <3>1. \A i \in 1 .. n : i \in 1 .. n - 1 + 1 /\ 1 + i - 1 = i
      BY <2>2
    <3> QED BY <2>2, <2>3, <3>1
  <2> QED BY <2>3, <2>4 DEF n
<1> HIDE DEF x
<1>5. /\ Append(x, Eol) \in Seq(S) /\ Len(Append(x, Eol)) = LineSize
      /\ \A i \in 1 .. LineSize - 1 : Append(x, Eol)[i] = x[i]
      /\ Append(x, Eol)[LineSize] = Eol
  <2>1. /\ Append(x, Eol) \in Seq(S) /\ Len(Append(x, Eol)) = Len(x) + 1
        /\ (\A i \in 1 .. Len(x) : Append(x, Eol)[i] = x[i]) /\ Append(x, Eol)[Len(x) + 1] = Eol
    BY <1>4, AppendProperties
  <2>2. Len(x) + 1 = LineSize
    BY <1>1, <1>4
  <2> QED BY <1>4, <2>1, <2>2
<1>6. \A i \in 1 .. LineSize : Append(x, Eol)[i] = y[i]
  <2> SUFFICES ASSUME NEW i \in 1 .. LineSize PROVE Append(x, Eol)[i] = y[i]
    OBVIOUS
  <2>1. CASE i = LineSize
    BY <1>3, <1>5, <2>1
  <2>2. CASE i # LineSize
    <3>1. i \in 1 .. LineSize - 1
      BY <1>1, <2>2
    <3> QED BY <1>2, <1>3, <1>4, <1>5, <2>2, <3>1
  <2> QED BY <2>1, <2>2
<1>7. Append(x, Eol) = y
  BY <1>3, <1>5, <1>6, SeqEqual
<1>8. Cut(q) = Append(x, Eol)
  <2>1. ~(Len(q) <= LineSize)
    BY <1>1, <1>2
  <2> QED BY <2>1 DEF Cut, x
<1> QED BY <1>7, <1>8 DEF q, y

\* What Store does to the buffer of the stream, in the four cases.
LEMMA StoreCases ==
    ASSUME NEW u \in Uarts, NEW c \in Chars, LineInv, UnfinishedInv, buflen[u] = 0, Store(u, c)
    PROVE  /\ c # Eol /\ Len(buf[u]) < LineSize =>
                /\ buf'[u] = Append(buf[u], c) /\ flagfull'[u] = FALSE
           /\ c # Eol /\ Len(buf[u]) = LineSize => buf'[u] = buf[u]
           /\ c # Eol => buflen'[u] = 0
           /\ c = Eol => /\ buf'[u] = Cut(Append(buf[u], Eol))
                         /\ buflen'[u] > 0 /\ flagfull'[u] = FALSE
           /\ rdindex' = rdindex
           /\ \A v \in Uarts \ {u} : /\ buf'[v] = buf[v] /\ buflen'[v] = buflen[v]
                                     /\ flagfull'[v] = flagfull[v]
           /\ Len(buf[u]) < LineSize \/ Len(buf[u]) = LineSize
<1> DEFINE full == flagfull[u] \/ Len(buf[u]) >= LineSize
           stored == Stored(u, c)
           new == IF c = Eol THEN Ended(stored, full) ELSE stored
<1>1. /\ buf[u] \in Seq(Chars) /\ Len(buf[u]) <= LineSize /\ Len(buf[u]) \in Nat
      /\ LineSize \in Nat \ {0} /\ u \in DOMAIN buf /\ u \in DOMAIN buflen /\ u \in DOMAIN flagfull
  BY SizeAssumption, LenProperties DEF LineInv
<1>2. /\ buf' = [buf EXCEPT ![u] = new]
      /\ buflen' = [buflen EXCEPT ![u] = IF c = Eol THEN Len(stored) ELSE 0]
      /\ flagfull' = [flagfull EXCEPT ![u] = c # Eol /\ full]
      /\ rdindex' = rdindex
  BY DEF Store
<1>3. /\ buf'[u] = new /\ buflen'[u] = IF c = Eol THEN Len(stored) ELSE 0
      /\ flagfull'[u] <=> (c # Eol /\ full)
  BY <1>1, <1>2, Zenon
<1>4. \A v \in Uarts \ {u} : /\ buf'[v] = buf[v] /\ buflen'[v] = buflen[v]
                             /\ flagfull'[v] = flagfull[v]
  BY <1>1, <1>2 DEF LineInv
<1>5. flagfull'[u] \in BOOLEAN
  <2>1. flagfull'[u] = (c # Eol /\ full)
    BY <1>1, <1>2, Zenon
  <2> QED BY <2>1, Zenon
<1>6. CASE Len(buf[u]) < LineSize
  <2>1. stored = Append(buf[u], c) /\ Len(stored) = Len(buf[u]) + 1
    BY <1>1, <1>6, AppendProperties DEF Stored
  <2>2. ~full
    <3>1. ~flagfull[u]
      BY <1>1, <1>6 DEF UnfinishedInv
    <3>2. ~(Len(buf[u]) >= LineSize)
      BY <1>1, <1>6
    <3> QED BY <3>1, <3>2
  <2>3. flagfull'[u] = FALSE
    BY <1>3, <1>5, <2>2, Zenon
  <2>4. c = Eol => new = Append(buf[u], Eol)
    BY <2>1, <2>2 DEF Ended
  <2>5. c = Eol => Cut(Append(buf[u], Eol)) = Append(buf[u], Eol)
    <3>1. c = Eol => Len(Append(buf[u], Eol)) <= LineSize
      BY <1>1, <1>6, <2>1
    <3> QED BY <3>1 DEF Cut
  <2>6. c = Eol => Len(stored) > 0
    BY <1>1, <2>1
  <2>7. c # Eol => new = Append(buf[u], c)
    BY <2>1
  <2> HIDE DEF full, stored, new
  <2>8. ~(Len(buf[u]) = LineSize)
    BY <1>1, <1>6
  <2> QED BY <1>2, <1>3, <1>4, <1>6, <2>3, <2>4, <2>5, <2>6, <2>7, <2>8, Zenon
<1>7. CASE Len(buf[u]) = LineSize
  <2>1. stored = buf[u]
    BY <1>1, <1>7 DEF Stored
  <2>2. full
    BY <1>1, <1>7
  <2>3. c = Eol => new = [buf[u] EXCEPT ![Len(buf[u])] = Eol]
    BY <2>1, <2>2 DEF Ended
  <2>4. c = Eol => new = Cut(Append(buf[u], Eol))
    BY <1>1, <1>7, <2>3, EndedIsCut
  <2>5. c = Eol => Len(stored) > 0
    BY <1>1, <1>7, <2>1
  <2>6. c = Eol => flagfull'[u] = FALSE
    BY <1>3, <1>5, Zenon
  <2>7. c # Eol => new = buf[u]
    BY <2>1
  <2> HIDE DEF full, stored, new
  <2>8. ~(Len(buf[u]) < LineSize)
    BY <1>1, <1>7
  <2> QED BY <1>2, <1>3, <1>4, <1>7, <2>4, <2>5, <2>6, <2>7, <2>8, Zenon
<1> HIDE DEF full, stored, new
<1>8. Len(buf[u]) < LineSize \/ Len(buf[u]) = LineSize
  BY <1>1
<1> QED BY <1>6, <1>7, <1>8

\* A character stored in a buffer, whether or not it ends the line.
LEMMA StoreUnfinished ==
    ASSUME NEW u \in Uarts, NEW c \in Chars, LineInv, UnfinishedInv, buflen[u] = 0, Store(u, c)
    PROVE  UnfinishedInv'
<1>1. /\ buf[u] \in Seq(Chars) /\ Len(buf[u]) \in Nat
      /\ \A i \in 1 .. Len(buf[u]) : buf[u][i] # Eol
  BY LenProperties DEF LineInv, UnfinishedInv
<1>2. /\ c # Eol /\ Len(buf[u]) < LineSize =>
            buf'[u] = Append(buf[u], c) /\ flagfull'[u] = FALSE
      /\ c # Eol /\ Len(buf[u]) = LineSize => buf'[u] = buf[u]
      /\ c # Eol => buflen'[u] = 0
      /\ c = Eol => buflen'[u] > 0 /\ flagfull'[u] = FALSE
      /\ \A v \in Uarts \ {u} : /\ buf'[v] = buf[v] /\ buflen'[v] = buflen[v]
                                /\ flagfull'[v] = flagfull[v]
      /\ Len(buf[u]) < LineSize \/ Len(buf[u]) = LineSize
  BY StoreCases, Zenon
<1>3. ASSUME NEW v \in Uarts \ {u}
      PROVE  /\ buflen'[v] = 0 => \A i \in 1 .. Len(buf'[v]) : buf'[v][i] # Eol
             /\ flagfull'[v] => buflen'[v] = 0 /\ Len(buf'[v]) = LineSize
  BY <1>2 DEF UnfinishedInv
<1>4. /\ buflen'[u] = 0 => \A i \in 1 .. Len(buf'[u]) : buf'[u][i] # Eol
      /\ flagfull'[u] => buflen'[u] = 0 /\ Len(buf'[u]) = LineSize
  <2>1. CASE c = Eol
    <3>1. ~(buflen'[u] = 0)
      BY <1>2, <2>1
    <3> QED BY <1>2, <2>1, <3>1
  <2>2. CASE c # Eol /\ Len(buf[u]) < LineSize
    <3>1. buf'[u] = Append(buf[u], c) /\ flagfull'[u] = FALSE
      BY <1>2, <2>2
    <3>2. /\ Len(Append(buf[u], c)) = Len(buf[u]) + 1
          /\ (\A i \in 1 .. Len(buf[u]) : Append(buf[u], c)[i] = buf[u][i])
          /\ Append(buf[u], c)[Len(buf[u]) + 1] = c
      BY <1>1, AppendProperties
    <3>3. \A i \in 1 .. Len(buf[u]) + 1 : Append(buf[u], c)[i] # Eol
      <4> SUFFICES ASSUME NEW i \in 1 .. Len(buf[u]) + 1 PROVE Append(buf[u], c)[i] # Eol
        OBVIOUS
      <4>1. i \in 1 .. Len(buf[u]) \/ i = Len(buf[u]) + 1
        BY <1>1
      <4> QED BY <1>1, <2>2, <3>2, <4>1
    <3> QED BY <3>1, <3>2, <3>3
  <2>3. CASE c # Eol /\ Len(buf[u]) = LineSize
    BY <1>1, <1>2, <2>3
  <2> QED BY <1>2, <2>1, <2>2, <2>3
<1> QED BY <1>3, <1>4 DEF UnfinishedInv

\* A character taken out of a ready buffer.
LEMMA GiveUnfinished ==
    ASSUME NEW u \in Uarts, LineInv, UnfinishedInv, Give(u)
    PROVE  UnfinishedInv'
<1>1. /\ buflen[u] > 0 /\ buflen[u] \in Nat /\ flagfull' = flagfull
      /\ buflen' = [buflen EXCEPT ![u] = buflen[u] - 1]
      /\ buf' = [buf EXCEPT ![u] = IF buflen[u] = 1 THEN <<>> ELSE buf[u]]
  BY DEF Give, LineInv
<1>2. ~flagfull[u]
  <2>1. ~(buflen[u] = 0)
    BY <1>1
  <2> QED BY <2>1 DEF UnfinishedInv
<1>3. ASSUME NEW v \in Uarts \ {u}
      PROVE  /\ buflen'[v] = 0 => \A i \in 1 .. Len(buf'[v]) : buf'[v][i] # Eol
             /\ flagfull'[v] => buflen'[v] = 0 /\ Len(buf'[v]) = LineSize
  <2>1. buf'[v] = buf[v] /\ buflen'[v] = buflen[v]
    BY <1>1 DEF LineInv
  <2> QED BY <1>1, <2>1 DEF UnfinishedInv
<1>4. buflen'[u] = 0 => \A i \in 1 .. Len(buf'[u]) : buf'[u][i] # Eol
  <2> SUFFICES ASSUME buflen'[u] = 0 PROVE \A i \in 1 .. Len(buf'[u]) : buf'[u][i] # Eol
    OBVIOUS
  <2>1. buflen[u] = 1
    BY <1>1 DEF LineInv
  <2>2. buf'[u] = <<>>
    BY <1>1, <2>1 DEF LineInv
  <2> QED BY <2>2
<1> QED BY <1>1, <1>2, <1>3, <1>4 DEF UnfinishedInv

\* A step that leaves the line buffers alone.
LEMMA UnfinishedKept ==
    ASSUME UnfinishedInv, UNCHANGED lineVars PROVE UnfinishedInv'
BY DEF UnfinishedInv, lineVars

\* The streams at the beginning and after every step.
LEMMA StreamInit == Init => StreamInv
<1> SUFFICES ASSUME Init PROVE StreamInv
  OBVIOUS
<1>1. IInv
  BY InitIInv
<1>2. UnfinishedInv
  BY DEF Init, UnfinishedInv
<1>3. NoneInv
  BY DEF Init, NoneInv
<1> QED BY <1>1, <1>2, <1>3 DEF StreamInv

\* Every step of the program keeps what is known of the line buffers.
LEMMA StreamNextInv == StreamInv /\ [Next]_vars => StreamInv'
<1> SUFFICES ASSUME StreamInv, [Next]_vars PROVE StreamInv'
  OBVIOUS
<1>0. IInv /\ UnfinishedInv /\ NoneInv /\ LineInv /\ DeviceInv /\ RingInv /\ LoopInv /\ MainInv
  BY DEF StreamInv, IInv
<1>1. IInv'
  BY <1>0, NextIInv
<1> SUFFICES UnfinishedInv' /\ NoneInv'
  BY <1>1 DEF StreamInv
<1>2. ASSUME NEW u \in Uarts, Typed(u) PROVE UnfinishedInv' /\ NoneInv'
  BY <1>0, <1>2, UnfinishedKept DEF Typed, NoneInv, lineVars
<1>3. CASE Idle \/ PutIdle \/ ReadRs232
  BY <1>0, <1>3, UnfinishedKept DEF Idle, PutIdle, ReadRs232, NoneInv
<1>4. CASE GetchEth
  BY <1>0, <1>4, UnfinishedKept DEF GetchEth, NoneInv
<1>5. CASE GetchJtag
  <2>1. pc' # "None"
    BY <1>5 DEF GetchJtag, Return
  <2>2. CASE hw["jtag"] = <<>>
    BY <1>0, <1>5, <2>1, <2>2, UnfinishedKept DEF GetchJtag, NoneInv
  <2>3. CASE hw["jtag"] # <<>>
    <3>1. Store("jtag", Head(hw["jtag"])) /\ buflen["jtag"] = 0 /\ "jtag" \in Uarts
      BY <1>5, <2>3 DEF GetchJtag, Uarts
    <3>2. Head(hw["jtag"]) \in Chars
      BY <1>0, <2>3, <3>1, HeadTailProperties DEF DeviceInv
    <3>3. UnfinishedInv'
      BY <1>0, <3>1, <3>2, StoreUnfinished
    <3> QED BY <2>1, <3>3 DEF NoneInv
  <2> QED BY <2>2, <2>3
<1>6. CASE QueryRs232
  BY <1>0, <1>6, UnfinishedKept DEF QueryRs232, NoneInv, lineVars
<1>7. CASE TakeRs232
  <2> DEFINE c == rxbuffer[rdptr]
  <2>1. rxbuflen >= nloop /\ nloop > 0 /\ buflen["rs232"] = 0 /\ rxbuflen > 0
    BY <1>0, <1>7 DEF TakeRs232, LoopInv, RingInv, MainInv
  <2>2. c \in Chars
    BY <1>0, <1>7, <2>1, TakeStep DEF TakeRs232
  <2>3. Store("rs232", c) /\ "rs232" \in Uarts
    BY <1>7 DEF TakeRs232, Uarts
  <2>4. UnfinishedInv'
    BY <1>0, <2>1, <2>2, <2>3, StoreUnfinished
  <2>5. pc' = "None" => c # Eol
    BY <1>7 DEF TakeRs232
  <2> HIDE DEF c
  <2>6. c # Eol => buflen'["rs232"] = 0
    BY <1>0, <2>1, <2>2, <2>3, StoreCases, Zenon
  <2> QED BY <2>4, <2>5, <2>6 DEF NoneInv
<1>8. CASE NoneRs232
  BY <1>0, <1>8, UnfinishedKept DEF NoneRs232, NoneInv, Return
<1>9. CASE Write
  BY <1>0, <1>9, UnfinishedKept DEF Write, NoneInv
<1>10. ASSUME NEW u \in Uarts, Give(u) PROVE UnfinishedInv' /\ NoneInv'
  <2>1. pc' # "None"
    BY <1>10 DEF Give, Return
  <2> QED BY <1>0, <1>10, <2>1, GiveUnfinished DEF NoneInv
<1>11. CASE UNCHANGED vars
  BY <1>0, <1>11, UnfinishedKept DEF vars, NoneInv, lineVars
<1> QED BY <1>2, <1>3, <1>4, <1>5, <1>6, <1>7, <1>8, <1>9, <1>10, <1>11 DEF Next, Main

-----------------------------------------------------------------------------
(***************************************************************************)
(* The lines of a stream.                                                   *)
(***************************************************************************)
\* What waits on either line is made of characters that were typed.
LEMMA WaitingTyped ==
    ASSUME IInv, NEW u \in Uarts PROVE Waiting(u) \in Seq(Chars)
<1>1. CASE u = "jtag"
  BY <1>1 DEF IInv, DeviceInv, Waiting
<1>2. CASE u = "rs232"
  BY <1>2, RingWaiting DEF IInv
<1> QED BY <1>1, <1>2 DEF Uarts

\* The lines that are cut from what is typed are those a stream may deliver.
LEMMA LinesInSet == ASSUME alphabet \in Alphabets PROVE LineSet(Chars) \subseteq Lines
<1> DEFINE All == UNION {f[u] : f \in Alphabets, u \in Uarts}
<1>1. Chars \subseteq All
  BY DEF Chars
<1>3. Lines = SeqOf(All, LineSize) \ {<<>>}
  BY DEF Lines
<1> HIDE DEF All
<1>2. SeqOf(Chars, LineSize) \subseteq SeqOf(All, LineSize)
  <2> SUFFICES ASSUME NEW m \in 0 .. LineSize, NEW x \in [1 .. m -> Chars]
               PROVE  x \in [1 .. m -> All]
    BY DEF SeqOf
  <2> QED BY <1>1
<1> QED BY <1>2, <1>3 DEF LineSet

\* The line buffer's part of a stream does not change.
BufferKept(u) == buf'[u] = buf[u] /\ buflen'[u] = buflen[u] /\ rdindex'[u] = rdindex[u]

\* What is read by nobody yet of the stream's buffer.
Pending(u) == IF buflen[u] > 0 THEN <<>> ELSE buf[u]
ReadyLine(u) == IF Ready(u) THEN <<buf[u]>> ELSE <<>>

\* The parts of a stream.
LEMMA PendingTyped ==
    ASSUME IInv, NEW u \in Uarts
    PROVE  /\ Pending(u) \in Seq(Chars) /\ Unread(u) = Pending(u) \o Waiting(u)
           /\ Unread(u) \in Seq(Chars)
           /\ LinesOf(u) = ReadyLine(u) \o CompleteLines(Unread(u))
           /\ CompleteLines(Unread(u)) \in Seq(LineSet(Chars))
<1>1. Pending(u) \in Seq(Chars)
  BY DEF Pending, IInv, LineInv
<1>2. Unread(u) = Pending(u) \o Waiting(u)
  BY DEF Unread, Pending
<1>3. Unread(u) \in Seq(Chars)
  BY <1>1, <1>2, WaitingTyped, ConcatProperties
<1>4. CompleteLines(Unread(u)) \in Seq(LineSet(Chars))
  BY <1>3, LinesTyped
<1>5. LinesOf(u) = ReadyLine(u) \o CompleteLines(Unread(u))
  BY DEF LinesOf, ReadyLine
<1> QED BY <1>1, <1>2, <1>3, <1>4, <1>5

\* A step that leaves the line buffer alone.
LEMMA BufferKeptRest ==
    ASSUME NEW u \in Uarts, BufferKept(u)
    PROVE  /\ RestOf(u)' = RestOf(u) /\ Pending(u)' = Pending(u) /\ ReadyLine(u)' = ReadyLine(u)
BY DEF BufferKept, RestOf, Begun, Pending, ReadyLine, Ready

\* Nothing happens to a stream.
LEMMA StreamKept ==
    ASSUME NEW u \in Uarts, BufferKept(u), Waiting(u)' = Waiting(u)
    PROVE  LinesOf(u)' = LinesOf(u) /\ RestOf(u)' = RestOf(u)
<1>1. RestOf(u)' = RestOf(u) /\ Pending(u)' = Pending(u) /\ ReadyLine(u)' = ReadyLine(u)
  BY BufferKeptRest
<1>2. Unread(u)' = Unread(u)
  <2>1. Unread(u)' = Pending(u)' \o Waiting(u)' /\ Unread(u) = Pending(u) \o Waiting(u)
    BY DEF Unread, Pending
  <2> QED BY <1>1, <2>1
<1>3. LinesOf(u)' = ReadyLine(u)' \o CompleteLines(Unread(u)')
      /\ LinesOf(u) = ReadyLine(u) \o CompleteLines(Unread(u))
  BY DEF LinesOf, ReadyLine
<1> QED BY <1>1, <1>2, <1>3

\* One more element behind two sequences.
LEMMA AppendToConcat ==
    ASSUME NEW S, NEW x \in Seq(S), NEW y \in Seq(S), NEW e \in S
    PROVE  x \o Append(y, e) = Append(x \o y, e)
<1>1. Append(y, e) = y \o <<e>> /\ <<e>> \in Seq(S) /\ x \o y \in Seq(S)
  BY AppendIsConcat, ConcatProperties
<1>2. Append(x \o y, e) = (x \o y) \o <<e>>
  BY <1>1, AppendIsConcat
<1>3. (x \o y) \o <<e>> = x \o (y \o <<e>>)
  BY <1>1, ConcatAssociative
<1> QED BY <1>1, <1>2, <1>3

\* A ready line is a sequence of characters.
LEMMA ReadyLineTyped ==
    ASSUME IInv, NEW u \in Uarts
    PROVE  ReadyLine(u) \in Seq(Seq(Chars))
BY DEF ReadyLine, IInv, LineInv

\* A character arrives: it may complete a line.
LEMMA StreamGrows ==
    ASSUME IInv, NEW u \in Uarts, BufferKept(u), NEW c \in Chars,
           Waiting(u)' = Append(Waiting(u), c)
    PROVE  /\ RestOf(u)' = RestOf(u)
           /\ \/ LinesOf(u)' = LinesOf(u)
              \/ \E l \in Lines : LinesOf(u)' = Append(LinesOf(u), l)
<1> DEFINE x == Pending(u)
           w == Waiting(u)
           s == Unread(u)
           r == ReadyLine(u)
<1>1. RestOf(u)' = RestOf(u) /\ Pending(u)' = x /\ ReadyLine(u)' = r
  BY BufferKeptRest
<1>2. /\ x \in Seq(Chars) /\ w \in Seq(Chars) /\ s = x \o w /\ s \in Seq(Chars)
      /\ LinesOf(u) = r \o CompleteLines(s) /\ CompleteLines(s) \in Seq(LineSet(Chars))
  BY PendingTyped, WaitingTyped
<1>3. Unread(u)' = x \o Append(w, c)
  <2>1. Unread(u)' = Pending(u)' \o Waiting(u)'
    BY DEF Unread, Pending
  <2> QED BY <1>1, <2>1
<1>4. Unread(u)' = Append(s, c)
  <2> HIDE DEF x, w, s
  <2>1. x \o Append(w, c) = Append(x \o w, c)
    BY <1>2, AppendToConcat
  <2> QED BY <1>2, <1>3, <2>1
<1>5. LinesOf(u)' = r \o CompleteLines(Append(s, c))
  <2>1. LinesOf(u)' = ReadyLine(u)' \o CompleteLines(Unread(u)')
    BY DEF LinesOf, ReadyLine
  <2> QED BY <1>1, <1>4, <2>1
<1>6. r \in Seq(Seq(Chars))
  BY ReadyLineTyped
<1>7. alphabet \in Alphabets
  BY DEF IInv, DeviceInv
<1> HIDE DEF x, w, s, r
<1>8. CASE c # Eol
  <2>1. CompleteLines(Append(s, c)) = CompleteLines(s)
    BY <1>2, <1>8, MoreOfALine
  <2> QED BY <1>1, <1>2, <1>5, <2>1
<1>9. CASE c = Eol
  <2>1. PICK l \in LineSet(Chars) : CompleteLines(Append(s, Eol)) = Append(CompleteLines(s), l)
    BY <1>2, <1>9, OneMoreLine
  <2> DEFINE T == LineSet(Chars) \cup Seq(Chars)
             C == CompleteLines(s)
  <2>2. r \in Seq(T) /\ C \in Seq(T) /\ l \in T
    <3>1. Seq(Chars) \subseteq T /\ LineSet(Chars) \subseteq T
      OBVIOUS
    <3> HIDE DEF T
    <3> QED BY <1>2, <1>6, <2>1, <3>1, SeqMonotonic
  <2> HIDE DEF T, C
  <2>3. r \o Append(C, l) = Append(r \o C, l)
    BY <2>2, AppendToConcat
  <2>4. LinesOf(u)' = Append(LinesOf(u), l)
    BY <1>2, <1>5, <1>9, <2>1, <2>3 DEF C
  <2>5. l \in Lines
    BY <1>7, <2>1, LinesInSet
  <2> QED BY <1>1, <2>4, <2>5
<1> QED BY <1>8, <1>9

\* What waits is made of characters, before a step and after it.
WaitingOK == \A u \in Uarts : Waiting(u) \in Seq(Chars)

\* The same of the next state.
LEMMA WaitingTypedNext == IInv' => WaitingOK'
<1>1. IInv => WaitingOK
  BY WaitingTyped, Zenon DEF WaitingOK
<1> QED BY <1>1, PTL

-----------------------------------------------------------------------------
(***************************************************************************)
(* A stream and what is stored or read.                                     *)
(***************************************************************************)
\* A character goes from what waits into the line buffer: no line changes, not even the
\* one that it ends or the one it is too long for.
LEMMA StreamStores ==
    ASSUME StreamInv, IInv', UNCHANGED alphabet, NEW u \in Uarts, NEW c \in Chars, buflen[u] = 0,
           Store(u, c), Waiting(u) = <<c>> \o Waiting(u)'
    PROVE  LinesOf(u)' = LinesOf(u) /\ RestOf(u)' = RestOf(u)
<1> DEFINE p == buf[u]
           w == Waiting(u)'
<1>0. IInv /\ LineInv /\ UnfinishedInv
  BY DEF StreamInv, IInv
<1>1. /\ p \in Seq(Chars) /\ rdindex[u] = 0 /\ \A i \in 1 .. Len(p) : p[i] # Eol
  BY <1>0 DEF LineInv, UnfinishedInv
<1>2. w \in Seq(Chars)
  <2>1. WaitingOK'
    BY WaitingTypedNext
  <2>2. Chars' = Chars
    BY DEF Chars
  <2> QED BY <2>1, <2>2 DEF WaitingOK
<1>3. /\ c # Eol /\ Len(p) < LineSize => buf'[u] = Append(p, c)
      /\ c # Eol /\ Len(p) = LineSize => buf'[u] = p
      /\ c # Eol => buflen'[u] = 0
      /\ c = Eol => buf'[u] = Cut(Append(p, Eol)) /\ buflen'[u] > 0
      /\ rdindex' = rdindex
      /\ Len(p) < LineSize \/ Len(p) = LineSize
  BY <1>0, StoreCases, Zenon
<1>4. LinesOf(u) = <<>> \o CompleteLines(p \o (<<c>> \o w)) /\ RestOf(u) = <<>>
  <2>1. ~(buflen[u] > 0)
    BY <1>0 DEF LineInv
  <2> QED BY <2>1 DEF LinesOf, Unread, Ready, RestOf, Begun
<1>5. RestOf(u)' = <<>>
  <2>1. ~(rdindex'[u] > 0)
    BY <1>1, <1>3
  <2> QED BY <2>1 DEF RestOf, Begun
<1>6. c # Eol => LinesOf(u)' = <<>> \o CompleteLines(buf'[u] \o w)
  <2> SUFFICES ASSUME c # Eol PROVE LinesOf(u)' = <<>> \o CompleteLines(buf'[u] \o w)
    OBVIOUS
  <2>1. ~(buflen'[u] > 0)
    BY <1>3
  <2> QED BY <2>1 DEF LinesOf, Unread, Ready
<1>7. c = Eol => LinesOf(u)' = <<buf'[u]>> \o CompleteLines(<<>> \o w)
  <2> SUFFICES ASSUME c = Eol PROVE LinesOf(u)' = <<buf'[u]>> \o CompleteLines(<<>> \o w)
    OBVIOUS
  <2>1. buflen'[u] > 0 /\ rdindex'[u] = 0
    BY <1>1, <1>3
  <2> QED BY <2>1 DEF LinesOf, Unread, Ready
<1> HIDE DEF p, w
<1>8. p \o (<<c>> \o w) = Append(p, c) \o w
  <2>1. <<c>> \in Seq(Chars) /\ Append(p, c) = p \o <<c>>
    BY <1>1, AppendIsConcat
  <2>2. (p \o <<c>>) \o w = p \o (<<c>> \o w)
    BY <1>1, <1>2, <2>1, ConcatAssociative
  <2> QED BY <2>1, <2>2
<1>9. CASE c # Eol /\ Len(p) < LineSize
  <2>1. LinesOf(u)' = <<>> \o CompleteLines(Append(p, c) \o w)
    BY <1>3, <1>6, <1>9
  <2> QED BY <1>4, <1>5, <1>8, <2>1
<1>10. CASE c # Eol /\ Len(p) = LineSize
  <2>1. LinesOf(u)' = <<>> \o CompleteLines(p \o w)
    BY <1>3, <1>6, <1>10
  <2>2. CompleteLines(Append(p, c) \o w) = CompleteLines(p \o w)
    BY <1>1, <1>2, <1>10, Dropped
  <2> QED BY <1>4, <1>5, <1>8, <2>1, <2>2
<1>11. CASE c = Eol
  <2>0. Eol \in Chars
    BY <1>11
  <2>1. CompleteLines(Append(p, Eol) \o w) = <<Cut(Append(p, Eol))>> \o CompleteLines(w)
    BY <1>1, <1>2, <2>0, FirstLine
  <2>2. <<>> \o w = w
    BY <1>2, ConcatEmptySeq
  <2>3. LinesOf(u)' = <<Cut(Append(p, Eol))>> \o CompleteLines(w)
    BY <1>3, <1>7, <1>11, <2>2
  <2>4. LinesOf(u) = <<>> \o (<<Cut(Append(p, Eol))>> \o CompleteLines(w))
    BY <1>4, <1>8, <1>11, <2>1
  <2> DEFINE L == CompleteLines(Append(p, Eol) \o w)
  <2>5. L \in Seq(LineSet(Chars))
    <3>1. Append(p, Eol) \in Seq(Chars)
      BY <1>1, <2>0, AppendProperties
    <3>2. Append(p, Eol) \o w \in Seq(Chars)
      BY <1>2, <3>1, ConcatProperties
    <3> QED BY <3>2, LinesTyped
  <2> HIDE DEF L
  <2>6. <<>> \o L = L
    BY <2>5, ConcatEmptySeq
  <2>7. LinesOf(u)' = LinesOf(u)
    BY <2>1, <2>3, <2>4, <2>6 DEF L
  <2> QED BY <1>4, <1>5, <2>7
<1> QED BY <1>3, <1>9, <1>10, <1>11

\* What a ready buffer gives.
GetchStep(u) ==
    \/ /\ RestOf(u) # <<>>
       /\ ret'[u] = Head(RestOf(u)) /\ RestOf(u)' = Tail(RestOf(u))
       /\ LinesOf(u)' = LinesOf(u)
    \/ /\ RestOf(u) = <<>> /\ LinesOf(u) # <<>>
       /\ ret'[u] = Head(Head(LinesOf(u))) /\ RestOf(u)' = Tail(Head(LinesOf(u)))
       /\ LinesOf(u)' = Tail(LinesOf(u))
    \/ /\ RestOf(u) = <<>>
       /\ ret'[u] = NoChar
       /\ LinesOf(u)' = LinesOf(u) /\ RestOf(u)' = RestOf(u)

\* The first of a concatenation.
LEMMA HeadTailConcat ==
    ASSUME NEW S, NEW l \in S, NEW L \in Seq(S)
    PROVE  /\ <<l>> \o L # <<>> /\ Head(<<l>> \o L) = l /\ Tail(<<l>> \o L) = L
<1> DEFINE x == <<l>> \o L
<1>1. <<l>> \in Seq(S) /\ Len(<<l>>) = 1 /\ <<l>>[1] = l /\ Len(L) \in Nat
  BY LenProperties
<1>2. /\ x \in Seq(S) /\ Len(x) = Len(<<l>>) + Len(L)
      /\ \A i \in 1 .. Len(<<l>>) + Len(L) : x[i] = IF i <= Len(<<l>>) THEN <<l>>[i] ELSE L[i - Len(<<l>>)]
  BY <1>1, ConcatProperties
<1> HIDE DEF x
<1>3. /\ Len(x) = 1 + Len(L) /\ x[1] = l
      /\ \A i \in 1 .. Len(L) : x[i + 1] = L[i]
  <2>1. 1 \in 1 .. Len(<<l>>) + Len(L)
    BY <1>1
  <2>2. \A i \in 1 .. Len(L) : i + 1 \in 1 .. Len(<<l>>) + Len(L) /\ ~(i + 1 <= 1) /\ (i + 1) - 1 = i
    BY <1>1
  <2> QED BY <1>1, <1>2, <2>1, <2>2
<1>4. x # <<>>
  BY <1>1, <1>3
<1>5. Head(x) = l
  BY <1>3
<1>6. /\ Tail(x) \in Seq(S) /\ Len(Tail(x)) = Len(x) - 1
      /\ \A i \in 1 .. Len(Tail(x)) : Tail(x)[i] = x[i + 1]
  BY <1>2, <1>4, HeadTailProperties
<1>7. Len(Tail(x)) = Len(L)
  BY <1>1, <1>3, <1>6
<1>8. Tail(x) = L
  BY <1>3, <1>6, <1>7, SeqEqual
<1> QED BY <1>4, <1>5, <1>8 DEF x

\* The first of what is left of a sequence, and what is left after it.
LEMMA HeadOfRest ==
    ASSUME NEW S, NEW b \in Seq(S), NEW r \in Nat, r < Len(b)
    PROVE  /\ SubSeq(b, r + 1, Len(b)) # <<>>
           /\ Head(SubSeq(b, r + 1, Len(b))) = b[r + 1]
           /\ Tail(SubSeq(b, r + 1, Len(b))) = SubSeq(b, (r + 1) + 1, Len(b))
<1> DEFINE m == r + 1
           n == Len(b)
<1>1. n \in Nat /\ m \in 1 .. n /\ n \in m .. n /\ m \in Int /\ n \in Int /\ m <= n
  BY LenProperties
<1> HIDE DEF m, n
<1>2. Head(SubSeq(b, m, n)) = b[m] /\ Tail(SubSeq(b, m, n)) = SubSeq(b, m + 1, n)
  <2>1. m \in 1 .. Len(b) /\ n \in m .. Len(b)
    BY <1>1 DEF n
  <2> QED BY <2>1, HeadTailOfSubSeq
<1>3. SubSeq(b, m, n) # <<>>
  <2>1. \A i \in m .. n : b[i] \in S
    <3>1. \A i \in m .. n : i \in 1 .. Len(b)
      BY <1>1 DEF n
    <3> QED BY <3>1, ElementOfSeq
  <2>2. Len(SubSeq(b, m, n)) = IF m <= n THEN n - m + 1 ELSE 0
    BY <1>1, <2>1, SubSeqProperties
  <2>3. Len(SubSeq(b, m, n)) # 0
    BY <1>1, <2>2
  <2>4. Len(<<>>) = 0
    OBVIOUS
  <2> QED BY <2>3, <2>4
<1> QED BY <1>2, <1>3 DEF m, n

\* A ready buffer gives the next character of its line.
LEMMA StreamGives ==
    ASSUME StreamInv, NEW u \in Uarts, Give(u), Waiting(u)' = Waiting(u)
    PROVE  GetchStep(u)
<1> DEFINE b == buf[u]
           n == buflen[u]
           r == rdindex[u]
           w == Waiting(u)
           C == CompleteLines(<<>> \o w)
           q == SubSeq(b, r + 1, Len(b))
<1>0. IInv /\ LineInv /\ MainInv /\ alphabet \in Alphabets
  BY DEF StreamInv, IInv, DeviceInv
<1>1. /\ b \in Seq(Chars) /\ n \in Nat /\ n > 0 /\ r \in Nat /\ r + n = Len(b)
      /\ Len(b) \in Nat /\ r < Len(b)
  <2>1. n > 0 /\ b \in Seq(Chars) /\ n \in 0 .. LineSize /\ r \in 0 .. LineSize /\ r + n = Len(b)
    BY <1>0 DEF Give, LineInv
  <2>2. LineSize \in Nat
    BY SizeAssumption
  <2> QED BY <2>1, <2>2
<1>2. /\ q # <<>> /\ Head(q) = b[r + 1] /\ Tail(q) = SubSeq(b, (r + 1) + 1, Len(b))
  BY <1>1, HeadOfRest
<1>3. /\ buflen'[u] = n - 1 /\ rdindex'[u] = (IF n = 1 THEN 0 ELSE r + 1)
      /\ buf'[u] = (IF n = 1 THEN <<>> ELSE b)
  BY <1>0 DEF Give, LineInv
<1>4. ret'[u] = b[r + 1]
  <2>1. ret' = [ret EXCEPT ![u] = b[r + 1]]
    BY DEF Give, Return
  <2> QED BY <1>0, <2>1 DEF MainInv
<1>5. RestOf(u)' = Tail(q)
  <2>1. CASE n = 1
    <3>1. ~(buflen'[u] > 0)
      BY <1>3, <2>1
    <3>2. RestOf(u)' = <<>>
      BY <3>1 DEF RestOf, Begun
    <3> DEFINE m == (r + 1) + 1
               l == Len(b)
    <3>3. m \in Int /\ l \in Int /\ l < m
      BY <1>1, <2>1
    <3> HIDE DEF m, l
    <3>4. SubSeq(b, m, l) = <<>>
      BY <3>3, SubSeqEmpty
    <3> QED BY <1>2, <3>2, <3>4 DEF m, l
  <2>2. CASE n # 1
    <3>1. buflen'[u] > 0 /\ rdindex'[u] > 0 /\ rdindex'[u] = r + 1 /\ buf'[u] = b
      BY <1>1, <1>3, <2>2
    <3>2. RestOf(u)' = SubSeq(b, (r + 1) + 1, Len(b))
      BY <3>1 DEF RestOf, Begun
    <3> QED BY <1>2, <3>2
  <2> QED BY <2>1, <2>2
<1>6. LinesOf(u)' = <<>> \o C
  <2>1. CASE n = 1
    <3>1. ~(buflen'[u] > 0) /\ buf'[u] = <<>>
      BY <1>3, <2>1
    <3> QED BY <3>1 DEF LinesOf, Unread, Ready
  <2>2. CASE n # 1
    <3>1. buflen'[u] > 0 /\ ~(rdindex'[u] = 0)
      BY <1>1, <1>3, <2>2
    <3> QED BY <3>1 DEF LinesOf, Unread, Ready
  <2> QED BY <2>1, <2>2
<1>7. r = 0 => LinesOf(u) = <<b>> \o C /\ RestOf(u) = <<>>
  <2>1. n > 0
    BY <1>1
  <2>2. r = 0 => ~(r > 0)
    OBVIOUS
  <2> QED BY <2>1, <2>2 DEF LinesOf, Unread, Ready, RestOf, Begun
<1>8. r # 0 => LinesOf(u) = <<>> \o C /\ RestOf(u) = q
  <2>1. n > 0
    BY <1>1
  <2>2. r # 0 => r > 0
    BY <1>1
  <2> QED BY <2>1, <2>2 DEF LinesOf, Unread, Ready, RestOf, Begun
<1>9. C \in Seq(LineSet(Chars))
  <2>1. w \in Seq(Chars)
    BY <1>0, WaitingTyped
  <2>2. <<>> \o w = w
    BY <2>1, ConcatEmptySeq
  <2>3. CompleteLines(w) \in Seq(LineSet(Chars))
    BY <2>1, LinesTyped
  <2> QED BY <2>2, <2>3
<1>10. r = 0 => q = b
  <2> SUFFICES ASSUME r = 0 PROVE q = b
    OBVIOUS
  <2>1. q = SubSeq(b, 1, Len(b))
    OBVIOUS
  <2> QED BY <1>1, <2>1, SubSeqFull
<1> HIDE DEF b, n, r, w, C, q
<1>11. <<>> \o C = C
  BY <1>9, ConcatEmptySeq
<1>12. CASE r = 0
  <2> DEFINE T == LineSet(Chars) \cup Seq(Chars)
  <2>1. b \in T /\ C \in Seq(T)
    <3>1. LineSet(Chars) \subseteq T /\ b \in T
      BY <1>1
    <3> HIDE DEF T
    <3> QED BY <1>9, <3>1, SeqMonotonic
  <2> HIDE DEF T
  <2>2. /\ <<b>> \o C # <<>> /\ Head(<<b>> \o C) = b /\ Tail(<<b>> \o C) = C
    BY <2>1, HeadTailConcat
  <2>3. /\ RestOf(u) = <<>> /\ LinesOf(u) # <<>>
        /\ ret'[u] = Head(Head(LinesOf(u))) /\ RestOf(u)' = Tail(Head(LinesOf(u)))
        /\ LinesOf(u)' = Tail(LinesOf(u))
    BY <1>2, <1>4, <1>5, <1>6, <1>7, <1>10, <1>11, <1>12, <2>2
  <2> QED BY <2>3 DEF GetchStep
<1>13. CASE r # 0
  <2>1. /\ RestOf(u) # <<>>
        /\ ret'[u] = Head(RestOf(u)) /\ RestOf(u)' = Tail(RestOf(u))
        /\ LinesOf(u)' = LinesOf(u)
    BY <1>2, <1>4, <1>5, <1>6, <1>8, <1>13
  <2> QED BY <2>1 DEF GetchStep
<1> QED BY <1>12, <1>13

\* A call that has no character.
LEMMA StreamNone ==
    ASSUME StreamInv, NEW u \in Uarts, buflen[u] = 0, ret' = [ret EXCEPT ![u] = NoChar],
           LinesOf(u)' = LinesOf(u), RestOf(u)' = RestOf(u)
    PROVE  GetchStep(u)
<1>1. ~(buflen[u] > 0)
  OBVIOUS
<1>2. RestOf(u) = <<>>
  BY <1>1 DEF RestOf, Begun
<1>3. ret'[u] = NoChar
  BY DEF StreamInv, IInv, MainInv
<1> QED BY <1>2, <1>3 DEF GetchStep

\* A sequence is its first element and the others.
LEMMA ConcatHeadTail ==
    ASSUME NEW S, NEW s \in Seq(S), s # <<>>
    PROVE  s = <<Head(s)>> \o Tail(s)
<1> DEFINE h == <<Head(s)>>
           t == Tail(s)
           x == h \o t
<1>1. /\ Head(s) \in S /\ t \in Seq(S) /\ Len(t) = Len(s) - 1
      /\ \A i \in 1 .. Len(t) : t[i] = s[i + 1]
  BY HeadTailProperties
<1>2. h \in Seq(S) /\ Len(h) = 1 /\ h[1] = s[1]
  BY <1>1
<1>3. Len(s) \in Nat
  BY LenProperties
<1> HIDE DEF h, t
<1>4. /\ x \in Seq(S) /\ Len(x) = Len(h) + Len(t)
      /\ \A i \in 1 .. Len(h) + Len(t) : x[i] = IF i <= Len(h) THEN h[i] ELSE t[i - Len(h)]
  <2>1. \A v, y \in Seq(S) :
          /\ v \o y \in Seq(S) /\ Len(v \o y) = Len(v) + Len(y)
          /\ \A i \in 1 .. Len(v) + Len(y) : (v \o y)[i] = IF i <= Len(v) THEN v[i] ELSE y[i - Len(v)]
    BY ConcatProperties
  <2>2. h \in Seq(S) /\ t \in Seq(S)
    BY <1>1, <1>2
  <2> QED BY <2>1, <2>2, Zenon
<1> HIDE DEF x
<1>5. Len(x) = Len(s)
  BY <1>1, <1>2, <1>3, <1>4
<1>6. ASSUME NEW i \in 1 .. Len(s) PROVE x[i] = s[i]
  <2>1. i \in 1 .. Len(h) + Len(t)
    BY <1>1, <1>2, <1>3
  <2>2. CASE i = 1
    BY <1>2, <1>4, <2>1, <2>2
  <2>3. CASE i # 1
    <3>1. ~(i <= 1) /\ i - 1 \in 1 .. Len(t) /\ (i - 1) + 1 = i
      BY <1>1, <1>3, <2>3
    <3>2. x[i] = t[i - 1]
      BY <1>2, <1>4, <2>1, <3>1
    <3>3. t[i - 1] = s[(i - 1) + 1]
      BY <1>1, <3>1
    <3> QED BY <3>1, <3>2, <3>3
  <2> QED BY <2>2, <2>3
<1>7. x = s
  BY <1>4, <1>5, <1>6, SeqEqual
<1> QED BY <1>7 DEF x, h, t

-----------------------------------------------------------------------------
(***************************************************************************)
(* The steps of the two streams.                                            *)
(***************************************************************************)
\* What a step of the program is for one stream: a line is complete, or getch was
\* called, or nothing.
ArriveStep(u) ==
    \E l \in Lines : LinesOf(u)' = Append(LinesOf(u), l) /\ RestOf(u)' = RestOf(u) /\ ret'[u] = ret[u]
Quiet(u) == LinesOf(u)' = LinesOf(u) /\ RestOf(u)' = RestOf(u) /\ ret'[u] = ret[u]
StreamStep(u) == ArriveStep(u) \/ GetchStep(u) \/ Quiet(u)

\* A step that leaves a stream alone is quiet for it.
LEMMA QuietStep ==
    ASSUME NEW u \in Uarts, BufferKept(u), Waiting(u)' = Waiting(u), ret'[u] = ret[u]
    PROVE  StreamStep(u)
BY StreamKept DEF StreamStep, Quiet

\* A character that arrives completes a line or is quiet for the stream.
LEMMA GrowingStep ==
    ASSUME IInv, NEW u \in Uarts, BufferKept(u), NEW c \in Chars,
           Waiting(u)' = Append(Waiting(u), c), ret'[u] = ret[u]
    PROVE  StreamStep(u)
<1>1. /\ RestOf(u)' = RestOf(u)
      /\ \/ LinesOf(u)' = LinesOf(u)
         \/ \E l \in Lines : LinesOf(u)' = Append(LinesOf(u), l)
  BY StreamGrows
<1> QED BY <1>1 DEF StreamStep, ArriveStep, Quiet

\* What waits on the JTAG line is in its UART, before a step and after it.
LEMMA JtagWaiting == Waiting("jtag") = hw["jtag"] /\ Waiting("jtag")' = hw'["jtag"]
BY DEF Waiting

\* What waits on the RS232 line does not change with rxbuffer untouched.
LEMMA RingWaitingKept ==
    ASSUME rxbuffer' = rxbuffer, rdptr' = rdptr, rxbuflen' = rxbuflen
    PROVE  Waiting("rs232")' = Waiting("rs232")
<1>1. Waiting("rs232")' = [i \in 1 .. rxbuflen' |-> rxbuffer'[(rdptr' + i - 1) % RxSize]]
  BY DEF Waiting
<1>2. Waiting("rs232") = [i \in 1 .. rxbuflen |-> rxbuffer[(rdptr + i - 1) % RxSize]]
  BY DEF Waiting
<1>3. [i \in 1 .. rxbuflen' |-> rxbuffer'[(rdptr' + i - 1) % RxSize]]
      = [i \in 1 .. rxbuflen |-> rxbuffer[(rdptr + i - 1) % RxSize]]
  OBVIOUS
<1> QED BY <1>1, <1>2, <1>3

\* The line buffers do not change.
LEMMA LinesKept ==
    ASSUME NEW u \in Uarts, UNCHANGED lineVars
    PROVE  BufferKept(u)
BY DEF BufferKept, lineVars

\* A step that is only a poll of the RS232 receiver.
LEMMA PollingStep ==
    ASSUME IInv, Poll, UNCHANGED <<alphabet, lineVars, ret>>
    PROVE  StreamStep("jtag") /\ StreamStep("rs232")
<1>0. /\ "jtag" \in Uarts /\ "rs232" \in Uarts /\ DeviceInv /\ RingInv
      /\ BufferKept("jtag") /\ BufferKept("rs232")
      /\ ret'["jtag"] = ret["jtag"] /\ ret'["rs232"] = ret["rs232"]
  BY LinesKept DEF IInv, Uarts
<1>1. StreamStep("jtag")
  <2>1. hw'["jtag"] = hw["jtag"]
    BY <1>0 DEF Poll, DeviceInv, Uarts
  <2>2. Waiting("jtag")' = Waiting("jtag")
    BY <2>1, JtagWaiting
  <2> QED BY <1>0, <2>2, QuietStep
<1>2. StreamStep("rs232")
  <2>1. CASE Waiting("rs232")' = Waiting("rs232")
    BY <1>0, <2>1, QuietStep
  <2>2. CASE \E c \in Chars : Waiting("rs232")' = Append(Waiting("rs232"), c)
    BY <1>0, <2>2, GrowingStep
  <2>3. Waiting("rs232")' = Waiting("rs232")
        \/ \E c \in Chars : Waiting("rs232")' = Append(Waiting("rs232"), c)
    BY <1>0, PollWaiting
  <2> QED BY <2>1, <2>2, <2>3
<1> QED BY <1>1, <1>2

\* A step that touches no buffer.
LEMMA OtherStep ==
    ASSUME hw'["jtag"] = hw["jtag"], UNCHANGED lineVars,
           rxbuffer' = rxbuffer, rdptr' = rdptr, rxbuflen' = rxbuflen,
           NEW u \in Uarts, ret'[u] = ret[u]
    PROVE  StreamStep(u)
<1>1. CASE u = "jtag"
  BY <1>1, JtagWaiting, LinesKept, QuietStep
<1>2. CASE u = "rs232"
  BY <1>2, RingWaitingKept, LinesKept, QuietStep
<1> QED BY <1>1, <1>2 DEF Uarts

\* A character arrives on one of the lines.
LEMMA TypedStep ==
    ASSUME IInv, NEW v \in Uarts, Typed(v)
    PROVE  StreamStep("jtag") /\ StreamStep("rs232")
<1>0. /\ "jtag" \in Uarts /\ "rs232" \in Uarts /\ DeviceInv
      /\ rxbuffer' = rxbuffer /\ rdptr' = rdptr /\ rxbuflen' = rxbuflen /\ UNCHANGED lineVars
      /\ ret'["jtag"] = ret["jtag"] /\ ret'["rs232"] = ret["rs232"]
  BY DEF IInv, Typed, rxVars, Uarts
<1>1. StreamStep("rs232")
  BY <1>0, RingWaitingKept, LinesKept, QuietStep
<1>2. PICK c \in alphabet[v] : hw' = [hw EXCEPT ![v] = Append(hw[v], c)]
  BY DEF Typed
<1>3. c \in Chars
  BY DEF Chars
<1>4. CASE v = "jtag"
  <2>1. hw'["jtag"] = Append(hw["jtag"], c)
    BY <1>0, <1>2, <1>4 DEF DeviceInv
  <2>2. Waiting("jtag")' = Append(Waiting("jtag"), c)
    BY <2>1, JtagWaiting
  <2>3. BufferKept("jtag")
    BY <1>0, LinesKept
  <2> QED BY <1>0, <1>1, <1>3, <2>2, <2>3, GrowingStep
<1>5. CASE v = "rs232"
  <2>1. hw'["jtag"] = hw["jtag"]
    BY <1>0, <1>2, <1>5 DEF DeviceInv
  <2> QED BY <1>0, <1>1, <2>1, OtherStep
<1> QED BY <1>4, <1>5 DEF Uarts

\* jtag_uart_getch takes a character, or finds none.
LEMMA JtagStep ==
    ASSUME StreamInv, IInv', GetchJtag
    PROVE  StreamStep("jtag") /\ StreamStep("rs232")
<1>0. /\ "jtag" \in Uarts /\ "rs232" \in Uarts /\ IInv /\ DeviceInv /\ LineInv /\ UnfinishedInv /\ MainInv
      /\ rxbuffer' = rxbuffer /\ rdptr' = rdptr /\ rxbuflen' = rxbuflen /\ UNCHANGED alphabet
      /\ buflen["jtag"] = 0
  BY DEF StreamInv, IInv, GetchJtag, rxVars, Uarts
<1>1. ret'["rs232"] = ret["rs232"]
  BY <1>0 DEF GetchJtag, Return, MainInv
<1>2. CASE hw["jtag"] = <<>>
  <2>1. /\ UNCHANGED lineVars /\ ret' = [ret EXCEPT !["jtag"] = NoChar] /\ hw' = hw
    BY <1>2 DEF GetchJtag, Return
  <2>2. StreamStep("rs232")
    BY <1>0, <1>1, <2>1, OtherStep
  <2>3. LinesOf("jtag")' = LinesOf("jtag") /\ RestOf("jtag")' = RestOf("jtag")
    BY <1>0, <2>1, JtagWaiting, LinesKept, StreamKept
  <2>4. GetchStep("jtag")
    BY <1>0, <2>1, <2>3, StreamNone
  <2> QED BY <2>2, <2>4 DEF StreamStep
<1>3. CASE hw["jtag"] # <<>>
  <2> DEFINE c == Head(hw["jtag"])
  <2>1. /\ Store("jtag", c) /\ hw' = [hw EXCEPT !["jtag"] = Tail(hw["jtag"])]
        /\ c = Eol => ret' = ret
        /\ c # Eol => ret' = [ret EXCEPT !["jtag"] = NoChar]
    BY <1>3 DEF GetchJtag, Return
  <2>2. hw["jtag"] \in Seq(Chars) /\ hw'["jtag"] = Tail(hw["jtag"])
    BY <1>0, <2>1 DEF DeviceInv
  <2>3. c \in Chars /\ hw["jtag"] = <<c>> \o Tail(hw["jtag"])
    BY <1>3, <2>2, HeadTailProperties, ConcatHeadTail
  <2>4. Waiting("jtag") = <<c>> \o Waiting("jtag")'
    BY <2>2, <2>3, JtagWaiting
  <2> HIDE DEF c
  <2>5. LinesOf("jtag")' = LinesOf("jtag") /\ RestOf("jtag")' = RestOf("jtag")
    BY <1>0, <2>1, <2>3, <2>4, StreamStores
  <2>6. StreamStep("jtag")
    <3>1. CASE c = Eol
      <4>1. ret'["jtag"] = ret["jtag"]
        BY <2>1, <3>1
      <4> QED BY <2>5, <4>1 DEF StreamStep, Quiet
    <3>2. CASE c # Eol
      <4>1. GetchStep("jtag")
        BY <1>0, <2>1, <2>5, <3>2, StreamNone
      <4> QED BY <4>1 DEF StreamStep
    <3> QED BY <3>1, <3>2
  <2>7. StreamStep("rs232")
    <3>1. /\ \A v \in Uarts \ {"jtag"} : buf'[v] = buf[v] /\ buflen'[v] = buflen[v]
          /\ rdindex' = rdindex
      BY <1>0, <2>1, <2>3, StoreCases, Zenon
    <3>2. BufferKept("rs232")
      BY <1>0, <3>1 DEF BufferKept
    <3> QED BY <1>0, <1>1, <3>2, RingWaitingKept, QuietStep
  <2> QED BY <2>6, <2>7
<1> QED BY <1>2, <1>3

\* rs232_uart_getch takes a character out of rxbuffer.
LEMMA TakingStep ==
    ASSUME StreamInv, IInv', TakeRs232
    PROVE  StreamStep("jtag") /\ StreamStep("rs232")
<1> DEFINE c == rxbuffer[rdptr]
<1>0. /\ "jtag" \in Uarts /\ "rs232" \in Uarts /\ IInv /\ DeviceInv /\ RingInv /\ LineInv /\ UnfinishedInv
      /\ UNCHANGED alphabet /\ buflen["rs232"] = 0
      /\ ret'["jtag"] = ret["jtag"] /\ ret'["rs232"] = ret["rs232"]
      /\ hw' = hw /\ Store("rs232", c)
  BY DEF StreamInv, IInv, TakeRs232, LoopInv, Uarts
<1>1. rxbuflen > 0
  BY DEF StreamInv, IInv, LoopInv, TakeRs232, RingInv, MainInv
<1>2. c \in Chars /\ Waiting("rs232") = <<c>> \o Waiting("rs232")'
  <2>1. UNCHANGED <<alphabet, wrptr>> /\ rdptr' = After(rdptr) /\ rxbuflen' = rxbuflen - 1
        /\ rxbuffer' = [rxbuffer EXCEPT ![rdptr] = NoChar]
    BY DEF TakeRs232
  <2> QED BY <1>0, <1>1, <2>1, TakeStep, TakeWaiting
<1> HIDE DEF c
<1>3. LinesOf("rs232")' = LinesOf("rs232") /\ RestOf("rs232")' = RestOf("rs232")
  BY <1>0, <1>2, StreamStores
<1>4. /\ \A v \in Uarts \ {"rs232"} : buf'[v] = buf[v] /\ buflen'[v] = buflen[v]
      /\ rdindex' = rdindex
  BY <1>0, <1>2, StoreCases, Zenon
<1>5. BufferKept("jtag")
  BY <1>0, <1>4 DEF BufferKept
<1>6. Waiting("jtag")' = Waiting("jtag")
  BY <1>0, JtagWaiting
<1>7. StreamStep("jtag")
  BY <1>0, <1>5, <1>6, QuietStep
<1> QED BY <1>0, <1>3, <1>7 DEF StreamStep, Quiet

\* getch returns a character of a ready line.
LEMMA GivingStep ==
    ASSUME StreamInv, NEW v \in Uarts, Give(v)
    PROVE  StreamStep("jtag") /\ StreamStep("rs232")
<1>0. /\ "jtag" \in Uarts /\ "rs232" \in Uarts /\ LineInv /\ MainInv
      /\ rxbuffer' = rxbuffer /\ rdptr' = rdptr /\ rxbuflen' = rxbuflen /\ hw' = hw
  BY DEF StreamInv, IInv, Give, rxVars, Uarts
<1>1. Waiting("jtag")' = Waiting("jtag") /\ Waiting("rs232")' = Waiting("rs232")
  BY <1>0, JtagWaiting, RingWaitingKept
<1>2. Waiting(v)' = Waiting(v)
  BY <1>1 DEF Uarts
<1>3. StreamStep(v)
  BY <1>2, StreamGives DEF StreamStep
<1>4. ASSUME NEW u \in Uarts, u # v PROVE StreamStep(u)
  <2>1. BufferKept(u) /\ ret'[u] = ret[u]
    BY <1>0, <1>4 DEF Give, Return, BufferKept, LineInv, MainInv
  <2>2. Waiting(u)' = Waiting(u)
    BY <1>1 DEF Uarts
  <2> QED BY <2>1, <2>2, QuietStep
<1> QED BY <1>0, <1>3, <1>4

\* Every step is one of these for each of the two lines.
LEMMA StreamSteps ==
    ASSUME StreamInv, IInv', [Next]_vars
    PROVE  StreamStep("jtag") /\ StreamStep("rs232")
<1>0. /\ IInv /\ DeviceInv /\ RingInv /\ MainInv /\ NoneInv /\ "jtag" \in Uarts /\ "rs232" \in Uarts
  BY DEF StreamInv, IInv, Uarts
<1>1. ASSUME NEW v \in Uarts, Typed(v) PROVE StreamStep("jtag") /\ StreamStep("rs232")
  BY <1>0, <1>1, TypedStep
<1>2. CASE Idle \/ PutIdle \/ ReadRs232 \/ QueryRs232
  <2>1. Poll /\ UNCHANGED <<alphabet, lineVars, ret>>
    BY <1>2 DEF Idle, PutIdle, ReadRs232, QueryRs232
  <2> QED BY <1>0, <2>1, PollingStep
<1>3. CASE GetchEth \/ Write \/ UNCHANGED vars
  <2>1. hw' = hw /\ rxbuffer' = rxbuffer /\ rdptr' = rdptr /\ rxbuflen' = rxbuflen /\ UNCHANGED lineVars /\ ret' = ret
    BY <1>3 DEF GetchEth, Write, vars, rxVars
  <2> QED BY <1>0, <2>1, OtherStep
<1>4. CASE GetchJtag
  BY <1>4, JtagStep
<1>5. CASE TakeRs232
  BY <1>5, TakingStep
<1>6. CASE NoneRs232
  <2>1. /\ hw' = hw /\ rxbuffer' = rxbuffer /\ rdptr' = rdptr /\ rxbuflen' = rxbuflen /\ UNCHANGED lineVars
        /\ ret' = [ret EXCEPT !["rs232"] = NoChar] /\ buflen["rs232"] = 0
    BY <1>0, <1>6 DEF NoneRs232, Return, rxVars, NoneInv
  <2>2. ret'["jtag"] = ret["jtag"]
    BY <1>0, <2>1 DEF MainInv
  <2>3. StreamStep("jtag")
    BY <1>0, <2>1, <2>2, OtherStep
  <2>4. LinesOf("rs232")' = LinesOf("rs232") /\ RestOf("rs232")' = RestOf("rs232")
    BY <1>0, <2>1, RingWaitingKept, LinesKept, StreamKept
  <2>5. GetchStep("rs232")
    BY <1>0, <2>1, <2>4, StreamNone
  <2> QED BY <2>3, <2>5 DEF StreamStep
<1>7. ASSUME NEW v \in Uarts, Give(v) PROVE StreamStep("jtag") /\ StreamStep("rs232")
  BY <1>7, GivingStep
<1> QED BY <1>1, <1>2, <1>3, <1>4, <1>5, <1>6, <1>7 DEF Next, Main

-----------------------------------------------------------------------------
(***************************************************************************)
(* Both lines implement LineStream.                                         *)
(***************************************************************************)
\* What an appended sequence begins and ends with.
LEMMA FrontOfAppend ==
    ASSUME NEW S, NEW L \in Seq(S), NEW l \in S
    PROVE  Append(L, l) # <<>> /\ Front(Append(L, l)) = L /\ Last(Append(L, l)) = l
<1> DEFINE x == Append(L, l)
           n == Len(L)
<1>1. /\ x \in Seq(S) /\ Len(x) = n + 1 /\ x # <<>> /\ n \in Nat
      /\ SubSeq(x, 1, n) = L /\ x[n + 1] = l
  BY AppendProperties, LenProperties
<1>2. Len(x) - 1 = n
  BY <1>1
<1> HIDE DEF x, n
<1>3. Front(x) = L /\ Last(x) = l
  BY <1>1, <1>2 DEF Front, Last
<1> QED BY <1>1, <1>3 DEF x

\* The lines of a stream are made of those it may deliver and of a ready buffer.
LEMMA LinesOfTyped ==
    ASSUME IInv, NEW u \in Uarts
    PROVE  LinesOf(u) \in Seq(Lines \cup Seq(Chars))
<1> DEFINE T == Lines \cup Seq(Chars)
           C == CompleteLines(Unread(u))
           r == ReadyLine(u)
<1>1. r \in Seq(T)
  <2>1. Seq(Chars) \subseteq T /\ r \in Seq(Seq(Chars))
    BY ReadyLineTyped
  <2> HIDE DEF T, r
  <2> QED BY <2>1, SeqMonotonic
<1>2. C \in Seq(T)
  <2>1. LineSet(Chars) \subseteq T
    BY LinesInSet DEF IInv, DeviceInv
  <2>2. C \in Seq(LineSet(Chars))
    BY PendingTyped
  <2> HIDE DEF T, C
  <2> QED BY <2>1, <2>2, SeqMonotonic
<1>3. LinesOf(u) = r \o C
  BY PendingTyped
<1> HIDE DEF T, r, C
<1>4. r \o C \in Seq(T)
  BY <1>1, <1>2, ConcatProperties
<1> QED BY <1>3, <1>4 DEF T

\* The abstract steps of the two streams.
LEMMA ArriveIsStep ==
    ASSUME IInv, NEW u \in Uarts, ArriveStep(u)
    PROVE  /\ LinesOf(u)' # <<>> /\ Front(LinesOf(u)') = LinesOf(u) /\ Last(LinesOf(u)') \in Lines
           /\ RestOf(u)' = RestOf(u) /\ ret'[u] = ret[u]
<1>1. PICK l \in Lines : LinesOf(u)' = Append(LinesOf(u), l) /\ RestOf(u)' = RestOf(u) /\ ret'[u] = ret[u]
  BY DEF ArriveStep
<1> DEFINE L == LinesOf(u)
           S == Lines \cup Seq(Chars)
<1>2. L \in Seq(S) /\ l \in S
  BY LinesOfTyped
<1> HIDE DEF L, S
<1>3. Append(L, l) # <<>> /\ Front(Append(L, l)) = L /\ Last(Append(L, l)) = l
  BY <1>2, FrontOfAppend
<1> QED BY <1>1, <1>3 DEF L

\* Every step of the program is a step of LineStream for the JTAG line.
LEMMA JtagImplements ==
    ASSUME IInv, StreamStep("jtag")
    PROVE  [Jtag!Next]_<<LinesOf("jtag"), RestOf("jtag"), ret["jtag"]>>
<1>0. "jtag" \in Uarts
  BY DEF Uarts
<1>1. CASE ArriveStep("jtag")
  <2>1. Jtag!Arrive
    BY <1>0, <1>1, ArriveIsStep DEF Jtag!Arrive, Jtag!Front, Jtag!Last, Front, Last
  <2> QED BY <2>1 DEF Jtag!Next
<1>2. CASE GetchStep("jtag")
  <2>1. Jtag!Getch
    BY <1>2 DEF GetchStep, Jtag!Getch
  <2> QED BY <2>1 DEF Jtag!Next
<1>3. CASE Quiet("jtag")
  BY <1>3 DEF Quiet
<1> QED BY <1>1, <1>2, <1>3 DEF StreamStep

\* Every step of the program is a step of LineStream for the RS232 line.
LEMMA Rs232Implements ==
    ASSUME IInv, StreamStep("rs232")
    PROVE  [Rs232!Next]_<<LinesOf("rs232"), RestOf("rs232"), ret["rs232"]>>
<1>0. "rs232" \in Uarts
  BY DEF Uarts
<1>1. CASE ArriveStep("rs232")
  <2>1. Rs232!Arrive
    BY <1>0, <1>1, ArriveIsStep DEF Rs232!Arrive, Rs232!Front, Rs232!Last, Front, Last
  <2> QED BY <2>1 DEF Rs232!Next
<1>2. CASE GetchStep("rs232")
  <2>1. Rs232!Getch
    BY <1>2 DEF GetchStep, Rs232!Getch
  <2> QED BY <2>1 DEF Rs232!Next
<1>3. CASE Quiet("rs232")
  BY <1>3 DEF Quiet
<1> QED BY <1>1, <1>2, <1>3 DEF StreamStep

\* At the beginning nothing waits on either line.
LEMMA StreamsStart == Init => Jtag!Init /\ Rs232!Init
<1> SUFFICES ASSUME Init PROVE Jtag!Init /\ Rs232!Init
  OBVIOUS
<1>1. ASSUME NEW u \in Uarts PROVE LinesOf(u) = <<>> /\ RestOf(u) = <<>> /\ ret[u] = NoChar
  <2>1. /\ buf[u] = <<>> /\ buflen[u] = 0 /\ rdindex[u] = 0 /\ ret[u] = NoChar
        /\ hw[u] = <<>> /\ rxbuflen = 0
    BY DEF Init
  <2>2. Waiting(u) = <<>>
    <3>1. [i \in 1 .. rxbuflen |-> rxbuffer[(rdptr + i - 1) % RxSize]] = <<>>
      BY <2>1
    <3> QED BY <2>1, <3>1 DEF Waiting
  <2>3. ~(buflen[u] > 0)
    BY <2>1
  <2>4. Unread(u) = <<>>
    BY <2>1, <2>2, <2>3 DEF Unread
  <2>5. Ends(<<>>) = {}
    BY DEF Ends
  <2>6. Cardinality({}) = 0
    BY FS_EmptySet
  <2>7. CompleteLines(<<>>) = <<>>
    <3> DEFINE F(k) == Cut(SubSeq(<<>>, EndOf(<<>>, k - 1) + 1, EndOf(<<>>, k)))
    <3>1. CompleteLines(<<>>) = [k \in 1 .. Cardinality(Ends(<<>>)) |-> F(k)]
      BY DEF CompleteLines
    <3> HIDE DEF F
    <3>2. CompleteLines(<<>>) = [k \in 1 .. 0 |-> F(k)]
      BY <2>5, <2>6, <3>1
    <3>3. [k \in 1 .. 0 |-> F(k)] = <<>>
      OBVIOUS
    <3> QED BY <3>2, <3>3
  <2>8. LinesOf(u) = <<>> \o <<>> /\ RestOf(u) = <<>>
    BY <2>3, <2>4, <2>7 DEF LinesOf, Ready, RestOf, Begun
  <2> QED BY <2>1, <2>8
<1>2. "jtag" \in Uarts /\ "rs232" \in Uarts
  BY DEF Uarts
<1> QED BY <1>1, <1>2 DEF Jtag!Init, Rs232!Init

\* Both serial lines implement LineStream: they deliver whole lines, each character
\* once and in order, cut to the size of the buffer but never without their end, and a
\* line once begun without a gap (jtag_uart_getch, rs232_uart_getch).
THEOREM DeliversLinesAlways == Spec => DeliversLines
<1>1. Init => StreamInv /\ Jtag!Init /\ Rs232!Init
  BY StreamInit, StreamsStart
<1>2. StreamInv /\ [Next]_vars => StreamInv'
  BY StreamNextInv
<1>3. StreamInv /\ StreamInv' /\ [Next]_vars =>
        /\ [Jtag!Next]_<<LinesOf("jtag"), RestOf("jtag"), ret["jtag"]>>
        /\ [Rs232!Next]_<<LinesOf("rs232"), RestOf("rs232"), ret["rs232"]>>
  <2> SUFFICES ASSUME StreamInv, StreamInv', [Next]_vars
               PROVE  /\ [Jtag!Next]_<<LinesOf("jtag"), RestOf("jtag"), ret["jtag"]>>
                      /\ [Rs232!Next]_<<LinesOf("rs232"), RestOf("rs232"), ret["rs232"]>>
    OBVIOUS
  <2>1. IInv /\ IInv'
    BY DEF StreamInv
  <2>2. StreamStep("jtag") /\ StreamStep("rs232")
    BY <2>1, StreamSteps
  <2>3. [Jtag!Next]_<<LinesOf("jtag"), RestOf("jtag"), ret["jtag"]>>
    BY <2>1, <2>2, JtagImplements
  <2>4. [Rs232!Next]_<<LinesOf("rs232"), RestOf("rs232"), ret["rs232"]>>
    BY <2>1, <2>2, Rs232Implements
  <2> QED BY <2>3, <2>4
<1> QED BY <1>1, <1>2, <1>3, PTL DEF Spec, DeliversLines, Jtag!Spec, Rs232!Spec

-----------------------------------------------------------------------------
(***************************************************************************)
(* The main loop of the same program (Monitor), for any number of Ethernet   *)
(* ports and whatever the serial lines and those ports deliver.              *)
(***************************************************************************)
\* The line so far is a sequence, of whatever characters were delivered.
LineSeq == \E S : line \in Seq(S)

OutputInv == LineSeq /\ NothingLeft

\* The ports that a character of stream s is echoed to.
Echoed == OutPorts(stream, echo)

-----------------------------------------------------------------------------
\* A line with one more character is not empty.
LEMMA LongerLine ==
    ASSUME LineSeq, NEW c
    PROVE  (\E S : Append(line, c) \in Seq(S)) /\ Append(line, c) # <<>>
<1>1. PICK S : line \in Seq(S)
  BY DEF LineSeq
<1> DEFINE T == S \cup {c}
<1>2. line \in Seq(T)
  <2>1. /\ Len(line) \in Nat /\ DOMAIN line = 1 .. Len(line)
        /\ line \in [1 .. Len(line) -> S]
    BY <1>1
  <2>2. line \in [1 .. Len(line) -> T]
    BY <2>1
  <2> QED BY <2>1, <2>2
<1>3. c \in T
  OBVIOUS
<1> HIDE DEF T
<1>4. Append(line, c) \in Seq(T) /\ Len(Append(line, c)) = Len(line) + 1 /\ Len(line) \in Nat
  BY <1>2, <1>3, AppendProperties
<1>5. Append(line, c) # <<>>
  BY <1>4
<1> QED BY <1>4, <1>5

\* Whatever cmdexec makes of a line ends with output_send.
LEMMA EveryAnswerSends ==
    ASSUME NEW p PROVE Decoded(p)[1] \in Sends
BY DEF Decoded, Sends

\* A change of stream with a line begun leaves its echo behind.
LEMMA SwitchKeeps == OutputInv /\ Switch => OutputInv'
<1> SUFFICES ASSUME OutputInv, Switch PROVE OutputInv'
  OBVIOUS
<1>1. line' = <<>> /\ tx' = tx /\ left' = IF line = <<>> THEN left ELSE left \cup Echoed
  BY DEF Switch, Echoed
<1>2. tx \subseteq left \cup (IF line = <<>> THEN {} ELSE Echoed)
  BY DEF OutputInv, NothingLeft, Echoed
<1>3. <<>> \in Seq({})
  OBVIOUS
<1>4. LineSeq'
  BY <1>1, <1>3 DEF LineSeq
<1>5. tx' \subseteq left'
  BY <1>1, <1>2
<1> QED BY <1>1, <1>4, <1>5 DEF OutputInv, NothingLeft

\* A command leaves its answer only in a port that refused the frame, and its echo
\* only in a port that the command switched the echo away from.
LEMMA ExecuteKeeps ==
    ASSUME OutputInv, NEW p, Execute(p), line' = <<>>
    PROVE  OutputInv'
<1> DEFINE op == Decoded(p)
           new == EchoAfter(op)
           after == OutPorts(stream, new)
<1>1. tx \subseteq left \cup Echoed
  BY DEF OutputInv, NothingLeft, Echoed
<1>2. PICK t \in Written(tx, Echoed) : \E u \in Written(t, after) :
         \/ tx' = u \ after /\ left' = (left \cup Echoed) \ after
         \/ tx' = u /\ left' = IF op[1] \in Sends THEN left \cup Echoed \cup after ELSE left
  BY Zenon DEF Execute, Echoed
<1>3. PICK u \in Written(t, after) :
         \/ tx' = u \ after /\ left' = (left \cup Echoed) \ after
         \/ tx' = u /\ left' = IF op[1] \in Sends THEN left \cup Echoed \cup after ELSE left
  BY <1>2
<1>4. op[1] \in Sends
  BY EveryAnswerSends
<1> HIDE DEF op, after
<1>5. u \subseteq left \cup Echoed \cup after
  BY <1>1, <1>2, <1>3 DEF Written
<1>6. tx' \subseteq left'
  BY <1>3, <1>4, <1>5
<1>7. <<>> \in Seq({})
  OBVIOUS
<1>8. LineSeq'
  BY <1>7 DEF LineSeq
<1> QED BY <1>6, <1>8 DEF OutputInv, NothingLeft

LEMMA OutputInit == LoopInit => OutputInv
<1>1. <<>> \in Seq({})
  OBVIOUS
<1> QED BY <1>1 DEF LoopInit, OutputInv, LineSeq, NothingLeft

LEMMA OutputNext == OutputInv /\ [LoopNext]_loopVars => OutputInv'
<1> SUFFICES ASSUME OutputInv, [LoopNext]_loopVars PROVE OutputInv'
  OBVIOUS
<1>1. CASE NothingReady
  BY <1>1, SwitchKeeps DEF NothingReady
<1>2. CASE FrameEnds
  BY <1>2, SwitchKeeps DEF FrameEnds
<1>3. CASE EndOfString
  BY <1>3, SwitchKeeps DEF EndOfString
<1>4. CASE LineReady
  BY <1>4 DEF LineReady, OutputInv, LineSeq, NothingLeft, OutPorts
<1>5. CASE FrameReady
  BY <1>5 DEF FrameReady, OutputInv, LineSeq, NothingLeft, OutPorts
<1>6. CASE Character
  <2>1. CASE Head(rest) \in NewLines
    <3>1. Execute(Parse(fsm, Head(rest))) /\ line' = <<>>
      BY <1>6, <2>1, Zenon DEF Character
    <3> QED BY <3>1, ExecuteKeeps
  <2>2. CASE Head(rest) \notin NewLines
    <3>1. /\ line' = Append(line, Head(rest))
          /\ tx' \in Written(tx, Echoed)
          /\ UNCHANGED <<echo, left, stream>>
      BY <1>6, <2>2, Zenon DEF Character, Echoed
    <3>2. LineSeq' /\ line' # <<>>
      BY <3>1, LongerLine, Zenon DEF OutputInv, LineSeq
    <3>3. Echoed' = Echoed
      BY <3>1 DEF Echoed, OutPorts
    <3>4. tx \subseteq left \cup Echoed
      BY DEF OutputInv, NothingLeft, Echoed
    <3>5. tx' \subseteq left' \cup Echoed'
      BY <3>1, <3>3, <3>4 DEF Written
    <3> QED BY <3>2, <3>5 DEF OutputInv, NothingLeft, Echoed
  <2> QED BY <2>1, <2>2
<1>7. CASE UNCHANGED loopVars
  BY <1>7 DEF loopVars, OutputInv, LineSeq, NothingLeft, OutPorts
<1> QED BY <1>1, <1>2, <1>3, <1>4, <1>5, <1>6, <1>7 DEF LoopNext, Iteration

-----------------------------------------------------------------------------
\* A frame carries the output of one line only, for any number of ports, any lines and
\* any frames: nothing waits in a port's buffer between two lines (output_send,
\* monitor.c) but after a frame without an end of line, a frame that was refused, or a
\* change of the echo.
THEOREM NothingLeftAlways == LoopSpec => []NothingLeft
<1>1. OutputInv => NothingLeft
  BY DEF OutputInv
<1> QED BY <1>1, OutputInit, OutputNext, PTL DEF LoopSpec

\* The answer to a line of a frame goes to the address and port the frame came from
\* (eth_srcaddr, eth_srcport), whatever was echoed elsewhere in between.
THEOREM AnswersSenderAlways == LoopSpec => AnswersSender
<1>1. ASSUME [LoopNext]_loopVars
      PROVE  [sent' # None /\ IsEth(stream) => sent' = <<stream - 2, from>>]_loopVars
  <2>1. CASE UNCHANGED loopVars
    BY <2>1
  <2>2. CASE NothingReady \/ FrameEnds \/ EndOfString
    BY <2>2, Zenon DEF NothingReady, FrameEnds, EndOfString, Switch
  <2>3. CASE LineReady \/ FrameReady
    BY <2>3, Zenon DEF LineReady, FrameReady
  <2>4. CASE Character
    <3> SUFFICES ASSUME sent' # None, IsEth(stream)
                 PROVE  sent' = <<stream - 2, from>>
      OBVIOUS
    <3>1. eth_srcaddr' = from
      BY <2>4, Zenon DEF Character, SourceRead
    <3>2. Execute(Parse(fsm, Head(rest)))
      BY <2>4, Zenon DEF Character
    <3>3. \E e : sent' = <<CHOOSE x \in OutPorts(stream, e) : TRUE, eth_srcaddr'>>
      BY <3>2, Zenon DEF Execute
    <3>4. \A e : OutPorts(stream, e) = {stream - 2}
      BY DEF OutPorts
    <3>5. (CHOOSE x \in {stream - 2} : TRUE) = stream - 2
      BY Zenon
    <3> QED BY <3>1, <3>3, <3>4, <3>5, Zenon
  <2> QED BY <1>1, <2>1, <2>2, <2>3, <2>4 DEF LoopNext, Iteration
<1> QED BY <1>1, PTL DEF LoopSpec, AnswersSender

-----------------------------------------------------------------------------
(***************************************************************************)
(* The words of a line.                                                     *)
(***************************************************************************)
\* The last of a set of numbers and one more.
LEMMA NthLast ==
    ASSUME NEW E \in SUBSET Nat, IsFiniteSet(E), NEW m \in Nat, \A i \in E : i < m
    PROVE  /\ Nth(E \cup {m}, Cardinality(E) + 1) = m
           /\ IsFiniteSet(E \cup {m}) /\ Cardinality(E \cup {m}) = Cardinality(E) + 1
<1> DEFINE F == E \cup {m}
<1>1. m \notin E
  OBVIOUS
<1>2. IsFiniteSet(F) /\ Cardinality(F) = Cardinality(E) + 1
  BY <1>1, FS_AddElement
<1>3. F \in SUBSET Nat /\ m \in F
  OBVIOUS
<1>4. Upto(F, m) = F
  <2>1. \A i \in F : i <= m
    OBVIOUS
  <2> QED BY <2>1 DEF Upto
<1>5. Rank(F, m) = Cardinality(E) + 1
  BY <1>2, <1>4 DEF Rank
<1> HIDE DEF F
<1>6. Nth(F, Cardinality(E) + 1) = m
  BY <1>2, <1>3, <1>5, NthIs
<1> QED BY <1>2, <1>6 DEF F

\* The last character belongs to a word.
Open(l) == l # <<>> /\ l[Len(l)] \notin Blank

\* As many words end as begin.
HasWords(l) == Cardinality(WordStops(l)) = Cardinality(WordStarts(l))

\* The places where words begin and end are finite sets of places of the line.
LEMMA StartsOK ==
    ASSUME NEW S, NEW l \in Seq(S)
    PROVE  /\ WordStarts(l) \in SUBSET Nat /\ WordStops(l) \in SUBSET Nat
           /\ WordStarts(l) \subseteq 1 .. Len(l) /\ WordStops(l) \subseteq 1 .. Len(l)
           /\ IsFiniteSet(WordStarts(l)) /\ IsFiniteSet(WordStops(l))
           /\ Cardinality(WordStarts(l)) \in Nat /\ Cardinality(WordStops(l)) \in Nat
           /\ Len(l) \in Nat
<1>1. WordStarts(l) \subseteq 1 .. Len(l) /\ WordStops(l) \subseteq 1 .. Len(l) /\ Len(l) \in Nat
  BY LenProperties DEF WordStarts, WordStops
<1>2. IsFiniteSet(1 .. Len(l)) /\ 1 .. Len(l) \subseteq Nat
  BY <1>1, FS_Interval
<1>3. IsFiniteSet(WordStarts(l)) /\ IsFiniteSet(WordStops(l))
  BY <1>1, <1>2, FS_Subset
<1>4. Cardinality(WordStarts(l)) \in Nat /\ Cardinality(WordStops(l)) \in Nat
  BY <1>3, FS_CardinalityType
<1> QED BY <1>1, <1>2, <1>3, <1>4

\* Where the words of a line with one more character begin and end.
LEMMA StartsGrow ==
    ASSUME NEW S, NEW l \in Seq(S), NEW c \in S
    PROVE  /\ c \in Blank \/ Open(l) => WordStarts(Append(l, c)) = WordStarts(l)
           /\ c \in Blank => WordStops(Append(l, c)) = WordStops(l)
           /\ c \notin Blank /\ ~Open(l) =>
                 /\ WordStarts(Append(l, c)) = WordStarts(l) \cup {Len(l) + 1}
                 /\ WordStops(Append(l, c)) = WordStops(l) \cup {Len(l) + 1}
           /\ c \notin Blank /\ Open(l) =>
                 /\ Len(l) \in WordStops(l)
                 /\ WordStops(Append(l, c)) = (WordStops(l) \ {Len(l)}) \cup {Len(l) + 1}
<1> DEFINE t == Append(l, c)
           n == Len(l)
<1>1. /\ n \in Nat /\ Len(t) = n + 1 /\ t[n + 1] = c /\ \A i \in 1 .. n : t[i] = l[i]
      /\ l # <<>> <=> n # 0
  <2>1. n \in Nat /\ (l # <<>> <=> n # 0)
    BY LenProperties, EmptySeq
  <2>2. Len(t) = n + 1 /\ t[n + 1] = c /\ \A i \in 1 .. n : t[i] = l[i]
    BY AppendProperties
  <2> QED BY <2>1, <2>2
<1>2. /\ WordStarts(l) = {i \in 1 .. n : l[i] \notin Blank /\ (i = 1 \/ l[i - 1] \in Blank)}
      /\ WordStops(l) = {i \in 1 .. n : l[i] \notin Blank /\ (i = n \/ l[i + 1] \in Blank)}
      /\ WordStarts(t) = {i \in 1 .. n + 1 : t[i] \notin Blank /\ (i = 1 \/ t[i - 1] \in Blank)}
      /\ WordStops(t) = {i \in 1 .. n + 1 : t[i] \notin Blank /\ (i = n + 1 \/ t[i + 1] \in Blank)}
      /\ Open(l) <=> n # 0 /\ l[n] \notin Blank
  BY <1>1 DEF WordStarts, WordStops, Open
<1> HIDE DEF t, n
<1>3. ASSUME NEW i \in 1 .. n
      PROVE  /\ i \in WordStarts(t) <=> i \in WordStarts(l)
             /\ i # n => (i \in WordStops(t) <=> i \in WordStops(l))
             /\ i = n => /\ i \in WordStops(t) <=> l[n] \notin Blank /\ c \in Blank
                         /\ i \in WordStops(l) <=> l[n] \notin Blank
  <2>1. /\ i \in 1 .. n + 1 /\ t[i] = l[i] /\ i # n + 1 /\ n \in Nat /\ i \in Nat
        /\ i # 1 => i - 1 \in 1 .. n
        /\ i # n => i + 1 \in 1 .. n
    BY <1>1
  <2>2. i # 1 => t[i - 1] = l[i - 1]
    BY <1>1, <2>1
  <2>3. i # n => t[i + 1] = l[i + 1]
    BY <1>1, <2>1
  <2>4. i \in WordStarts(t) <=> i \in WordStarts(l)
    BY <1>2, <2>1, <2>2
  <2>5. i # n => (i \in WordStops(t) <=> i \in WordStops(l))
    BY <1>2, <2>1, <2>3
  <2>6. i = n => (i \in WordStops(t) <=> l[n] \notin Blank /\ c \in Blank)
    BY <1>1, <1>2, <2>1
  <2>7. i = n => (i \in WordStops(l) <=> l[n] \notin Blank)
    BY <1>2, <2>1
  <2> QED BY <2>4, <2>5, <2>6, <2>7
<1>4. /\ n + 1 \in WordStarts(t) <=> c \notin Blank /\ ~Open(l)
      /\ n + 1 \in WordStops(t) <=> c \notin Blank
      /\ n + 1 \in 1 .. n + 1 /\ n + 1 \notin 1 .. n
      /\ \A i \in 1 .. n + 1 : i \in 1 .. n \/ i = n + 1
  <2>1. n + 1 \in 1 .. n + 1 /\ n + 1 \notin 1 .. n /\ \A i \in 1 .. n + 1 : i \in 1 .. n \/ i = n + 1
    BY <1>1
  <2>2. n + 1 \in WordStops(t) <=> c \notin Blank
    BY <1>1, <1>2, <2>1
  <2>3. n + 1 \in WordStarts(t) <=> c \notin Blank /\ (n + 1 = 1 \/ t[(n + 1) - 1] \in Blank)
    BY <1>1, <1>2, <2>1
  <2>4. CASE n = 0
    BY <1>2, <2>1, <2>2, <2>3, <2>4
  <2>5. CASE n # 0
    <3>1. (n + 1) - 1 = n /\ n + 1 # 1 /\ n \in 1 .. n
      BY <1>1, <2>5
    <3>2. t[(n + 1) - 1] = l[n]
      BY <1>1, <3>1
    <3> QED BY <1>2, <2>1, <2>2, <2>3, <2>5, <3>1, <3>2
  <2> QED BY <2>4, <2>5
<1>5. /\ WordStarts(l) \subseteq 1 .. n /\ WordStops(l) \subseteq 1 .. n
      /\ WordStarts(t) \subseteq 1 .. n + 1 /\ WordStops(t) \subseteq 1 .. n + 1
  BY <1>2
<1>6. c \in Blank \/ Open(l) => WordStarts(t) = WordStarts(l)
  BY <1>3, <1>4, <1>5
<1>7. c \in Blank => WordStops(t) = WordStops(l)
  BY <1>3, <1>4, <1>5
<1>8. c \notin Blank /\ ~Open(l) => WordStarts(t) = WordStarts(l) \cup {n + 1}
  BY <1>3, <1>4, <1>5
<1>9. ASSUME c \notin Blank, ~Open(l) PROVE WordStops(t) = WordStops(l) \cup {n + 1}
  <2>1. ASSUME NEW i \in 1 .. n PROVE i \in WordStops(t) <=> i \in WordStops(l)
    <3>1. i = n => l[n] \in Blank
      BY <1>1, <1>2, <1>9
    <3> QED BY <1>3, <1>9, <3>1
  <2> QED BY <1>4, <1>5, <1>9, <2>1
<1>10. ASSUME c \notin Blank, Open(l)
       PROVE  n \in WordStops(l) /\ WordStops(t) = (WordStops(l) \ {n}) \cup {n + 1}
  <2>1. n \in 1 .. n /\ l[n] \notin Blank
    BY <1>1, <1>2, <1>10
  <2>2. n \in WordStops(l) /\ n \notin WordStops(t)
    BY <1>3, <1>10, <2>1
  <2> QED BY <1>3, <1>4, <1>5, <1>10, <2>2
<1> QED BY <1>6, <1>7, <1>8, <1>9, <1>10 DEF t, n

\* The words are pieces of the line.
LEMMA WordsTyped ==
    ASSUME NEW S, NEW l \in Seq(S), HasWords(l)
    PROVE  /\ Words(l) \in Seq(Seq(S)) /\ Len(Words(l)) = Cardinality(WordStarts(l))
           /\ \A k \in 1 .. Cardinality(WordStarts(l)) :
                 /\ Nth(WordStarts(l), k) \in 1 .. Len(l) /\ Nth(WordStops(l), k) \in 1 .. Len(l)
                 /\ Words(l)[k] = SubSeq(l, Nth(WordStarts(l), k), Nth(WordStops(l), k))
<1> DEFINE A == WordStarts(l)
           B == WordStops(l)
           K == Cardinality(A)
           W(k) == SubSeq(l, Nth(A, k), Nth(B, k))
<1>1. /\ A \in SUBSET Nat /\ B \in SUBSET Nat /\ A \subseteq 1 .. Len(l) /\ B \subseteq 1 .. Len(l)
      /\ IsFiniteSet(A) /\ IsFiniteSet(B) /\ K \in Nat /\ Cardinality(B) = K /\ Len(l) \in Nat
  BY StartsOK DEF HasWords
<1>2. Words(l) = [k \in 1 .. K |-> W(k)]
  BY DEF Words
<1> HIDE DEF A, B, K
<1>3. ASSUME NEW k \in 1 .. K
      PROVE  Nth(A, k) \in 1 .. Len(l) /\ Nth(B, k) \in 1 .. Len(l) /\ W(k) \in Seq(S)
  <2> DEFINE a == Nth(A, k)
             b == Nth(B, k)
  <2>1. k \in 1 .. Cardinality(A) /\ k \in 1 .. Cardinality(B)
    BY <1>1 DEF K
  <2>2. a \in A /\ b \in B
    BY <1>1, <2>1, NthIn
  <2>3. a \in 1 .. Len(l) /\ b \in 1 .. Len(l)
    BY <1>1, <2>2
  <2> HIDE DEF a, b
  <2>4. \A i \in a .. b : l[i] \in S
    <3>1. \A i \in a .. b : i \in 1 .. Len(l)
      BY <1>1, <2>3
    <3> QED BY <3>1, ElementOfSeq
  <2>5. SubSeq(l, a, b) \in Seq(S)
    <3>1. a \in Int /\ b \in Int
      BY <2>3
    <3> QED BY <2>4, <3>1, SubSeqProperties
  <2> QED BY <2>3, <2>5 DEF a, b
<1> HIDE DEF W
<1>4. Words(l) \in Seq(Seq(S)) /\ Len(Words(l)) = K
  <2> DEFINE T == Seq(S)
  <2>1. \A k \in 1 .. K : W(k) \in T
    BY <1>3
  <2> HIDE DEF T
  <2>2. [k \in 1 .. K |-> W(k)] \in Seq(T) /\ Len([k \in 1 .. K |-> W(k)]) = K
    BY <1>1, <2>1
  <2> QED BY <1>2, <2>2 DEF T
<1>5. \A k \in 1 .. K : Words(l)[k] = W(k)
  BY <1>2
<1> QED BY <1>3, <1>4, <1>5 DEF A, B, K, W

\* One more character does not change a piece of the line.
LEMMA CutKept ==
    ASSUME NEW S, NEW l \in Seq(S), NEW c \in S, NEW a \in 1 .. Len(l), NEW b \in 1 .. Len(l)
    PROVE  SubSeq(Append(l, c), a, b) = SubSeq(l, a, b)
<1> DEFINE t == Append(l, c)
<1>1. \A i \in 1 .. Len(l) : t[i] = l[i] /\ l[i] \in S
  BY AppendProperties, ElementOfSeq
<1>2. /\ a \in Int /\ b \in Int /\ 0 \in Int /\ a + 0 = a /\ b + 0 = b /\ Len(l) \in Nat
      /\ \A i \in a .. b : i + 0 = i /\ i \in 1 .. Len(l)
  BY LenProperties
<1> HIDE DEF t
<1>3. \A i \in a .. b : l[i] \in S /\ t[i + 0] = l[i]
  BY <1>1, <1>2
<1>4. SubSeq(t, a + 0, b + 0) = SubSeq(l, a, b)
  BY <1>2, <1>3, SubSeqAgrees
<1> QED BY <1>2, <1>4 DEF t

\* The piece that ends with the line has one character more.
LEMMA CutGrows ==
    ASSUME NEW S, NEW l \in Seq(S), NEW c \in S, NEW a \in 1 .. Len(l)
    PROVE  SubSeq(Append(l, c), a, Len(l) + 1) = Append(SubSeq(l, a, Len(l)), c)
<1> DEFINE t == Append(l, c)
           n == Len(l)
           m == n + 1
<1>1. n \in Nat /\ t \in Seq(S) /\ Len(t) = m /\ t[m] = c /\ n \in 1 .. n
  BY AppendProperties, LenProperties
<1>2. SubSeq(t, a, n) = SubSeq(l, a, n)
  BY <1>1, CutKept
<1>3. a \in 1 .. Len(t) /\ m \in a .. Len(t) /\ m - 1 = n
  BY <1>1
<1> HIDE DEF t, m, n
<1>4. SubSeq(t, a, m) = Append(SubSeq(t, a, m - 1), t[m])
  BY <1>1, <1>3, SubSeqRecursiveSecond
<1>5. SubSeq(t, a, m) = Append(SubSeq(l, a, n), c)
  BY <1>1, <1>2, <1>3, <1>4
<1> QED BY <1>5 DEF t, m, n

\* As many words end as begin, whatever the next character.
LEMMA HasWordsGrow ==
    ASSUME NEW S, NEW l \in Seq(S), NEW c \in S, HasWords(l)
    PROVE  HasWords(Append(l, c))
<1> DEFINE t == Append(l, c)
           A == WordStarts(l)
           B == WordStops(l)
           n == Len(l)
           m == n + 1
<1>1. /\ A \in SUBSET Nat /\ B \in SUBSET Nat /\ A \subseteq 1 .. n /\ B \subseteq 1 .. n
      /\ IsFiniteSet(A) /\ IsFiniteSet(B) /\ Cardinality(A) \in Nat /\ Cardinality(B) = Cardinality(A)
      /\ n \in Nat /\ m \in Nat /\ (\A i \in A : i < m) /\ (\A i \in B : i < m)
  BY StartsOK DEF HasWords
<1>2. /\ c \in Blank \/ Open(l) => WordStarts(t) = A
      /\ c \in Blank => WordStops(t) = B
      /\ c \notin Blank /\ ~Open(l) => WordStarts(t) = A \cup {m} /\ WordStops(t) = B \cup {m}
      /\ c \notin Blank /\ Open(l) => n \in B /\ WordStops(t) = (B \ {n}) \cup {m}
  BY StartsGrow
<1> HIDE DEF t, A, B, n, m
<1>3. Cardinality(WordStarts(t)) = Cardinality(WordStops(t))
  <2>1. CASE c \in Blank
    BY <1>1, <1>2, <2>1
  <2>2. CASE c \notin Blank /\ ~Open(l)
    <3>1. Cardinality(A \cup {m}) = Cardinality(A) + 1
      BY <1>1, NthLast
    <3>2. Cardinality(B \cup {m}) = Cardinality(B) + 1
      BY <1>1, NthLast
    <3> QED BY <1>1, <1>2, <2>2, <3>1, <3>2
  <2>3. CASE c \notin Blank /\ Open(l)
    <3> DEFINE D == B \ {n}
    <3>1. D \in SUBSET Nat /\ IsFiniteSet(D) /\ Cardinality(D) = Cardinality(B) - 1
          /\ \A i \in D : i < m
      BY <1>1, <1>2, <2>3, FS_RemoveElement
    <3> HIDE DEF D
    <3>2. Cardinality(D \cup {m}) = Cardinality(D) + 1
      BY <1>1, <3>1, NthLast
    <3>3. WordStarts(t) = A /\ WordStops(t) = D \cup {m}
      BY <1>2, <2>3 DEF D
    <3>4. \A x, y \in Nat : y = x - 1 => y + 1 = x
      OBVIOUS
    <3>5. Cardinality(D) \in Nat
      BY <3>1, FS_CardinalityType
    <3>6. Cardinality(D) + 1 = Cardinality(A)
      BY <1>1, <3>1, <3>4, <3>5
    <3> QED BY <3>2, <3>3, <3>6
  <2> QED BY <2>1, <2>2, <2>3
<1> QED BY <1>3 DEF HasWords, t

\* What the next character makes of the last one.
LEMMA OpenGrows ==
    ASSUME NEW S, NEW l \in Seq(S), NEW c \in S
    PROVE  Open(Append(l, c)) <=> c \notin Blank
<1> DEFINE t == Append(l, c)
<1>1. Len(t) = Len(l) + 1 /\ t[Len(l) + 1] = c /\ t # <<>>
  BY AppendProperties
<1> HIDE DEF t
<1>2. Open(t) <=> c \notin Blank
  BY <1>1 DEF Open
<1> QED BY <1>2 DEF t

\* An open word is a word.
LEMMA OpenHasWord ==
    ASSUME NEW S, NEW l \in Seq(S), HasWords(l), Open(l)
    PROVE  /\ Len(Words(l)) >= 1
           /\ Nth(WordStops(l), Len(Words(l))) = Len(l)
<1> DEFINE B == WordStops(l)
           n == Len(l)
<1>1. /\ B \in SUBSET Nat /\ B \subseteq 1 .. n /\ IsFiniteSet(B) /\ Cardinality(B) \in Nat /\ n \in Nat
      /\ Len(Words(l)) = Cardinality(B)
  BY StartsOK, WordsTyped DEF HasWords
<1>2. n \in B
  <2>1. n # 0
    BY EmptySeq DEF Open
  <2>2. n \in 1 .. n
    BY <1>1, <2>1
  <2> QED BY <2>2 DEF Open, WordStops
<1> HIDE DEF B, n
<1>3. Upto(B, n) = B
  <2>1. \A j \in B : j <= n
    BY <1>1
  <2> QED BY <2>1 DEF Upto
<1>4. Rank(B, n) = Cardinality(B)
  BY <1>3 DEF Rank
<1>5. Cardinality(B) >= 1
  <2>1. Rank(B, n) \in 1 .. Cardinality(B)
    BY <1>1, <1>2, Ranks
  <2> QED BY <1>1, <2>1
<1>6. Nth(B, Cardinality(B)) = n
  BY <1>1, <1>2, <1>4, NthIs
<1> QED BY <1>1, <1>5, <1>6 DEF B, n

\* A blank ends a word or nothing.
LEMMA WordsBlank ==
    ASSUME NEW S, NEW l \in Seq(S), NEW c \in S, HasWords(l), c \in Blank
    PROVE  Words(Append(l, c)) = Words(l)
<1> DEFINE t == Append(l, c)
           A == WordStarts(l)
           B == WordStops(l)
           K == Cardinality(A)
<1>1. WordStarts(t) = A /\ WordStops(t) = B
  BY StartsGrow
<1>2. \A k \in 1 .. K : Nth(A, k) \in 1 .. Len(l) /\ Nth(B, k) \in 1 .. Len(l)
  BY WordsTyped
<1>3. \A k \in 1 .. K : SubSeq(t, Nth(A, k), Nth(B, k)) = SubSeq(l, Nth(A, k), Nth(B, k))
  BY <1>2, CutKept
<1>4. /\ Words(t) = [k \in 1 .. K |-> SubSeq(t, Nth(A, k), Nth(B, k))]
      /\ Words(l) = [k \in 1 .. K |-> SubSeq(l, Nth(A, k), Nth(B, k))]
  BY <1>1 DEF Words
<1> HIDE DEF t, A, B, K
<1>5. Words(t) = Words(l)
  BY <1>3, <1>4
<1> QED BY <1>5 DEF t

\* A character behind a blank begins a word.
LEMMA WordsNew ==
    ASSUME NEW S, NEW l \in Seq(S), NEW c \in S, HasWords(l), c \notin Blank, ~Open(l)
    PROVE  Words(Append(l, c)) = Append(Words(l), <<c>>)
<1> DEFINE t == Append(l, c)
           A == WordStarts(l)
           B == WordStops(l)
           K == Cardinality(A)
           m == Len(l) + 1
<1>1. /\ WordStarts(t) = A \cup {m} /\ WordStops(t) = B \cup {m}
      /\ A \in SUBSET Nat /\ B \in SUBSET Nat /\ IsFiniteSet(A) /\ IsFiniteSet(B)
      /\ K \in Nat /\ Cardinality(B) = K /\ m \in Nat
      /\ (\A i \in A : i < m) /\ (\A i \in B : i < m)
  BY StartsGrow, StartsOK DEF HasWords
<1>2. \A k \in 1 .. K : Nth(A, k) \in 1 .. Len(l) /\ Nth(B, k) \in 1 .. Len(l)
  BY WordsTyped
<1>3. t \in Seq(S) /\ HasWords(t) /\ m \in 1 .. Len(t) /\ t[m] = c
  BY HasWordsGrow, AppendProperties, LenProperties
<1>4. \A k \in 1 .. K : SubSeq(t, Nth(A, k), Nth(B, k)) = SubSeq(l, Nth(A, k), Nth(B, k))
  BY <1>2, CutKept
<1>5. SubSeq(t, m, m) = <<c>>
  <2>1. SubSeq(t, m, m) = SubSeq(t, m, m - 1) \o <<t[m]>>
    <3>1. m \in m .. Len(t)
      BY <1>3
    <3> HIDE DEF t, m
    <3> QED BY <1>3, <3>1, SubSeqRecursiveSecond
  <2>2. SubSeq(t, m, m - 1) = <<>>
    <3>1. m \in Int /\ m - 1 \in Int /\ m - 1 < m
      BY <1>1
    <3> HIDE DEF t, m
    <3> QED BY <3>1, SubSeqEmpty
  <2>3. <<>> \o <<c>> = <<c>>
    <3> DEFINE x == <<c>>
    <3>1. x \in Seq(S)
      OBVIOUS
    <3> HIDE DEF x
    <3>2. <<>> \o x = x
      BY <3>1, ConcatEmptySeq
    <3> QED BY <3>2 DEF x
  <2> QED BY <1>3, <2>1, <2>2, <2>3
<1>6. /\ Words(l) \in Seq(Seq(S)) /\ Len(Words(l)) = K
      /\ \A k \in 1 .. K : Words(l)[k] = SubSeq(l, Nth(A, k), Nth(B, k))
  BY WordsTyped
<1>7. /\ Words(t) \in Seq(Seq(S)) /\ Len(Words(t)) = Cardinality(WordStarts(t))
      /\ \A k \in 1 .. Cardinality(WordStarts(t)) :
            Words(t)[k] = SubSeq(t, Nth(WordStarts(t), k), Nth(WordStops(t), k))
  BY <1>3, WordsTyped
<1> HIDE DEF t, A, B, K, m
<1>8. /\ Cardinality(A \cup {m}) = K + 1
      /\ Nth(A \cup {m}, K + 1) = m /\ Nth(B \cup {m}, K + 1) = m
  BY <1>1, NthLast DEF K
<1>9. \A k \in 1 .. K : Nth(A \cup {m}, k) = Nth(A, k) /\ Nth(B \cup {m}, k) = Nth(B, k)
  <2> SUFFICES ASSUME NEW k \in 1 .. K
               PROVE  Nth(A \cup {m}, k) = Nth(A, k) /\ Nth(B \cup {m}, k) = Nth(B, k)
    OBVIOUS
  <2>1. k \in 1 .. Cardinality(A) /\ k \in 1 .. Cardinality(B)
    BY <1>1 DEF K
  <2> QED BY <1>1, <2>1, NthBehind
<1>10. /\ Len(Words(t)) = K + 1 /\ Words(t)[K + 1] = <<c>>
       /\ \A k \in 1 .. K : Words(t)[k] = Words(l)[k]
  <2>1. Cardinality(WordStarts(t)) = K + 1 /\ K + 1 \in 1 .. K + 1 /\ \A k \in 1 .. K : k \in 1 .. K + 1
    BY <1>1, <1>8
  <2>2. Words(t)[K + 1] = SubSeq(t, m, m)
    BY <1>1, <1>7, <1>8, <2>1
  <2>3. \A k \in 1 .. K : Words(t)[k] = SubSeq(t, Nth(A, k), Nth(B, k))
    BY <1>1, <1>7, <1>9, <2>1
  <2> QED BY <1>4, <1>5, <1>6, <1>7, <2>1, <2>2, <2>3
<1> DEFINE V == Words(l)
           W == Words(t)
<1>11. V \in Seq(Seq(S)) /\ W \in Seq(Seq(S)) /\ <<c>> \in Seq(S) /\ Len(V) = K
       /\ Len(W) = K + 1 /\ W[K + 1] = <<c>> /\ \A k \in 1 .. K : W[k] = V[k]
  BY <1>6, <1>7, <1>10
<1> HIDE DEF V, W
<1>12. W = Append(V, <<c>>)
  <2> DEFINE T == Seq(S)
             e == <<c>>
  <2>1. V \in Seq(T) /\ W \in Seq(T) /\ e \in T
    BY <1>11
  <2> HIDE DEF T, e
  <2>2. /\ Append(V, e) \in Seq(T) /\ Len(Append(V, e)) = K + 1 /\ Append(V, e)[K + 1] = e
        /\ \A k \in 1 .. K : Append(V, e)[k] = V[k]
    BY <1>11, <2>1, AppendProperties
  <2>3. \A k \in 1 .. K + 1 : W[k] = Append(V, e)[k]
    <3>1. \A k \in 1 .. K + 1 : k \in 1 .. K \/ k = K + 1
      BY <1>1
    <3>2. W[K + 1] = e
      BY <1>11 DEF e
    <3> QED BY <1>11, <2>2, <3>1, <3>2
  <2>4. W = Append(V, e)
    BY <1>11, <2>1, <2>2, <2>3, SeqEqual
  <2> QED BY <2>4 DEF e
<1> QED BY <1>12 DEF V, W, t

\* A character behind another one of a word belongs to it.
LEMMA WordsMore ==
    ASSUME NEW S, NEW l \in Seq(S), NEW c \in S, HasWords(l), c \notin Blank, Open(l)
    PROVE  Words(Append(l, c)) =
               [Words(l) EXCEPT ![Len(Words(l))] = Append(Words(l)[Len(Words(l))], c)]
<1> DEFINE t == Append(l, c)
           A == WordStarts(l)
           B == WordStops(l)
           K == Cardinality(A)
           n == Len(l)
           m == n + 1
           D == B \ {n}
<1>1. /\ WordStarts(t) = A /\ WordStops(t) = D \cup {m}
      /\ A \in SUBSET Nat /\ B \in SUBSET Nat /\ IsFiniteSet(A) /\ IsFiniteSet(B)
      /\ K \in Nat /\ Cardinality(B) = K /\ n \in Nat /\ m \in Nat /\ n \in B
      /\ A \subseteq 1 .. n /\ B \subseteq 1 .. n
  BY StartsGrow, StartsOK DEF HasWords
<1>2. \A k \in 1 .. K : Nth(A, k) \in 1 .. n /\ Nth(B, k) \in 1 .. n
  BY WordsTyped
<1>3. t \in Seq(S) /\ HasWords(t)
  BY HasWordsGrow, AppendProperties
<1>4. \A k \in 1 .. K : SubSeq(t, Nth(A, k), Nth(B, k)) = SubSeq(l, Nth(A, k), Nth(B, k))
  BY <1>2, CutKept
<1>5. \A k \in 1 .. K : SubSeq(t, Nth(A, k), m) = Append(SubSeq(l, Nth(A, k), n), c)
  BY <1>2, CutGrows
<1>6. /\ Words(l) \in Seq(Seq(S)) /\ Len(Words(l)) = K
      /\ \A k \in 1 .. K : Words(l)[k] = SubSeq(l, Nth(A, k), Nth(B, k))
  BY WordsTyped
<1>7. /\ Words(t) \in Seq(Seq(S)) /\ Len(Words(t)) = Cardinality(WordStarts(t))
      /\ \A k \in 1 .. Cardinality(WordStarts(t)) :
            Words(t)[k] = SubSeq(t, Nth(WordStarts(t), k), Nth(WordStops(t), k))
  BY <1>3, WordsTyped
<1>8. K >= 1 /\ Nth(B, K) = n
  BY <1>6, OpenHasWord
<1> HIDE DEF t, A, B, K, m, n
<1>9. /\ D \in SUBSET Nat /\ IsFiniteSet(D) /\ Cardinality(D) = K - 1
      /\ (\A i \in D : i < m) /\ (\A i \in D : i < n)
      /\ B = D \cup {n}
  <2>1. D \in SUBSET Nat /\ B = D \cup {n}
    BY <1>1
  <2>2. IsFiniteSet(D) /\ Cardinality(D) = Cardinality(B) - 1
    BY <1>1, FS_RemoveElement
  <2>3. (\A i \in D : i < m) /\ (\A i \in D : i < n)
    BY <1>1 DEF m
  <2> QED BY <1>1, <2>1, <2>2, <2>3
<1> HIDE DEF D
<1>10. Nth(D \cup {m}, K) = m
  <2>1. Nth(D \cup {m}, Cardinality(D) + 1) = m
    BY <1>1, <1>9, NthLast
  <2>2. Cardinality(D) + 1 = K
    BY <1>1, <1>9
  <2> QED BY <2>1, <2>2
<1>11. \A k \in 1 .. K - 1 : Nth(D \cup {m}, k) = Nth(B, k)
  <2> SUFFICES ASSUME NEW k \in 1 .. K - 1 PROVE Nth(D \cup {m}, k) = Nth(B, k)
    OBVIOUS
  <2>1. k \in 1 .. Cardinality(D)
    BY <1>9
  <2>2. Nth(D \cup {m}, k) = Nth(D, k)
    BY <1>1, <1>9, <2>1, NthBehind
  <2>3. Nth(D \cup {n}, k) = Nth(D, k)
    BY <1>1, <1>9, <2>1, NthBehind
  <2> QED BY <1>9, <2>2, <2>3
<1> DEFINE V == Words(l)
           W == Words(t)
<1>12. /\ Len(W) = K /\ Len(V) = K /\ K \in 1 .. K /\ W[K] = Append(V[K], c)
       /\ \A k \in 1 .. K - 1 : k \in 1 .. K /\ W[k] = V[k]
  <2>1. Len(W) = K /\ Len(V) = K /\ K \in 1 .. K /\ \A k \in 1 .. K - 1 : k \in 1 .. K
    BY <1>1, <1>6, <1>7, <1>8 DEF K
  <2>2. \A k \in 1 .. K : W[k] = SubSeq(t, Nth(A, k), Nth(D \cup {m}, k))
    BY <1>1, <1>7 DEF K
  <2>3. W[K] = SubSeq(t, Nth(A, K), m) /\ V[K] = SubSeq(l, Nth(A, K), n)
    BY <1>6, <1>8, <1>10, <2>1, <2>2
  <2>4. W[K] = Append(V[K], c)
    BY <1>5, <2>1, <2>3
  <2>5. \A k \in 1 .. K - 1 : W[k] = V[k]
    BY <1>4, <1>6, <1>11, <2>1, <2>2
  <2> QED BY <2>1, <2>4, <2>5
<1>13. V \in Seq(Seq(S)) /\ W \in Seq(Seq(S))
  BY <1>6, <1>7
<1> HIDE DEF V, W
<1>14. W = [V EXCEPT ![K] = Append(V[K], c)]
  <2> DEFINE T == Seq(S)
             e == Append(V[K], c)
  <2>1. V \in Seq(T) /\ W \in Seq(T) /\ e \in T
    <3>1. V[K] \in Seq(S)
      BY <1>12, <1>13, ElementOfSeq
    <3> QED BY <1>13, <3>1, AppendProperties
  <2> HIDE DEF T
  <2>2. W[K] = e
    BY <1>12
  <2> HIDE DEF e
  <2>3. /\ [V EXCEPT ![K] = e] \in Seq(T) /\ Len([V EXCEPT ![K] = e]) = Len(V)
        /\ \A k \in 1 .. Len(V) : [V EXCEPT ![K] = e][k] = IF k = K THEN e ELSE V[k]
    <3>1. K \in 1 .. Len(V)
      BY <1>12
    <3> QED BY <2>1, <3>1, ExceptSeq
  <2>4. \A k \in 1 .. K : W[k] = [V EXCEPT ![K] = e][k]
    <3>1. \A k \in 1 .. K : k = K \/ k \in 1 .. K - 1
      BY <1>1
    <3> QED BY <1>1, <1>12, <2>2, <2>3, <3>1
  <2>5. W = [V EXCEPT ![K] = e]
    BY <1>12, <2>1, <2>3, <2>4, SeqEqual
  <2> QED BY <2>5 DEF e
<1>15. K = Len(V)
  BY <1>12
<1> QED BY <1>14, <1>15 DEF V, W, t

-----------------------------------------------------------------------------
(***************************************************************************)
(* The number that a word writes.                                           *)
(***************************************************************************)
\* The numbers that the first characters of a word write.
PartValues(w, v) ==
    v = [i \in 0 .. Len(w) |-> IF i = 0 THEN 0 ELSE (v[i - 1] * 16 + Hex[w[i]]) % Word]

HasValue(w) == \E v : PartValues(w, v)

\* There is only one such function: two that differ do so at a first place.
LEMMA PartValuesUnique ==
    ASSUME NEW w, Len(w) \in Nat, NEW u, PartValues(w, u), NEW v, PartValues(w, v)
    PROVE  u = v
<1> DEFINE n == Len(w)
           D == {i \in 0 .. n : u[i] # v[i]}
<1>0. /\ u = [i \in 0 .. n |-> IF i = 0 THEN 0 ELSE (u[i - 1] * 16 + Hex[w[i]]) % Word]
      /\ v = [i \in 0 .. n |-> IF i = 0 THEN 0 ELSE (v[i - 1] * 16 + Hex[w[i]]) % Word]
  BY DEF PartValues
<1>1. \A i \in 0 .. n : /\ u[i] = IF i = 0 THEN 0 ELSE (u[i - 1] * 16 + Hex[w[i]]) % Word
                        /\ v[i] = IF i = 0 THEN 0 ELSE (v[i - 1] * 16 + Hex[w[i]]) % Word
  BY <1>0, Zenon
<1>2. SUFFICES ASSUME D # {} PROVE FALSE
  <2>1. D = {} => \A i \in 0 .. n : u[i] = v[i]
    OBVIOUS
  <2>2. D = {} => u = v
    <3> DEFINE F(f, i) == IF i = 0 THEN 0 ELSE (f[i - 1] * 16 + Hex[w[i]]) % Word
    <3>1. u = [i \in 0 .. n |-> F(u, i)] /\ v = [i \in 0 .. n |-> F(v, i)]
      BY <1>0
    <3>2. \A i \in 0 .. n : u[i] = F(u, i) /\ v[i] = F(v, i)
      BY <1>1
    <3> HIDE DEF F
    <3> QED BY <2>1, <3>1, <3>2
  <2> QED BY <2>2
<1>3. D \in SUBSET Nat /\ IsFiniteSet(D) /\ Cardinality(D) \in Nat /\ Cardinality(D) # 0
  <2>1. IsFiniteSet(0 .. n) /\ 0 .. n \subseteq Nat /\ D \subseteq 0 .. n
    BY FS_Interval
  <2>2. IsFiniteSet(D)
    BY <2>1, FS_Subset
  <2> QED BY <1>2, <2>1, <2>2, FS_CardinalityType, FS_EmptySet
<1> DEFINE m == Nth(D, 1)
<1>4. m \in D /\ Rank(D, m) = 1
  <2>1. 1 \in 1 .. Cardinality(D)
    BY <1>3
  <2> HIDE DEF D
  <2> QED BY <1>3, <2>1, NthIn
<1>5. m \in 0 .. n /\ u[m] # v[m]
  BY <1>4
<1>6. m # 0
  BY <1>1, <1>5
<1>7. m - 1 \in 0 .. n
  BY <1>5, <1>6
<1>8. m - 1 \notin D
  <2> SUFFICES ASSUME m - 1 \in D PROVE FALSE
    OBVIOUS
  <2>1. m - 1 < m /\ m \in Nat
    BY <1>5
  <2> HIDE DEF D, m
  <2> DEFINE k == m - 1
  <2>2. k < m /\ k \in D
    BY <2>1
  <2> HIDE DEF k
  <2>3. Rank(D, k) \in 1 .. Cardinality(D) /\ Rank(D, k) < Rank(D, m)
    BY <1>3, <1>4, <2>2, Ranks
  <2> QED BY <1>3, <1>4, <2>3
<1>9. u[m - 1] = v[m - 1]
  BY <1>7, <1>8
<1> HIDE DEF m, D
<1> QED BY <1>1, <1>5, <1>6, <1>9

\* The value of a word is the last of these numbers.
LEMMA ValueIs ==
    ASSUME NEW w, Len(w) \in Nat, NEW v, PartValues(w, v)
    PROVE  Value(w) = v[Len(w)]
<1> DEFINE f == CHOOSE u : PartValues(w, u)
<1>1. PartValues(w, f)
  BY Zenon
<1>2. Value(w) = f[Len(w)]
  BY DEF Value, PartValues
<1> HIDE DEF f
<1>3. f = v
  BY <1>1, PartValuesUnique
<1> QED BY <1>2, <1>3

\* No character writes 0, and each one more is a digit behind the others.
LEMMA NoValue == HasValue(<<>>) /\ Value(<<>>) = 0
<1> DEFINE v == [i \in 0 .. 0 |-> 0]
<1>1. Len(<<>>) = 0
  OBVIOUS
<1>2. PartValues(<<>>, v)
  <2>1. \A i \in 0 .. 0 : i = 0
    OBVIOUS
  <2>2. v = [i \in 0 .. 0 |-> IF i = 0 THEN 0 ELSE (v[i - 1] * 16 + Hex[<<>>[i]]) % Word]
    BY <2>1
  <2> QED BY <1>1, <2>2 DEF PartValues
<1>3. v[0] = 0
  OBVIOUS
<1> HIDE DEF v
<1>4. Len(<<>>) \in Nat
  OBVIOUS
<1>5. Value(<<>>) = v[Len(<<>>)]
  BY <1>2, <1>4, ValueIs
<1> QED BY <1>1, <1>2, <1>3, <1>5 DEF HasValue

\* One more character is one more digit.
LEMMA ValueGrows ==
    ASSUME NEW S, NEW w \in Seq(S), NEW c \in S, HasValue(w)
    PROVE  /\ HasValue(Append(w, c))
           /\ Value(Append(w, c)) = (Value(w) * 16 + Hex[c]) % Word
<1> DEFINE t == Append(w, c)
           n == Len(w)
<1>1. n \in Nat /\ Len(t) = n + 1 /\ t[n + 1] = c /\ \A i \in 1 .. n : t[i] = w[i]
  BY AppendProperties, LenProperties
<1>2. PICK v : PartValues(w, v)
  BY DEF HasValue
<1> DEFINE a == (v[n] * 16 + Hex[c]) % Word
           u == [i \in 0 .. n + 1 |-> IF i = n + 1 THEN a ELSE v[i]]
<1>3. \A i \in 0 .. n : v[i] = IF i = 0 THEN 0 ELSE (v[i - 1] * 16 + Hex[w[i]]) % Word
  BY <1>2, Zenon DEF PartValues
<1> HIDE DEF t, n
<1>4. /\ u[n + 1] = a /\ \A i \in 0 .. n : u[i] = v[i]
      /\ DOMAIN u = 0 .. n + 1
  BY <1>1
<1>5. \A i \in 0 .. n + 1 : u[i] = IF i = 0 THEN 0 ELSE (u[i - 1] * 16 + Hex[t[i]]) % Word
  <2> SUFFICES ASSUME NEW i \in 0 .. n + 1
               PROVE  u[i] = IF i = 0 THEN 0 ELSE (u[i - 1] * 16 + Hex[t[i]]) % Word
    OBVIOUS
  <2>1. CASE i = n + 1
    <3>1. i # 0 /\ i - 1 = n /\ n \in 0 .. n
      BY <1>1, <2>1
    <3>2. u[i - 1] = v[n] /\ t[i] = c
      BY <1>1, <1>4, <2>1, <3>1
    <3> HIDE DEF u
    <3> QED BY <1>4, <2>1, <3>1, <3>2
  <2>2. CASE i # n + 1
    <3>1. i \in 0 .. n /\ (i # 0 => i - 1 \in 0 .. n /\ i \in 1 .. n)
      BY <1>1, <2>2
    <3>2. u[i] = v[i] /\ (i # 0 => u[i - 1] = v[i - 1] /\ t[i] = w[i])
      BY <1>1, <1>4, <3>1
    <3> HIDE DEF u
    <3> QED BY <1>3, <3>1, <3>2
  <2> QED BY <2>1, <2>2
<1>6. u = [i \in 0 .. n + 1 |-> IF i = 0 THEN 0 ELSE (u[i - 1] * 16 + Hex[t[i]]) % Word]
  <2> DEFINE F(i) == IF i = 0 THEN 0 ELSE (u[i - 1] * 16 + Hex[t[i]]) % Word
  <2>1. \A i \in 0 .. n + 1 : u[i] = F(i)
    BY <1>5
  <2>2. u = [i \in 0 .. n + 1 |-> u[i]]
    BY <1>4
  <2> HIDE DEF F, u
  <2>3. u = [i \in 0 .. n + 1 |-> F(i)]
    BY <2>1, <2>2
  <2> QED BY <2>3 DEF F
<1> HIDE DEF u
<1>7. PartValues(t, u)
  BY <1>1, <1>6 DEF PartValues
<1>8. Value(t) = u[Len(t)]
  <2>1. Len(t) \in Nat
    BY <1>1
  <2> QED BY <1>7, <2>1, ValueIs
<1>9. Value(w) = v[n]
  BY <1>1, <1>2, ValueIs DEF n
<1>10. Value(t) = a
  BY <1>1, <1>4, <1>8
<1> QED BY <1>7, <1>9, <1>10 DEF HasValue, t

-----------------------------------------------------------------------------
(***************************************************************************)
(* The line parser, as it follows the words of a line.                      *)
(***************************************************************************)
FieldsOK(p) ==
    /\ DOMAIN p = {"sts", "cmd0", "cmd1", "narg", "arg", "dat", "argflag"}
    /\ DOMAIN p.arg = 1 .. MaxArg

NameRead(p, W) == Len(W[1]) = 2 /\ W[1][1] = p.cmd0 /\ W[1][2] = p.cmd1

HexWord(w) == \A i \in 1 .. Len(w) : w[i] \in DOMAIN Hex

AllHex(W) == \A k \in 2 .. Len(W) : HexWord(W[k])

\* The first n arguments are read, at most MaxArg of them.
ArgsRead(p, W, n) ==
    /\ p.narg = IF n <= MaxArg THEN n ELSE MaxArg
    /\ \A i \in 1 .. p.narg : p.arg[i] = Value(W[i + 1])

\* Between two arguments, and in one, unless it is one too many.
NoArg(p, W) == Len(W) - 1 < MaxArg => p.argflag = FALSE /\ p.dat = 0
InArg(p, W) ==
    Len(W) - 2 < MaxArg => p.argflag = TRUE /\ HasValue(W[Len(W)]) /\ p.dat = Value(W[Len(W)])

OneCharacter(p, W) == Len(W[1]) = 1 /\ W[1][1] = p.cmd0
ManyCharacters(p, W) == Len(W[1]) >= 3 /\ W[1][1] = p.cmd0
WrongArg(W) == Len(W[1]) = 2 /\ \E k \in 2 .. Len(W) : ~HexWord(W[k])

\* The parser's state p after the words W, when the last character was a blank,
Outside(p, W) ==
    /\ FieldsOK(p)
    /\ p.sts \in {0, 3, 99, 100, 101}
    /\ p.sts = 0 => W = <<>>
    /\ p.sts # 0 => Len(W) >= 1
    /\ p.sts = 3 => NameRead(p, W) /\ ArgsRead(p, W, Len(W) - 1) /\ NoArg(p, W) /\ AllHex(W)
    /\ p.sts = 99 => OneCharacter(p, W)
    /\ p.sts = 100 => ManyCharacters(p, W)
    /\ p.sts = 101 => WrongArg(W)

\* and in a word.
Inside(p, W) ==
    /\ FieldsOK(p)
    /\ p.sts \in {1, 2, 3, 99, 100, 101}
    /\ Len(W) >= 1
    /\ p.sts \in {1, 2} => Len(W) = 1
    /\ p.sts \in {3, 99, 101} => Len(W) >= 2
    /\ p.sts = 1 => OneCharacter(p, W)
    /\ p.sts = 2 => NameRead(p, W)
    /\ p.sts = 3 => NameRead(p, W) /\ ArgsRead(p, W, Len(W) - 2) /\ InArg(p, W) /\ AllHex(W)
    /\ p.sts = 99 => OneCharacter(p, W)
    /\ p.sts = 100 => ManyCharacters(p, W)
    /\ p.sts = 101 => WrongArg(W)

\* What the parser changes of its state.
LEMMA StsSet ==
    ASSUME NEW p, FieldsOK(p), NEW x, NEW q, q = [p EXCEPT !.sts = x]
    PROVE  /\ FieldsOK(q) /\ q.sts = x /\ q.cmd0 = p.cmd0 /\ q.cmd1 = p.cmd1 /\ q.narg = p.narg
           /\ q.arg = p.arg /\ q.dat = p.dat /\ q.argflag = p.argflag
BY DEF FieldsOK

\* The characters of a name, and the arguments after it.
LEMMA NameSet ==
    ASSUME NEW p, FieldsOK(p), NEW c
    PROVE  /\ \A q : q = [p EXCEPT !.cmd0 = Nul] => FieldsOK(q) /\ q.sts = p.sts
           /\ \A q : q = [p EXCEPT !.cmd0 = c, !.sts = 1] => FieldsOK(q) /\ q.sts = 1 /\ q.cmd0 = c
           /\ \A q : q = [p EXCEPT !.cmd1 = c, !.sts = 2] =>
                        FieldsOK(q) /\ q.sts = 2 /\ q.cmd0 = p.cmd0 /\ q.cmd1 = c
           /\ \A q : q = Started(p) =>
                        /\ FieldsOK(q) /\ q.sts = 3 /\ q.cmd0 = p.cmd0 /\ q.cmd1 = p.cmd1
                        /\ q.narg = 0 /\ q.dat = 0 /\ q.argflag = FALSE
<1>1. ASSUME NEW q, q = [p EXCEPT !.cmd0 = Nul] PROVE FieldsOK(q) /\ q.sts = p.sts
  BY <1>1 DEF FieldsOK
<1>2. ASSUME NEW q, q = [p EXCEPT !.cmd0 = c, !.sts = 1]
      PROVE  FieldsOK(q) /\ q.sts = 1 /\ q.cmd0 = c
  BY <1>2 DEF FieldsOK
<1>3. ASSUME NEW q, q = [p EXCEPT !.cmd1 = c, !.sts = 2]
      PROVE  FieldsOK(q) /\ q.sts = 2 /\ q.cmd0 = p.cmd0 /\ q.cmd1 = c
  BY <1>3 DEF FieldsOK
<1>4. ASSUME NEW q, q = Started(p)
      PROVE  /\ FieldsOK(q) /\ q.sts = 3 /\ q.cmd0 = p.cmd0 /\ q.cmd1 = p.cmd1
             /\ q.narg = 0 /\ q.dat = 0 /\ q.argflag = FALSE
  BY <1>4 DEF FieldsOK, Started
<1> QED BY <1>1, <1>2, <1>3, <1>4

\* An argument that is taken.
LEMMA ArgSet ==
    ASSUME NEW p, FieldsOK(p), p.narg \in 0 .. MaxArg - 1, NEW q, q = WithArg(p)
    PROVE  /\ FieldsOK(q) /\ q.sts = p.sts /\ q.cmd0 = p.cmd0 /\ q.cmd1 = p.cmd1
           /\ q.narg = p.narg + 1 /\ q.dat = 0 /\ q.argflag = FALSE
           /\ q.arg[p.narg + 1] = p.dat
           /\ \A i \in 1 .. p.narg : q.arg[i] = p.arg[i]
<1>1. /\ DOMAIN q = DOMAIN p /\ q.sts = p.sts /\ q.cmd0 = p.cmd0 /\ q.cmd1 = p.cmd1
      /\ q.narg = p.narg + 1 /\ q.dat = 0 /\ q.argflag = FALSE
      /\ q.arg = [p.arg EXCEPT ![p.narg + 1] = p.dat]
  BY DEF FieldsOK, WithArg
<1>2. p.narg + 1 \in 1 .. MaxArg /\ \A i \in 1 .. p.narg : i \in 1 .. MaxArg /\ i # p.narg + 1
  BY DEF MaxArg
<1> QED BY <1>1, <1>2 DEF FieldsOK

\* A digit of an argument.
LEMMA DigitSet ==
    ASSUME NEW p, FieldsOK(p), NEW c, NEW q, q = WithDigit(p, c)
    PROVE  /\ FieldsOK(q) /\ q.sts = p.sts /\ q.cmd0 = p.cmd0 /\ q.cmd1 = p.cmd1
           /\ q.narg = p.narg /\ q.arg = p.arg /\ q.argflag = TRUE
           /\ q.dat = (p.dat * 16 + Hex[c]) % Word
BY DEF FieldsOK, WithDigit

\* The words with one more, and with a character more in the last one.
LEMMA AppendTo ==
    ASSUME NEW T, NEW W \in Seq(T), NEW e \in T, NEW V, V = Append(W, e)
    PROVE  /\ Len(W) \in Nat /\ Len(V) = Len(W) + 1
           /\ V[Len(W) + 1] = e /\ \A k \in 1 .. Len(W) : V[k] = W[k]
BY AppendProperties, LenProperties

\* One more word.
LEMMA OneMoreWord ==
    ASSUME NEW S, NEW W \in Seq(Seq(S)), NEW c \in S, NEW V, V = Append(W, <<c>>)
    PROVE  /\ Len(W) \in Nat /\ Len(V) = Len(W) + 1
           /\ V[Len(W) + 1] = <<c>> /\ \A k \in 1 .. Len(W) : V[k] = W[k]
           /\ Len(<<c>>) = 1 /\ <<c>>[1] = c /\ <<c>> = Append(<<>>, c)
<1> DEFINE T == Seq(S)
           e == <<c>>
<1>1. e \in T /\ W \in Seq(T) /\ V = Append(W, e)
  OBVIOUS
<1>2. Len(<<c>>) = 1 /\ <<c>>[1] = c /\ <<c>> = Append(<<>>, c)
  OBVIOUS
<1> HIDE DEF T, e
<1>3. /\ Len(W) \in Nat /\ Len(V) = Len(W) + 1
      /\ V[Len(W) + 1] = e /\ \A k \in 1 .. Len(W) : V[k] = W[k]
  <2>1. \A x, A, b : A \in Seq(x) /\ b \in x => 
           /\ Len(A) \in Nat /\ Len(Append(A, b)) = Len(A) + 1
           /\ Append(A, b)[Len(A) + 1] = b /\ \A k \in 1 .. Len(A) : Append(A, b)[k] = A[k]
    BY AppendTo
  <2> DEFINE U == Append(W, e)
  <2>2. /\ Len(W) \in Nat /\ Len(U) = Len(W) + 1
        /\ U[Len(W) + 1] = e /\ \A k \in 1 .. Len(W) : U[k] = W[k]
    BY <1>1, <2>1
  <2>3. V = U
    BY <1>1
  <2> HIDE DEF U
  <2> QED BY <2>2, <2>3
<1> QED BY <1>2, <1>3 DEF e

\* A sequence with another element in one place.
LEMMA ExceptLast ==
    ASSUME NEW T, NEW W \in Seq(T), NEW e \in T, NEW k \in 1 .. Len(W),
           NEW V, V = [W EXCEPT ![k] = e]
    PROVE  /\ Len(V) = Len(W) /\ \A j \in 1 .. Len(W) : V[j] = IF j = k THEN e ELSE W[j]
BY ExceptSeq

\* The last word with a character more.
LEMMA LongerWord ==
    ASSUME NEW S, NEW W \in Seq(Seq(S)), NEW c \in S, Len(W) >= 1,
           NEW V, V = [W EXCEPT ![Len(W)] = Append(W[Len(W)], c)]
    PROVE  /\ Len(W) \in Nat /\ Len(V) = Len(W)
           /\ \A k \in 1 .. Len(W) : k # Len(W) => V[k] = W[k]
           /\ V[Len(W)] = Append(W[Len(W)], c)
           /\ W[Len(W)] \in Seq(S) /\ Len(W[Len(W)]) \in Nat
           /\ Len(V[Len(W)]) = Len(W[Len(W)]) + 1
           /\ V[Len(W)][Len(W[Len(W)]) + 1] = c
           /\ \A i \in 1 .. Len(W[Len(W)]) : V[Len(W)][i] = W[Len(W)][i]
<1> DEFINE T == Seq(S)
           K == Len(W)
           w == W[K]
           e == Append(w, c)
<1>1. K \in Nat /\ K \in 1 .. K /\ W \in Seq(T)
  BY LenProperties
<1>2. w \in Seq(S)
  BY <1>1, ElementOfSeq
<1>3. /\ e \in T /\ Len(e) = Len(w) + 1 /\ e[Len(w) + 1] = c /\ Len(w) \in Nat
      /\ \A i \in 1 .. Len(w) : e[i] = w[i]
  BY <1>2, AppendProperties, LenProperties
<1>4. V = [W EXCEPT ![K] = e]
  OBVIOUS
<1> HIDE DEF T, K, e, w
<1>5. Len(V) = Len(W) /\ \A k \in 1 .. Len(W) : V[k] = IF k = K THEN e ELSE W[k]
  <2>1. K \in 1 .. Len(W)
    BY <1>1 DEF K
  <2>2. K \in 1 .. Len(W)
    BY <1>1 DEF K
  <2>3. \A x, A, k, b : A \in Seq(x) /\ b \in x /\ k \in 1 .. Len(A) => 
           /\ Len([A EXCEPT ![k] = b]) = Len(A)
           /\ \A j \in 1 .. Len(A) : [A EXCEPT ![k] = b][j] = IF j = k THEN b ELSE A[j]
    BY ExceptLast
  <2> DEFINE U == [W EXCEPT ![K] = e]
  <2>4. Len(U) = Len(W) /\ \A k \in 1 .. Len(W) : U[k] = IF k = K THEN e ELSE W[k]
    BY <1>1, <1>3, <2>2, <2>3
  <2>5. V = U
    BY <1>4
  <2> HIDE DEF U
  <2> QED BY <2>4, <2>5
<1>6. V[K] = e /\ \A k \in 1 .. K : k # K => V[k] = W[k]
  BY <1>1, <1>5 DEF K
<1> QED BY <1>1, <1>2, <1>3, <1>5, <1>6 DEF K, e, w

\* What the parser does in each of its states.
LEMMA ParseName ==
    ASSUME NEW p, NEW c
    PROVE  /\ p.sts = 0 /\ c \in Blank => Parse(p, c) = [p EXCEPT !.cmd0 = Nul]
           /\ p.sts = 0 /\ c \notin Blank => Parse(p, c) = [p EXCEPT !.cmd0 = c, !.sts = 1]
           /\ p.sts = 1 /\ c \in Blank => Parse(p, c) = [p EXCEPT !.sts = 99]
           /\ p.sts = 1 /\ c \notin Blank => Parse(p, c) = [p EXCEPT !.cmd1 = c, !.sts = 2]
           /\ p.sts = 2 /\ c \in Blank => Parse(p, c) = Started(p)
           /\ p.sts = 2 /\ c \notin Blank => Parse(p, c) = [p EXCEPT !.sts = 100]
<1>1. p.sts = 0 => Parse(p, c) = IF c \in Blank THEN [p EXCEPT !.cmd0 = Nul]
                                                ELSE [p EXCEPT !.cmd0 = c, !.sts = 1]
  BY DEF Parse
<1>2. p.sts = 1 => Parse(p, c) = IF c \in Blank THEN [p EXCEPT !.sts = 99]
                                                ELSE [p EXCEPT !.cmd1 = c, !.sts = 2]
  BY DEF Parse
<1>3. p.sts = 2 => Parse(p, c) = IF c \in Blank THEN Started(p) ELSE [p EXCEPT !.sts = 100]
  BY DEF Parse
<1> QED BY <1>1, <1>2, <1>3

\* In the arguments.
LEMMA ParseArg ==
    ASSUME NEW p, p.sts = 3, NEW c
    PROVE  /\ c \in Blank /\ TakesArg(p) => Parse(p, c) = WithArg(p)
           /\ c \in Blank /\ ~TakesArg(p) => Parse(p, c) = p
           /\ c \notin Blank /\ c \in DOMAIN Hex => Parse(p, c) = WithDigit(p, c)
           /\ c \notin Blank /\ c \notin DOMAIN Hex => Parse(p, c) = [p EXCEPT !.sts = 101]
<1>1. Parse(p, c) = CASE c \in Blank -> IF TakesArg(p) THEN WithArg(p) ELSE p
                      [] c \in DOMAIN Hex -> WithDigit(p, c)
                      [] OTHER -> [p EXCEPT !.sts = 101]
  BY DEF Parse
<1>2. c \in Blank => c \notin DOMAIN Hex
  BY HexAssumption
<1> QED BY <1>1, <1>2

\* After an error.
LEMMA ParseRest ==
    ASSUME NEW p, p.sts \in {99, 100, 101}, NEW c
    PROVE  Parse(p, c) = p
BY DEF Parse

\* A blank ends the open argument: it is taken, if there is room for it.
LEMMA ArgTaken ==
    ASSUME NEW p, FieldsOK(p), NEW W, Len(W) \in Nat, Len(W) >= 2, ArgsRead(p, W, Len(W) - 2),
           InArg(p, W), p.narg < MaxArg, NEW q, q = WithArg(p)
    PROVE  /\ ArgsRead(q, W, Len(W) - 1) /\ NoArg(q, W) /\ FieldsOK(q)
           /\ q.sts = p.sts /\ q.cmd0 = p.cmd0 /\ q.cmd1 = p.cmd1
<1> DEFINE n == p.narg
           L == Len(W)
           m == L - 2
<1>1. /\ n = IF m <= MaxArg THEN m ELSE MaxArg
      /\ \A i \in 1 .. n : p.arg[i] = Value(W[i + 1])
      /\ m < MaxArg => p.dat = Value(W[L])
      /\ n < MaxArg /\ L \in Nat /\ L >= 2 /\ m \in Nat /\ m = L - 2
  BY DEF ArgsRead, InArg
<1>2. /\ FieldsOK(q) /\ q.sts = p.sts /\ q.cmd0 = p.cmd0 /\ q.cmd1 = p.cmd1
      /\ q.narg = n + 1 /\ q.dat = 0 /\ q.argflag = FALSE
      /\ q.arg[n + 1] = p.dat
      /\ \A i \in 1 .. n : q.arg[i] = p.arg[i]
  <2>1. n \in 0 .. MaxArg - 1
    <3> HIDE DEF n, L, m
    <3> QED BY <1>1 DEF MaxArg
  <2> QED BY <2>1, ArgSet, Zenon
<1> HIDE DEF n, L, m
<1>3. n = m /\ n < MaxArg
  BY <1>1 DEF MaxArg
<1>4. n + 1 + 1 = L /\ n + 1 = L - 1 /\ (\A i \in 1 .. n + 1 : i \in 1 .. n \/ i = n + 1) /\ n + 1 <= MaxArg
  BY <1>1, <1>3 DEF MaxArg
<1>5. \A i \in 1 .. n + 1 : q.arg[i] = Value(W[i + 1])
  <2>1. q.arg[n + 1] = Value(W[n + 1 + 1])
    BY <1>1, <1>2, <1>3, <1>4
  <2> QED BY <1>1, <1>2, <1>4, <2>1
<1>6. q.narg = IF L - 1 <= MaxArg THEN L - 1 ELSE MaxArg
  BY <1>2, <1>4
<1>7. ArgsRead(q, W, L - 1)
  BY <1>2, <1>5, <1>6 DEF ArgsRead
<1> QED BY <1>2, <1>7 DEF NoArg, L

\* Otherwise nothing changes.
LEMMA ArgNotTaken ==
    ASSUME NEW p, NEW W, Len(W) \in Nat, Len(W) >= 2, ArgsRead(p, W, Len(W) - 2),
           InArg(p, W), ~TakesArg(p)
    PROVE  ArgsRead(p, W, Len(W) - 1) /\ NoArg(p, W)
<1> DEFINE n == p.narg
           L == Len(W)
           m == L - 2
<1>1. /\ n = IF m <= MaxArg THEN m ELSE MaxArg
      /\ \A i \in 1 .. n : p.arg[i] = Value(W[i + 1])
      /\ m < MaxArg => p.argflag = TRUE
      /\ L \in Nat /\ L >= 2 /\ m \in Nat /\ m = L - 2
  BY DEF ArgsRead, InArg
<1>2. ~(p.argflag = TRUE /\ n < MaxArg)
  BY DEF TakesArg
<1> HIDE DEF n, m, L
<1>3. ~(m < MaxArg)
  BY <1>1, <1>2 DEF MaxArg
<1>4. n = (IF L - 1 <= MaxArg THEN L - 1 ELSE MaxArg) /\ ~(L - 1 < MaxArg)
  BY <1>1, <1>3 DEF MaxArg
<1>5. ArgsRead(p, W, L - 1)
  BY <1>1, <1>4 DEF ArgsRead, n
<1> QED BY <1>4, <1>5 DEF NoArg, L

\* A blank after a blank changes nothing that matters.
LEMMA BlankOutside ==
    ASSUME NEW p, NEW W, Len(W) \in Nat, Outside(p, W), NEW c \in Blank
    PROVE  Outside(Parse(p, c), W)
<1> DEFINE q == Parse(p, c)
<1>0. FieldsOK(p) /\ p.sts \in {0, 3, 99, 100, 101}
  BY DEF Outside
<1>1. CASE p.sts = 0
  <2>1. q = [p EXCEPT !.cmd0 = Nul]
    BY <1>1, ParseName, Zenon
  <2> HIDE DEF q
  <2>2. FieldsOK(q) /\ q.sts = 0
    BY <1>0, <1>1, <2>1 DEF FieldsOK
  <2> QED BY <1>1, <2>2 DEF Outside, q
<1>2. CASE p.sts = 3
  <2>1. NoArg(p, W) /\ ArgsRead(p, W, Len(W) - 1) /\ Len(W) >= 1
    BY <1>2 DEF Outside
  <2>2. CASE ~TakesArg(p)
    <3>1. q = p
      BY <1>2, <2>2, ParseArg, Zenon
    <3> QED BY <3>1
  <2>3. CASE TakesArg(p)
    <3>1. p.argflag # FALSE /\ p.narg < MaxArg
      BY <2>3 DEF TakesArg
    <3>2. Len(W) - 1 < MaxArg
      BY <2>1, <3>1 DEF ArgsRead, MaxArg
    <3> QED BY <2>1, <3>1, <3>2 DEF NoArg
  <2> QED BY <2>2, <2>3
<1>3. CASE p.sts \in {99, 100, 101}
  <2>1. q = p
    BY <1>3, ParseRest
  <2> QED BY <2>1
<1> QED BY <1>0, <1>1, <1>2, <1>3

\* A blank after a word.
LEMMA BlankInside ==
    ASSUME NEW p, NEW W, Len(W) \in Nat, Inside(p, W), NEW c \in Blank
    PROVE  Outside(Parse(p, c), W)
<1> DEFINE q == Parse(p, c)
<1>0. FieldsOK(p) /\ p.sts \in {1, 2, 3, 99, 100, 101} /\ Len(W) >= 1
  BY DEF Inside
<1>1. CASE p.sts = 1
  <2>1. q = [p EXCEPT !.sts = 99]
    BY <1>1, ParseName, Zenon
  <2> HIDE DEF q
  <2>2. FieldsOK(q) /\ q.sts = 99 /\ q.cmd0 = p.cmd0
    BY <1>0, <2>1 DEF FieldsOK
  <2> QED BY <1>0, <1>1, <2>2 DEF Inside, Outside, OneCharacter, q
<1>2. CASE p.sts = 2
  <2>1. q = Started(p)
    BY <1>2, ParseName, Zenon
  <2> HIDE DEF q
  <2>2. /\ FieldsOK(q) /\ q.sts = 3 /\ q.cmd0 = p.cmd0 /\ q.cmd1 = p.cmd1
        /\ q.narg = 0 /\ q.dat = 0 /\ q.argflag = FALSE
    BY <1>0, <2>1 DEF FieldsOK, Started
  <2>3. Len(W) = 1 /\ NameRead(p, W)
    BY <1>2 DEF Inside
  <2>4. NameRead(q, W) /\ AllHex(W)
    BY <2>2, <2>3 DEF NameRead, AllHex
  <2>5. ArgsRead(q, W, Len(W) - 1) /\ NoArg(q, W)
    BY <2>2, <2>3 DEF ArgsRead, NoArg, MaxArg
  <2>6. Outside(q, W)
    BY <1>0, <2>2, <2>4, <2>5 DEF Outside
  <2> QED BY <2>6 DEF q
<1>3. CASE p.sts = 3
  <2>1. /\ NameRead(p, W) /\ ArgsRead(p, W, Len(W) - 2) /\ InArg(p, W)
        /\ AllHex(W) /\ Len(W) >= 2
    BY <1>3 DEF Inside
  <2>2. CASE TakesArg(p)
    <3>1. q = WithArg(p)
      BY <1>3, <2>2, ParseArg, Zenon
    <3>2. p.narg < MaxArg
      BY <2>2 DEF TakesArg
    <3> HIDE DEF q
    <3>3. /\ ArgsRead(q, W, Len(W) - 1) /\ NoArg(q, W) /\ FieldsOK(q)
          /\ q.sts = p.sts /\ q.cmd0 = p.cmd0 /\ q.cmd1 = p.cmd1
      BY <1>0, <2>1, <3>1, <3>2, ArgTaken
    <3>4. NameRead(q, W)
      BY <2>1, <3>3 DEF NameRead
    <3>5. Outside(q, W)
      BY <1>0, <1>3, <2>1, <3>3, <3>4 DEF Outside
    <3> QED BY <3>5 DEF q
  <2>3. CASE ~TakesArg(p)
    <3>1. q = p
      BY <1>3, <2>3, ParseArg, Zenon
    <3>2. ArgsRead(p, W, Len(W) - 1) /\ NoArg(p, W)
      BY <2>1, <2>3, ArgNotTaken, Zenon
    <3>3. Outside(p, W)
      BY <1>0, <1>3, <2>1, <3>2 DEF Outside
    <3> QED BY <3>1, <3>3
  <2> QED BY <2>2, <2>3
<1>4. CASE p.sts \in {99, 100, 101}
  <2>1. q = p
    BY <1>4, ParseRest
  <2>2. Outside(p, W)
    BY <1>0, <1>4 DEF Inside, Outside
  <2> QED BY <2>1, <2>2
<1> QED BY <1>0, <1>1, <1>2, <1>3, <1>4

\* V is W with one more word, of the character c.
NewWord(W, c, V) ==
    /\ Len(W) \in Nat /\ Len(V) = Len(W) + 1
    /\ V[Len(W) + 1] = <<c>> /\ \A k \in 1 .. Len(W) : V[k] = W[k]

\* v is the word w with the character c at its end,
LongerBy(w, c, v) ==
    /\ Len(w) \in Nat /\ v = Append(w, c) /\ Len(v) = Len(w) + 1 /\ v[Len(w) + 1] = c
    /\ \A i \in 1 .. Len(w) : v[i] = w[i]

\* and V is W with the character at the end of its last word.
MoreWord(W, c, V) ==
    /\ Len(W) \in Nat /\ Len(V) = Len(W)
    /\ \A k \in 1 .. Len(W) : k # Len(W) => V[k] = W[k]
    /\ LongerBy(W[Len(W)], c, V[Len(W)])

\* The first m words are the same.
Kept(W, V, m) == \A k \in 1 .. m : V[k] = W[k]

\* The words before the last one, and what they say, are the same.
LEMMA EarlierKept ==
    ASSUME NEW p, NEW q, NEW W, NEW V, NEW m, Len(W) \in Nat, m \in Nat, Len(W) >= m, m >= 1,
           Len(V) \in Nat, Len(V) = m + 1,
           \A k \in 1 .. m : V[k] = W[k], q.cmd0 = p.cmd0, q.cmd1 = p.cmd1
    PROVE  /\ NameRead(p, W) => NameRead(q, V)
           /\ OneCharacter(p, W) => OneCharacter(q, V)
           /\ ManyCharacters(p, W) => ManyCharacters(q, V)
           /\ (\A k \in 2 .. m : HexWord(W[k])) /\ HexWord(V[m + 1]) => AllHex(V)
           /\ (\E k \in 2 .. m : ~HexWord(W[k])) \/ ~HexWord(V[m + 1]) => \E k \in 2 .. Len(V) : ~HexWord(V[k])
<1>1. V[1] = W[1]
  OBVIOUS
<1>2. \A k \in 2 .. Len(V) : (k \in 2 .. m /\ V[k] = W[k]) \/ k = m + 1
  OBVIOUS
<1>3. (\A k \in 2 .. m : HexWord(W[k])) /\ HexWord(V[m + 1]) => AllHex(V)
  BY <1>2 DEF AllHex
<1>4. m + 1 \in 2 .. Len(V) /\ \A k \in 2 .. m : k \in 2 .. Len(V) /\ V[k] = W[k]
  OBVIOUS
<1>5. (\E k \in 2 .. m : ~HexWord(W[k])) \/ ~HexWord(V[m + 1]) => \E k \in 2 .. Len(V) : ~HexWord(V[k])
  BY <1>4
<1>6. NameRead(p, W) => NameRead(q, V)
  BY <1>1 DEF NameRead
<1>7. OneCharacter(p, W) => OneCharacter(q, V)
  BY <1>1 DEF OneCharacter
<1>8. ManyCharacters(p, W) => ManyCharacters(q, V)
  BY <1>1 DEF ManyCharacters
<1> QED BY <1>3, <1>5, <1>6, <1>7, <1>8

\* The arguments read before the last word are the same.
LEMMA ArgsKept ==
    ASSUME NEW p, NEW q, NEW W, NEW V, NEW m, m \in Nat, m >= 1,
           Kept(W, V, m), q.narg = p.narg, q.arg = p.arg,
           ArgsRead(p, W, m - 1)
    PROVE  ArgsRead(q, V, m - 1)
<1> DEFINE n == p.narg
<1>1. n = (IF m - 1 <= MaxArg THEN m - 1 ELSE MaxArg) /\ \A i \in 1 .. n : p.arg[i] = Value(W[i + 1])
  BY DEF ArgsRead
<1>2. q.narg = n
  OBVIOUS
<1> HIDE DEF n
<1>3. \A i \in 1 .. n : i + 1 \in 1 .. m
  BY <1>1 DEF MaxArg
<1>4. \A i \in 1 .. n : q.arg[i] = Value(V[i + 1])
  BY <1>1, <1>3 DEF Kept
<1> QED BY <1>1, <1>2, <1>4 DEF ArgsRead

\* A word of one character, and one with a character more.
LEMMA HexWordNew ==
    ASSUME NEW c
    PROVE  HexWord(<<c>>) <=> c \in DOMAIN Hex
<1>1. Len(<<c>>) = 1 /\ <<c>>[1] = c
  OBVIOUS
<1> DEFINE w == <<c>>
<1>2. Len(w) = 1 /\ w[1] = c
  BY <1>1
<1> HIDE DEF w
<1>3. HexWord(w) <=> c \in DOMAIN Hex
  BY <1>2 DEF HexWord
<1> QED BY <1>3 DEF w

LEMMA HexWordMore ==
    ASSUME NEW W, NEW c, NEW V, MoreWord(W, c, V)
    PROVE  HexWord(V[Len(W)]) <=> HexWord(W[Len(W)]) /\ c \in DOMAIN Hex
<1> DEFINE w == W[Len(W)]
           v == V[Len(W)]
<1>1. Len(w) \in Nat /\ Len(v) = Len(w) + 1 /\ v[Len(w) + 1] = c /\ \A i \in 1 .. Len(w) : v[i] = w[i]
  BY DEF MoreWord, LongerBy
<1> HIDE DEF w, v
<1>2. HexWord(v) <=> HexWord(w) /\ c \in DOMAIN Hex
  <2>1. ASSUME HexWord(v) PROVE HexWord(w) /\ c \in DOMAIN Hex
    BY <1>1, <2>1 DEF HexWord
  <2>2. ASSUME HexWord(w), c \in DOMAIN Hex PROVE HexWord(v)
    <3>1. \A i \in 1 .. Len(v) : i \in 1 .. Len(w) \/ i = Len(w) + 1
      BY <1>1
    <3> QED BY <1>1, <2>2, <3>1 DEF HexWord
  <2> QED BY <2>1, <2>2
<1> QED BY <1>2 DEF w, v

\* The value of a word of one character.
LEMMA ValueNew ==
    ASSUME NEW c, NEW d, d = (0 * 16 + Hex[c]) % Word
    PROVE  HasValue(<<c>>) /\ Value(<<c>>) = d
<1> DEFINE S == {c}
           e == <<>>
           w == Append(e, c)
<1>1. e \in Seq(S) /\ c \in S
  OBVIOUS
<1>2. HasValue(e) /\ Value(e) = 0
  BY NoValue, Zenon
<1>3. <<c>> = w
  OBVIOUS
<1>4. HasValue(w) /\ Value(w) = (Value(e) * 16 + Hex[c]) % Word
  <2> HIDE DEF e, S
  <2> QED BY <1>1, <1>2, ValueGrows
<1> HIDE DEF e, w
<1> QED BY <1>2, <1>3, <1>4, Zenon

\* A character after a blank.
LEMMA NewOutside ==
    ASSUME NEW p, NEW W, Outside(p, W), NEW c, c \notin Blank, NEW V, NewWord(W, c, V)
    PROVE  Inside(Parse(p, c), V)
<1> DEFINE q == Parse(p, c)
           m == Len(W)
<1>0. FieldsOK(p) /\ p.sts \in {0, 3, 99, 100, 101} /\ m \in Nat /\ Len(V) = m + 1 /\ V[m + 1] = <<c>>
      /\ \A k \in 1 .. m : V[k] = W[k]
  BY DEF Outside, NewWord
<1>1. CASE p.sts = 0
  <2>1. q = [p EXCEPT !.cmd0 = c, !.sts = 1]
    BY <1>1 DEF Parse
  <2> HIDE DEF q
  <2>2. FieldsOK(q) /\ q.sts = 1 /\ q.cmd0 = c
    BY <1>0, <2>1 DEF FieldsOK
  <2>3. m = 0
    BY <1>1 DEF Outside
  <2>4. Len(<<c>>) = 1 /\ <<c>>[1] = c
    OBVIOUS
  <2>5. Len(V) = 1 /\ V[1] = <<c>>
    BY <1>0, <2>3
  <2>6. Len(V[1]) = 1 /\ V[1][1] = q.cmd0
    BY <2>2, <2>4, <2>5, Zenon
  <2>7. Inside(q, V)
    BY <2>2, <2>5, <2>6 DEF Inside, OneCharacter
  <2> QED BY <2>7 DEF q
<1>2. CASE p.sts = 3
  <2>1. m >= 1 /\ NameRead(p, W) /\ ArgsRead(p, W, m - 1) /\ NoArg(p, W) /\ AllHex(W)
    BY <1>2 DEF Outside
  <2>2. CASE c \in DOMAIN Hex
    <3>1. q = WithDigit(p, c)
      BY <1>2, <2>2, ParseArg, Zenon
    <3> HIDE DEF q
    <3>2. /\ FieldsOK(q) /\ q.sts = 3 /\ q.cmd0 = p.cmd0 /\ q.cmd1 = p.cmd1
          /\ q.narg = p.narg /\ q.arg = p.arg /\ q.argflag = TRUE
          /\ q.dat = (p.dat * 16 + Hex[c]) % Word
      BY <1>0, <1>2, <3>1 DEF FieldsOK, WithDigit
    <3>3. NameRead(q, V)
      BY <1>0, <2>1, <3>2, EarlierKept
    <3>4. AllHex(V)
      <4>1. HexWord(V[m + 1])
        BY <1>0, <2>2, HexWordNew, Zenon
      <4>2. \A k \in 2 .. m : HexWord(W[k])
        BY <2>1 DEF AllHex
      <4> QED BY <1>0, <2>1, <4>1, <4>2 DEF AllHex
    <3>5. ArgsRead(q, V, m - 1)
      <4>1. Kept(W, V, m)
        BY <1>0 DEF Kept
      <4> HIDE DEF m
      <4> QED BY <1>0, <2>1, <3>2, <4>1, ArgsKept
    <3>6. Len(V) - 2 = m - 1 /\ Len(V) >= 2
      BY <1>0, <2>1
    <3>7. m - 1 < MaxArg => HasValue(V[m + 1]) /\ q.dat = Value(V[m + 1])
      <4>1. m - 1 < MaxArg => p.dat = 0
        BY <2>1 DEF NoArg
      <4>2. m - 1 < MaxArg => q.dat = (0 * 16 + Hex[c]) % Word
        BY <3>2, <4>1, Zenon
      <4>3. \A d : d = (0 * 16 + Hex[c]) % Word => HasValue(<<c>>) /\ Value(<<c>>) = d
        BY ValueNew
      <4>4. m - 1 < MaxArg => HasValue(<<c>>) /\ Value(<<c>>) = q.dat
        BY <4>2, <4>3, Zenon
      <4>5. V[m + 1] = <<c>>
        BY <1>0
      <4> QED BY <4>4, <4>5, Zenon
    <3>8. InArg(q, V)
      BY <1>0, <3>2, <3>6, <3>7 DEF InArg
    <3>9. Inside(q, V)
      BY <3>2, <3>3, <3>4, <3>5, <3>6, <3>8 DEF Inside
    <3> QED BY <3>9 DEF q
  <2>3. CASE c \notin DOMAIN Hex
    <3>1. q = [p EXCEPT !.sts = 101]
      BY <1>2, <2>3, ParseArg, Zenon
    <3> HIDE DEF q
    <3>2. FieldsOK(q) /\ q.sts = 101
      BY <1>0, <3>1 DEF FieldsOK
    <3>3. ~HexWord(V[m + 1]) /\ m + 1 \in 2 .. Len(V) /\ V[1] = W[1]
      <4>1. ~HexWord(V[m + 1])
        BY <1>0, <2>3, HexWordNew, Zenon
      <4> QED BY <1>0, <2>1, <4>1
    <3>4. WrongArg(V)
      BY <2>1, <3>3 DEF WrongArg, NameRead
    <3>5. Inside(q, V)
      BY <1>0, <2>1, <3>2, <3>4 DEF Inside
    <3> QED BY <3>5 DEF q
  <2> QED BY <2>2, <2>3
<1>3. CASE p.sts \in {99, 100, 101}
  <2>1. q = p
    BY <1>3, ParseRest
  <2>2. m >= 1 /\ Len(V) >= 2 /\ V[1] = W[1]
    BY <1>0, <1>3 DEF Outside
  <2>3. WrongArg(W) => WrongArg(V)
    <3>1. \A k \in 2 .. m : k \in 2 .. Len(V) /\ V[k] = W[k]
      BY <1>0
    <3> QED BY <2>2, <3>1 DEF WrongArg
  <2>4. Inside(p, V)
    BY <1>0, <1>3, <2>2, <2>3 DEF Outside, Inside, OneCharacter, ManyCharacters
  <2> QED BY <2>1, <2>4
<1> QED BY <1>0, <1>1, <1>2, <1>3

ValueMore(W, c, V) ==
    HasValue(W[Len(W)]) => /\ HasValue(V[Len(W)])
                           /\ Value(V[Len(W)]) = (Value(W[Len(W)]) * 16 + Hex[c]) % Word

\* The longer word, when the word has one or two characters, and when it has more.
LEMMA LongerShort ==
    ASSUME NEW w, NEW c, NEW v, LongerBy(w, c, v)
    PROVE  /\ Len(w) = 1 => Len(v) = 2 /\ v[2] = c /\ v[1] = w[1]
           /\ Len(w) = 2 => Len(v) = 3 /\ v[1] = w[1]
           /\ Len(w) >= 3 => Len(v) >= 3 /\ v[1] = w[1]
BY DEF LongerBy

\* The arguments are still numbers if the longer one is.
LEMMA AllHexMore ==
    ASSUME NEW W, NEW V, Len(W) \in Nat, Len(V) = Len(W), AllHex(W), HexWord(V[Len(W)]),
           \A k \in 1 .. Len(W) : k # Len(W) => V[k] = W[k]
    PROVE  AllHex(V)
<1>1. \A k \in 2 .. Len(V) : k \in 2 .. Len(W) /\ k \in 1 .. Len(W)
  OBVIOUS
<1>2. ASSUME NEW k \in 2 .. Len(V) PROVE HexWord(V[k])
  <2>1. CASE k = Len(W)
    BY <2>1
  <2>2. CASE k # Len(W)
    BY <1>1, <2>2 DEF AllHex
  <2> QED BY <2>1, <2>2
<1> QED BY <1>2 DEF AllHex

\* A character in a word.
LEMMA MoreInside ==
    ASSUME NEW p, NEW W, Inside(p, W), NEW c, c \notin Blank,
           NEW V, MoreWord(W, c, V), ValueMore(W, c, V)
    PROVE  Inside(Parse(p, c), V)
<1> DEFINE q == Parse(p, c)
           m == Len(W)
<1>0. /\ FieldsOK(p) /\ p.sts \in {1, 2, 3, 99, 100, 101}
      /\ m \in Nat /\ m >= 1 /\ Len(V) = m
      /\ \A k \in 1 .. m : k # m => V[k] = W[k]
  BY DEF Inside, MoreWord
<1>1. CASE p.sts = 1
  <2>1. q = [p EXCEPT !.cmd1 = c, !.sts = 2]
    BY <1>1 DEF Parse
  <2> HIDE DEF q
  <2>2. FieldsOK(q) /\ q.sts = 2 /\ q.cmd0 = p.cmd0 /\ q.cmd1 = c
    BY <1>0, <2>1 DEF FieldsOK
  <2>3. m = 1 /\ Len(W[1]) = 1 /\ W[1][1] = p.cmd0
    BY <1>1 DEF Inside, OneCharacter
  <2>4. Len(V[1]) = 2 /\ V[1][2] = c /\ V[1][1] = W[1][1]
    <3>1. LongerBy(W[1], c, V[1])
      BY <2>3 DEF MoreWord
    <3> QED BY <2>3, <3>1, LongerShort, Zenon
  <2>5. Inside(q, V)
    BY <1>0, <2>2, <2>3, <2>4 DEF Inside, NameRead
  <2> QED BY <2>5 DEF q
<1>2. CASE p.sts = 2
  <2>1. q = [p EXCEPT !.sts = 100]
    BY <1>2 DEF Parse
  <2> HIDE DEF q
  <2>2. FieldsOK(q) /\ q.sts = 100 /\ q.cmd0 = p.cmd0
    BY <1>0, <2>1 DEF FieldsOK
  <2>3. m = 1 /\ Len(W[1]) = 2 /\ W[1][1] = p.cmd0
    BY <1>2 DEF Inside, NameRead
  <2>4. Len(V[1]) = 3 /\ V[1][1] = W[1][1]
    <3>1. LongerBy(W[1], c, V[1])
      BY <2>3 DEF MoreWord
    <3> QED BY <2>3, <3>1, LongerShort, Zenon
  <2>5. Inside(q, V)
    BY <1>0, <2>2, <2>3, <2>4 DEF Inside, ManyCharacters
  <2> QED BY <2>5 DEF q
<1>3. CASE p.sts = 3
  <2>1. m >= 2 /\ NameRead(p, W) /\ ArgsRead(p, W, m - 2) /\ InArg(p, W) /\ AllHex(W)
    BY <1>3 DEF Inside
  <2>2. V[1] = W[1]
    BY <1>0, <2>1
  <2>3. CASE c \in DOMAIN Hex
    <3>1. q = WithDigit(p, c)
      BY <1>3, <2>3, ParseArg, Zenon
    <3> HIDE DEF q
    <3>2. /\ FieldsOK(q) /\ q.sts = 3 /\ q.cmd0 = p.cmd0 /\ q.cmd1 = p.cmd1
          /\ q.narg = p.narg /\ q.arg = p.arg /\ q.argflag = TRUE
          /\ q.dat = (p.dat * 16 + Hex[c]) % Word
      BY <1>0, <1>3, <3>1 DEF FieldsOK, WithDigit
    <3>3. NameRead(q, V)
      BY <2>1, <2>2, <3>2 DEF NameRead
    <3>4. AllHex(V)
      <4>1. HexWord(W[m])
        BY <1>0, <2>1 DEF AllHex
      <4>2. HexWord(V[m])
        BY <2>3, <4>1, HexWordMore, Zenon
      <4> QED BY <1>0, <2>1, <4>2, AllHexMore
    <3>5. ArgsRead(q, V, m - 2)
      <4> DEFINE k == m - 1
      <4>1. Kept(W, V, k) /\ k \in Nat /\ k >= 1 /\ k - 1 = m - 2
        BY <1>0, <2>1 DEF Kept
      <4> HIDE DEF k
      <4>2. ArgsRead(q, V, k - 1)
        BY <2>1, <3>2, <4>1, ArgsKept
      <4> QED BY <4>1, <4>2
    <3>6. m - 2 < MaxArg => HasValue(V[m]) /\ q.dat = Value(V[m])
      <4> DEFINE w == W[m]
      <4>1. m - 2 < MaxArg => HasValue(w) /\ p.dat = Value(w)
        BY <2>1 DEF InArg
      <4>2. HasValue(w) => HasValue(V[m]) /\ Value(V[m]) = (Value(w) * 16 + Hex[c]) % Word
        BY DEF ValueMore
      <4> HIDE DEF w
      <4> QED BY <3>2, <4>1, <4>2, Zenon
    <3>7. InArg(q, V)
      BY <1>0, <3>2, <3>6 DEF InArg
    <3>8. Inside(q, V)
      BY <1>0, <2>1, <3>2, <3>3, <3>4, <3>5, <3>7 DEF Inside
    <3> QED BY <3>8 DEF q
  <2>4. CASE c \notin DOMAIN Hex
    <3>1. q = [p EXCEPT !.sts = 101]
      BY <1>3, <2>4, ParseArg, Zenon
    <3> HIDE DEF q
    <3>2. FieldsOK(q) /\ q.sts = 101
      BY <1>0, <3>1 DEF FieldsOK
    <3>3. ~HexWord(V[m]) /\ m \in 2 .. Len(V)
      <4>1. ~HexWord(V[m])
        BY <2>4, HexWordMore, Zenon
      <4> QED BY <1>0, <2>1, <4>1
    <3>4. WrongArg(V)
      BY <2>1, <2>2, <3>3 DEF WrongArg, NameRead
    <3>5. Inside(q, V)
      BY <1>0, <2>1, <3>2, <3>4 DEF Inside
    <3> QED BY <3>5 DEF q
  <2> QED BY <2>3, <2>4
<1>4. CASE p.sts \in {99, 100, 101}
  <2>1. q = p
    BY <1>4, ParseRest
  <2>2. CASE p.sts = 99
    <3>1. m >= 2 /\ V[1] = W[1] /\ OneCharacter(p, W)
      BY <1>0, <2>2 DEF Inside
    <3>2. Inside(p, V)
      BY <1>0, <2>2, <3>1 DEF Inside, OneCharacter
    <3> QED BY <2>1, <3>2
  <2>3. CASE p.sts = 100
    <3>1. ManyCharacters(p, W)
      BY <2>3 DEF Inside
    <3>2. CASE m = 1
      <4>1. LongerBy(W[1], c, V[1])
        BY <3>2 DEF MoreWord
      <4>2. Len(V[1]) >= 3 /\ V[1][1] = p.cmd0
        <5>1. Len(W[1]) >= 3 /\ W[1][1] = p.cmd0
          BY <3>1 DEF ManyCharacters
        <5> QED BY <4>1, <5>1, LongerShort
      <4>3. Inside(p, V)
        BY <1>0, <2>3, <4>2 DEF Inside, ManyCharacters
      <4> QED BY <2>1, <4>3
    <3>3. CASE m # 1
      <4>1. V[1] = W[1]
        BY <1>0, <3>3
      <4>2. Inside(p, V)
        BY <1>0, <2>3, <3>1, <4>1 DEF Inside, ManyCharacters
      <4> QED BY <2>1, <4>2
    <3> QED BY <3>2, <3>3
  <2>4. CASE p.sts = 101
    <3>1. m >= 2 /\ V[1] = W[1] /\ WrongArg(W)
      BY <1>0, <2>4 DEF Inside
    <3>2. PICK k \in 2 .. m : ~HexWord(W[k])
      BY <3>1 DEF WrongArg
    <3>3. ~HexWord(V[k])
      <4>1. CASE k = m
        BY <3>2, <4>1, HexWordMore, Zenon
      <4>2. CASE k # m
        BY <1>0, <3>2, <4>2
      <4> QED BY <4>1, <4>2
    <3>4. WrongArg(V)
      BY <1>0, <3>1, <3>3 DEF WrongArg
    <3>5. Inside(p, V)
      BY <1>0, <2>4, <3>1, <3>4 DEF Inside
    <3> QED BY <2>1, <3>5
  <2> QED BY <1>4, <2>2, <2>3, <2>4
<1> QED BY <1>0, <1>1, <1>2, <1>3, <1>4

\* The words of a line with one more character.
LEMMA NewWordIs ==
    ASSUME NEW S, NEW W \in Seq(Seq(S)), NEW c \in S, NEW V, V = Append(W, <<c>>)
    PROVE  NewWord(W, c, V)
<1>1. /\ Len(W) \in Nat /\ Len(V) = Len(W) + 1
      /\ V[Len(W) + 1] = <<c>> /\ \A k \in 1 .. Len(W) : V[k] = W[k]
  BY OneMoreWord
<1> QED BY <1>1, Zenon DEF NewWord

LEMMA MoreWordIs ==
    ASSUME NEW S, NEW W \in Seq(Seq(S)), NEW c \in S, Len(W) >= 1,
           NEW V, V = [W EXCEPT ![Len(W)] = Append(W[Len(W)], c)]
    PROVE  MoreWord(W, c, V) /\ ValueMore(W, c, V)
<1>1. /\ Len(W) \in Nat /\ Len(V) = Len(W)
      /\ \A k \in 1 .. Len(W) : k # Len(W) => V[k] = W[k]
      /\ V[Len(W)] = Append(W[Len(W)], c)
      /\ W[Len(W)] \in Seq(S) /\ Len(W[Len(W)]) \in Nat
      /\ Len(V[Len(W)]) = Len(W[Len(W)]) + 1
      /\ V[Len(W)][Len(W[Len(W)]) + 1] = c
      /\ \A i \in 1 .. Len(W[Len(W)]) : V[Len(W)][i] = W[Len(W)][i]
  BY LongerWord
<1>2. MoreWord(W, c, V)
  BY <1>1, Zenon DEF MoreWord, LongerBy
<1>3. ValueMore(W, c, V)
  <2> DEFINE w == W[Len(W)]
  <2>1. w \in Seq(S) /\ V[Len(W)] = Append(w, c)
    BY <1>1
  <2> HIDE DEF w
  <2>2. HasValue(w) => HasValue(Append(w, c)) /\ Value(Append(w, c)) = (Value(w) * 16 + Hex[c]) % Word
    BY <2>1, ValueGrows, Zenon
  <2> QED BY <2>1, <2>2, Zenon DEF ValueMore, w
<1> QED BY <1>2, <1>3

\* The parser's state p after the characters of l.
Parsed(p, l) ==
    /\ HasWords(l)
    /\ Open(l) => Inside(p, Words(l))
    /\ ~Open(l) => Outside(p, Words(l))

\* One more character of the line, and one more step of the parser.
LEMMA ParsedGrows ==
    ASSUME NEW S, NEW l \in Seq(S), NEW c \in S, NEW p, Parsed(p, l)
    PROVE  Parsed(Parse(p, c), Append(l, c))
<1> DEFINE q == Parse(p, c)
           t == Append(l, c)
           W == Words(l)
           V == Words(t)
<1>1. HasWords(l) /\ HasWords(t) /\ (Open(t) <=> c \notin Blank)
  <2>1. HasWords(l)
    BY DEF Parsed
  <2> QED BY <2>1, HasWordsGrow, OpenGrows, Zenon
<1>2. W \in Seq(Seq(S)) /\ Len(W) \in Nat
  <2>1. W \in Seq(Seq(S))
    BY <1>1, WordsTyped, Zenon
  <2> QED BY <2>1, LenProperties, Zenon
<1>3. CASE c \in Blank
  <2>1. V = W
    BY <1>1, <1>3, WordsBlank, Zenon
  <2>2. (Open(l) => Inside(p, W)) /\ (~Open(l) => Outside(p, W))
    BY DEF Parsed
  <2>3. Outside(q, W)
    <3>1. Open(l) => Outside(q, W)
      BY <1>2, <1>3, <2>2, BlankInside, Zenon
    <3>2. ~Open(l) => Outside(q, W)
      BY <1>2, <1>3, <2>2, BlankOutside, Zenon
    <3> QED BY <3>1, <3>2, Zenon
  <2> QED BY <1>1, <1>3, <2>1, <2>3, Zenon DEF Parsed
<1>4. CASE c \notin Blank /\ ~Open(l)
  <2>1. V = Append(W, <<c>>)
    BY <1>1, <1>4, WordsNew, Zenon
  <2>2. Outside(p, W)
    BY <1>4, Zenon DEF Parsed
  <2>3. NewWord(W, c, V)
    BY <1>2, <2>1, NewWordIs, Zenon
  <2>4. Inside(q, V)
    BY <1>4, <2>2, <2>3, NewOutside, Zenon
  <2> QED BY <1>1, <1>4, <2>4, Zenon DEF Parsed
<1>5. CASE c \notin Blank /\ Open(l)
  <2>1. V = [W EXCEPT ![Len(W)] = Append(W[Len(W)], c)]
    BY <1>1, <1>5, WordsMore
  <2>2. Inside(p, W)
    BY <1>5, Zenon DEF Parsed
  <2>3. Len(W) >= 1
    BY <2>2, Zenon DEF Inside
  <2>4. MoreWord(W, c, V) /\ ValueMore(W, c, V)
    <3> HIDE DEF W, V
    <3> QED BY <1>2, <2>1, <2>3, MoreWordIs
  <2>5. Inside(q, V)
    BY <1>5, <2>2, <2>4, MoreInside, Zenon
  <2> QED BY <1>1, <1>5, <2>5, Zenon DEF Parsed
<1> QED BY <1>3, <1>4, <1>5

\* At the beginning of a line.
LEMMA ParsedEmpty ==
    ASSUME NEW p, FieldsOK(p), p.sts = 0
    PROVE  Parsed(p, <<>>)
<1> DEFINE e == <<>>
<1>1. Len(e) = 0 /\ WordStarts(e) = {} /\ WordStops(e) = {} /\ ~Open(e)
  BY DEF WordStarts, WordStops, Open
<1>2. Cardinality({}) = 0
  BY FS_EmptySet
<1>3. HasWords(e)
  BY <1>1 DEF HasWords
<1>4. Words(e) = <<>>
  <2>1. e \in Seq({})
    OBVIOUS
  <2> HIDE DEF e
  <2>2. Words(e) \in Seq(Seq({})) /\ Len(Words(e)) = 0
    BY <1>1, <1>2, <1>3, <2>1, WordsTyped
  <2> QED BY <2>2, EmptySeq
<1>5. Outside(p, <<>>)
  BY DEF Outside
<1> HIDE DEF e
<1>6. Parsed(p, e)
  BY <1>1, <1>3, <1>4, <1>5 DEF Parsed
<1> QED BY <1>6 DEF e

\* A word of hexadecimal characters.
LEMMA HexWordSet ==
    ASSUME NEW S, NEW w \in Seq(S)
    PROVE  HexWord(w) <=> ~(ToSet(w) \ DOMAIN Hex # {})
<1>1. DOMAIN w = 1 .. Len(w)
  OBVIOUS
<1> QED BY <1>1 DEF HexWord, ToSet

\* A word of two characters is these two.
LEMMA TwoOf ==
    ASSUME NEW S, NEW w \in Seq(S), Len(w) = 2
    PROVE  w = <<w[1], w[2]>>
OBVIOUS

\* The arguments after a name and their values.
LEMMA Joined ==
    ASSUME NEW T, NEW u \in Seq(T), NEW v \in Seq(T), NEW t \in Seq(T), Len(t) = Len(u) + Len(v),
           \A i \in 1 .. Len(t) : t[i] = IF i <= Len(u) THEN u[i] ELSE v[i - Len(u)]
    PROVE  u \o v = t
<1>1. /\ u \o v \in Seq(T) /\ Len(u \o v) = Len(t)
      /\ \A i \in 1 .. Len(t) : (u \o v)[i] = t[i]
  BY ConcatProperties
<1> QED BY <1>1, SeqEqual

JoinsOne(a, b, v) == <<a, b>> \o v = <<a, b, v[1]>>

\* Arguments and values of a command.
LEMMA OneValue ==
    ASSUME NEW a, NEW b, NEW U, NEW v \in Seq(U), Len(v) = 1
    PROVE  JoinsOne(a, b, v)
<1> DEFINE T == U \cup {a, b}
           u == <<a, b>>
           t == <<a, b, v[1]>>
<1>1. u \in Seq(T) /\ Len(u) = 2 /\ u[1] = a /\ u[2] = b
  OBVIOUS
<1>2. t \in Seq(T) /\ Len(t) = 3 /\ t[1] = a /\ t[2] = b /\ t[3] = v[1]
  <2>1. v[1] \in U
    <3>1. \A i \in 1 .. Len(v) : v[i] \in U
      BY ElementOfSeq
    <3> QED BY <3>1
  <2> QED BY <2>1
<1>3. v \in Seq(T)
  <2>1. v \in [1 .. 1 -> U]
    BY LenProperties
  <2>2. v \in [1 .. 1 -> T]
    BY <2>1
  <2> QED BY <2>2
<1> HIDE DEF T, u, t
<1>4. \A i \in 1 .. Len(t) : t[i] = IF i <= Len(u) THEN u[i] ELSE v[i - Len(u)]
  <2>1. \A i \in 1 .. Len(t) : i = 1 \/ i = 2 \/ i = 3
    BY <1>2
  <2>2. t[1] = IF 1 <= Len(u) THEN u[1] ELSE v[1 - Len(u)]
    BY <1>1, <1>2
  <2>3. t[2] = IF 2 <= Len(u) THEN u[2] ELSE v[2 - Len(u)]
    BY <1>1, <1>2
  <2>4. t[3] = IF 3 <= Len(u) THEN u[3] ELSE v[3 - Len(u)]
    BY <1>1, <1>2
  <2> QED BY <2>1, <2>2, <2>3, <2>4
<1>5. Len(t) = Len(u) + Len(v)
  BY <1>1, <1>2
<1>6. u \o v = t
  BY <1>1, <1>2, <1>3, <1>4, <1>5, Joined, Zenon
<1> QED BY <1>6 DEF u, t, JoinsOne

JoinsTwo(a, b, v) == <<a, b>> \o v = <<a, b, v[1], v[2]>>

LEMMA TwoValues ==
    ASSUME NEW a, NEW b, NEW U, NEW v \in Seq(U), Len(v) = 2
    PROVE  JoinsTwo(a, b, v)
<1> DEFINE T == U \cup {a, b}
           u == <<a, b>>
           t == <<a, b, v[1], v[2]>>
<1>1. u \in Seq(T) /\ Len(u) = 2 /\ u[1] = a /\ u[2] = b
  OBVIOUS
<1>2. t \in Seq(T) /\ Len(t) = 4 /\ t[1] = a /\ t[2] = b /\ t[3] = v[1] /\ t[4] = v[2]
  <2>1. v[1] \in U /\ v[2] \in U
    <3>1. \A i \in 1 .. Len(v) : v[i] \in U
      BY ElementOfSeq
    <3> QED BY <3>1
  <2> QED BY <2>1
<1>3. v \in Seq(T)
  <2>1. v \in [1 .. 2 -> U]
    BY LenProperties
  <2>2. v \in [1 .. 2 -> T]
    BY <2>1
  <2> QED BY <2>2
<1> HIDE DEF T, u, t
<1>4. \A i \in 1 .. Len(t) : t[i] = IF i <= Len(u) THEN u[i] ELSE v[i - Len(u)]
  <2>1. \A i \in 1 .. Len(t) : i = 1 \/ i = 2 \/ i = 3 \/ i = 4
    BY <1>2
  <2>2. t[1] = IF 1 <= Len(u) THEN u[1] ELSE v[1 - Len(u)]
    BY <1>1, <1>2
  <2>3. t[2] = IF 2 <= Len(u) THEN u[2] ELSE v[2 - Len(u)]
    BY <1>1, <1>2
  <2>4. t[3] = IF 3 <= Len(u) THEN u[3] ELSE v[3 - Len(u)]
    BY <1>1, <1>2
  <2>5. t[4] = IF 4 <= Len(u) THEN u[4] ELSE v[4 - Len(u)]
    BY <1>1, <1>2
  <2> QED BY <2>1, <2>2, <2>3, <2>4, <2>5
<1>5. Len(t) = Len(u) + Len(v)
  BY <1>1, <1>2
<1>6. u \o v = t
  BY <1>1, <1>2, <1>3, <1>4, <1>5, Joined, Zenon
<1> QED BY <1>6 DEF u, t, JoinsTwo

JoinsThree(a, v) == <<a>> \o v = <<a, v[1], v[2], v[3]>>

LEMMA ThreeValues ==
    ASSUME NEW a, NEW U, NEW v \in Seq(U), Len(v) = 3
    PROVE  JoinsThree(a, v)
<1> DEFINE T == U \cup {a}
           u == <<a>>
           t == <<a, v[1], v[2], v[3]>>
<1>1. u \in Seq(T) /\ Len(u) = 1 /\ u[1] = a
  OBVIOUS
<1>2. t \in Seq(T) /\ Len(t) = 4 /\ t[1] = a /\ t[2] = v[1] /\ t[3] = v[2] /\ t[4] = v[3]
  <2>1. v[1] \in U /\ v[2] \in U /\ v[3] \in U
    <3>1. \A i \in 1 .. Len(v) : v[i] \in U
      BY ElementOfSeq
    <3> QED BY <3>1
  <2> QED BY <2>1
<1>3. v \in Seq(T)
  <2>1. v \in [1 .. 3 -> U]
    BY LenProperties
  <2>2. v \in [1 .. 3 -> T]
    BY <2>1
  <2> QED BY <2>2
<1> HIDE DEF T, u, t
<1>4. \A i \in 1 .. Len(t) : t[i] = IF i <= Len(u) THEN u[i] ELSE v[i - Len(u)]
  <2>1. \A i \in 1 .. Len(t) : i = 1 \/ i = 2 \/ i = 3 \/ i = 4
    BY <1>2
  <2>2. t[1] = IF 1 <= Len(u) THEN u[1] ELSE v[1 - Len(u)]
    BY <1>1, <1>2
  <2>3. t[2] = IF 2 <= Len(u) THEN u[2] ELSE v[2 - Len(u)]
    BY <1>1, <1>2
  <2>4. t[3] = IF 3 <= Len(u) THEN u[3] ELSE v[3 - Len(u)]
    BY <1>1, <1>2
  <2>5. t[4] = IF 4 <= Len(u) THEN u[4] ELSE v[4 - Len(u)]
    BY <1>1, <1>2
  <2> QED BY <2>1, <2>2, <2>3, <2>4, <2>5
<1>5. Len(t) = Len(u) + Len(v)
  BY <1>1, <1>2
<1>6. u \o v = t
  BY <1>1, <1>2, <1>3, <1>4, <1>5, Joined, Zenon
<1> QED BY <1>6 DEF u, t, JoinsThree

-----------------------------------------------------------------------------
\* The parts of Meaning: the values of the arguments, whether one is not a number,
\* and what a line with a name and n arguments says.
Vals(W) == [i \in 1 .. Len(Tail(W)) |-> Value(Tail(W)[i])]
NotNumbers(W) == \E i \in 1 .. Len(Tail(W)) : ToSet(Tail(W)[i]) \ DOMAIN Hex # {}

Said(name, n, val) ==
    CASE name[1] = "?" -> <<"header">>
      [] Len(name) = 2 /\ name[1] = "R" /\ name[2] \in Sizes /\ n = 1 -> <<"read", name[2]>> \o val
      [] Len(name) = 2 /\ name[1] = "W" /\ name[2] \in Sizes /\ n = 2 -> <<"write", name[2]>> \o val
      [] name = <<"E", "0">> -> <<"echo off">>
      [] name = <<"E", "1">> /\ n \in {0, 3} -> <<"echo on">> \o val
      [] OTHER -> <<"error">>

\* Meaning, put together from its parts.
LEMMA MeaningIs ==
    ASSUME NEW l, NEW W, W = Words(l)
    PROVE  /\ W = <<>> => Meaning(l) = <<"nop">>
           /\ W # <<>> /\ Len(W[1]) = 2 /\ NotNumbers(W) => Meaning(l) = <<"error">>
           /\ W # <<>> /\ ~(Len(W[1]) = 2 /\ NotNumbers(W)) =>
                 Meaning(l) = Said(W[1], Len(Tail(W)), Vals(W))
BY DEF Meaning, NotNumbers, Vals, Said

\* The words after the name.
LEMMA TailIs ==
    ASSUME NEW S, NEW W \in Seq(Seq(S)), Len(W) >= 1
    PROVE  /\ Len(W) \in Nat /\ Len(Tail(W)) = Len(W) - 1 /\ W # <<>>
           /\ \A i \in 1 .. Len(W) - 1 : Tail(W)[i] = W[i + 1]
<1> DEFINE T == Seq(S)
<1>1. W \in Seq(T)
  OBVIOUS
<1> HIDE DEF T
<1>2. Len(W) \in Nat /\ W # <<>>
  BY <1>1, LenProperties, EmptySeq
<1>3. Len(Tail(W)) = Len(W) - 1 /\ \A i \in 1 .. Len(Tail(W)) : Tail(W)[i] = W[i + 1]
  BY <1>1, <1>2, HeadTailProperties
<1> QED BY <1>2, <1>3

\* An argument is not a number if some character of it is not hexadecimal.
LEMMA NotNumbersIs ==
    ASSUME NEW S, NEW W \in Seq(Seq(S)), Len(W) >= 1
    PROVE  NotNumbers(W) <=> \E k \in 2 .. Len(W) : ~HexWord(W[k])
<1>1. /\ Len(W) \in Nat /\ Len(Tail(W)) = Len(W) - 1
      /\ \A i \in 1 .. Len(W) - 1 : Tail(W)[i] = W[i + 1]
  BY TailIs
<1>2. \A k \in 1 .. Len(W) : HexWord(W[k]) <=> ~(ToSet(W[k]) \ DOMAIN Hex # {})
  <2>1. \A k \in 1 .. Len(W) : W[k] \in Seq(S)
    BY ElementOfSeq
  <2> QED BY <2>1, HexWordSet
<1> DEFINE n == Len(W)
           G(k) == HexWord(W[k])
<1>3. NotNumbers(W) <=> \E i \in 1 .. n - 1 : ~G(i + 1)
  BY <1>1, <1>2 DEF NotNumbers
<1>4. n \in Nat
  BY <1>1
<1> HIDE DEF n, G
<1>5. (\E i \in 1 .. n - 1 : ~G(i + 1)) <=> \E k \in 2 .. n : ~G(k)
  <2>1. ASSUME NEW i \in 1 .. n - 1, ~G(i + 1) PROVE \E k \in 2 .. n : ~G(k)
    <3>1. i + 1 \in 2 .. n
      BY <1>4
    <3> QED BY <2>1, <3>1
  <2>2. ASSUME NEW k \in 2 .. n, ~G(k) PROVE \E i \in 1 .. n - 1 : ~G(i + 1)
    <3>1. k - 1 \in 1 .. n - 1 /\ (k - 1) + 1 = k
      BY <1>4
    <3> QED BY <2>2, <3>1
  <2> QED BY <2>1, <2>2
<1> QED BY <1>3, <1>5 DEF n, G

\* The values of the arguments.
LEMMA ValsIs ==
    ASSUME NEW S, NEW W \in Seq(Seq(S)), Len(W) >= 1,
           NEW T, \A i \in 1 .. Len(W) - 1 : Value(W[i + 1]) \in T
    PROVE  /\ Vals(W) \in Seq(T) /\ Len(Vals(W)) = Len(W) - 1
           /\ \A i \in 1 .. Len(W) - 1 : Vals(W)[i] = Value(W[i + 1])
<1> DEFINE n == Len(W) - 1
           v == Vals(W)
<1>1. /\ Len(W) \in Nat /\ Len(Tail(W)) = n
      /\ \A i \in 1 .. n : Tail(W)[i] = W[i + 1]
  BY TailIs
<1>2. v = [i \in 1 .. n |-> Value(Tail(W)[i])]
  BY <1>1 DEF Vals
<1>3. n \in Nat /\ \A i \in 1 .. n : Value(W[i + 1]) \in T
  BY <1>1
<1> HIDE DEF n, v
<1>4. DOMAIN v = 1 .. n /\ v \in [1 .. n -> T] /\ \A i \in 1 .. n : v[i] = Value(W[i + 1])
  BY <1>1, <1>2, <1>3
<1>5. v \in Seq(T) /\ Len(v) = n
  BY <1>3, <1>4
<1> QED BY <1>4, <1>5 DEF n, v

\* The name a b with n arguments is none of the commands.
NoCommand(a, b, n) ==
    /\ ~(a = "R" /\ b \in Sizes /\ n = 1)
    /\ ~(a = "W" /\ b \in Sizes /\ n = 2)
    /\ ~(a = "E" /\ b = "0")
    /\ ~(a = "E" /\ b = "1" /\ n \in {0, 3})
    /\ a # "?"

\* What cmdexec makes of the parser's state after a whole name and n arguments.
LEMMA DecodedIs ==
    ASSUME NEW p, p.sts = 3, NEW a, NEW b, NEW n, NEW g, a = p.cmd0, b = p.cmd1, n = p.narg, g = p.arg
    PROVE  /\ a = "R" /\ b \in Sizes /\ n = 1 => Decoded(p) = <<"read", b, g[1]>>
           /\ a = "W" /\ b \in Sizes /\ n = 2 => Decoded(p) = <<"write", b, g[1], g[2]>>
           /\ a = "E" /\ b = "0" => Decoded(p) = <<"echo off">>
           /\ a = "E" /\ b = "1" /\ n = 0 => Decoded(p) = <<"echo on">>
           /\ a = "E" /\ b = "1" /\ n = 3 => Decoded(p) = <<"echo on", g[1], g[2], g[3]>>
           /\ a = "?" => Decoded(p) = <<"header">>
           /\ NoCommand(a, b, n) => Decoded(p) = <<"error">>
<1> DEFINE X1 == <<"read", b, g[1]>>
           X2 == <<"write", b, g[1], g[2]>>
           X3 == <<"echo off">>
           X4 == <<"echo on">>
           X5 == <<"echo on", g[1], g[2], g[3]>>
           X6 == <<"header">>
           X7 == <<"error">>
<1>1. Decoded(p) =
        CASE a = "R" /\ b \in Sizes /\ n = 1 -> X1
          [] a = "W" /\ b \in Sizes /\ n = 2 -> X2
          [] a = "E" /\ b = "0" -> X3
          [] a = "E" /\ b = "1" /\ n = 0 -> X4
          [] a = "E" /\ b = "1" /\ n = 3 -> X5
          [] a = "?" -> X6
          [] OTHER -> X7
  BY DEF Decoded
<1> HIDE DEF X1, X2, X3, X4, X5, X6, X7
<1>2. /\ a = "R" /\ b \in Sizes /\ n = 1 => Decoded(p) = X1
      /\ a = "W" /\ b \in Sizes /\ n = 2 => Decoded(p) = X2
  BY <1>1
<1>3. a = "E" /\ b = "0" => Decoded(p) = X3
  BY <1>1
<1>4. a = "E" /\ b = "1" /\ n = 0 => Decoded(p) = X4
  BY <1>1
<1>5. a = "E" /\ b = "1" /\ n = 3 => Decoded(p) = X5
  BY <1>1
<1>6. a = "?" => Decoded(p) = X6
  BY <1>1
<1>7. NoCommand(a, b, n) => Decoded(p) = X7
  BY <1>1 DEF NoCommand
<1> QED BY <1>2, <1>3, <1>4, <1>5, <1>6, <1>7, Zenon DEF X1, X2, X3, X4, X5, X6, X7

\* What a line says of the name a b, of two characters, and n arguments of values v.
Says(a, b, n, v, r) ==
    /\ a = "R" /\ b \in Sizes /\ n = 1 => r = <<"read", b>> \o v
    /\ a = "W" /\ b \in Sizes /\ n = 2 => r = <<"write", b>> \o v
    /\ a = "E" /\ b = "0" => r = <<"echo off">>
    /\ a = "E" /\ b = "1" /\ n \in {0, 3} => r = <<"echo on">> \o v
    /\ a = "?" => r = <<"header">>
    /\ NoCommand(a, b, n) => r = <<"error">>

LEMMA SaidIs ==
    ASSUME NEW a, NEW b, NEW name, name = <<a, b>>, NEW n, NEW v
    PROVE  Says(a, b, n, v, Said(name, n, v))
<1>1. /\ Len(name) = 2 /\ name[1] = a /\ name[2] = b
      /\ (name = <<"E", "0">> <=> a = "E" /\ b = "0")
      /\ (name = <<"E", "1">> <=> a = "E" /\ b = "1")
  OBVIOUS
<1> DEFINE X1 == <<"read", b>> \o v
           X2 == <<"write", b>> \o v
           X3 == <<"echo off">>
           X4 == <<"echo on">> \o v
           X6 == <<"header">>
           X7 == <<"error">>
<1>2. Said(name, n, v) =
        CASE a = "?" -> X6
          [] a = "R" /\ b \in Sizes /\ n = 1 -> X1
          [] a = "W" /\ b \in Sizes /\ n = 2 -> X2
          [] a = "E" /\ b = "0" -> X3
          [] a = "E" /\ b = "1" /\ n \in {0, 3} -> X4
          [] OTHER -> X7
  BY <1>1 DEF Said
<1> HIDE DEF X1, X2, X3, X4, X6, X7
<1>3. a = "R" /\ b \in Sizes /\ n = 1 => Said(name, n, v) = X1
  BY <1>2
<1>4. a = "W" /\ b \in Sizes /\ n = 2 => Said(name, n, v) = X2
  BY <1>2
<1>5. a = "E" /\ b = "0" => Said(name, n, v) = X3
  BY <1>2
<1>6. a = "E" /\ b = "1" /\ n \in {0, 3} => Said(name, n, v) = X4
  BY <1>2
<1>7. a = "?" => Said(name, n, v) = X6
  BY <1>2
<1>8. NoCommand(a, b, n) => Said(name, n, v) = X7
  BY <1>2 DEF NoCommand
<1> QED BY <1>3, <1>4, <1>5, <1>6, <1>7, <1>8, Zenon DEF X1, X2, X3, X4, X6, X7, Says

\* A line with a name of two characters and arguments that are numbers.
LEMMA CommandSaid ==
    ASSUME NEW S, NEW W \in Seq(Seq(S)), NEW p, Outside(p, W), p.sts = 3
    PROVE  Decoded(p) = Said(W[1], Len(Tail(W)), Vals(W))
<1> DEFINE a == p.cmd0
           b == p.cmd1
           n == Len(W) - 1
           v == Vals(W)
           g == p.arg
           D == Decoded(p)
           M == Said(W[1], Len(Tail(W)), v)
<1>1. Len(W) >= 1 /\ NameRead(p, W) /\ ArgsRead(p, W, n)
  BY DEF Outside
<1>2. Len(W) \in Nat /\ Len(Tail(W)) = n /\ W[1] \in Seq(S)
  <2>1. Len(W) \in Nat /\ Len(Tail(W)) = n
    BY <1>1, TailIs
  <2>2. W[1] \in Seq(S)
    BY <1>1, <2>1, ElementOfSeq
  <2> QED BY <2>1, <2>2
<1>3. W[1] = <<a, b>>
  <2>1. Len(W[1]) = 2 /\ W[1][1] = a /\ W[1][2] = b
    BY <1>1 DEF NameRead
  <2>2. W[1] = <<W[1][1], W[1][2]>>
    BY <1>2, <2>1, TwoOf, Zenon
  <2> QED BY <2>1, <2>2, Zenon
<1>4. n \in Nat /\ p.narg = (IF n <= MaxArg THEN n ELSE MaxArg)
      /\ \A i \in 1 .. p.narg : g[i] = Value(W[i + 1])
  BY <1>1, <1>2 DEF ArgsRead
<1> DEFINE U == {Value(W[i + 1]) : i \in 1 .. n}
<1>5. v \in Seq(U) /\ Len(v) = n /\ \A i \in 1 .. n : v[i] = Value(W[i + 1])
  <2>1. \A i \in 1 .. n : Value(W[i + 1]) \in U
    OBVIOUS
  <2> HIDE DEF U
  <2> QED BY <1>1, <2>1, ValsIs
<1>6. Says(a, b, n, v, M)
  <2> DEFINE w == W[1]
  <2>1. w = <<a, b>> /\ M = Said(w, n, v)
    BY <1>2, <1>3
  <2> HIDE DEF w, n, v, a, b, M
  <2>2. Says(a, b, n, v, Said(w, n, v))
    BY <2>1, SaidIs
  <2> QED BY <2>1, <2>2
<1>7. /\ a = "R" /\ b \in Sizes /\ p.narg = 1 => D = <<"read", b, g[1]>>
      /\ a = "W" /\ b \in Sizes /\ p.narg = 2 => D = <<"write", b, g[1], g[2]>>
      /\ a = "E" /\ b = "0" => D = <<"echo off">>
      /\ a = "E" /\ b = "1" /\ p.narg = 0 => D = <<"echo on">>
      /\ a = "E" /\ b = "1" /\ p.narg = 3 => D = <<"echo on", g[1], g[2], g[3]>>
      /\ a = "?" => D = <<"header">>
      /\ NoCommand(a, b, p.narg) => D = <<"error">>
  BY DecodedIs, Zenon
<1>8. \A k \in 0 .. 3 : p.narg = k <=> n = k
  <2> HIDE DEF n
  <2> QED BY <1>4 DEF MaxArg
<1> HIDE DEF a, b, n, v, g, D, M, U
<1>9. CASE a = "R" /\ b \in Sizes /\ n = 1
  <2>1. p.narg = 1 /\ 1 \in Nat
    BY <1>8, <1>9
  <2>2. g[1] = v[1]
    <3>1. \A i \in 1 .. 1 : g[i] = v[i]
      BY <1>4, <1>5, <1>9, <2>1
    <3> QED BY <3>1
  <2>3. Len(v) = 1
    BY <1>5, <1>9
  <2>4. <<"read", b>> \o v = <<"read", b, v[1]>>
    <3>1. JoinsOne("read", b, v)
      BY <1>5, <2>3, OneValue
    <3> QED BY <3>1 DEF JoinsOne
  <2>5. M = <<"read", b>> \o v
    BY <1>6, <1>9 DEF Says
  <2>6. D = <<"read", b, g[1]>>
    BY <1>7, <1>9, <2>1
  <2>7. D = M
    BY <2>2, <2>4, <2>5, <2>6, Zenon
  <2> QED BY <2>7 DEF D, M, v
<1>10. CASE a = "W" /\ b \in Sizes /\ n = 2
  <2>1. p.narg = 2 /\ 2 \in Nat
    BY <1>8, <1>10
  <2>2. g[1] = v[1] /\ g[2] = v[2]
    <3>1. \A i \in 1 .. 2 : g[i] = v[i]
      BY <1>4, <1>5, <1>10, <2>1
    <3> QED BY <3>1
  <2>3. Len(v) = 2
    BY <1>5, <1>10
  <2>4. <<"write", b>> \o v = <<"write", b, v[1], v[2]>>
    <3>1. JoinsTwo("write", b, v)
      BY <1>5, <2>3, TwoValues
    <3> QED BY <3>1 DEF JoinsTwo
  <2>5. M = <<"write", b>> \o v
    BY <1>6, <1>10 DEF Says
  <2>6. D = <<"write", b, g[1], g[2]>>
    BY <1>7, <1>10, <2>1
  <2>7. D = M
    BY <2>2, <2>4, <2>5, <2>6, Zenon
  <2> QED BY <2>7 DEF D, M, v
<1>11. CASE a = "E" /\ b = "0"
  <2>1. D = M
    BY <1>6, <1>7, <1>11, Zenon DEF Says
  <2> QED BY <2>1 DEF D, M, v
<1>12. CASE a = "E" /\ b = "1" /\ n = 0
  <2>1. p.narg = 0
    BY <1>8, <1>12
  <2>3. v \in Seq(U) /\ Len(v) = 0
    BY <1>5, <1>12
  <2>4. <<"echo on">> \o v = <<"echo on">>
    <3>1. v = <<>>
      BY <2>3, EmptySeq
    <3> QED BY <3>1
  <2>5. D = M
    BY <1>6, <1>7, <1>12, <2>1, <2>4 DEF Says
  <2> QED BY <2>5 DEF D, M, v
<1>13. CASE a = "E" /\ b = "1" /\ n = 3
  <2>1. p.narg = 3 /\ 3 \in Nat
    BY <1>8, <1>13
  <2>2. g[1] = v[1] /\ g[2] = v[2] /\ g[3] = v[3]
    <3>1. \A i \in 1 .. 3 : g[i] = v[i]
      BY <1>4, <1>5, <1>13, <2>1
    <3> QED BY <3>1
  <2>3. Len(v) = 3
    BY <1>5, <1>13
  <2>4. <<"echo on">> \o v = <<"echo on", v[1], v[2], v[3]>>
    <3>1. JoinsThree("echo on", v)
      BY <1>5, <2>3, ThreeValues
    <3> QED BY <3>1 DEF JoinsThree
  <2>5. M = <<"echo on">> \o v
    BY <1>6, <1>13 DEF Says
  <2>6. D = <<"echo on", g[1], g[2], g[3]>>
    BY <1>7, <1>13, <2>1
  <2>7. D = M
    BY <2>2, <2>4, <2>5, <2>6, Zenon
  <2> QED BY <2>7 DEF D, M, v
<1>14. CASE a = "?"
  <2>1. D = M
    BY <1>6, <1>7, <1>14, Zenon DEF Says
  <2> QED BY <2>1 DEF D, M, v
<1>15. CASE NoCommand(a, b, n)
  <2>1. NoCommand(a, b, p.narg)
    BY <1>8, <1>15 DEF NoCommand
  <2>2. D = M
    BY <1>6, <1>7, <1>15, <2>1, Zenon DEF Says
  <2> QED BY <2>2 DEF D, M, v
<1> QED BY <1>9, <1>10, <1>11, <1>12, <1>13, <1>14, <1>15 DEF NoCommand

-----------------------------------------------------------------------------
\* A line whose name has two characters, or asks for help, says what is decoded
\* once a blank has ended its last word.
LEMMA ClosedMeaning ==
    ASSUME NEW S, NEW l, Words(l) \in Seq(Seq(S)), NEW p, Outside(p, Words(l)), TwoCharacters(l)
    PROVE  Decoded(p) = Meaning(l)
<1> DEFINE W == Words(l)
           M == Meaning(l)
           n == Len(Tail(W))
<1>1. /\ W = <<>> => M = <<"nop">>
      /\ W # <<>> /\ Len(W[1]) = 2 /\ NotNumbers(W) => M = <<"error">>
      /\ W # <<>> /\ ~(Len(W[1]) = 2 /\ NotNumbers(W)) => M = Said(W[1], n, Vals(W))
  BY MeaningIs, Zenon
<1>2. W \in Seq(Seq(S)) /\ Outside(p, W)
  OBVIOUS
<1>3. W = <<>> \/ Len(W[1]) = 2 \/ W[1][1] = "?"
  BY DEF TwoCharacters
<1> HIDE DEF W, M
<1>4. p.sts \in {0, 3, 99, 100, 101}
  BY <1>2, Zenon DEF Outside
<1>5. CASE p.sts = 0
  <2>1. W = <<>>
    BY <1>2, <1>5, Zenon DEF Outside
  <2>2. Decoded(p) = <<"nop">>
    BY <1>5 DEF Decoded
  <2> QED BY <1>1, <2>1, <2>2, Zenon DEF M
<1>6. ASSUME p.sts # 0
      PROVE  Len(W) >= 1 /\ W # <<>> /\ (NotNumbers(W) <=> \E k \in 2 .. Len(W) : ~HexWord(W[k]))
  <2>1. Len(W) >= 1
    BY <1>2, <1>6, Zenon DEF Outside
  <2> QED BY <1>2, <2>1, TailIs, NotNumbersIs, Zenon
<1>7. CASE p.sts = 101
  <2>1. Len(W[1]) = 2 /\ \E k \in 2 .. Len(W) : ~HexWord(W[k])
    BY <1>2, <1>7, Zenon DEF Outside, WrongArg
  <2>2. p.sts # 0 /\ Decoded(p) = <<"error">>
    BY <1>7 DEF Decoded
  <2> QED BY <1>1, <1>6, <2>1, <2>2, Zenon DEF M
<1>8. CASE p.sts = 3
  <2>1. p.sts # 0
    BY <1>8
  <2>2. AllHex(W)
    BY <1>2, <1>8, Zenon DEF Outside
  <2>3. ~NotNumbers(W)
    BY <1>6, <2>1, <2>2, Zenon DEF AllHex
  <2>4. Decoded(p) = Said(W[1], n, Vals(W))
    BY <1>2, <1>8, CommandSaid, Zenon
  <2> QED BY <1>1, <1>6, <2>1, <2>3, <2>4, Zenon DEF M
<1>9. CASE p.sts \in {99, 100}
  <2>1. p.sts # 0 /\ p.sts # 101 /\ p.sts # 3
    BY <1>9
  <2>2. Len(W[1]) # 2 /\ W[1][1] = p.cmd0
    <3>1. OneCharacter(p, W) \/ ManyCharacters(p, W)
      BY <1>2, <1>9 DEF Outside
    <3>2. Len(W[1]) = 2 => ~(Len(W[1]) = 1) /\ ~(Len(W[1]) >= 3)
      OBVIOUS
    <3> QED BY <3>1, <3>2, Zenon DEF OneCharacter, ManyCharacters
  <2>3. p.cmd0 = "?" /\ W[1][1] = "?"
    BY <1>3, <1>6, <2>1, <2>2
  <2>4. Decoded(p) = <<"header">>
    BY <2>1, <2>3 DEF Decoded
  <2>5. Said(W[1], n, Vals(W)) = <<"header">>
    <3> DEFINE w == W[1]
               v == Vals(W)
    <3>1. w[1] = "?" /\ Len(w) # 2
      BY <2>2, <2>3
    <3>2. w # <<"E", "0">> /\ w # <<"E", "1">>
      BY <3>1
    <3> HIDE DEF w, v, n
    <3> DEFINE X1 == <<"read", w[2]>> \o v
               X2 == <<"write", w[2]>> \o v
               X3 == <<"echo off">>
               X4 == <<"echo on">> \o v
               X6 == <<"header">>
               X7 == <<"error">>
    <3>3. Said(w, n, v) =
            CASE w[1] = "?" -> X6
              [] Len(w) = 2 /\ w[1] = "R" /\ w[2] \in Sizes /\ n = 1 -> X1
              [] Len(w) = 2 /\ w[1] = "W" /\ w[2] \in Sizes /\ n = 2 -> X2
              [] w = <<"E", "0">> -> X3
              [] w = <<"E", "1">> /\ n \in {0, 3} -> X4
              [] OTHER -> X7
      BY Zenon DEF Said
    <3> HIDE DEF X1, X2, X3, X4, X6, X7
    <3>4. Said(w, n, v) = X6
      BY <3>1, <3>2, <3>3
    <3> QED BY <3>4, Zenon DEF X6, w, v
  <2> QED BY <1>1, <1>6, <2>1, <2>2, <2>4, <2>5, Zenon DEF M
<1> QED BY <1>4, <1>5, <1>7, <1>8, <1>9

-----------------------------------------------------------------------------
\* The parser's state is that of the characters since it restarted.
MeaningInv == LineSeq /\ Parsed(fsm, line)

\* The parser and the line at the beginning and after every step.
LEMMA MeaningInit == LoopInit => MeaningInv
<1> SUFFICES ASSUME LoopInit PROVE MeaningInv
  OBVIOUS
<1>1. LineSeq /\ line = <<>>
  <2>1. <<>> \in Seq({})
    OBVIOUS
  <2> QED BY <2>1 DEF LoopInit, LineSeq
<1>2. FieldsOK(fsm) /\ fsm.sts = 0
  BY DEF LoopInit, FieldsOK
<1>3. Parsed(fsm, <<>>)
  BY <1>2, ParsedEmpty
<1> QED BY <1>1, <1>3, Zenon DEF MeaningInv

\* The parser restarts.
LEMMA ParserRestarts ==
    ASSUME NEW p, NEW l, Parsed(p, l), fsm' = [p EXCEPT !.sts = 0], line' = <<>>
    PROVE  MeaningInv'
<1>1. FieldsOK(p)
  BY Zenon DEF Parsed, Inside, Outside
<1> DEFINE q == [p EXCEPT !.sts = 0]
<1>2. FieldsOK(q) /\ q.sts = 0
  BY <1>1 DEF FieldsOK
<1> HIDE DEF q
<1>3. Parsed(q, <<>>)
  BY <1>2, ParsedEmpty
<1>4. fsm' = q
  BY DEF q
<1>5. Parsed(fsm', line')
  BY <1>3, <1>4, Zenon
<1>6. \E S : line' \in Seq(S)
  <2>1. <<>> \in Seq({})
    OBVIOUS
  <2> QED BY <2>1
<1> QED BY <1>5, <1>6 DEF MeaningInv, LineSeq

\* A character read, whatever follows it.
LEMMA CharacterParsed ==
    ASSUME MeaningInv, NEW c
    PROVE  /\ Parsed(Parse(fsm, c), Append(line, c))
           /\ \E S : Append(line, c) \in Seq(S)
           /\ c \in Blank => Words(Append(line, c)) = Words(line) /\ Outside(Parse(fsm, c), Words(line))
           /\ \E S : Words(line) \in Seq(Seq(S))
<1>1. PICK T : line \in Seq(T)
  BY DEF MeaningInv, LineSeq
<1> DEFINE S == T \cup {c}
<1>2. line \in Seq(S)
  <2>1. Len(line) \in Nat /\ line \in [1 .. Len(line) -> T]
    BY <1>1, LenProperties
  <2>2. line \in [1 .. Len(line) -> S]
    BY <2>1
  <2> QED BY <2>1, <2>2
<1>3. c \in S
  OBVIOUS
<1> HIDE DEF S
<1>4. Parsed(fsm, line) /\ HasWords(line)
  BY Zenon DEF MeaningInv, Parsed
<1>5. Parsed(Parse(fsm, c), Append(line, c))
  BY <1>2, <1>3, <1>4, ParsedGrows, Zenon
<1>6. Append(line, c) \in Seq(S)
  BY <1>2, <1>3, AppendProperties, Zenon
<1>7. ASSUME c \in Blank
      PROVE  Words(Append(line, c)) = Words(line) /\ Outside(Parse(fsm, c), Words(line))
  <2>1. Words(Append(line, c)) = Words(line)
    BY <1>2, <1>3, <1>4, <1>7, WordsBlank, Zenon
  <2>2. ~Open(Append(line, c))
    BY <1>2, <1>3, <1>7, OpenGrows, Zenon
  <2>3. Outside(Parse(fsm, c), Words(Append(line, c)))
    BY <1>5, <2>2, Zenon DEF Parsed
  <2> QED BY <2>1, <2>3, Zenon
<1>8. Words(line) \in Seq(Seq(S))
  BY <1>2, <1>4, WordsTyped, Zenon
<1> QED BY <1>5, <1>6, <1>7, <1>8

\* Every iteration keeps them together.
LEMMA MeaningNext == MeaningInv /\ [LoopNext]_loopVars => MeaningInv'
<1> SUFFICES ASSUME MeaningInv, [LoopNext]_loopVars PROVE MeaningInv'
  OBVIOUS
<1>0. Parsed(fsm, line)
  BY DEF MeaningInv
<1>1. CASE NothingReady \/ FrameEnds \/ EndOfString
  <2>1. fsm' = [fsm EXCEPT !.sts = 0] /\ line' = <<>>
    BY <1>1, Zenon DEF NothingReady, FrameEnds, EndOfString, Switch
  <2> QED BY <1>0, <2>1, ParserRestarts, Zenon
<1>2. CASE LineReady \/ FrameReady
  <2>1. fsm' = fsm /\ line' = line
    BY <1>2, Zenon DEF LineReady, FrameReady
  <2> QED BY <2>1, Zenon DEF MeaningInv, LineSeq
<1>3. CASE Character
  <2> DEFINE c == Head(rest)
             p == Parse(fsm, c)
  <2>1. Parsed(p, Append(line, c)) /\ \E S : Append(line, c) \in Seq(S)
    BY CharacterParsed, Zenon
  <2>2. CASE c \in NewLines
    <3>1. fsm' = [p EXCEPT !.sts = 0] /\ line' = <<>>
      BY <1>3, <2>2, Zenon DEF Character, Execute
    <3> QED BY <2>1, <3>1, ParserRestarts, Zenon
  <2>3. CASE c \notin NewLines
    <3>1. fsm' = p /\ line' = Append(line, c)
      BY <1>3, <2>3, Zenon DEF Character
    <3> QED BY <2>1, <3>1, Zenon DEF MeaningInv, LineSeq
  <2> QED BY <2>2, <2>3
<1>4. CASE UNCHANGED loopVars
  <2>1. fsm' = fsm /\ line' = line
    BY <1>4 DEF loopVars
  <2> QED BY <2>1, Zenon DEF MeaningInv, LineSeq
<1> QED BY <1>1, <1>2, <1>3, <1>4 DEF LoopNext, Iteration

\* Whatever lines, parts of lines and frames of other streams came before, the command
\* that cmdexec executes at the end of a line is the one that the line, taken alone,
\* says: its own name and its own arguments, each in 32 bits, or an error.
THEOREM LineMeaningAlways == LoopSpec => LineMeaning
<1>1. ASSUME MeaningInv, [LoopNext]_loopVars
      PROVE  [done' # None /\ TwoCharacters(line) => done' = Meaning(line)]_loopVars
  <2> SUFFICES ASSUME done' # None, TwoCharacters(line), LoopNext PROVE done' = Meaning(line)
    BY <1>1, Zenon
  <2>1. ~(NothingReady \/ FrameEnds \/ EndOfString \/ LineReady \/ FrameReady)
    BY Zenon DEF NothingReady, FrameEnds, EndOfString, Switch, LineReady, FrameReady
  <2>2. Character
    BY <2>1, Zenon DEF LoopNext, Iteration
  <2> DEFINE c == Head(rest)
             p == Parse(fsm, c)
  <2>3. c \in NewLines /\ Execute(p)
    BY <2>2, Zenon DEF Character
  <2>4. done' = Decoded(p)
    BY <2>3, Zenon DEF Execute
  <2>5. c \in Blank
    BY <2>3, Zenon DEF Blank
  <2>6. Outside(p, Words(line)) /\ \E S : Words(line) \in Seq(Seq(S))
    BY <1>1, <2>5, CharacterParsed, Zenon
  <2>7. Decoded(p) = Meaning(line)
    BY <2>6, ClosedMeaning, Zenon
  <2> QED BY <2>4, <2>7, Zenon
<1> QED BY <1>1, MeaningInit, MeaningNext, PTL DEF LoopSpec, LineMeaning

=============================================================================
