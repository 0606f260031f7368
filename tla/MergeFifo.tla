------------------------------ MODULE MergeFifo ------------------------------
(***************************************************************************)
(* Merging of the primitives of the reference and of the control detector   *)
(* (Trigger.vhd).  SubReceive stores the primitives in REFERENCEFIFO and     *)
(* CONTROLFIFO, SubPrimitiveInPacket stores how many of them made up each    *)
(* window, SubReadFifo reads both back window by window, the earlier time    *)
(* first, into MERGEDFIFO, from which SubReadRam builds the triggers.        *)
(*                                                                          *)
(* The writers, the merge and the reader of MERGEDFIFO only meet in FIFOs:   *)
(* their clocks interleave.  Times are cut to the slice that is compared     *)
(* (bit_finetime bits of fine time and more); a primitive is its slice and   *)
(* its place in the burst.                                                  *)
(***************************************************************************)
EXTENDS Integers, Sequences, FiniteSets

CONSTANTS
    activatecontroltrigger,  \* is there a control detector
    DeltaPacket,             \* windows to hold back before merging
    MergedFifoChoke,         \* drop words when MERGEDFIFO is almost full
    bit_finetime,            \* 0..3
    Depth,                   \* words of REFERENCEFIFO and CONTROLFIFO
    NumDepth,                \* words of FIFOMTPNUMREF and FIFOMTPNUMCONTROL
    MergedDepth,             \* words of MERGEDFIFO, 8192
    HighWater,               \* level of AlmostFull, x1F39; x1D40, for falling, has no effect
    MaxPrim,                 \* bound: primitives per detector and window
    MaxWindow,               \* bound: windows per burst
    Slices                   \* bound: times within a window, of at most ten

ASSUME FlagAssumption == /\ activatecontroltrigger \in BOOLEAN
                         /\ MergedFifoChoke \in BOOLEAN
ASSUME SizeAssumption == /\ DeltaPacket \in Nat /\ Depth \in Nat /\ NumDepth \in Nat
                         /\ MergedDepth \in Nat /\ HighWater \in Nat
ASSUME BoundAssumption == /\ MaxPrim \in Nat /\ MaxWindow \in Nat
                          /\ Slices \subseteq 0 .. 9 /\ bit_finetime \in 0 .. 3

Src == {"reference", "control"}

VARIABLES
    fifo,                \* REFERENCEFIFO and CONTROLFIFO
    num,                 \* FIFOMTPNUMREF and FIFOMTPNUMCONTROL
    q, qnum,             \* their output registers
    FSMReadFifo,
    nprimitive,          \* nprimitiveref, nprimitivecontrol
    finish,              \* nprimitivereffinish, nprimitivecontrolfinish
    readfifo,            \* readfiforeference, readfifocontrol
    MergedFifoAlmostFull,
    MERGEDFIFO,
    overflow,            \* FIFOs that were full when a word came
    received,            \* primitives received per source, in this window
    latest,              \* slice of the last one, in this window
    total,               \* history: primitives received per source
    window,              \* windows received
    merged               \* history: the words selected

inputVars == <<received, latest, total, window>>
readVars == <<q, qnum, FSMReadFifo, nprimitive, finish, readfifo,
              MergedFifoAlmostFull, merged>>
vars == <<fifo, num, readVars, MERGEDFIFO, overflow, inputVars>>

None == [t |-> 0, k |-> 0]

Init ==
    /\ fifo = [s \in Src |-> <<>>]
    /\ num = [s \in Src |-> <<>>]
    /\ q = [s \in Src |-> None]
    /\ qnum = [s \in Src |-> 0]
    /\ FSMReadFifo = "Wait1Packet"
    /\ nprimitive = [s \in Src |-> 0]
    /\ finish = [s \in Src |-> FALSE]
    /\ readfifo = [s \in Src |-> TRUE]
    /\ MergedFifoAlmostFull = FALSE
    /\ MERGEDFIFO = <<>>
    /\ overflow = {}
    /\ received = [s \in Src |-> 0]
    /\ latest = [s \in Src |-> 0]
    /\ total = [s \in Src |-> 0]
    /\ window = 0
    /\ merged = <<>>

-----------------------------------------------------------------------------
(***************************************************************************)
(* SubReceive and SubPrimitiveInPacket.                                     *)
(***************************************************************************)
Uses(s) == s = "reference" \/ activatecontroltrigger

\* A primitive of slice t arrives; the detectors send a window's primitives in
\* order of time, and the times of a window lie after those of the one before.
SubReceive(s, t) ==
    /\ Uses(s)
    /\ window < MaxWindow /\ received[s] < MaxPrim
    /\ t >= latest[s]
    /\ LET p == [t |-> window * 10 + t, k |-> total[s] + 1]
       IN  IF Len(fifo[s]) < Depth
           THEN /\ fifo' = [fifo EXCEPT ![s] = Append(@, p)]
                /\ UNCHANGED overflow
           ELSE /\ overflow' = overflow \cup {s}
                /\ UNCHANGED fifo
    /\ received' = [received EXCEPT ![s] = @ + 1]
    /\ latest' = [latest EXCEPT ![s] = t]
    /\ total' = [total EXCEPT ![s] = @ + 1]
    /\ UNCHANGED <<num, readVars, MERGEDFIFO, window>>

\* The window is over: both numbers are stored in the same clock.
SubPrimitiveInPacket ==
    /\ window < MaxWindow
    /\ num' = [s \in Src |-> IF Uses(s) /\ Len(num[s]) < NumDepth
                             THEN Append(num[s], received[s]) ELSE num[s]]
    /\ overflow' = IF \E s \in Src : Len(num[s]) >= NumDepth
                   THEN overflow \cup {"numbers"} ELSE overflow
    /\ received' = [s \in Src |-> 0]
    /\ latest' = [s \in Src |-> 0]
    /\ window' = window + 1
    /\ UNCHANGED <<fifo, readVars, MERGEDFIFO, total>>

-----------------------------------------------------------------------------
(***************************************************************************)
(* SubReadFifo.                                                             *)
(***************************************************************************)
\* A FIFO with a read request shows its next word, or keeps its output if empty.
NextQ(out, f, rdreq) == [s \in Src |-> IF rdreq[s] /\ f[s] # <<>> THEN Head(f[s]) ELSE out[s]]
NextFifo(f, rdreq) == [s \in Src |-> IF rdreq[s] /\ f[s] # <<>> THEN Tail(f[s]) ELSE f[s]]

EnoughPackets == Len(num["reference"]) > DeltaPacket

\* A window begins with the flags and counters of both sources cleared.
NewWindow ==
    /\ finish' = [s \in Src |-> ~Uses(s)]
    /\ readfifo' = [s \in Src |-> Uses(s)]
    /\ nprimitive' = [s \in Src |-> 0]

Wait1Packet ==
    /\ FSMReadFifo = "Wait1Packet"
    /\ NewWindow
    /\ FSMReadFifo' = IF EnoughPackets THEN "ReadFifo" ELSE "Wait1Packet"
    /\ qnum' = NextQ(qnum, num, [s \in Src |-> EnoughPackets])
    /\ num' = NextFifo(num, [s \in Src |-> EnoughPackets])
    /\ UNCHANGED <<fifo, q, MergedFifoAlmostFull, MERGEDFIFO, overflow,
                   merged, inputVars>>

WindowDoneFlags == \A s \in Src : finish[s]
WindowDoneReference == nprimitive["reference"] >= qnum["reference"]
WindowDone == \A s \in Src : nprimitive[s] >= qnum[s]

rdreqBoth == [s \in Src |-> nprimitive[s] < qnum[s]]
rdreq == [s \in Src |-> nprimitive[s] < qnum[s] /\ readfifo[s]]

ReadFifo ==
    /\ FSMReadFifo = "ReadFifo"
    /\ q' = NextQ(q, fifo, rdreq)
    /\ fifo' = NextFifo(fifo, rdreq)
    /\ finish' = [s \in Src |-> finish[s] \/ qnum[s] = 0 \/ nprimitive[s] = qnum[s]]
    /\ FSMReadFifo' = IF WindowDone THEN "Wait1Packet" ELSE "SelectData"
    /\ UNCHANGED <<num, qnum, nprimitive, readfifo, MergedFifoAlmostFull,
                   MERGEDFIFO, overflow, merged, inputVars>>

\* The sources whose primitive is taken: the earlier, both when they are in the
\* same slice, the only one left when the other's window is finished.
TakenNoTie ==
    LET left == {s \in Src : ~finish[s]}
    IN  IF left # Src THEN left
        ELSE IF q["reference"].t <= q["control"].t THEN {"reference"} ELSE {"control"}
TakenLater ==
    LET left == {s \in Src : ~finish[s]}
    IN  IF left # Src THEN left
        ELSE {s \in Src : \A o \in Src : q[s].t >= q[o].t}
Taken ==
    LET left == {s \in Src : ~finish[s]}
    IN  IF left # Src THEN left
        ELSE {s \in Src : \A o \in Src : q[s].t <= q[o].t}

\* With 0 or 1 bit of fine time, an earlier control primitive is written even
\* when MERGEDFIFO is almost full.
Forced == /\ bit_finetime \in {0, 1}
          /\ \A s \in Src : ~finish[s]
          /\ Taken = {"control"}

MergedFull == Len(MERGEDFIFO) >= MergedDepth

Written == (~MergedFifoAlmostFull \/ Forced) /\ ~MergedFull

\* What a word carries: the place of the primitives it stands for, 0 for none.
Word == [r |-> IF "reference" \in Taken THEN q["reference"].k ELSE 0,
         c |-> IF "control" \in Taken THEN q["control"].k ELSE 0,
         t |-> IF "reference" \in Taken THEN q["reference"].t ELSE q["control"].t]

AlmostFullLate == MergedFifoChoke /\ Len(MERGEDFIFO) > HighWater + 1
AlmostFull == MergedFifoChoke /\ Len(MERGEDFIFO) > HighWater

SelectData ==
    /\ FSMReadFifo = "SelectData"
    /\ MergedFifoAlmostFull' = AlmostFull
    /\ overflow' = IF MergedFull THEN overflow \cup {"merged"} ELSE overflow
    /\ IF Taken = {}                         \* no branch for it: nothing moves
       THEN UNCHANGED <<MERGEDFIFO, merged, readfifo, nprimitive, FSMReadFifo>>
       ELSE /\ MERGEDFIFO' = IF Written THEN Append(MERGEDFIFO, Word) ELSE MERGEDFIFO
            /\ merged' = Append(merged, Word)
            /\ readfifo' = [s \in Src |-> s \in Taken]
            /\ nprimitive' = [s \in Src |-> nprimitive[s] + (IF s \in Taken THEN 1 ELSE 0)]
            /\ FSMReadFifo' = "ReadFifo"
    /\ UNCHANGED <<fifo, num, q, qnum, finish, inputVars>>

SubReadFifo == Wait1Packet \/ ReadFifo \/ SelectData

\* SubReadRam takes a word out of MERGEDFIFO.
TakeMerged ==
    /\ MERGEDFIFO # <<>>
    /\ MERGEDFIFO' = Tail(MERGEDFIFO)
    /\ UNCHANGED <<fifo, num, readVars, overflow, inputVars>>

Next ==
    \/ \E s \in Src, t \in Slices : SubReceive(s, t)
    \/ SubPrimitiveInPacket
    \/ SubReadFifo
    \/ TakeMerged

Spec == Init /\ [][Next]_vars /\ WF_vars(SubReadFifo)

-----------------------------------------------------------------------------
TypeOK ==
    /\ fifo \in [Src -> Seq([t : Nat, k : Nat])]
    /\ num \in [Src -> Seq(0 .. MaxPrim)]
    /\ q \in [Src -> [t : Nat, k : Nat]]
    /\ qnum \in [Src -> 0 .. MaxPrim]
    /\ FSMReadFifo \in {"Wait1Packet", "ReadFifo", "SelectData"}
    /\ nprimitive \in [Src -> 0 .. MaxPrim]
    /\ finish \in [Src -> BOOLEAN] /\ readfifo \in [Src -> BOOLEAN]
    /\ MergedFifoAlmostFull \in BOOLEAN
    /\ Len(MERGEDFIFO) <= MergedDepth
    /\ overflow \subseteq {"reference", "control", "numbers", "merged"}
    /\ received \in [Src -> 0 .. MaxPrim] /\ total \in [Src -> Nat] /\ window \in Nat

Place(s, m) == IF s = "reference" THEN m.r ELSE m.c

\* How many of the first i words selected stand for a primitive of source s.
Selected(s, i) == Cardinality({j \in 1 .. i : Place(s, merged[j]) # 0})

NothingLost == overflow \subseteq {"merged"}

\* Every primitive of either detector goes through the merge exactly once and in
\* the order it came, whatever the two detectors' numbers and times are, unless
\* one of their FIFOs overflowed.
ExactlyOnce ==
    NothingLost =>
        \A s \in Src, i \in 1 .. Len(merged) :
            Place(s, merged[i]) # 0 => Place(s, merged[i]) = Selected(s, i)

\* Windows whose numbers have been read.
WindowsRead(s) == window - Len(num[s])

\* Between two windows every primitive received waits in its FIFO or has been selected,
\* those of the windows read are all selected and none of the next ones is: the packet
\* structure survives the merge.
WindowComplete ==
    (NothingLost /\ FSMReadFifo = "Wait1Packet") =>
        \A s \in Src : Uses(s) =>
            /\ Selected(s, Len(merged)) + Len(fifo[s]) = total[s]
            /\ \A i \in 1 .. Len(fifo[s]) : fifo[s][i].t >= 10 * WindowsRead(s)
            /\ \A i \in 1 .. Len(merged) :
                  Place(s, merged[i]) # 0 => merged[i].t < 10 * WindowsRead(s)

\* MERGEDFIFO is fed in order of time (header of Trigger.vhd: "reading first the
\* one with the smaller time").
InTimeOrder ==
    NothingLost =>
        \A i, j \in 1 .. Len(merged) : i < j => merged[i].t <= merged[j].t

\* Primitives of the two detectors in the same slice make one word, with the
\* reference's data: a slice in which both have a single primitive is never
\* split in two words, which would be two triggers.
SameSliceOnce ==
    NothingLost =>
        \A i \in 1 .. Len(merged) - 1 :
            LET a == merged[i]
                b == merged[i + 1]
            IN  ~(a.t = b.t /\ ((a.r # 0 /\ a.c = 0 /\ b.r = 0) \/ (a.r = 0 /\ b.r # 0 /\ b.c = 0)))

\* The almost-full flag, although it is sampled once per word and takes effect
\* one word later, keeps MERGEDFIFO from overflowing if three words of room are left
\* above its level and no write is forced past it.
ChokeProtects ==
    (MergedFifoChoke /\ bit_finetime \in {2, 3} /\ HighWater + 2 < MergedDepth)
       => "merged" \notin overflow

\* The merge of a window comes to an end.
MergeReturns == (FSMReadFifo # "Wait1Packet") ~> (FSMReadFifo = "Wait1Packet")

=============================================================================
