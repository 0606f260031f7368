--------------------------- MODULE MergeFifoProofs ---------------------------
(***************************************************************************)
(* Theorems about the merge: for any FIFO sizes and levels, any number of   *)
(* primitives and windows.                                                  *)
(***************************************************************************)
EXTENDS MergeFifo, SequenceTheorems, FiniteSetTheorems, TLAPS

-----------------------------------------------------------------------------
(***************************************************************************)
(* MERGEDFIFO never overflows when the choke is on.                         *)
(***************************************************************************)
Guarded == MergedFifoChoke /\ bit_finetime \in {2, 3} /\ HighWater + 2 < MergedDepth

Prim == [t : Nat, k : Nat]
Entry == [r : Nat, c : Nat, t : Nat]

\* With the flag down at most one word stands above the level, with the flag up
\* at most two.
Room ==
    /\ MERGEDFIFO \in Seq(Entry)
    /\ q \in [Src -> Prim]
    /\ fifo \in [Src -> Seq(Prim)]
    /\ total \in [Src -> Nat] /\ window \in Nat
    /\ Guarded => /\ "merged" \notin overflow
                  /\ Len(MERGEDFIFO) <= HighWater + 2
                  /\ ~MergedFifoAlmostFull => Len(MERGEDFIFO) <= HighWater + 1

\* The first state: MERGEDFIFO is empty.
LEMMA RoomInit == Init => Room
BY SizeAssumption DEF Init, Room, None, Src, Prim

\* Only SelectData writes MERGEDFIFO, with the flag that the word before has left.
LEMMA RoomStep == Room /\ [Next]_vars => Room'
<1> SUFFICES ASSUME Room, [Next]_vars PROVE Room'
    OBVIOUS
<1> USE SizeAssumption, BoundAssumption
<1>0. CASE UNCHANGED vars
  BY <1>0 DEF Room, vars, inputVars, readVars
<1>1. ASSUME NEW s \in Src, NEW t \in Slices, SubReceive(s, t) PROVE Room'
  <2>1. [t |-> window * 10 + t, k |-> total[s] + 1] \in Prim
        BY DEF Room, Prim
  <2>2. fifo' \in [Src -> Seq(Prim)]
    <3>1. fifo \in [Src -> Seq(Prim)] /\ fifo[s] \in Seq(Prim) BY DEF Room
    <3>2. Append(fifo[s], [t |-> window * 10 + t, k |-> total[s] + 1]) \in Seq(Prim)
          BY <2>1, <3>1
    <3>. QED BY <1>1, <3>1, <3>2 DEF SubReceive
  <2>3. "merged" \in overflow' => "merged" \in overflow
        BY <1>1 DEF SubReceive, Src
  <2>4. total' \in [Src -> Nat] BY <1>1 DEF SubReceive, Room
  <2>. QED BY <1>1, <2>2, <2>3, <2>4 DEF SubReceive, Room, readVars, Guarded
<1>2. CASE SubPrimitiveInPacket
  <2>1. "merged" \in overflow' => "merged" \in overflow
        BY <1>2 DEF SubPrimitiveInPacket
  <2>. QED BY <1>2, <2>1 DEF SubPrimitiveInPacket, Room, readVars, Guarded
<1>3. CASE Wait1Packet
  BY <1>3 DEF Wait1Packet, Room, inputVars, Guarded
<1>4. CASE ReadFifo
  <2>1. fifo' \in [Src -> Seq(Prim)]
        BY <1>4 DEF ReadFifo, NextFifo, Room
  <2>2. q' \in [Src -> Prim]
    <3>1. ASSUME NEW s \in Src
          PROVE  (IF rdreq[s] /\ fifo[s] # <<>> THEN Head(fifo[s]) ELSE q[s]) \in Prim
      <4>1. fifo[s] \in Seq(Prim) /\ q[s] \in Prim BY DEF Room
      <4>. QED BY <4>1
    <3>. QED BY <1>4, <3>1 DEF ReadFifo, NextQ
  <2>. QED BY <1>4, <2>1, <2>2 DEF ReadFifo, Room, inputVars, Guarded
<1>5. CASE SelectData
  <2>1. Word \in Entry BY DEF Word, Room, Src, Prim, Entry
  <2>2. MERGEDFIFO' \in Seq(Entry)
    <3>1. MERGEDFIFO \in Seq(Entry) BY DEF Room
    <3>2. Append(MERGEDFIFO, Word) \in Seq(Entry) BY <2>1, <3>1
    <3>. QED BY <1>5, <3>1, <3>2 DEF SelectData
  <2>3. ASSUME Guarded
        PROVE  /\ "merged" \notin overflow'
               /\ Len(MERGEDFIFO') <= HighWater + 2
               /\ ~MergedFifoAlmostFull' => Len(MERGEDFIFO') <= HighWater + 1
    <3>1. ~MergedFull BY <2>3 DEF MergedFull, Room, Guarded
    <3>2. ~Forced BY <2>3 DEF Forced, Guarded
    <3>3. \/ MERGEDFIFO' = MERGEDFIFO
          \/ ~MergedFifoAlmostFull /\ MERGEDFIFO' = Append(MERGEDFIFO, Word)
          BY <1>5, <3>2 DEF SelectData, Written
    <3>4. ~MergedFifoAlmostFull' => Len(MERGEDFIFO) <= HighWater
      <4>1. MergedFifoAlmostFull' = AlmostFull BY <1>5 DEF SelectData
      <4>2. ~AlmostFull => ~(Len(MERGEDFIFO) > HighWater)
            BY <2>3 DEF AlmostFull, Guarded
      <4>3. Len(MERGEDFIFO) \in Nat BY DEF Room
      <4>4. ~(Len(MERGEDFIFO) > HighWater) => Len(MERGEDFIFO) <= HighWater BY <4>3
      <4>. QED BY <4>1, <4>2, <4>4, Zenon
    <3>5. overflow' = overflow BY <1>5, <3>1 DEF SelectData
    <3>6. Len(MERGEDFIFO) \in Nat /\ Len(Append(MERGEDFIFO, Word)) = Len(MERGEDFIFO) + 1
          BY <2>1 DEF Room
    <3>7. CASE MERGEDFIFO' = MERGEDFIFO
      <4>1. "merged" \notin overflow' BY <2>3, <3>5 DEF Room
      <4>2. Len(MERGEDFIFO') <= HighWater + 2 BY <2>3, <3>7 DEF Room
      <4>3. ~MergedFifoAlmostFull' => Len(MERGEDFIFO') <= HighWater + 1
            BY <3>4, <3>6, <3>7
      <4>. QED BY <4>1, <4>2, <4>3
    <3>8. CASE ~MergedFifoAlmostFull /\ MERGEDFIFO' = Append(MERGEDFIFO, Word)
      <4>1. "merged" \notin overflow' BY <2>3, <3>5 DEF Room
      <4>2. Len(MERGEDFIFO) <= HighWater + 1 BY <2>3, <3>8 DEF Room
      <4>3. Len(MERGEDFIFO') = Len(MERGEDFIFO) + 1 BY <3>6, <3>8
      <4>4. Len(MERGEDFIFO') <= HighWater + 2 BY <3>6, <4>2, <4>3
      <4>5. ~MergedFifoAlmostFull' => Len(MERGEDFIFO') <= HighWater + 1
            BY <3>4, <3>6, <4>3
      <4>. QED BY <4>1, <4>4, <4>5
    <3>. QED BY <3>3, <3>7, <3>8
  <2>. QED BY <1>5, <2>2, <2>3 DEF SelectData, Room, inputVars, Guarded
<1>6. CASE TakeMerged
  <2>1. /\ MERGEDFIFO' \in Seq(Entry)
        /\ Len(MERGEDFIFO) \in Nat /\ Len(MERGEDFIFO') = Len(MERGEDFIFO) - 1
        BY <1>6 DEF TakeMerged, Room
  <2>. QED BY <1>6, <2>1 DEF TakeMerged, Room, inputVars, readVars, Guarded
<1>. QED BY <1>0, <1>1, <1>2, <1>3, <1>4, <1>5, <1>6 DEF Next, SubReadFifo

\* The choke leaves no word of the merge without room, for every size and level
\* that leaves three words above it.
THEOREM ChokeProtectsAlways == Spec => []ChokeProtects
<1>1. Init => Room BY RoomInit
<1>2. Room /\ [Next]_vars => Room' BY RoomStep
<1>3. Room => ChokeProtects BY DEF Room, ChokeProtects, Guarded
<1>. QED BY <1>1, <1>2, <1>3, PTL DEF Spec

-----------------------------------------------------------------------------
(***************************************************************************)
(* What the merge selects.  A primitive that has been received and not yet   *)
(* selected waits in the FIFO of its source or at the output of it; the      *)
(* invariant speaks of this queue, which a read from the FIFO leaves as it   *)
(* is, and of the words selected.                                           *)
(***************************************************************************)
SelType ==
    /\ num \in [Src -> Seq(Nat)]
    /\ qnum \in [Src -> Nat] /\ nprimitive \in [Src -> Nat] /\ received \in [Src -> Nat]
    /\ latest \in [Src -> 0 .. 9]
    /\ finish \in [Src -> BOOLEAN] /\ readfifo \in [Src -> BOOLEAN]
    /\ FSMReadFifo \in {"Wait1Packet", "ReadFifo", "SelectData"}
    /\ merged \in Seq(Entry)

\* The word at the output of a FIFO has not been selected yet.
Held(s) ==
    /\ nprimitive[s] < qnum[s]
    /\ \/ FSMReadFifo = "SelectData"
       \/ FSMReadFifo = "ReadFifo" /\ ~readfifo[s]

Queue(s) == IF Held(s) THEN <<q[s]>> \o fifo[s] ELSE fifo[s]

Done(s) == Selected(s, Len(merged))

\* Primitives of the window being merged that have not been selected.
Left(s) == IF FSMReadFifo = "Wait1Packet" THEN 0 ELSE qnum[s] - nprimitive[s]

\* A source is finished, from the clock in which words are compared, just when all of
\* its window has been selected; an unused one has nothing.
Machine ==
    \A s \in Src :
        /\ FSMReadFifo # "Wait1Packet" =>
              nprimitive[s] <= qnum[s] /\ (finish[s] => nprimitive[s] = qnum[s])
        /\ FSMReadFifo = "SelectData" =>
              /\ nprimitive[s] = qnum[s] => finish[s]
              /\ \E o \in Src : nprimitive[o] < qnum[o]
        /\ ~Uses(s) => /\ fifo[s] = <<>> /\ num[s] = <<>> /\ qnum[s] = 0
                       /\ received[s] = 0 /\ total[s] = 0

\* The queue holds the primitives received after those selected, in order of time.
Queued(s) ==
    /\ Len(Queue(s)) = total[s] - Done(s)
    /\ \A i \in 1 .. Len(Queue(s)) :
          Queue(s)[i].k = Done(s) + i /\ Queue(s)[i].t <= 10 * window + latest[s]
    /\ \A i, j \in 1 .. Len(Queue(s)) : i <= j => Queue(s)[i].t <= Queue(s)[j].t

\* E[v] primitives came in the windows before v: the numbers stored are those of the
\* windows, and times tell the windows apart.
Counts(s, E) ==
    /\ \A u, v \in 0 .. window : u <= v => E[u] <= E[v]
    /\ E[window] + received[s] = total[s]
    /\ \A j \in 1 .. Len(num[s]) :
          num[s][j] = E[WindowsRead(s) + j] - E[WindowsRead(s) + j - 1]
    /\ E[WindowsRead(s)] = Done(s) + Left(s)
    /\ \A i \in 1 .. Len(Queue(s)), v \in 0 .. window :
          Queue(s)[i].k > E[v] <=> Queue(s)[i].t >= 10 * v

Windows ==
    /\ activatecontroltrigger => Len(num["reference"]) = Len(num["control"])
    /\ \A s \in Src : Len(num[s]) <= window
    /\ \A s \in Src : Uses(s) => \E E \in [0 .. window -> Nat] : Counts(s, E)

\* The words selected are in order, before all that wait, and of the windows read.
Merged ==
    /\ \A s \in Src, i \in 1 .. Len(merged) :
          Place(s, merged[i]) # 0 => Place(s, merged[i]) = Selected(s, i)
    /\ \A i \in 1 .. Len(merged) : merged[i].t < 10 * WindowsRead("reference")
    /\ \A i, j \in 1 .. Len(merged) : i < j => merged[i].t <= merged[j].t
    /\ \A s \in Src, i \in 1 .. Len(merged) :
          \A j \in 1 .. Len(Queue(s)) : merged[i].t <= Queue(s)[j].t

\* A source that gave nothing to the last word has only later primitives.
Split(a, b) ==
    a.t = b.t /\ ((a.r # 0 /\ a.c = 0 /\ b.r = 0) \/ (a.r = 0 /\ b.r # 0 /\ b.c = 0))
Joined ==
    /\ merged # <<>> =>
          \A s \in Src : Place(s, merged[Len(merged)]) = 0 =>
              \A j \in 1 .. Len(Queue(s)) : merged[Len(merged)].t < Queue(s)[j].t
    /\ \A i \in 1 .. Len(merged) - 1 : ~Split(merged[i], merged[i + 1])

Ordered == (\A s \in Src : Queued(s)) /\ Windows /\ Merged /\ Joined

MInv == Room /\ SelType /\ Machine /\ (NothingLost => Ordered)

\* The words compared: one at the output of each source that is not finished, of which
\* the earlier are taken, and all of them if their times are the same.
LEMMA TakenOf ==
    ASSUME Room, SelType
    PROVE  /\ Taken \subseteq {s \in Src : ~finish[s]}
           /\ (\E s \in Src : ~finish[s]) => Taken # {}
           /\ \A s \in Taken : q[s].t = Word.t
           /\ \A s \in Src \ Taken : ~finish[s] => q[s].t > Word.t
           /\ \A s \in Src : Place(s, Word) = IF s \in Taken THEN q[s].k ELSE 0
<1>1. \A s \in Src : q[s] \in Prim /\ q[s].t \in Nat /\ q[s].k \in Nat
  BY DEF Room, Prim
<1>2. \A s \in Src : Place(s, Word) = IF s \in Taken THEN q[s].k ELSE 0
  BY DEF Place, Word, Src
<1>3. Word.t = IF "reference" \in Taken THEN q["reference"].t ELSE q["control"].t
  BY DEF Word
<1>4. CASE {s \in Src : ~finish[s]} # Src
  <2>1. Taken = {s \in Src : ~finish[s]}
    BY <1>4 DEF Taken
  <2>2. ~("reference" \in Taken /\ "control" \in Taken)
    BY <1>4, <2>1 DEF Src
  <2>3. \A s \in Taken : q[s].t = Word.t
    BY <1>3, <2>1, <2>2 DEF Src
  <2> QED BY <1>2, <2>1, <2>3
<1>5. CASE {s \in Src : ~finish[s]} = Src
  <2>1. Taken = {s \in Src : \A o \in Src : q[s].t <= q[o].t}
    BY <1>5 DEF Taken
  <2>2. /\ "reference" \in Taken <=> q["reference"].t <= q["control"].t
        /\ "control" \in Taken <=> q["control"].t <= q["reference"].t
    BY <1>1, <2>1 DEF Src
  <2>3. Taken # {} /\ Taken \subseteq Src
    BY <1>1, <2>1, <2>2 DEF Src
  <2>4. \A s \in Taken : q[s].t = Word.t
    BY <1>1, <1>3, <2>2, <2>3 DEF Src
  <2>5. \A s \in Src \ Taken : q[s].t > Word.t
    BY <1>1, <1>3, <2>2, <2>3 DEF Src
  <2> QED BY <1>2, <1>5, <2>3, <2>4, <2>5
<1> QED BY <1>4, <1>5

\* The first state: nothing is received, no queue holds a word.
LEMMA InitMInv == Init => MInv
<1> SUFFICES ASSUME Init PROVE MInv
    OBVIOUS
<1>1. Room
  BY RoomInit
<1>2. SelType /\ Machine
  BY DEF Init, SelType, Machine, Entry, Src
<1>3. /\ merged = <<>> /\ Len(merged) = 0 /\ window = 0
      /\ \A s \in Src : Queue(s) = <<>> /\ num[s] = <<>> /\ total[s] = 0 /\ received[s] = 0
  BY DEF Init, Queue, Held
<1>4. \A s \in Src : Done(s) = 0 /\ Left(s) = 0
  <2>1. \A s \in Src : {j \in 1 .. 0 : Place(s, merged[j]) # 0} = {}
    OBVIOUS
  <2>2. \A s \in Src : Done(s) = 0
    BY <1>3, <2>1, FS_EmptySet DEF Done, Selected
  <2> QED BY <2>2 DEF Left, Init
<1>5. Merged /\ Joined
  BY <1>3 DEF Merged, Joined
<1>6. \A s \in Src : Queued(s)
  BY <1>3, <1>4 DEF Queued
<1>7. Windows
  <2>1. \A s \in Src : WindowsRead(s) = 0
    BY <1>3 DEF WindowsRead
  <2>2. \A s \in Src : Counts(s, [v \in 0 .. 0 |-> 0])
    BY <1>3, <1>4, <2>1 DEF Counts
  <2>3. [v \in 0 .. 0 |-> 0] \in [0 .. window -> Nat]
    BY <1>3
  <2> QED BY <1>3, <2>2, <2>3 DEF Windows, Src
<1> QED BY <1>1, <1>2, <1>5, <1>6, <1>7 DEF MInv, Ordered

\* The types of what SubReadFifo works on.
LEMMA SelTypeStep == Room /\ SelType /\ [Next]_vars => SelType'
<1> SUFFICES ASSUME Room, SelType, [Next]_vars PROVE SelType'
    OBVIOUS
<1> USE BoundAssumption
<1>0. CASE UNCHANGED vars
  BY <1>0 DEF SelType, vars, inputVars, readVars
<1>1. ASSUME NEW s \in Src, NEW t \in Slices, SubReceive(s, t) PROVE SelType'
  <2>1. t \in 0 .. 9
    OBVIOUS
  <2>2. latest' \in [Src -> 0 .. 9] /\ received' \in [Src -> Nat]
    <3>1. latest' = [latest EXCEPT ![s] = t] /\ received' = [received EXCEPT ![s] = @ + 1]
      BY <1>1 DEF SubReceive
    <3>2. latest \in [Src -> 0 .. 9] /\ received \in [Src -> Nat]
      BY DEF SelType
    <3> QED BY <2>1, <3>1, <3>2
  <2> QED BY <1>1, <2>2 DEF SubReceive, SelType, readVars
<1>2. CASE SubPrimitiveInPacket
  <2>1. \A s \in Src : Append(num[s], received[s]) \in Seq(Nat) /\ num[s] \in Seq(Nat)
    BY DEF SelType
  <2>2. num' \in [Src -> Seq(Nat)]
    BY <1>2, <2>1 DEF SubPrimitiveInPacket
  <2> QED BY <1>2, <2>2 DEF SubPrimitiveInPacket, SelType, readVars
<1>3. CASE Wait1Packet
  <2>1. \A s \in Src : /\ num[s] \in Seq(Nat) /\ qnum[s] \in Nat
                       /\ num[s] # <<>> => Head(num[s]) \in Nat /\ Tail(num[s]) \in Seq(Nat)
    BY DEF SelType
  <2>2. num' \in [Src -> Seq(Nat)] /\ qnum' \in [Src -> Nat]
    BY <1>3, <2>1 DEF Wait1Packet, NextQ, NextFifo
  <2>3. finish' \in [Src -> BOOLEAN] /\ readfifo' \in [Src -> BOOLEAN] /\ nprimitive' \in [Src -> Nat]
    <3>1. \A s \in Src : Uses(s) \in BOOLEAN
      BY FlagAssumption DEF Uses
    <3> QED BY <1>3, <3>1 DEF Wait1Packet, NewWindow
  <2> QED BY <1>3, <2>2, <2>3 DEF Wait1Packet, SelType, inputVars
<1>4. CASE ReadFifo
  <2>1. finish' \in [Src -> BOOLEAN]
    <3>1. \A s \in Src : (finish[s] \/ qnum[s] = 0 \/ nprimitive[s] = qnum[s]) \in BOOLEAN
      BY DEF SelType
    <3> QED BY <1>4, <3>1 DEF ReadFifo
  <2> QED BY <1>4, <2>1 DEF ReadFifo, SelType, inputVars
<1>5. CASE SelectData
  <2>1. Word \in Entry
    BY DEF Word, Room, Src, Prim, Entry
  <2>2. merged \in Seq(Entry) /\ Append(merged, Word) \in Seq(Entry)
    BY <2>1 DEF SelType
  <2>3. CASE Taken = {}
    BY <1>5, <2>3 DEF SelectData, SelType, inputVars
  <2>4. CASE Taken # {}
    <3>1. /\ merged' = Append(merged, Word) /\ FSMReadFifo' = "ReadFifo"
          /\ readfifo' = [s \in Src |-> s \in Taken]
          /\ nprimitive' = [s \in Src |-> nprimitive[s] + (IF s \in Taken THEN 1 ELSE 0)]
      BY <1>5, <2>4 DEF SelectData
    <3>2. readfifo' \in [Src -> BOOLEAN]
      BY <3>1
    <3>3. \A s \in Src : nprimitive[s] \in Nat
      BY DEF SelType
    <3>4. nprimitive' \in [Src -> Nat]
      BY <3>1, <3>3
    <3> QED BY <1>5, <2>2, <3>1, <3>2, <3>4 DEF SelectData, SelType, inputVars
  <2> QED BY <2>3, <2>4
<1>6. CASE TakeMerged
  BY <1>6 DEF TakeMerged, SelType, inputVars, readVars
<1> QED BY <1>0, <1>1, <1>2, <1>3, <1>4, <1>5, <1>6 DEF Next, SubReadFifo

\* The flags of SubReadFifo tell, when words are compared, which window parts are left.
LEMMA MachineStep == Room /\ SelType /\ Machine /\ [Next]_vars => Machine'
<1> SUFFICES ASSUME Room, SelType, Machine, [Next]_vars PROVE Machine'
    OBVIOUS
<1>0. CASE UNCHANGED vars
  BY <1>0 DEF Machine, vars, inputVars, readVars
<1>1. ASSUME NEW s \in Src, NEW t \in Slices, SubReceive(s, t) PROVE Machine'
  <2>1. Uses(s)
    BY <1>1 DEF SubReceive
  <2>2. \A o \in Src \ {s} : fifo'[o] = fifo[o] /\ received'[o] = received[o] /\ total'[o] = total[o]
    BY <1>1 DEF SubReceive, Room, SelType
  <2> QED BY <1>1, <2>1, <2>2 DEF SubReceive, Machine, readVars
<1>2. CASE SubPrimitiveInPacket
  BY <1>2 DEF SubPrimitiveInPacket, Machine, readVars
<1>3. CASE Wait1Packet
  <2>1. /\ FSMReadFifo' \in {"Wait1Packet", "ReadFifo"}
        /\ \A s \in Src : nprimitive'[s] = 0 /\ (finish'[s] <=> ~Uses(s))
    <3>1. finish' = [s \in Src |-> ~Uses(s)] /\ nprimitive' = [s \in Src |-> 0]
      BY <1>3 DEF Wait1Packet, NewWindow
    <3>2. FSMReadFifo' \in {"Wait1Packet", "ReadFifo"}
      BY <1>3 DEF Wait1Packet
    <3> QED BY <3>1, <3>2
  <2>2. ASSUME NEW s \in Src, ~Uses(s) PROVE num'[s] = <<>> /\ qnum'[s] = 0
    BY <1>3, <2>2 DEF Wait1Packet, NextQ, NextFifo, Machine
  <2>3. \A s \in Src : qnum'[s] \in Nat
    BY SelTypeStep DEF SelType
  <2> QED BY <1>3, <2>1, <2>2, <2>3 DEF Wait1Packet, Machine, inputVars
<1>4. CASE ReadFifo
  <2>1. \A s \in Src : nprimitive[s] \in Nat /\ qnum[s] \in Nat /\ nprimitive[s] <= qnum[s]
    BY <1>4 DEF ReadFifo, Machine, SelType
  <2>2. ASSUME NEW s \in Src PROVE finish'[s] <=> nprimitive[s] = qnum[s]
    <3>1. finish'[s] <=> (finish[s] \/ qnum[s] = 0 \/ nprimitive[s] = qnum[s])
      BY <1>4 DEF ReadFifo
    <3>2. finish[s] => nprimitive[s] = qnum[s]
      BY <1>4 DEF ReadFifo, Machine
    <3> QED BY <2>1, <3>1, <3>2
  <2>3. FSMReadFifo' = "SelectData" => \E o \in Src : nprimitive[o] < qnum[o]
    BY <1>4, <2>1 DEF ReadFifo, WindowDone
  <2>4. ASSUME NEW s \in Src, ~Uses(s) PROVE fifo'[s] = <<>>
    BY <1>4, <2>4 DEF ReadFifo, NextFifo, Machine
  <2> QED BY <1>4, <2>1, <2>2, <2>3, <2>4 DEF ReadFifo, Machine, inputVars
<1>5. CASE SelectData
  <2>0. FSMReadFifo = "SelectData"
    BY <1>5 DEF SelectData
  <2>1. \E s \in Src : ~finish[s]
    <3>1. PICK o \in Src : nprimitive[o] < qnum[o]
      BY <2>0 DEF Machine, Src
    <3>2. finish[o] => nprimitive[o] = qnum[o]
      BY <2>0 DEF Machine
    <3>3. nprimitive[o] \in Nat /\ qnum[o] \in Nat
      BY DEF SelType
    <3> QED BY <3>1, <3>2, <3>3
  <2>2. Taken # {} /\ \A s \in Taken : s \in Src /\ ~finish[s]
    BY <2>1, TakenOf
  <2>3. /\ FSMReadFifo' = "ReadFifo" /\ finish' = finish /\ qnum' = qnum
        /\ \A s \in Src : nprimitive'[s] = nprimitive[s] + (IF s \in Taken THEN 1 ELSE 0)
    BY <1>5, <2>2 DEF SelectData
  <2>4. \A s \in Src : /\ nprimitive[s] \in Nat /\ qnum[s] \in Nat /\ nprimitive[s] <= qnum[s]
                       /\ finish[s] <=> nprimitive[s] = qnum[s]
    <3>1. \A s \in Src : nprimitive[s] \in Nat /\ qnum[s] \in Nat
      BY DEF SelType
    <3>2. \A s \in Src : /\ nprimitive[s] <= qnum[s]
                         /\ finish[s] => nprimitive[s] = qnum[s]
                         /\ nprimitive[s] = qnum[s] => finish[s]
      BY <2>0 DEF Machine
    <3> QED BY <3>1, <3>2
  <2>5. \A s \in Src : /\ nprimitive'[s] <= qnum'[s]
                       /\ finish'[s] => nprimitive'[s] = qnum'[s]
    BY <2>2, <2>3, <2>4
  <2> QED BY <1>5, <2>3, <2>5 DEF SelectData, Machine, inputVars
<1>6. CASE TakeMerged
  BY <1>6 DEF TakeMerged, Machine, inputVars, readVars
<1> QED BY <1>0, <1>1, <1>2, <1>3, <1>4, <1>5, <1>6 DEF Next, SubReadFifo

-----------------------------------------------------------------------------
(***************************************************************************)
(* The queues and the words selected, clock by clock.                       *)
(***************************************************************************)
\* How many of the first i words of m stand for a primitive of source s.
Count(s, m, i) == Cardinality({j \in 1 .. i : Place(s, m[j]) # 0})

\* A number of words is a number.
LEMMA CountNat ==
    ASSUME NEW s, NEW m, NEW i \in Nat
    PROVE  Count(s, m, i) \in Nat
<1>1. IsFiniteSet(1 .. i) /\ {j \in 1 .. i : Place(s, m[j]) # 0} \subseteq 1 .. i
  BY FS_Interval
<1>2. IsFiniteSet({j \in 1 .. i : Place(s, m[j]) # 0})
  BY <1>1, FS_Subset
<1> QED BY <1>2, FS_CardinalityType DEF Count

\* One more word.
LEMMA CountAppend ==
    ASSUME NEW s, NEW m \in Seq(Entry), NEW w \in Entry
    PROVE  /\ \A i \in 0 .. Len(m) : Count(s, Append(m, w), i) = Count(s, m, i)
           /\ Count(s, Append(m, w), Len(m) + 1) =
                Count(s, m, Len(m)) + (IF Place(s, w) # 0 THEN 1 ELSE 0)
<1> DEFINE n == Append(m, w)
<1>1. /\ Len(n) = Len(m) + 1 /\ Len(m) \in Nat
      /\ \A i \in 1 .. Len(m) : n[i] = m[i]
      /\ n[Len(m) + 1] = w
  BY AppendProperties
<1> HIDE DEF n
<1>2. \A i \in 0 .. Len(m) : Count(s, n, i) = Count(s, m, i)
  <2> SUFFICES ASSUME NEW i \in 0 .. Len(m)
               PROVE  {j \in 1 .. i : Place(s, n[j]) # 0} = {j \in 1 .. i : Place(s, m[j]) # 0}
      BY DEF Count
  <2>1. \A j \in 1 .. i : n[j] = m[j]
    BY <1>1
  <2> QED BY <2>1
<1> DEFINE M == {j \in 1 .. Len(m) : Place(s, m[j]) # 0}
           N == {j \in 1 .. Len(m) + 1 : Place(s, n[j]) # 0}
<1>3. IsFiniteSet(M) /\ Cardinality(M) \in Nat
  <2>1. IsFiniteSet(1 .. Len(m)) /\ M \subseteq 1 .. Len(m)
    BY <1>1, FS_Interval
  <2>2. IsFiniteSet(M)
    BY <2>1, FS_Subset
  <2> QED BY <2>2, FS_CardinalityType
<1>4. Count(s, n, Len(m) + 1) = Cardinality(N) /\ Count(s, m, Len(m)) = Cardinality(M)
  BY DEF Count
<1>5. CASE Place(s, w) # 0
  <2>1. N = M \cup {Len(m) + 1} /\ Len(m) + 1 \notin M
    BY <1>1, <1>5
  <2> HIDE DEF M, N
  <2>2. Cardinality(N) = Cardinality(M) + 1
    BY <1>3, <2>1, FS_AddElement
  <2> QED BY <1>2, <1>4, <1>5, <2>2 DEF n
<1>6. CASE Place(s, w) = 0
  <2>1. N = M
    BY <1>1, <1>6
  <2> HIDE DEF M, N
  <2> QED BY <1>2, <1>3, <1>4, <1>6, <2>1 DEF n
<1> QED BY <1>5, <1>6

\* The queue of a source, with the word at the output when it is held.
LEMMA QueueType ==
    ASSUME Room, SelType, NEW s \in Src
    PROVE  /\ fifo[s] \in Seq(Prim) /\ q[s] \in Prim
           /\ Queue(s) \in Seq(Prim)
           /\ Held(s) => /\ Queue(s) # <<>> /\ Head(Queue(s)) = q[s] /\ Queue(s)[1] = q[s]
                         /\ Tail(Queue(s)) = fifo[s]
           /\ ~Held(s) => Queue(s) = fifo[s]
           /\ Len(Queue(s)) \in Nat /\ Len(merged) \in Nat /\ Done(s) \in Nat
           /\ \A i \in 1 .. Len(Queue(s)) : Queue(s)[i] \in Prim
<1>1. fifo[s] \in Seq(Prim) /\ q[s] \in Prim
  BY DEF Room
<1>2. \A f \in Seq(Prim), p \in Prim :
         /\ <<p>> \o f \in Seq(Prim) /\ <<p>> \o f # <<>> /\ Head(<<p>> \o f) = p
         /\ (<<p>> \o f)[1] = p /\ Tail(<<p>> \o f) = f
  OBVIOUS
<1>3. Queue(s) \in Seq(Prim)
  BY <1>1, <1>2 DEF Queue
<1>4. Len(merged) \in Nat
  BY DEF SelType
<1>5. Done(s) \in Nat
  BY <1>4, CountNat DEF Done, Selected, Count
<1>6. Held(s) => /\ Queue(s) # <<>> /\ Head(Queue(s)) = q[s] /\ Queue(s)[1] = q[s]
                 /\ Tail(Queue(s)) = fifo[s]
  BY <1>1, <1>2 DEF Queue
<1>7. ~Held(s) => Queue(s) = fifo[s]
  BY DEF Queue
<1>8. Len(Queue(s)) \in Nat /\ \A i \in 1 .. Len(Queue(s)) : Queue(s)[i] \in Prim
  BY <1>3, ElementOfSeq
<1> QED BY <1>1, <1>3, <1>4, <1>5, <1>6, <1>7, <1>8

\* Nothing that the invariant speaks of changes but the windows read.
LEMMA SameQueues ==
    ASSUME Room, SelType, Machine, Ordered, Room', SelType',
           \A s \in Src : Queue(s)' = Queue(s),
           UNCHANGED <<merged, total, received, latest, window>>,
           \/ UNCHANGED num /\ \A s \in Src : Left(s)' = Left(s)
           \/ /\ FSMReadFifo = "Wait1Packet"
              /\ \A s \in Src : Uses(s) => num[s] # <<>> /\ Left(s)' = Head(num[s])
              /\ num' = [s \in Src |-> IF Uses(s) THEN Tail(num[s]) ELSE num[s]]
    PROVE  Ordered'
<1>1. \A s \in Src : Done(s)' = Done(s) /\ (Queued(s) => Queued(s)')
  BY DEF Done, Selected, Queued
<1>2. /\ \A s \in Src : num[s] \in Seq(Nat) /\ Len(num[s]) \in Nat /\ Len(num[s]) <= window
      /\ window \in Nat
      /\ activatecontroltrigger => Len(num["reference"]) = Len(num["control"])
  BY DEF SelType, Room, Ordered, Windows
<1>3. Joined'
  BY DEF Ordered, Joined
<1>4. CASE UNCHANGED num /\ \A s \in Src : Left(s)' = Left(s)
  <2>1. \A s \in Src : WindowsRead(s)' = WindowsRead(s)
    BY <1>4 DEF WindowsRead
  <2>2. Merged'
    BY <2>1 DEF Ordered, Merged, Selected, Src
  <2>3. \A s \in Src : \A E : Counts(s, E) => Counts(s, E)'
    BY <1>1, <1>4, <2>1 DEF Counts
  <2>4. Windows'
    BY <1>4, <2>3 DEF Ordered, Windows
  <2> QED BY <1>1, <1>3, <2>2, <2>4 DEF Ordered
<1>5. CASE /\ FSMReadFifo = "Wait1Packet"
           /\ \A s \in Src : Uses(s) => num[s] # <<>> /\ Left(s)' = Head(num[s])
           /\ num' = [s \in Src |-> IF Uses(s) THEN Tail(num[s]) ELSE num[s]]
  <2>1. ASSUME NEW s \in Src, Uses(s)
        PROVE  /\ num'[s] \in Seq(Nat) /\ Len(num'[s]) = Len(num[s]) - 1 /\ Len(num[s]) >= 1
               /\ \A j \in 1 .. Len(num'[s]) : num'[s][j] = num[s][j + 1]
               /\ Left(s)' = num[s][1]
    <3>1. num[s] # <<>> /\ num'[s] = Tail(num[s]) /\ Left(s)' = Head(num[s])
      BY <1>5, <2>1
    <3> QED BY <1>2, <3>1, HeadTailProperties, EmptySeq
  <2>2. Uses("reference") /\ "reference" \in Src /\ "control" \in Src
    BY DEF Uses, Src
  <2>3. \A s \in Src : Uses(s) => WindowsRead(s)' = WindowsRead(s) + 1 /\ WindowsRead(s) \in Nat
    BY <1>2, <2>1 DEF WindowsRead
  <2>4. Merged'
    <3>1. \A i \in 1 .. Len(merged) : merged[i].t < 10 * WindowsRead("reference")'
      <4>1. \A i \in 1 .. Len(merged) : merged[i].t \in Nat
        <5>1. merged \in Seq(Entry)
          BY DEF SelType
        <5>2. \A i \in 1 .. Len(merged) : merged[i] \in Entry
          BY <5>1, ElementOfSeq
        <5> QED BY <5>2 DEF Entry
      <4>2. \A i \in 1 .. Len(merged) : merged[i].t < 10 * WindowsRead("reference")
        BY DEF Ordered, Merged
      <4> QED BY <2>2, <2>3, <4>1, <4>2
    <3> QED BY <3>1 DEF Ordered, Merged, Selected
  <2>5. /\ activatecontroltrigger => Len(num'["reference"]) = Len(num'["control"])
        /\ \A s \in Src : Len(num'[s]) <= window'
    <3>1. \A s \in Src : Len(num'[s]) <= window'
      <4> SUFFICES ASSUME NEW s \in Src PROVE Len(num'[s]) <= window'
          OBVIOUS
      <4>1. CASE Uses(s)
        BY <1>2, <2>1, <4>1
      <4>2. CASE ~Uses(s)
        BY <1>2, <1>5, <4>2
      <4> QED BY <4>1, <4>2
    <3>2. activatecontroltrigger => Uses("control")
      BY DEF Uses
    <3> QED BY <1>2, <2>1, <2>2, <3>1, <3>2
  <2>6. ASSUME NEW s \in Src, Uses(s), NEW E \in [0 .. window -> Nat], Counts(s, E)
        PROVE  Counts(s, E)'
    <3>0. /\ Len(num'[s]) = Len(num[s]) - 1 /\ Len(num[s]) \in Nat /\ Len(num[s]) >= 1
          /\ Len(num[s]) <= window /\ window \in Nat
          /\ \A j \in 1 .. Len(num'[s]) : num'[s][j] = num[s][j + 1]
      BY <1>2, <2>1, <2>6
    <3>1. /\ \A u, v \in 0 .. window : u <= v => E[u] <= E[v]
          /\ E[window] + received[s] = total[s]
          /\ \A i \in 1 .. Len(Queue(s)), v \in 0 .. window :
                Queue(s)[i].k > E[v] <=> Queue(s)[i].t >= 10 * v
      BY <2>6 DEF Counts
    <3>2. \A j \in 1 .. Len(num[s]) :
             num[s][j] = E[WindowsRead(s) + j] - E[WindowsRead(s) + j - 1]
      BY <2>6 DEF Counts
    <3>3. E[WindowsRead(s)] = Done(s)
      <4>1. E[WindowsRead(s)] = Done(s) + 0
        BY <1>5, <2>6 DEF Counts, Left
      <4> QED BY <4>1, QueueType
    <3> DEFINE W == WindowsRead(s)
    <3>4. W \in Nat /\ WindowsRead(s)' = W + 1 /\ W + Len(num[s]) = window
      BY <1>2, <2>3, <2>6 DEF WindowsRead
    <3> HIDE DEF W
    <3>5. \A j \in 1 .. Len(num'[s]) : num'[s][j] = E[(W + 1) + j] - E[(W + 1) + j - 1]
      <4> SUFFICES ASSUME NEW j \in 1 .. Len(num'[s])
                   PROVE  num'[s][j] = E[(W + 1) + j] - E[(W + 1) + j - 1]
          OBVIOUS
      <4>1. j + 1 \in 1 .. Len(num[s]) /\ num'[s][j] = num[s][j + 1]
        BY <3>0
      <4>2. W + (j + 1) = (W + 1) + j /\ W + (j + 1) - 1 = (W + 1) + j - 1
        BY <3>4
      <4>3. num[s][j + 1] = E[W + (j + 1)] - E[W + (j + 1) - 1]
        BY <3>2, <4>1 DEF W
      <4> QED BY <4>1, <4>2, <4>3
    <3>6. E[W + 1] = Done(s) + Left(s)'
      <4>1. num[s][1] = E[W + 1] - E[W + 1 - 1]
        <5>1. 1 \in 1 .. Len(num[s])
          BY <3>0
        <5> QED BY <3>2, <5>1 DEF W
      <4>2. W + 1 - 1 = W /\ W \in 0 .. window /\ W + 1 \in 0 .. window
        BY <3>0, <3>4
      <4>3. E[W] = Done(s) /\ E[W] \in Nat /\ E[W + 1] \in Nat
        BY <3>3, <4>2 DEF W
      <4>4. Left(s)' = num[s][1]
        BY <2>1, <2>6
      <4> QED BY <4>1, <4>2, <4>3, <4>4
    <3> QED BY <1>1, <3>1, <3>4, <3>5, <3>6 DEF Counts
  <2>7. Windows'
    BY <2>5, <2>6 DEF Ordered, Windows, Uses
  <2> QED BY <1>1, <1>3, <2>4, <2>7 DEF Ordered
<1> QED BY <1>4, <1>5

\* Times tell the windows apart.
LEMMA Times ==
    /\ \A w \in Nat : 10 * w \in Nat
    /\ \A w, v \in Nat : v <= w => 10 * v <= 10 * w
    /\ \A a, w \in Nat, l \in 0 .. 9 : a <= 10 * w + l => a < 10 * (w + 1) /\ ~(a >= 10 * (w + 1))
    /\ \A a, w \in Nat, l \in 0 .. 9 : a <= 10 * w + l => a <= 10 * (w + 1) + 0
    /\ \A a, w, v \in Nat, l \in 0 .. 9 : v <= w /\ a < 10 * v => a < 10 * w + l
    /\ \A a, w \in Nat, l, m \in 0 .. 9 : l <= m /\ a <= w + l => a <= w + m
OBVIOUS

\* A primitive received goes to the end of the queue of its source.
LEMMA ReceiveOrdered ==
    ASSUME Room, SelType, Machine, Ordered, Room', SelType', NothingLost',
           NEW s \in Src, NEW t \in Slices, SubReceive(s, t)
    PROVE  Ordered'
<1> DEFINE p == [t |-> window * 10 + t, k |-> total[s] + 1]
<1>1. /\ window \in Nat /\ total[s] \in Nat /\ t \in 0 .. 9 /\ latest[s] \in 0 .. 9 /\ t >= latest[s]
      /\ Uses(s) /\ received[s] \in Nat
      /\ p \in Prim /\ p.t = 10 * window + t /\ p.k = total[s] + 1
  <2>1. window \in Nat /\ total[s] \in Nat /\ latest[s] \in 0 .. 9 /\ received[s] \in Nat
    BY DEF Room, SelType
  <2>2. t \in 0 .. 9
    BY BoundAssumption
  <2>3. t >= latest[s] /\ Uses(s)
    BY DEF SubReceive
  <2> QED BY <2>1, <2>2, <2>3 DEF Prim
<1>2. fifo' = [fifo EXCEPT ![s] = Append(@, p)]
  BY DEF SubReceive, NothingLost, Src
<1> HIDE DEF p
<1>3. /\ received' = [received EXCEPT ![s] = @ + 1] /\ latest' = [latest EXCEPT ![s] = t]
      /\ total' = [total EXCEPT ![s] = @ + 1]
      /\ UNCHANGED <<num, q, qnum, FSMReadFifo, nprimitive, readfifo, merged, window>>
  BY DEF SubReceive, readVars
<1>4. \A o \in Src : /\ Done(o)' = Done(o) /\ WindowsRead(o)' = WindowsRead(o) /\ Left(o)' = Left(o)
                     /\ (Held(o)' <=> Held(o))
  BY <1>3 DEF Done, Selected, WindowsRead, Left, Held
<1>5. \A o \in Src \ {s} : /\ Queue(o)' = Queue(o) /\ total'[o] = total[o]
                           /\ received'[o] = received[o] /\ latest'[o] = latest[o]
  <2>1. \A o \in Src \ {s} : fifo'[o] = fifo[o]
    BY <1>2 DEF Room
  <2> QED BY <1>3, <1>4, <2>1 DEF Queue, Room, SelType
<1>6. Queue(s)' = Append(Queue(s), p)
  <2>1. fifo'[s] = Append(fifo[s], p)
    BY <1>2 DEF Room
  <2>2. \A f \in Seq(Prim), v \in Prim : <<v>> \o Append(f, p) = Append(<<v>> \o f, p)
    BY <1>1
  <2>3. CASE Held(s)
    BY <1>3, <1>4, <2>1, <2>2, <2>3, QueueType DEF Queue
  <2>4. CASE ~Held(s)
    BY <1>4, <2>1, <2>4 DEF Queue
  <2> QED BY <2>3, <2>4
<1> DEFINE u == Queue(s)
           n == Len(Queue(s))
<1>7. /\ u \in Seq(Prim) /\ n \in Nat /\ Len(Append(u, p)) = n + 1
      /\ \A i \in 1 .. n : Append(u, p)[i] = u[i] /\ u[i].t \in Nat /\ u[i].k \in Nat
      /\ Append(u, p)[n + 1] = p
  <2>1. u \in Seq(Prim) /\ n \in Nat /\ \A i \in 1 .. n : u[i] \in Prim
    BY QueueType
  <2>2. \A v \in Prim : v.t \in Nat /\ v.k \in Nat
    BY DEF Prim
  <2> HIDE DEF u
  <2> QED BY <1>1, <2>1, <2>2, AppendProperties DEF u
<1>8. /\ total'[s] = total[s] + 1 /\ received'[s] = received[s] + 1 /\ latest'[s] = t
  BY <1>3 DEF Room, SelType
<1>9. /\ n = total[s] - Done(s) /\ Done(s) \in Nat
      /\ \A i \in 1 .. n : u[i].k = Done(s) + i /\ u[i].t <= 10 * window + latest[s]
      /\ \A i, j \in 1 .. n : i <= j => u[i].t <= u[j].t
  BY QueueType DEF Ordered, Queued
<1>10. /\ Len(Queue(s)') = n + 1 /\ Queue(s)'[n + 1] = p
       /\ \A i \in 1 .. n : Queue(s)'[i] = u[i]
  BY <1>6, <1>7
<1> HIDE DEF u, n
<1> DEFINE b == 10 * window
<1>b. /\ b \in Nat /\ p.t = b + t /\ 10 * window' + latest'[s] = b + t
      /\ \A i \in 1 .. n : u[i].t <= b + latest[s]
      /\ \A v \in 0 .. window : 10 * v <= b /\ 10 * v \in Nat
  <2>1. window' = window
    BY <1>3
  <2>2. b \in Nat
    BY <1>1, Times, Zenon
  <2>3. \A v \in 0 .. window : 10 * v <= b
    <3>1. \A v \in 0 .. window : v \in Nat /\ v <= window
      BY <1>1
    <3> QED BY <1>1, <3>1, Times, Zenon
  <2>4. \A v \in 0 .. window : 10 * v \in Nat
    OBVIOUS
  <2> QED BY <1>1, <1>8, <1>9, <2>1, <2>2, <2>3, <2>4
<1> HIDE DEF b
<1>11. Queued(s)'
  <2>1. Len(Queue(s)') = total'[s] - Done(s)'
    BY <1>1, <1>4, <1>7, <1>8, <1>9, <1>10
  <2>2. ASSUME NEW i \in 1 .. Len(Queue(s)')
        PROVE  Queue(s)'[i].k = Done(s)' + i /\ Queue(s)'[i].t <= 10 * window' + latest'[s]
    <3>1. CASE i = n + 1
      <4>1. Queue(s)'[i].k = total[s] + 1 /\ Queue(s)'[i].t = b + t
        BY <1>1, <1>10, <1>b, <3>1
      <4>2. total[s] + 1 = Done(s) + i
        <5>1. \A a, m, d \in Nat : m = a - d => a + 1 = d + (m + 1)
          OBVIOUS
        <5>2. total[s] \in Nat /\ n \in Nat /\ Done(s) \in Nat /\ n = total[s] - Done(s)
          BY <1>1, <1>7, <1>9
        <5>3. total[s] + 1 = Done(s) + (n + 1)
          BY <5>1, <5>2, Zenon
        <5> QED BY <3>1, <5>3
      <4>3. Queue(s)'[i].t <= b + t
        BY <1>1, <1>b, <4>1
      <4> QED BY <1>4, <1>b, <4>1, <4>2, <4>3
    <3>2. CASE i \in 1 .. n
      <4>1. Queue(s)'[i].k = Done(s) + i /\ Queue(s)'[i].t <= b + latest[s] /\ Queue(s)'[i].t \in Nat
        BY <1>7, <1>9, <1>10, <1>b, <3>2
      <4>2. latest[s] <= t /\ latest[s] \in 0 .. 9 /\ t \in 0 .. 9 /\ b \in Nat
        BY <1>1, <1>b
      <4>3. Queue(s)'[i].t <= b + t
        BY <4>1, <4>2, Times, Zenon
      <4> QED BY <1>4, <1>b, <4>1, <4>3
    <3> QED BY <1>7, <1>10, <3>1, <3>2
  <2>3. ASSUME NEW i \in 1 .. Len(Queue(s)'), NEW j \in 1 .. Len(Queue(s)'), i <= j
        PROVE  Queue(s)'[i].t <= Queue(s)'[j].t
    <3>1. CASE j \in 1 .. n
      <4>1. i \in 1 .. n
        BY <1>7, <2>3, <3>1
      <4> QED BY <1>9, <1>10, <2>3, <3>1, <4>1
    <3>2. CASE j = n + 1 /\ i \in 1 .. n
      <4>1. Queue(s)'[i].t <= b + latest[s] /\ Queue(s)'[i].t \in Nat /\ Queue(s)'[j].t = b + t
        BY <1>7, <1>9, <1>10, <1>b, <3>2
      <4>2. latest[s] <= t /\ latest[s] \in 0 .. 9 /\ t \in 0 .. 9 /\ b \in Nat
        BY <1>1, <1>b
      <4>3. Queue(s)'[i].t <= b + t
        BY <4>1, <4>2, Times, Zenon
      <4> QED BY <4>1, <4>3
    <3>3. CASE j = n + 1 /\ i = n + 1
      BY <1>1, <1>10, <1>b, <3>3
    <3> QED BY <1>7, <1>10, <2>3, <3>1, <3>2, <3>3
  <2> QED BY <2>1, <2>2, <2>3 DEF Queued
<1>12. \A o \in Src \ {s} : Queued(o)'
  BY <1>3, <1>4, <1>5 DEF Ordered, Queued
<1>13. ASSUME NEW o \in Src, NEW E \in [0 .. window -> Nat], Counts(o, E)
       PROVE  Counts(o, E)'
  <2>1. CASE o # s
    BY <1>3, <1>4, <1>5, <1>13, <2>1 DEF Counts
  <2>2. CASE o = s
    <3>1. /\ \A v, w \in 0 .. window : v <= w => E[v] <= E[w]
          /\ E[window] + received[s] = total[s]
      BY <1>13, <2>2 DEF Counts
    <3>2. E[window] + received'[s] = total'[s]
      <4>1. E[window] \in Nat
        BY <1>1
      <4> QED BY <1>1, <1>8, <3>1, <4>1
    <3>3. ASSUME NEW i \in 1 .. Len(Queue(s)'), NEW v \in 0 .. window
          PROVE  Queue(s)'[i].k > E[v] <=> Queue(s)'[i].t >= 10 * v
      <4>1. CASE i \in 1 .. n
        <5>1. u[i].k > E[v] <=> u[i].t >= 10 * v
          BY <1>13, <2>2, <4>1 DEF Counts, u, n
        <5> QED BY <1>10, <4>1, <5>1
      <4>2. CASE i = n + 1
        <5>1. Queue(s)'[i].k = total[s] + 1 /\ Queue(s)'[i].t = b + t
          BY <1>1, <1>10, <1>b, <4>2
        <5>2. E[v] <= E[window] /\ E[v] \in Nat /\ E[window] \in Nat
          BY <1>1, <3>1
        <5>3. total[s] + 1 > E[v]
          BY <1>1, <3>1, <5>2
        <5>4. b + t >= 10 * v
          <6>1. 10 * v <= b /\ 10 * v \in Nat
            BY <1>b
          <6>2. \A a \in Nat : a <= b => b + t >= a
            BY <1>1, <1>b
          <6> QED BY <6>1, <6>2
        <5> QED BY <5>1, <5>3, <5>4
      <4> QED BY <1>7, <1>10, <4>1, <4>2
    <3> QED BY <1>3, <1>4, <1>13, <2>2, <3>1, <3>2, <3>3 DEF Counts
  <2> QED BY <2>1, <2>2
<1>14. Windows'
  BY <1>3, <1>13 DEF Ordered, Windows, Uses
<1>15. /\ \A i \in 1 .. Len(merged) : merged[i].t \in Nat /\ merged[i].t < p.t
       /\ Len(merged) \in Nat
  <2>1. merged \in Seq(Entry)
    BY DEF SelType
  <2>2. \A i \in 1 .. Len(merged) : merged[i] \in Entry
    BY <2>1, ElementOfSeq
  <2>3. \A i \in 1 .. Len(merged) : merged[i].t \in Nat /\ merged[i].t < 10 * WindowsRead("reference")
    BY <2>2 DEF Ordered, Merged, Entry
  <2>4. WindowsRead("reference") \in Nat /\ WindowsRead("reference") <= window
    <3>1. Len(num["reference"]) \in Nat /\ Len(num["reference"]) <= window
      BY DEF SelType, Ordered, Windows, Src
    <3> QED BY <1>1, <3>1 DEF WindowsRead
  <2>5. p.t = 10 * window + t
    BY <1>1
  <2>6. \A i \in 1 .. Len(merged) : merged[i].t < 10 * window + t
    BY <1>1, <2>3, <2>4, Times, Zenon
  <2> QED BY <2>1, <2>3, <2>5, <2>6
<1>16. ASSUME NEW o \in Src, NEW i \in 1 .. Len(merged), NEW j \in 1 .. Len(Queue(o)')
       PROVE  \/ j \in 1 .. Len(Queue(o)) /\ Queue(o)'[j] = Queue(o)[j]
              \/ merged[i].t < Queue(o)'[j].t /\ merged[i].t <= Queue(o)'[j].t
  <2>1. CASE o # s
    BY <1>5, <2>1
  <2>2. CASE o = s /\ j \in 1 .. n
    BY <1>10, <2>2 DEF u, n
  <2>3. CASE o = s /\ j = n + 1
    BY <1>1, <1>10, <1>15, <2>3
  <2> QED BY <1>7, <1>10, <2>1, <2>2, <2>3
<1>17. Merged'
  <2>1. \A o \in Src, i \in 1 .. Len(merged) : \A j \in 1 .. Len(Queue(o)') :
           merged[i].t <= Queue(o)'[j].t
    BY <1>16 DEF Ordered, Merged
  <2>2. merged' = merged /\ WindowsRead("reference")' = WindowsRead("reference")
    BY <1>3, <1>4 DEF Src
  <2>3. \A o \in Src, i \in 1 .. Len(merged) : Selected(o, i)' = Selected(o, i)
    BY <2>2 DEF Selected
  <2> QED BY <2>1, <2>2, <2>3 DEF Ordered, Merged
<1>18. Joined'
  <2>1. ASSUME merged # <<>>, NEW o \in Src, Place(o, merged[Len(merged)]) = 0,
               NEW j \in 1 .. Len(Queue(o)')
        PROVE  merged[Len(merged)].t < Queue(o)'[j].t
    <3>1. Len(merged) \in 1 .. Len(merged)
      BY <2>1, EmptySeq DEF SelType
    <3> QED BY <1>16, <2>1, <3>1 DEF Ordered, Joined
  <2> QED BY <1>3, <2>1 DEF Ordered, Joined
<1> QED BY <1>11, <1>12, <1>14, <1>17, <1>18 DEF Ordered

\* The number of a window is stored: the times of the next one are later.
LEMMA NumberOrdered ==
    ASSUME Room, SelType, Machine, Ordered, Room', SelType', NothingLost', SubPrimitiveInPacket
    PROVE  Ordered'
<1>1. /\ num' = [s \in Src |-> IF Uses(s) THEN Append(num[s], received[s]) ELSE num[s]]
      /\ received' = [s \in Src |-> 0] /\ latest' = [s \in Src |-> 0] /\ window' = window + 1
      /\ UNCHANGED <<fifo, q, qnum, FSMReadFifo, nprimitive, readfifo, merged, total>>
  <2>1. \A s \in Src : ~(Len(num[s]) >= NumDepth) /\ Len(num[s]) < NumDepth
    <3>1. \A s \in Src : ~(Len(num[s]) >= NumDepth)
      BY DEF SubPrimitiveInPacket, NothingLost
    <3>2. \A s \in Src : Len(num[s]) \in Nat
      BY DEF SelType
    <3> QED BY <3>1, <3>2, SizeAssumption
  <2> QED BY <2>1 DEF SubPrimitiveInPacket, readVars
<1>2. \A s \in Src : Done(s)' = Done(s) /\ Left(s)' = Left(s) /\ Queue(s)' = Queue(s)
  BY <1>1 DEF Done, Selected, Left, Queue, Held
<1>3. /\ window \in Nat
      /\ \A s \in Src : /\ num[s] \in Seq(Nat) /\ Len(num[s]) \in Nat /\ Len(num[s]) <= window
                        /\ received[s] \in Nat /\ latest[s] \in 0 .. 9 /\ total[s] \in Nat
                        /\ received'[s] = 0 /\ latest'[s] = 0
      /\ activatecontroltrigger => Len(num["reference"]) = Len(num["control"])
  BY <1>1 DEF Room, SelType, Ordered, Windows
<1>4. \A s \in Src : Uses(s) =>
         /\ Len(num'[s]) = Len(num[s]) + 1 /\ num'[s][Len(num[s]) + 1] = received[s]
         /\ \A j \in 1 .. Len(num[s]) : num'[s][j] = num[s][j]
         /\ WindowsRead(s)' = WindowsRead(s)
  <2> SUFFICES ASSUME NEW s \in Src, Uses(s)
               PROVE  /\ Len(num'[s]) = Len(num[s]) + 1 /\ num'[s][Len(num[s]) + 1] = received[s]
                      /\ \A j \in 1 .. Len(num[s]) : num'[s][j] = num[s][j]
                      /\ WindowsRead(s)' = WindowsRead(s)
      OBVIOUS
  <2>1. num'[s] = Append(num[s], received[s])
    BY <1>1
  <2>2. /\ Len(num'[s]) = Len(num[s]) + 1 /\ num'[s][Len(num[s]) + 1] = received[s]
        /\ \A j \in 1 .. Len(num[s]) : num'[s][j] = num[s][j]
    BY <1>3, <2>1, AppendProperties
  <2>3. (window + 1) - (Len(num[s]) + 1) = window - Len(num[s])
    BY <1>3
  <2> QED BY <1>1, <2>2, <2>3 DEF WindowsRead
<1>5. ASSUME NEW s \in Src, NEW i \in 1 .. Len(Queue(s))
      PROVE  Queue(s)[i].t \in Nat /\ Queue(s)[i].k \in Nat
  <2>1. Queue(s)[i] \in Prim
    BY QueueType
  <2> QED BY <2>1 DEF Prim
<1>6. ASSUME NEW s \in Src PROVE Queued(s)'
  <2>1. \A i \in 1 .. Len(Queue(s)) : Queue(s)[i].t <= 10 * window + latest[s]
    BY DEF Ordered, Queued
  <2>2. \A i \in 1 .. Len(Queue(s)) : Queue(s)[i].t <= 10 * (window + 1) + 0
    BY <1>3, <1>5, <2>1, Times, Zenon
  <2>3. window' = window + 1 /\ latest'[s] = 0
    BY <1>1
  <2>4. \A i \in 1 .. Len(Queue(s)) : Queue(s)[i].t <= 10 * window' + latest'[s]
    BY <2>2, <2>3
  <2> QED BY <1>1, <1>2, <2>4 DEF Ordered, Queued
<1>7. ASSUME NEW s \in Src, Uses(s)
      PROVE  \E F \in [0 .. window' -> Nat] : Counts(s, F)'
  <2>1. PICK E \in [0 .. window -> Nat] : Counts(s, E)
    BY <1>7 DEF Ordered, Windows
  <2> DEFINE W == WindowsRead(s)
             n == Len(num[s])
  <2>2. PICK F \in [0 .. window' -> Nat] :
           F[window + 1] = total[s] /\ \A v \in 0 .. window : F[v] = E[v] /\ E[v] \in Nat
    <3> DEFINE G == [v \in 0 .. window + 1 |-> IF v = window + 1 THEN total[s] ELSE E[v]]
    <3>1. window' = window + 1 /\ total[s] \in Nat /\ window + 1 \in 0 .. window + 1
      BY <1>1, <1>3
    <3>2. \A v \in 0 .. window : E[v] \in Nat /\ v \in 0 .. window + 1 /\ v # window + 1
      BY <1>3
    <3>3. \A v \in 0 .. window + 1 : v = window + 1 \/ v \in 0 .. window
      BY <1>3
    <3>4. G \in [0 .. window + 1 -> Nat]
      BY <3>1, <3>2, <3>3
    <3>5. G[window + 1] = total[s] /\ \A v \in 0 .. window : G[v] = E[v]
      BY <3>1, <3>2
    <3> HIDE DEF G
    <3> QED BY <3>1, <3>2, <3>4, <3>5
  <2>3. W \in Nat /\ W + n = window /\ WindowsRead(s)' = W /\ n \in Nat
    BY <1>3, <1>4, <1>7 DEF WindowsRead
  <2> HIDE DEF W, n
  <2>4. /\ \A u, v \in 0 .. window : u <= v => E[u] <= E[v]
        /\ E[window] + received[s] = total[s]
        /\ \A j \in 1 .. n : num[s][j] = E[W + j] - E[W + j - 1]
        /\ E[W] = Done(s) + Left(s)
        /\ \A i \in 1 .. Len(Queue(s)), v \in 0 .. window :
              Queue(s)[i].k > E[v] <=> Queue(s)[i].t >= 10 * v
    BY <2>1 DEF Counts, W, n
  <2>5. \A u, v \in 0 .. window' : u <= v => F[u] <= F[v]
    <3> SUFFICES ASSUME NEW u \in 0 .. window + 1, NEW v \in 0 .. window + 1, u <= v
                 PROVE  F[u] <= F[v]
        BY <1>1
    <3>1. CASE v \in 0 .. window
      <4>1. u \in 0 .. window
        BY <1>3, <3>1
      <4> QED BY <2>2, <2>4, <3>1, <4>1
    <3>2. CASE v = window + 1 /\ u \in 0 .. window
      <4>1. E[u] <= E[window] /\ E[window] \in Nat /\ E[u] \in Nat
        BY <1>3, <2>2, <2>4, <3>2
      <4>2. E[u] <= total[s]
        BY <1>3, <2>4, <4>1
      <4> QED BY <2>2, <3>2, <4>2
    <3>3. CASE v = window + 1 /\ u = window + 1
      BY <1>3, <2>2, <3>3
    <3> QED BY <1>3, <3>1, <3>2, <3>3
  <2>6. F[window'] + received'[s] = total'[s]
    BY <1>1, <1>3, <2>2
  <2>7. \A j \in 1 .. Len(num'[s]) :
           num'[s][j] = F[WindowsRead(s)' + j] - F[WindowsRead(s)' + j - 1]
    <3> SUFFICES ASSUME NEW j \in 1 .. n + 1 PROVE num'[s][j] = F[W + j] - F[W + j - 1]
        BY <1>4, <1>7, <2>3 DEF n
    <3>1. CASE j \in 1 .. n
      <4>1. num'[s][j] = num[s][j] /\ num[s][j] = E[W + j] - E[W + j - 1]
        BY <1>4, <1>7, <2>4, <3>1 DEF n
      <4>2. W + j \in 0 .. window /\ W + j - 1 \in 0 .. window
        BY <1>3, <2>3, <3>1
      <4> QED BY <2>2, <4>1, <4>2
    <3>2. CASE j = n + 1
      <4>1. num'[s][j] = received[s]
        BY <1>4, <1>7, <3>2 DEF n
      <4>2. W + j = window + 1 /\ W + j - 1 = window
        BY <1>3, <2>3, <3>2
      <4>3. E[window] \in Nat /\ F[window] = E[window]
        BY <1>3, <2>2
      <4>4. received[s] = total[s] - E[window]
        BY <1>3, <2>4, <4>3
      <4> QED BY <2>2, <4>1, <4>2, <4>3, <4>4
    <3> QED BY <2>3, <3>1, <3>2
  <2>8. F[WindowsRead(s)'] = Done(s)' + Left(s)'
    <3>1. W \in 0 .. window
      BY <1>3, <2>3
    <3> QED BY <1>2, <2>2, <2>3, <2>4, <3>1
  <2>9. ASSUME NEW i \in 1 .. Len(Queue(s)), NEW v \in 0 .. window + 1
        PROVE  Queue(s)[i].k > F[v] <=> Queue(s)[i].t >= 10 * v
    <3>1. CASE v \in 0 .. window
      BY <2>2, <2>4, <3>1
    <3>2. CASE v = window + 1
      <4>1. /\ Queue(s)[i].k = Done(s) + i /\ Queue(s)[i].t <= 10 * window + latest[s]
            /\ Len(Queue(s)) = total[s] - Done(s)
        BY DEF Ordered, Queued
      <4>2. Queue(s)[i].t \in Nat /\ Done(s) \in Nat /\ Len(Queue(s)) \in Nat
        BY <1>5, QueueType
      <4>3. ~(Queue(s)[i].k > total[s])
        BY <1>3, <4>1, <4>2
      <4>4. ~(Queue(s)[i].t >= 10 * (window + 1))
        BY <1>3, <4>1, <4>2, Times, Zenon
      <4> QED BY <2>2, <3>2, <4>3, <4>4
    <3> QED BY <1>3, <3>1, <3>2
  <2>10. Counts(s, F)'
    BY <1>1, <1>2, <2>5, <2>6, <2>7, <2>8, <2>9 DEF Counts
  <2> QED BY <2>10
<1>8. "reference" \in Src /\ "control" \in Src /\ Uses("reference")
  BY DEF Src, Uses
<1>9. Windows'
  <2>1. activatecontroltrigger => Len(num'["reference"]) = Len(num'["control"])
    <3>1. activatecontroltrigger => Uses("control")
      BY DEF Uses
    <3> QED BY <1>3, <1>4, <1>8, <3>1
  <2>2. ASSUME NEW s \in Src PROVE Len(num'[s]) <= window'
    <3>1. CASE Uses(s)
      BY <1>1, <1>3, <1>4, <3>1
    <3>2. CASE ~Uses(s)
      BY <1>1, <1>3, <3>2
    <3> QED BY <3>1, <3>2
  <2>3. \A s \in Src : Uses(s)' <=> Uses(s)
    BY DEF Uses
  <2> QED BY <1>7, <2>1, <2>2, <2>3 DEF Windows
<1>10. Merged' /\ Joined'
  <2>1. WindowsRead("reference")' = WindowsRead("reference")
    BY <1>4, <1>8
  <2>2. Merged'
    BY <1>1, <1>2, <2>1 DEF Ordered, Merged, Selected
  <2>3. Joined'
    BY <1>1, <1>2 DEF Ordered, Joined
  <2> QED BY <2>2, <2>3
<1> QED BY <1>6, <1>9, <1>10 DEF Ordered

\* The number of the next window is read: its primitives are those left.
LEMMA WaitOrdered ==
    ASSUME Room, SelType, Machine, Ordered, Room', SelType', Machine', Wait1Packet
    PROVE  Ordered'
<1>1. /\ FSMReadFifo = "Wait1Packet"
      /\ nprimitive' = [s \in Src |-> 0] /\ readfifo' = [s \in Src |-> Uses(s)]
      /\ UNCHANGED <<fifo, q, merged, total, received, latest, window>>
  BY DEF Wait1Packet, NewWindow, inputVars
<1>2. \A s \in Src : ~Held(s) /\ ~Held(s)'
  <2>1. \A s \in Src : nprimitive'[s] = 0 /\ (~Uses(s) => qnum'[s] = 0)
    BY <1>1 DEF Machine, Uses
  <2>2. \A s \in Src : readfifo'[s] <=> Uses(s)
    BY <1>1
  <2>3. FSMReadFifo' # "SelectData"
    BY DEF Wait1Packet
  <2>4. ~(0 < 0)
    OBVIOUS
  <2>5. \A s \in Src : ~Held(s)'
    BY <2>1, <2>2, <2>3, <2>4 DEF Held
  <2> QED BY <1>1, <2>5 DEF Held
<1>3. \A s \in Src : Queue(s)' = Queue(s)
  BY <1>1, <1>2 DEF Queue
<1>4. CASE EnoughPackets
  <2>1. \A s \in Src : Uses(s) => num[s] # <<>>
    <3>1. Len(num["reference"]) > DeltaPacket /\ DeltaPacket \in Nat
      BY <1>4, SizeAssumption DEF EnoughPackets
    <3>2. Len(num["reference"]) \in Nat
      BY DEF SelType, Src
    <3>3. Len(num["reference"]) # 0
      BY <3>1, <3>2
    <3>4. \A s \in Src : Uses(s) => Len(num[s]) # 0
      BY <3>3 DEF Ordered, Windows, Uses, Src
    <3> QED BY <3>4
  <2>2. \A s \in Src : ~Uses(s) => num[s] = <<>>
    BY DEF Machine
  <2>3. num' = [s \in Src |-> IF Uses(s) THEN Tail(num[s]) ELSE num[s]]
    BY <1>4, <2>1, <2>2 DEF Wait1Packet, NextFifo
  <2>4. \A s \in Src : Uses(s) => Left(s)' = Head(num[s])
    <3> SUFFICES ASSUME NEW s \in Src, Uses(s) PROVE Left(s)' = Head(num[s])
        OBVIOUS
    <3>1. FSMReadFifo' = "ReadFifo" /\ qnum'[s] = Head(num[s]) /\ nprimitive'[s] = 0
      BY <1>1, <1>4, <2>1 DEF Wait1Packet, NextQ
    <3>2. qnum'[s] \in Nat
      BY DEF SelType
    <3>3. qnum'[s] - 0 = qnum'[s]
      BY <3>2
    <3> QED BY <3>1, <3>3 DEF Left
  <2> QED BY <1>1, <1>3, <2>1, <2>3, <2>4, SameQueues
<1>5. CASE ~EnoughPackets
  <2>1. num' = num /\ FSMReadFifo' = "Wait1Packet"
    BY <1>5 DEF Wait1Packet, NextFifo, SelType
  <2>2. \A s \in Src : Left(s)' = Left(s)
    BY <1>1, <2>1 DEF Left
  <2> QED BY <1>1, <1>3, <2>1, <2>2, SameQueues
<1> QED BY <1>4, <1>5

\* A word read leaves the FIFO for its output: the queue is the same.
LEMMA ReadOrdered ==
    ASSUME Room, SelType, Machine, Ordered, Room', SelType', ReadFifo
    PROVE  Ordered'
<1>1. /\ FSMReadFifo = "ReadFifo"
      /\ FSMReadFifo' = IF WindowDone THEN "Wait1Packet" ELSE "SelectData"
      /\ q' = NextQ(q, fifo, rdreq) /\ fifo' = NextFifo(fifo, rdreq)
      /\ UNCHANGED <<num, qnum, nprimitive, readfifo, merged, total, received, latest, window>>
  BY DEF ReadFifo, inputVars
<1>2. \A s \in Src : nprimitive[s] \in Nat /\ qnum[s] \in Nat /\ nprimitive[s] <= qnum[s]
  BY <1>1 DEF SelType, Machine
<1>3. ASSUME NEW s \in Src PROVE Left(s)' = Left(s)
  <2>1. CASE WindowDone
    <3>1. nprimitive[s] >= qnum[s]
      BY <2>1 DEF WindowDone
    <3>2. qnum[s] - nprimitive[s] = 0
      BY <1>2, <3>1
    <3> QED BY <1>1, <2>1, <3>2 DEF Left
  <2>2. CASE ~WindowDone
    BY <1>1, <2>2 DEF Left
  <2> QED BY <2>1, <2>2
<1>4. ASSUME NEW s \in Src PROVE Queue(s)' = Queue(s)
  <2>1. CASE nprimitive[s] < qnum[s]
    <3>1. FSMReadFifo' = "SelectData"
      <4>1. ~(nprimitive[s] >= qnum[s])
        BY <1>2, <2>1
      <4> QED BY <1>1, <4>1 DEF WindowDone
    <3>2. Held(s)' /\ (Held(s) <=> ~readfifo[s])
      BY <1>1, <2>1, <3>1 DEF Held
    <3>3. CASE ~readfifo[s]
      <4>1. q'[s] = q[s] /\ fifo'[s] = fifo[s]
        BY <1>1, <3>3 DEF NextQ, NextFifo, rdreq
      <4> QED BY <3>2, <3>3, <4>1 DEF Queue
    <3>4. CASE readfifo[s]
      <4>1. Queue(s) = fifo[s] /\ fifo[s] \in Seq(Prim)
        BY <3>2, <3>4, QueueType
      <4>2. fifo[s] # <<>>
        <5>1. Uses(s)
          <6>1. qnum[s] # 0
            BY <1>2, <2>1
          <6> QED BY <6>1 DEF Machine
        <5>2. PICK E \in [0 .. window -> Nat] : Counts(s, E)
          BY <5>1 DEF Ordered, Windows
        <5>3. /\ window \in Nat /\ Len(num[s]) \in Nat /\ Len(num[s]) <= window
              /\ total[s] \in Nat /\ received[s] \in Nat /\ Done(s) \in Nat
          <6>1. window \in Nat /\ total[s] \in Nat /\ received[s] \in Nat /\ Len(num[s]) \in Nat
            BY DEF Room, SelType
          <6>2. Len(num[s]) <= window
            BY DEF Ordered, Windows
          <6>3. Done(s) \in Nat
            BY QueueType
          <6> QED BY <6>1, <6>2, <6>3
        <5>4. WindowsRead(s) \in 0 .. window /\ WindowsRead(s) <= window /\ window \in 0 .. window
          BY <5>3 DEF WindowsRead
        <5>5. /\ E[WindowsRead(s)] <= E[window] /\ E[window] \in Nat
              /\ E[window] + received[s] = total[s] /\ E[WindowsRead(s)] = Done(s) + Left(s)
          BY <5>2, <5>4 DEF Counts
        <5>6. Left(s) \in Nat /\ Left(s) >= 1
          BY <1>1, <1>2, <2>1 DEF Left
        <5>7. total[s] - Done(s) >= 1
          BY <5>3, <5>5, <5>6
        <5>8. Len(Queue(s)) >= 1
          BY <5>7 DEF Ordered, Queued
        <5> QED BY <4>1, <5>8
      <4>3. rdreq[s]
        BY <2>1, <3>4 DEF rdreq
      <4>4. q'[s] = Head(fifo[s]) /\ fifo'[s] = Tail(fifo[s])
        BY <1>1, <4>2, <4>3 DEF NextQ, NextFifo
      <4>5. \A f \in Seq(Prim) : f # <<>> => <<Head(f)>> \o Tail(f) = f
        OBVIOUS
      <4>6. Queue(s)' = <<Head(fifo[s])>> \o Tail(fifo[s])
        BY <3>2, <4>4 DEF Queue
      <4> QED BY <4>1, <4>2, <4>5, <4>6
    <3> QED BY <3>3, <3>4
  <2>2. CASE ~(nprimitive[s] < qnum[s])
    <3>1. ~Held(s) /\ ~Held(s)'
      BY <1>1, <2>2 DEF Held
    <3>2. fifo'[s] = fifo[s]
      BY <1>1, <2>2 DEF NextFifo, rdreq
    <3> QED BY <3>1, <3>2 DEF Queue
  <2> QED BY <2>1, <2>2
<1> QED BY <1>1, <1>3, <1>4, SameQueues

\* What a selection does to the queues: a source that is taken loses its first word.
LEMMA SelectQueues ==
    ASSUME Room, SelType, Machine, Ordered, SelectData, NEW s \in Src
    PROVE  /\ merged' = Append(merged, Word) /\ Word \in Entry
           /\ UNCHANGED <<num, total, received, latest, window>>
           /\ Place(s, Word) = IF s \in Taken THEN Done(s) + 1 ELSE 0
           /\ s \in Taken => /\ Left(s) \in Nat /\ Left(s) >= 1 /\ Left(s)' = Left(s) - 1
                             /\ Queue(s) # <<>> /\ Queue(s)' = Tail(Queue(s))
                             /\ Queue(s)[1].t = Word.t /\ Queue(s)[1].k = Done(s) + 1
                             /\ Uses(s)
           /\ s \notin Taken => /\ Left(s)' = Left(s) /\ Queue(s)' = Queue(s)
                                /\ \/ Left(s) = 0
                                   \/ Queue(s) # <<>> /\ Queue(s)[1].t > Word.t
           /\ \E o \in Src : o \in Taken
<1>1. FSMReadFifo = "SelectData" /\ UNCHANGED <<fifo, num, q, qnum, total, received, latest, window>>
  BY DEF SelectData, inputVars
<1>2. \A o \in Src : /\ nprimitive[o] \in Nat /\ qnum[o] \in Nat /\ nprimitive[o] <= qnum[o]
                     /\ finish[o] <=> nprimitive[o] = qnum[o]
  <2>1. \A o \in Src : nprimitive[o] \in Nat /\ qnum[o] \in Nat
    BY DEF SelType
  <2>2. \A o \in Src : /\ nprimitive[o] <= qnum[o]
                       /\ finish[o] => nprimitive[o] = qnum[o]
                       /\ nprimitive[o] = qnum[o] => finish[o]
    BY <1>1 DEF Machine
  <2> QED BY <2>1, <2>2
<1>3. /\ Taken # {} /\ \A o \in Taken : o \in Src /\ ~finish[o] /\ q[o].t = Word.t
      /\ s \notin Taken /\ ~finish[s] => q[s].t > Word.t
      /\ Place(s, Word) = IF s \in Taken THEN q[s].k ELSE 0
  <2>1. \E o \in Src : ~finish[o]
    <3>1. PICK o \in Src : nprimitive[o] < qnum[o]
      BY <1>1 DEF Machine, Src
    <3> QED BY <1>2, <3>1
  <2>2. Taken # {} /\ \A o \in Taken : o \in Src /\ ~finish[o] /\ q[o].t = Word.t
    BY <2>1, TakenOf
  <2>3. s \notin Taken /\ ~finish[s] => q[s].t > Word.t
    BY TakenOf
  <2>4. Place(s, Word) = IF s \in Taken THEN q[s].k ELSE 0
    BY TakenOf
  <2> QED BY <2>2, <2>3, <2>4
<1>4. /\ merged' = Append(merged, Word) /\ FSMReadFifo' = "ReadFifo"
      /\ readfifo' = [o \in Src |-> o \in Taken]
      /\ nprimitive' = [o \in Src |-> nprimitive[o] + (IF o \in Taken THEN 1 ELSE 0)]
  BY <1>3 DEF SelectData
<1>5. Word \in Entry
  BY DEF Word, Room, Src, Prim, Entry
<1>6. Held(s) <=> ~finish[s]
  BY <1>1, <1>2 DEF Held
<1>7. ASSUME ~finish[s]
      PROVE  /\ Queue(s) # <<>> /\ Queue(s)[1] = q[s] /\ Tail(Queue(s)) = fifo[s]
             /\ Queue(s)[1].k = Done(s) + 1 /\ Uses(s)
             /\ Left(s) \in Nat /\ Left(s) >= 1
  <2>1. Queue(s) # <<>> /\ Queue(s)[1] = q[s] /\ Tail(Queue(s)) = fifo[s]
    BY <1>6, <1>7, QueueType
  <2>2. 1 \in 1 .. Len(Queue(s))
    BY <2>1, QueueType, EmptySeq
  <2>3. Queue(s)[1].k = Done(s) + 1
    BY <2>2 DEF Ordered, Queued
  <2>4. qnum[s] # 0
    BY <1>2, <1>7
  <2>5. Left(s) = qnum[s] - nprimitive[s]
    BY <1>1 DEF Left
  <2> QED BY <1>2, <1>7, <2>1, <2>3, <2>4, <2>5 DEF Machine
<1>8. CASE s \in Taken
  <2>1. ~finish[s] /\ q[s].t = Word.t /\ Place(s, Word) = q[s].k
    BY <1>3, <1>8
  <2>2. ~Held(s)' /\ Left(s)' = qnum[s] - (nprimitive[s] + 1)
    BY <1>1, <1>4, <1>8 DEF Held, Left
  <2>3. Queue(s)' = fifo[s]
    BY <1>1, <2>2 DEF Queue
  <2>4. Left(s)' = Left(s) - 1
    <3>1. Left(s) = qnum[s] - nprimitive[s]
      BY <1>1 DEF Left
    <3>2. qnum[s] - (nprimitive[s] + 1) = (qnum[s] - nprimitive[s]) - 1
      BY <1>2
    <3> QED BY <2>2, <3>1, <3>2
  <2> QED BY <1>1, <1>4, <1>5, <1>7, <1>8, <2>1, <2>3, <2>4
<1>9. CASE s \notin Taken
  <2>1. nprimitive'[s] = nprimitive[s]
    <3>1. nprimitive'[s] = nprimitive[s] + 0
      BY <1>4, <1>9
    <3> QED BY <1>2, <3>1
  <2>2. Left(s)' = Left(s) /\ Left(s) = qnum[s] - nprimitive[s]
    BY <1>1, <1>4, <2>1 DEF Left
  <2>3. Queue(s)' = Queue(s)
    <3>1. ~readfifo'[s]
      BY <1>4, <1>9
    <3>2. Held(s)' <=> Held(s)
      BY <1>1, <1>4, <2>1, <3>1 DEF Held
    <3> QED BY <1>1, <3>2 DEF Queue
  <2>4. finish[s] => Left(s) = 0
    BY <1>2, <2>2
  <2>5. ~finish[s] => Queue(s) # <<>> /\ Queue(s)[1].t > Word.t
    BY <1>3, <1>7, <1>9
  <2> QED BY <1>1, <1>3, <1>4, <1>5, <1>9, <2>2, <2>3, <2>4, <2>5
<1> QED BY <1>8, <1>9

\* The words of the sources taken are the earliest of all that wait.
LEMMA SelectOrdered ==
    ASSUME Room, SelType, Machine, Ordered, Room', SelType', SelectData
    PROVE  Ordered'
<1> DEFINE m == merged
           n == Len(merged)
           w == Word
<1>1. /\ m' = Append(m, w) /\ w \in Entry /\ m \in Seq(Entry) /\ n \in Nat /\ w.t \in Nat
      /\ UNCHANGED <<num, total, received, latest, window>>
  <2>1. w \in Entry /\ w.t \in Nat
    BY SelectQueues DEF Src, Entry
  <2>2. m' = Append(m, w) /\ UNCHANGED <<num, total, received, latest, window>>
    BY SelectQueues DEF Src
  <2>3. m \in Seq(Entry) /\ n \in Nat
    BY DEF SelType
  <2> QED BY <2>1, <2>2, <2>3
<1>2. /\ Len(m') = n + 1 /\ m'[n + 1] = w
      /\ \A i \in 1 .. n : m'[i] = m[i] /\ m[i] \in Entry /\ m[i].t \in Nat
  <2>1. Len(m') = n + 1 /\ m'[n + 1] = w /\ \A i \in 1 .. n : m'[i] = m[i]
    BY <1>1, AppendProperties
  <2>2. \A i \in 1 .. n : m[i] \in Entry
    BY <1>1, ElementOfSeq
  <2> QED BY <2>1, <2>2 DEF Entry
<1>3. ASSUME NEW s \in Src
      PROVE  /\ Done(s) \in Nat
             /\ \A i \in 0 .. n : Selected(s, i)' = Selected(s, i)
             /\ Done(s)' = Done(s) + (IF s \in Taken THEN 1 ELSE 0)
             /\ \A i : i = n + 1 => Done(s)' = Selected(s, i)'
  <2>1. Done(s) \in Nat
    BY QueueType
  <2>2. \A i : Selected(s, i) = Count(s, m, i) /\ Selected(s, i)' = Count(s, m', i)
    BY DEF Selected, Count
  <2>3. /\ \A i \in 0 .. n : Count(s, m', i) = Count(s, m, i)
        /\ Count(s, m', n + 1) = Count(s, m, n) + (IF Place(s, w) # 0 THEN 1 ELSE 0)
    BY <1>1, CountAppend
  <2>4. Place(s, w) # 0 <=> s \in Taken
    <3>1. Done(s) + 1 # 0
      BY <2>1
    <3> QED BY <3>1, SelectQueues
  <2>5. Done(s)' = Count(s, m', n + 1) /\ Done(s) = Count(s, m, n)
    BY <1>2 DEF Done, Selected, Count
  <2>6. Done(s)' = Done(s) + (IF s \in Taken THEN 1 ELSE 0)
    <3>1. (IF Place(s, w) # 0 THEN 1 ELSE 0) = (IF s \in Taken THEN 1 ELSE 0)
      BY <2>4
    <3> QED BY <2>3, <2>5, <3>1, Zenon
  <2>7. \A i : i = n + 1 => Done(s)' = Selected(s, i)'
    BY <2>2, <2>5, Zenon
  <2>8. \A i \in 0 .. n : Selected(s, i)' = Selected(s, i)
    BY <2>2, <2>3, Zenon
  <2> QED BY <2>1, <2>6, <2>7, <2>8
<1>n. \A i \in 1 .. n + 1 : i \in 1 .. n \/ i = n + 1
  BY <1>1
<1> HIDE DEF m, n, w
<1>4. \A s \in Src : /\ Queue(s) \in Seq(Prim) /\ Len(Queue(s)) \in Nat
                     /\ \A i \in 1 .. Len(Queue(s)) : Queue(s)[i].t \in Nat /\ Queue(s)[i].k \in Nat
  <2>1. \A s \in Src : /\ Queue(s) \in Seq(Prim) /\ Len(Queue(s)) \in Nat
                       /\ \A i \in 1 .. Len(Queue(s)) : Queue(s)[i] \in Prim
    BY QueueType
  <2>2. \A v \in Prim : v.t \in Nat /\ v.k \in Nat
    BY DEF Prim
  <2> QED BY <2>1, <2>2
<1>5. ASSUME NEW s \in Src, s \in Taken
      PROVE  /\ Len(Queue(s)') = Len(Queue(s)) - 1 /\ Len(Queue(s)) >= 1
             /\ \A i \in 1 .. Len(Queue(s)') :
                    i + 1 \in 1 .. Len(Queue(s)) /\ Queue(s)'[i] = Queue(s)[i + 1]
  <2>1. Queue(s) # <<>> /\ Queue(s)' = Tail(Queue(s))
    BY <1>5, SelectQueues
  <2>2. \A u \in Seq(Prim) : u # <<>> =>
           /\ Len(Tail(u)) = Len(u) - 1 /\ Len(u) >= 1 /\ Len(u) \in Nat
           /\ \A i \in 1 .. Len(Tail(u)) : Tail(u)[i] = u[i + 1]
    BY HeadTailProperties, EmptySeq
  <2>3. /\ Len(Queue(s)') = Len(Queue(s)) - 1 /\ Len(Queue(s)) >= 1 /\ Len(Queue(s)) \in Nat
        /\ \A i \in 1 .. Len(Queue(s)') : Queue(s)'[i] = Queue(s)[i + 1]
    BY <1>4, <2>1, <2>2
  <2>4. \A l \in Nat, i \in Int : i \in 1 .. (l - 1) => i + 1 \in 1 .. l
    OBVIOUS
  <2> QED BY <2>3, <2>4
<1>6. ASSUME NEW s \in Src, s \notin Taken
      PROVE  /\ Queue(s)' = Queue(s) /\ Left(s)' = Left(s) /\ Done(s)' = Done(s)
  BY <1>3, <1>6, SelectQueues
<1>7. ASSUME NEW s \in Src, s \in Taken
      PROVE  /\ Left(s) \in Nat /\ Left(s) >= 1 /\ Left(s)' = Left(s) - 1 /\ Uses(s)
             /\ Queue(s)[1].t = w.t /\ Queue(s)[1].k = Done(s) + 1
             /\ Done(s)' = Done(s) + 1
  BY <1>3, <1>7, SelectQueues DEF w
<1>8. ASSUME NEW s \in Src PROVE Queued(s)'
  <2>0. /\ Len(Queue(s)) = total[s] - Done(s)
        /\ \A i \in 1 .. Len(Queue(s)) :
               Queue(s)[i].k = Done(s) + i /\ Queue(s)[i].t <= 10 * window + latest[s]
        /\ \A i, j \in 1 .. Len(Queue(s)) : i <= j => Queue(s)[i].t <= Queue(s)[j].t
    BY DEF Ordered, Queued
  <2>1. CASE s \notin Taken
    BY <1>1, <1>6, <2>0, <2>1 DEF Queued
  <2>2. CASE s \in Taken
    <3>1. Len(Queue(s)') = total'[s] - Done(s)'
      <4>1. total[s] \in Nat /\ Done(s) \in Nat
        BY <1>3 DEF Room
      <4> QED BY <1>1, <1>5, <1>7, <2>0, <2>2, <4>1
    <3>2. \A i \in 1 .. Len(Queue(s)') : Queue(s)'[i].k = Done(s)' + i
      <4> SUFFICES ASSUME NEW i \in 1 .. Len(Queue(s)') PROVE Queue(s)'[i].k = Done(s)' + i
          OBVIOUS
      <4>1. i + 1 \in 1 .. Len(Queue(s)) /\ Queue(s)'[i] = Queue(s)[i + 1]
        BY <1>5, <2>2
      <4>2. Queue(s)[i + 1].k = Done(s) + (i + 1)
        BY <2>0, <4>1
      <4>3. Done(s) + (i + 1) = (Done(s) + 1) + i
        BY <1>3
      <4> QED BY <1>7, <2>2, <4>1, <4>2, <4>3
    <3>3. \A i \in 1 .. Len(Queue(s)') : Queue(s)'[i].t <= 10 * window' + latest'[s]
      BY <1>1, <1>5, <2>0, <2>2
    <3>4. \A i, j \in 1 .. Len(Queue(s)') : i <= j => Queue(s)'[i].t <= Queue(s)'[j].t
      <4> SUFFICES ASSUME NEW i \in 1 .. Len(Queue(s)'), NEW j \in 1 .. Len(Queue(s)'), i <= j
                   PROVE  Queue(s)'[i].t <= Queue(s)'[j].t
          OBVIOUS
      <4>1. /\ i + 1 \in 1 .. Len(Queue(s)) /\ Queue(s)'[i] = Queue(s)[i + 1]
            /\ j + 1 \in 1 .. Len(Queue(s)) /\ Queue(s)'[j] = Queue(s)[j + 1]
        BY <1>5, <2>2
      <4>2. i + 1 <= j + 1
        OBVIOUS
      <4> QED BY <2>0, <4>1, <4>2
    <3> QED BY <3>1, <3>2, <3>3, <3>4 DEF Queued
  <2> QED BY <2>1, <2>2
<1>9. \A s \in Src : WindowsRead(s)' = WindowsRead(s)
  BY <1>1 DEF WindowsRead
<1>10. ASSUME NEW s \in Src, NEW E \in [0 .. window -> Nat], Counts(s, E)
       PROVE  Counts(s, E)'
  <2>1. CASE s \notin Taken
    BY <1>1, <1>6, <1>9, <1>10, <2>1 DEF Counts
  <2>2. CASE s \in Taken
    <3>1. E[WindowsRead(s)'] = Done(s)' + Left(s)'
      <4>1. E[WindowsRead(s)] = Done(s) + Left(s)
        BY <1>10 DEF Counts
      <4>2. Done(s) + Left(s) = (Done(s) + 1) + (Left(s) - 1)
        BY <1>3, <1>7, <2>2
      <4> QED BY <1>7, <1>9, <2>2, <4>1, <4>2
    <3>2. \A i \in 1 .. Len(Queue(s)'), v \in 0 .. window :
             Queue(s)'[i].k > E[v] <=> Queue(s)'[i].t >= 10 * v
      BY <1>5, <1>10, <2>2 DEF Counts
    <3> QED BY <1>1, <1>9, <1>10, <3>1, <3>2 DEF Counts
  <2> QED BY <2>1, <2>2
<1>11. Windows'
  BY <1>1, <1>10 DEF Ordered, Windows, Uses
<1>12. PICK o \in Src : o \in Taken
  BY SelectQueues DEF Src
<1>13. w.t < 10 * WindowsRead("reference")
  <2>1. PICK E \in [0 .. window -> Nat] : Counts(o, E)
    BY <1>7, <1>12 DEF Ordered, Windows
  <2>2. WindowsRead(o) \in 0 .. window
    <3>1. window \in Nat /\ Len(num[o]) \in Nat
      BY DEF Room, SelType
    <3>2. Len(num[o]) <= window
      BY DEF Ordered, Windows
    <3> QED BY <3>1, <3>2 DEF WindowsRead
  <2>3. /\ E[WindowsRead(o)] = Done(o) + Left(o)
        /\ Queue(o)[1].k > E[WindowsRead(o)] <=> Queue(o)[1].t >= 10 * WindowsRead(o)
    <3>1. 1 \in 1 .. Len(Queue(o))
      BY <1>4, <1>5, <1>12
    <3> QED BY <2>1, <2>2, <3>1 DEF Counts
  <2>4. ~(Queue(o)[1].k > E[WindowsRead(o)])
    BY <1>3, <1>7, <1>12, <2>3
  <2>5. ~(w.t >= 10 * WindowsRead(o))
    BY <1>7, <1>12, <2>3, <2>4
  <2>6. w.t < 10 * WindowsRead(o)
    <3>1. \A a, v \in Nat : ~(a >= 10 * v) => a < 10 * v
      OBVIOUS
    <3>2. WindowsRead(o) \in Nat
      BY <2>2
    <3> QED BY <1>1, <2>5, <3>1, <3>2
  <2>7. WindowsRead(o) = WindowsRead("reference")
    <3>1. o = "reference" \/ (o = "control" /\ activatecontroltrigger)
      BY <1>7, <1>12 DEF Uses, Src
    <3> QED BY <3>1 DEF Ordered, Windows, WindowsRead
  <2> QED BY <2>6, <2>7
<1>14. ASSUME NEW s \in Src, NEW j \in 1 .. Len(Queue(s)')
       PROVE  w.t <= Queue(s)'[j].t /\ (s \notin Taken => w.t < Queue(s)'[j].t)
  <2>0. \A i, k \in 1 .. Len(Queue(s)) : i <= k => Queue(s)[i].t <= Queue(s)[k].t
    BY DEF Ordered, Queued
  <2>1. CASE s \in Taken
    <3>1. j + 1 \in 1 .. Len(Queue(s)) /\ Queue(s)'[j] = Queue(s)[j + 1]
      BY <1>5, <2>1
    <3>2. 1 \in 1 .. Len(Queue(s)) /\ 1 <= j + 1
      BY <1>4, <3>1
    <3>3. Queue(s)[1].t <= Queue(s)[j + 1].t
      BY <2>0, <3>1, <3>2
    <3> QED BY <1>7, <2>1, <3>1, <3>3
  <2>2. CASE s \notin Taken
    <3>1. Queue(s)' = Queue(s) /\ j \in 1 .. Len(Queue(s)) /\ Queue(s)[j].t \in Nat
      BY <1>4, <1>6, <2>2
    <3>2. CASE Queue(s) # <<>> /\ Queue(s)[1].t > w.t
      <4>1. 1 \in 1 .. Len(Queue(s)) /\ 1 <= j
        BY <1>4, <3>1
      <4>2. Queue(s)[1].t <= Queue(s)[j].t /\ Queue(s)[1].t \in Nat
        BY <1>4, <2>0, <3>1, <4>1
      <4>3. w.t < Queue(s)[j].t
        BY <1>1, <3>1, <3>2, <4>2
      <4> QED BY <1>1, <3>1, <4>3
    <3>3. CASE Left(s) = 0
      <4>1. Uses(s)
        <5>1. SUFFICES ASSUME ~Uses(s) PROVE FALSE
            OBVIOUS
        <5>2. qnum[s] = 0 /\ fifo[s] = <<>> /\ nprimitive[s] \in Nat
          BY <5>1 DEF Machine, SelType
        <5>3. ~Held(s)
          BY <5>2 DEF Held
        <5>4. Queue(s) = <<>>
          BY <5>2, <5>3 DEF Queue
        <5> QED BY <3>1, <5>4
      <4>2. PICK E \in [0 .. window -> Nat] : Counts(s, E)
        BY <4>1 DEF Ordered, Windows
      <4>3. WindowsRead(s) \in 0 .. window /\ WindowsRead(s) \in Nat
        <5>1. window \in Nat /\ Len(num[s]) \in Nat
          BY DEF Room, SelType
        <5>2. Len(num[s]) <= window
          BY DEF Ordered, Windows
        <5> QED BY <5>1, <5>2 DEF WindowsRead
      <4>4. /\ E[WindowsRead(s)] = Done(s) + 0
            /\ Queue(s)[j].k > E[WindowsRead(s)] <=> Queue(s)[j].t >= 10 * WindowsRead(s)
        BY <3>1, <3>3, <4>2, <4>3 DEF Counts
      <4>5. Queue(s)[j].k = Done(s) + j
        BY <3>1 DEF Ordered, Queued
      <4>6. Queue(s)[j].t >= 10 * WindowsRead(s)
        BY <1>3, <4>4, <4>5
      <4>7. WindowsRead(s) = WindowsRead("reference")
        <5>1. s = "reference" \/ (s = "control" /\ activatecontroltrigger)
          BY <4>1 DEF Uses, Src
        <5> QED BY <5>1 DEF Ordered, Windows, WindowsRead
      <4>8. \A a, c, v \in Nat : a < 10 * v /\ c >= 10 * v => a < c /\ a <= c
        OBVIOUS
      <4>9. w.t < Queue(s)[j].t /\ w.t <= Queue(s)[j].t
        <5>1. w.t < 10 * WindowsRead(s)
          BY <1>13, <4>7
        <5> QED BY <1>1, <3>1, <4>3, <4>6, <4>8, <5>1
      <4> QED BY <3>1, <4>9
    <3>4. Left(s) = 0 \/ (Queue(s) # <<>> /\ Queue(s)[1].t > w.t)
      BY <2>2, SelectQueues DEF w
    <3> QED BY <3>2, <3>3, <3>4
  <2> QED BY <2>1, <2>2
<1>15. \A s \in Src : Place(s, w) = IF s \in Taken THEN Done(s) + 1 ELSE 0
  BY SelectQueues DEF w
<1>16. Merged'
  <2>1. ASSUME NEW s \in Src, NEW i \in 1 .. n + 1, Place(s, m'[i]) # 0
        PROVE  Place(s, m'[i]) = Selected(s, i)'
    <3>1. CASE i \in 1 .. n
      <4>1. m'[i] = m[i] /\ Selected(s, i)' = Selected(s, i)
        BY <1>2, <1>3, <3>1
      <4> QED BY <2>1, <3>1, <4>1 DEF Ordered, Merged, m, n
    <3>2. CASE i = n + 1
      <4>1. m'[i] = w
        BY <1>2, <3>2
      <4>2. s \in Taken /\ Place(s, w) = Done(s) + 1
        BY <1>15, <2>1, <4>1
      <4> QED BY <1>3, <1>7, <3>2, <4>1, <4>2
    <3> QED BY <1>n, <3>1, <3>2, Zenon
  <2>2. \A i \in 1 .. n + 1 : m'[i].t < 10 * WindowsRead("reference")'
    <3>1. \A i \in 1 .. n : m[i].t < 10 * WindowsRead("reference")
      BY DEF Ordered, Merged, m, n
    <3>2. WindowsRead("reference")' = WindowsRead("reference")
      BY <1>9 DEF Src
    <3> QED BY <1>1, <1>2, <1>13, <3>1, <3>2
  <2>3. ASSUME NEW i \in 1 .. n + 1, NEW j \in 1 .. n + 1, i < j
        PROVE  m'[i].t <= m'[j].t
    <3>1. i \in 1 .. n
      BY <1>1, <2>3
    <3>2. CASE j \in 1 .. n
      BY <1>2, <2>3, <3>1, <3>2 DEF Ordered, Merged, m, n
    <3>3. CASE j = n + 1
      <4>1. 1 \in 1 .. Len(Queue(o))
        BY <1>4, <1>5, <1>12
      <4>2. m[i].t <= Queue(o)[1].t
        BY <3>1, <4>1 DEF Ordered, Merged, m, n
      <4> QED BY <1>2, <1>7, <1>12, <3>1, <3>3, <4>2
    <3> QED BY <1>n, <3>2, <3>3, Zenon
  <2>4. ASSUME NEW s \in Src, NEW i \in 1 .. n + 1, NEW j \in 1 .. Len(Queue(s)')
        PROVE  m'[i].t <= Queue(s)'[j].t
    <3>1. CASE i \in 1 .. n
      <4>1. PICK k \in 1 .. Len(Queue(s)) : Queue(s)'[j] = Queue(s)[k]
        BY <1>5, <1>6
      <4>2. m[i].t <= Queue(s)[k].t
        BY <3>1 DEF Ordered, Merged, m, n
      <4> QED BY <1>2, <3>1, <4>1, <4>2
    <3>2. CASE i = n + 1
      BY <1>2, <1>14, <3>2
    <3> QED BY <1>n, <3>1, <3>2, Zenon
  <2> QED BY <1>2, <2>1, <2>2, <2>3, <2>4 DEF Merged, m
<1>17. Joined'
  <2>1. ASSUME NEW s \in Src, Place(s, w) = 0 PROVE s \notin Taken
    <3>1. Done(s) + 1 # 0
      BY <1>3
    <3> QED BY <1>15, <2>1, <3>1
  <2>2. \A s \in Src : Place(s, m'[Len(m')]) = 0 =>
           \A j \in 1 .. Len(Queue(s)') : m'[Len(m')].t < Queue(s)'[j].t
    BY <1>2, <1>14, <2>1
  <2>3. ASSUME NEW i \in 1 .. Len(m') - 1 PROVE ~Split(m'[i], m'[i + 1])
    <3>1. i \in 1 .. n
      BY <1>1, <1>2
    <3>2. CASE i \in 1 .. n - 1
      <4>1. i + 1 \in 1 .. n
        BY <1>1, <3>2
      <4>2. m'[i] = m[i] /\ m'[i + 1] = m[i + 1]
        BY <1>2, <3>1, <4>1
      <4> QED BY <3>2, <4>2 DEF Ordered, Joined, m, n
    <3>3. CASE i = n
      <4>1. m'[i] = m[n] /\ m'[i + 1] = w /\ m # <<>> /\ m[n].t \in Nat
        BY <1>1, <1>2, <3>1, <3>3, EmptySeq DEF n
      <4>2. SUFFICES ASSUME Split(m[n], w) PROVE FALSE
          BY <4>1
      <4>3. m[n].t = w.t
        BY <4>2, Zenon DEF Split
      <4>4. PICK s \in Src : Place(s, m[n]) = 0 /\ Place(s, w) # 0
        <5>0. \A a : Place("reference", a) = a.r /\ Place("control", a) = a.c
          BY DEF Place
        <5>1. CASE m[n].c = 0 /\ w.r = 0
          <6>1. "reference" \notin Taken
            <7>1. "reference" \in Taken => Done("reference") + 1 # 0
              BY <1>3 DEF Src
            <7> QED BY <1>15, <5>0, <5>1, <7>1 DEF Src
          <6>2. o = "control"
            BY <1>12, <6>1 DEF Src
          <6>3. Done(o) + 1 # 0
            BY <1>3
          <6> QED BY <1>12, <1>15, <5>0, <5>1, <6>2, <6>3
        <5>2. CASE m[n].r = 0 /\ w.r # 0
          BY <5>0, <5>2 DEF Src
        <5> QED BY <4>2, <5>1, <5>2, Zenon DEF Split
      <4>5. s \in Taken
        BY <1>15, <4>4
      <4>6. 1 \in 1 .. Len(Queue(s)) /\ Queue(s)[1].t = w.t
        BY <1>4, <1>5, <1>7, <4>5
      <4>7. m[n].t < Queue(s)[1].t
        BY <4>1, <4>4, <4>6 DEF Ordered, Joined, m, n
      <4> QED BY <1>1, <4>1, <4>3, <4>6, <4>7
    <3> QED BY <1>1, <3>1, <3>2, <3>3
  <2> QED BY <2>2, <2>3 DEF Joined, m
<1> QED BY <1>8, <1>11, <1>16, <1>17 DEF Ordered

-----------------------------------------------------------------------------
(***************************************************************************)
(* The invariant and what it says of the words selected.                    *)
(***************************************************************************)
LEMMA MInvStep == MInv /\ [Next]_vars => MInv'
<1> SUFFICES ASSUME MInv, [Next]_vars PROVE MInv'
    OBVIOUS
<1>1. Room /\ SelType /\ Machine /\ (NothingLost => Ordered)
  BY DEF MInv
<1>2. Room' /\ SelType' /\ Machine'
  BY <1>1, RoomStep, SelTypeStep, MachineStep
<1>3. ASSUME NothingLost' PROVE Ordered
  <2>1. overflow \subseteq overflow'
    BY DEF Next, SubReceive, SubPrimitiveInPacket, SubReadFifo, Wait1Packet, ReadFifo,
           SelectData, TakeMerged, vars
  <2> QED BY <1>1, <1>3, <2>1 DEF NothingLost
<1>4. ASSUME NothingLost' PROVE Ordered'
  <2>1. CASE UNCHANGED vars
    <3>1. UNCHANGED <<fifo, num, q, qnum, FSMReadFifo, nprimitive, readfifo, merged,
                      received, latest, total, window>>
      BY <2>1 DEF vars, readVars, inputVars
    <3>2. \A s \in Src : Queue(s)' = Queue(s) /\ Left(s)' = Left(s)
      BY <3>1 DEF Queue, Held, Left
    <3> QED BY <1>1, <1>2, <1>3, <1>4, <3>1, <3>2, SameQueues
  <2>2. ASSUME NEW s \in Src, NEW t \in Slices, SubReceive(s, t) PROVE Ordered'
    BY <1>1, <1>2, <1>3, <1>4, <2>2, ReceiveOrdered
  <2>3. CASE SubPrimitiveInPacket
    BY <1>1, <1>2, <1>3, <1>4, <2>3, NumberOrdered
  <2>4. CASE Wait1Packet
    BY <1>1, <1>2, <1>3, <1>4, <2>4, WaitOrdered
  <2>5. CASE ReadFifo
    BY <1>1, <1>2, <1>3, <1>4, <2>5, ReadOrdered
  <2>6. CASE SelectData
    BY <1>1, <1>2, <1>3, <1>4, <2>6, SelectOrdered
  <2>7. CASE TakeMerged
    <3>1. UNCHANGED <<fifo, num, q, qnum, FSMReadFifo, nprimitive, readfifo, merged,
                      received, latest, total, window>>
      BY <2>7 DEF TakeMerged, readVars, inputVars
    <3>2. \A s \in Src : Queue(s)' = Queue(s) /\ Left(s)' = Left(s)
      BY <3>1 DEF Queue, Held, Left
    <3> QED BY <1>1, <1>2, <1>3, <1>4, <3>1, <3>2, SameQueues
  <2> QED BY <2>1, <2>2, <2>3, <2>4, <2>5, <2>6, <2>7 DEF Next, SubReadFifo
<1> QED BY <1>2, <1>4 DEF MInv

\* The invariant of the merge.
LEMMA MergeInvariant == Spec => []MInv
<1>1. MInv /\ [Next]_vars => MInv'
  BY MInvStep
<1> QED BY InitMInv, <1>1, PTL DEF Spec

\* SubReadFifo selects every primitive of either detector once and in the order it came,
\* as long as no FIFO before it was full, for any numbers and times of primitives.
THEOREM ExactlyOnceAlways == Spec => []ExactlyOnce
<1>1. MInv => ExactlyOnce
  BY DEF MInv, Ordered, Merged, ExactlyOnce
<1> QED BY <1>1, MergeInvariant, PTL

\* MERGEDFIFO is fed in order of time: what is selected is not later than anything that
\* waits or can still arrive.
THEOREM InTimeOrderAlways == Spec => []InTimeOrder
<1>1. MInv => InTimeOrder
  BY DEF MInv, Ordered, Merged, InTimeOrder
<1> QED BY <1>1, MergeInvariant, PTL

\* Primitives of the two detectors in the same slice are joined in one word by
\* SelectData, and never follow each other as two.
THEOREM SameSliceOnceAlways == Spec => []SameSliceOnce
<1>1. MInv => SameSliceOnce
  BY DEF MInv, Ordered, Joined, Split, SameSliceOnce
<1> QED BY <1>1, MergeInvariant, PTL

\* When SubReadFifo waits between two windows all primitives of the windows it has read
\* the numbers of have been selected, and none of the next windows.
THEOREM WindowCompleteAlways == Spec => []WindowComplete
<1>1. ASSUME MInv PROVE WindowComplete
  <2> SUFFICES ASSUME NothingLost, FSMReadFifo = "Wait1Packet", NEW s \in Src, Uses(s)
               PROVE  /\ Done(s) + Len(fifo[s]) = total[s]
                      /\ \A i \in 1 .. Len(fifo[s]) : fifo[s][i].t >= 10 * WindowsRead(s)
                      /\ \A i \in 1 .. Len(merged) : merged[i].t < 10 * WindowsRead(s)
      BY DEF WindowComplete, Done
  <2>1. Room /\ SelType /\ Machine /\ Ordered
    BY <1>1 DEF MInv
  <2>2. Queue(s) = fifo[s] /\ Left(s) = 0
    BY DEF Queue, Held, Left
  <2>3. Len(fifo[s]) \in Nat /\ Done(s) \in Nat /\ total[s] \in Nat
    BY <2>1, <2>2, QueueType DEF Room
  <2>4. Done(s) + Len(fifo[s]) = total[s]
    <3>1. Len(fifo[s]) = total[s] - Done(s)
      BY <2>1, <2>2 DEF Ordered, Queued
    <3> QED BY <2>3, <3>1
  <2>5. PICK E \in [0 .. window -> Nat] : Counts(s, E)
    BY <2>1 DEF Ordered, Windows
  <2>6. WindowsRead(s) \in 0 .. window
    <3>1. window \in Nat /\ Len(num[s]) \in Nat
      BY <2>1 DEF Room, SelType
    <3>2. Len(num[s]) <= window
      BY <2>1 DEF Ordered, Windows
    <3> QED BY <3>1, <3>2 DEF WindowsRead
  <2>7. \A i \in 1 .. Len(fifo[s]) : fifo[s][i].t >= 10 * WindowsRead(s)
    <3> SUFFICES ASSUME NEW i \in 1 .. Len(fifo[s]) PROVE fifo[s][i].t >= 10 * WindowsRead(s)
        OBVIOUS
    <3>1. /\ E[WindowsRead(s)] = Done(s) + 0
          /\ fifo[s][i].k > E[WindowsRead(s)] <=> fifo[s][i].t >= 10 * WindowsRead(s)
      BY <2>2, <2>5, <2>6 DEF Counts
    <3>2. fifo[s][i].k = Done(s) + i
      BY <2>1, <2>2 DEF Ordered, Queued
    <3> QED BY <2>3, <3>1, <3>2
  <2>8. \A i \in 1 .. Len(merged) : merged[i].t < 10 * WindowsRead(s)
    <3>1. s = "reference" \/ (s = "control" /\ activatecontroltrigger)
      BY DEF Uses, Src
    <3>2. WindowsRead(s) = WindowsRead("reference")
      BY <2>1, <3>1 DEF Ordered, Windows, WindowsRead
    <3> QED BY <2>1, <3>2 DEF Ordered, Merged
  <2> QED BY <2>4, <2>7, <2>8
<1> QED BY <1>1, MergeInvariant, PTL

=============================================================================
