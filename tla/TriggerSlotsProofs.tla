-------------------------- MODULE TriggerSlotsProofs --------------------------
(***************************************************************************)
(* Proofs about the triggers: whatever the masks, the downscalings and the  *)
(* sizes, the timestamps of the triggers of a burst go up, each request is  *)
(* up for one clock, and what the LUT collects for a reference time is,     *)
(* but for strays, exactly what is coincident with it.                      *)
(***************************************************************************)
EXTENDS TriggerSlots, SequenceTheorems, TLAPS

SlotTime == Nat \X SUBSET {"reference", "control"}

SlotTypeOK ==
    /\ BURST125 \in BOOLEAN /\ FSMResetCounters \in {"S0", "S1"}
    /\ window \in Nat /\ merged \in Int /\ merged >= -1 /\ copies \in Nat
    /\ asked \in [Det -> [Slots -> Nat]]
    /\ MERGEDFIFO \in Seq(SlotTime) /\ q \in SlotTime
    /\ LUT # None => LUT[1] \in Nat
    /\ triggers \in Seq(Nat) /\ old_trigger_timestamp \in Nat

\* A burst of which the first clock is over.
Running == BURST125 /\ FSMResetCounters = "S1"

Reads == FSMReadRam # "ReadFifo"

\* The first slot that may still be merged.
NextSlot == IF merged < 0 THEN 0 ELSE merged

\* What waits in MERGEDFIFO is in the order of slots, and so is what will be merged.
InOrder ==
    /\ \A i, j \in 1 .. Len(MERGEDFIFO) : i <= j => MERGEDFIFO[i][1] <= MERGEDFIFO[j][1]
    /\ \A j \in 1 .. Len(MERGEDFIFO) : MERGEDFIFO[j][1] <= NextSlot

\* Slot s does not come after anything that waits.
First(s) ==
    /\ \A j \in 1 .. Len(MERGEDFIFO) : s <= MERGEDFIFO[j][1]
    /\ s <= NextSlot

\* Reference times go through the reader and the LUT in the order of slots.
SlotsInOrder ==
    Running =>
       /\ InOrder
       /\ Reads => First(q[1])
       /\ LUT # None => First(LUT[1]) /\ (Reads => LUT[1] <= q[1])

\* No trigger is later than slot s.
Decided(s) == \A i \in 1 .. Len(triggers) : triggers[i] <= Timestamp(s)

\* No trigger is later than what has still to be decided, and the timestamp that is
\* kept is that of the last one.
TriggersBehind ==
    /\ \A i, j \in 1 .. Len(triggers) : i < j => triggers[i] < triggers[j]
    /\ Running =>
          /\ triggers # <<>> => triggers[Len(triggers)] = old_trigger_timestamp
          /\ LUT # None => Decided(LUT[1])
          /\ Reads => Decided(q[1])
          /\ \A j \in 1 .. Len(MERGEDFIFO) : Decided(MERGEDFIFO[j][1])
          /\ Decided(NextSlot)

\* The LUT answers when the reader has begun anew, and no control trigger is up then.
OneAnswer ==
    /\ LUT # None => FSMReadRam \in {"ReadFifo", "SetRamAddress1"}
    /\ Running /\ control_signal => LUT = None

SlotsInv == SlotTypeOK /\ SlotsInOrder /\ TriggersBehind /\ OneAnswer

-----------------------------------------------------------------------------
(***************************************************************************)
(* Facts about numbers and sequences.                                       *)
(***************************************************************************)
\* Slots in order have timestamps in order.
LEMMA TimestampGrows ==
    ASSUME NEW a \in Nat, NEW b \in Nat, a <= b
    PROVE  Timestamp(a) \in Nat /\ Timestamp(b) \in Nat /\ Timestamp(a) <= Timestamp(b)
<1> DEFINE P == PerTimestamp
<1>1. P \in Nat \ {0}
  BY SizeAssumption
<1> HIDE DEF P
<1>2. \A n \in Nat : n \div P \in Nat /\ n % P \in 0 .. P - 1 /\ n = P * (n \div P) + (n % P)
  BY <1>1
<1>3. a \div P <= b \div P
  <2>1. ASSUME a \div P > b \div P
        PROVE  FALSE
    <3> DEFINE x == a \div P
               y == b \div P
    <3>1. x \in Nat /\ y \in Nat /\ x >= y + 1
      BY <1>2, <2>1
    <3>2. a = P * x + (a % P) /\ b = P * y + (b % P)
      BY <1>2
    <3>3. a % P \in Nat /\ b % P \in Nat /\ b % P < P
      BY <1>1, <1>2
    <3> HIDE DEF x, y
    <3>4. P * x >= P * (y + 1) /\ P * (y + 1) = P * y + P /\ P * x \in Nat /\ P * y \in Nat
      BY <1>1, <3>1
    <3> QED BY <1>1, <3>1, <3>2, <3>3, <3>4
  <2> QED BY <1>2, <2>1
<1> QED BY <1>2, <1>3 DEF P, Timestamp

\* What has been decided before a slot has been before a later one.
LEMMA DecidedLater ==
    ASSUME SlotTypeOK, NEW a \in Nat, NEW b \in Nat, a <= b, Decided(a)
    PROVE  Decided(b)
<1>1. Timestamp(a) \in Nat /\ Timestamp(b) \in Nat /\ Timestamp(a) <= Timestamp(b)
  BY TimestampGrows
<1>2. \A i \in 1 .. Len(triggers) : triggers[i] \in Nat
  BY ElementOfSeq DEF SlotTypeOK
<1> QED BY <1>1, <1>2 DEF Decided

-----------------------------------------------------------------------------
(***************************************************************************)
(* A clock of the merge.                                                    *)
(***************************************************************************)
\* The words that wait carry a slot each.
LEMMA SlotsOfFifo ==
    ASSUME SlotTypeOK
    PROVE  \A j \in 1 .. Len(MERGEDFIFO) :
              MERGEDFIFO[j] \in SlotTime /\ MERGEDFIFO[j][1] \in Nat
<1>1. \A j \in 1 .. Len(MERGEDFIFO) : MERGEDFIFO[j] \in SlotTime
  BY ElementOfSeq DEF SlotTypeOK
<1> QED BY <1>1 DEF SlotTime

\* The next slot to be merged is that of the last one merged or a later one.
LEMMA NextSlotGrows ==
    ASSUME merged \in Int, merged >= -1, merged' \in Int, merged <= merged'
    PROVE  /\ NextSlot \in Nat /\ NextSlot' \in Nat
           /\ NextSlot <= NextSlot' /\ merged' <= NextSlot'
BY DEF NextSlot

\* A slot is a number.
LEMMA SlotsOK == \A s \in Slots : s \in Nat
<1>1. MaxWindow * PerWindow - 1 \in Int
  BY SizeAssumption, BoundAssumption
<1> QED BY <1>1 DEF Slots

\* A word that is popped is the first one; what is merged comes after all that waits.
LEMMA MergeWords ==
    ASSUME SlotTypeOK, Merge
    PROVE  /\ window' \in Nat /\ merged' \in Int /\ merged' >= -1 /\ merged' >= merged
           /\ copies' \in Nat
           /\ MERGEDFIFO' \in Seq(SlotTime)
           /\ Pops => 1 \in 1 .. Len(MERGEDFIFO) /\ q' = MERGEDFIFO[1]
           /\ ~Pops => q' = q
           /\ \E n \in 0 .. 1 :
                 /\ n = 1 <=> Pops
                 /\ \A j \in 1 .. Len(MERGEDFIFO') :
                       \/ j + n \in 1 .. Len(MERGEDFIFO) /\ MERGEDFIFO'[j] = MERGEDFIFO[j + n]
                       \/ /\ j + n = Len(MERGEDFIFO) + 1 /\ j = Len(MERGEDFIFO')
                          /\ NextSlot <= MERGEDFIFO'[j][1] /\ MERGEDFIFO'[j][1] = merged'
<1> DEFINE kept == IF Pops THEN Tail(MERGEDFIFO) ELSE MERGEDFIFO
           n == IF Pops THEN 1 ELSE 0
<1>1. MERGEDFIFO \in Seq(SlotTime) /\ Len(MERGEDFIFO) \in Nat /\ n \in 0 .. 1 /\ (n = 1 <=> Pops)
  BY DEF SlotTypeOK
<1>2. Pops => MERGEDFIFO # <<>> /\ Len(MERGEDFIFO) > 0
  BY <1>1, EmptySeq DEF Pops
<1>3. kept \in Seq(SlotTime) /\ Len(kept) = Len(MERGEDFIFO) - n
      /\ \A j \in 1 .. Len(kept) : j + n \in 1 .. Len(MERGEDFIFO) /\ kept[j] = MERGEDFIFO[j + n]
  <2>1. CASE Pops
    <3>1. /\ Tail(MERGEDFIFO) \in Seq(SlotTime) /\ Len(Tail(MERGEDFIFO)) = Len(MERGEDFIFO) - 1
          /\ \A j \in 1 .. Len(Tail(MERGEDFIFO)) : Tail(MERGEDFIFO)[j] = MERGEDFIFO[j + 1]
      BY <1>1, <1>2, <2>1, HeadTailProperties
    <3> QED BY <1>1, <1>2, <2>1, <3>1
  <2>2. CASE ~Pops
    BY <1>1, <2>2
  <2> QED BY <2>1, <2>2
<1>4. window' \in Nat /\ copies' \in Nat
  BY DEF Merge, SlotTypeOK, Words
<1>5. /\ Pops => 1 \in 1 .. Len(MERGEDFIFO) /\ q' = MERGEDFIFO[1]
      /\ ~Pops => q' = q
  BY <1>1, <1>2 DEF Merge
<1>6. \/ MERGEDFIFO' = kept /\ merged' = merged
      \/ \E s \in ToMerge : MERGEDFIFO' = Append(kept, <<s, KindsOf(s)>>) /\ merged' = s
  BY DEF Merge
<1> HIDE DEF n, kept
<1>7. CASE MERGEDFIFO' = kept /\ merged' = merged
  BY <1>1, <1>3, <1>4, <1>5, <1>7 DEF SlotTypeOK
<1>8. CASE \E s \in ToMerge : MERGEDFIFO' = Append(kept, <<s, KindsOf(s)>>) /\ merged' = s
  <2>1. PICK s \in ToMerge : MERGEDFIFO' = Append(kept, <<s, KindsOf(s)>>) /\ merged' = s
    BY <1>8
  <2>2. s \in Slots /\ merged <= s
    BY DEF ToMerge
  <2>3. s \in Nat /\ NextSlot <= s /\ merged <= s
    BY <2>2, SlotsOK DEF SlotTypeOK, NextSlot
  <2> DEFINE w == <<s, KindsOf(s)>>
  <2>4. w \in SlotTime /\ w[1] = s
    BY <2>3 DEF SlotTime, KindsOf
  <2> HIDE DEF w
  <2>5. MERGEDFIFO' = Append(kept, w)
    BY <2>1 DEF w
  <2>6. /\ Append(kept, w) \in Seq(SlotTime)
        /\ Len(Append(kept, w)) = Len(kept) + 1
        /\ \A j \in 1 .. Len(kept) : Append(kept, w)[j] = kept[j]
        /\ Append(kept, w)[Len(kept) + 1] = w
    BY <1>3, <2>4, AppendProperties
  <2>7. Len(kept) \in Nat
    BY <1>3
  <2>8. \A j \in 1 .. Len(MERGEDFIFO') :
           \/ j + n \in 1 .. Len(MERGEDFIFO) /\ MERGEDFIFO'[j] = MERGEDFIFO[j + n]
           \/ /\ j + n = Len(MERGEDFIFO) + 1 /\ j = Len(MERGEDFIFO')
              /\ NextSlot <= MERGEDFIFO'[j][1] /\ MERGEDFIFO'[j][1] = merged'
    BY <1>1, <1>3, <2>1, <2>3, <2>4, <2>5, <2>6, <2>7
  <2>9. merged' \in Int /\ merged' >= -1 /\ merged' >= merged
    BY <2>1, <2>3 DEF SlotTypeOK
  <2> QED BY <1>1, <1>4, <1>5, <2>5, <2>6, <2>8, <2>9
<1> QED BY <1>6, <1>7, <1>8

\* The order is kept, the word that is popped comes first, and what came first before
\* still does.
LEMMA MergeOrder ==
    ASSUME SlotTypeOK, InOrder, Merge
    PROVE  /\ InOrder'
           /\ Pops => First(q[1])'
           /\ \A s \in Nat : First(s) => First(s)' /\ (Pops => s <= q'[1])
<1>1. /\ merged' \in Int /\ merged' >= merged
      /\ MERGEDFIFO' \in Seq(SlotTime)
      /\ Pops => 1 \in 1 .. Len(MERGEDFIFO) /\ q' = MERGEDFIFO[1]
  BY MergeWords
<1>2. PICK n \in 0 .. 1 :
        /\ n = 1 <=> Pops
        /\ \A j \in 1 .. Len(MERGEDFIFO') :
              \/ j + n \in 1 .. Len(MERGEDFIFO) /\ MERGEDFIFO'[j] = MERGEDFIFO[j + n]
              \/ /\ j + n = Len(MERGEDFIFO) + 1 /\ j = Len(MERGEDFIFO')
                 /\ NextSlot <= MERGEDFIFO'[j][1] /\ MERGEDFIFO'[j][1] = merged'
  BY MergeWords
<1>3. \A j \in 1 .. Len(MERGEDFIFO) : MERGEDFIFO[j][1] \in Nat
  BY SlotsOfFifo
<1>4. merged \in Int /\ Len(MERGEDFIFO) \in Nat /\ Len(MERGEDFIFO') \in Nat
  BY <1>1 DEF SlotTypeOK
<1>10. NextSlot \in Nat /\ NextSlot' \in Nat /\ NextSlot <= NextSlot' /\ merged' <= NextSlot'
  BY <1>1, <1>4, NextSlotGrows DEF SlotTypeOK
<1>5. \A j \in 1 .. Len(MERGEDFIFO') : MERGEDFIFO'[j][1] <= NextSlot'
  BY <1>1, <1>10, <1>2, <1>3, <1>4 DEF InOrder
<1>6. \A i, j \in 1 .. Len(MERGEDFIFO') : i <= j => MERGEDFIFO'[i][1] <= MERGEDFIFO'[j][1]
  <2> SUFFICES ASSUME NEW i \in 1 .. Len(MERGEDFIFO'), NEW j \in 1 .. Len(MERGEDFIFO'), i < j
               PROVE  MERGEDFIFO'[i][1] <= MERGEDFIFO'[j][1]
    <3>1. \A k \in 1 .. Len(MERGEDFIFO') : MERGEDFIFO'[k][1] \in Int
      BY <1>1, <1>2, <1>3, <1>4
    <3> QED BY <1>4, <3>1
  <2>1. i + n \in 1 .. Len(MERGEDFIFO) /\ MERGEDFIFO'[i] = MERGEDFIFO[i + n]
    BY <1>2, <1>4
  <2>2. CASE j + n \in 1 .. Len(MERGEDFIFO) /\ MERGEDFIFO'[j] = MERGEDFIFO[j + n]
    BY <2>1, <2>2 DEF InOrder
  <2>3. CASE NextSlot <= MERGEDFIFO'[j][1] /\ MERGEDFIFO'[j][1] = merged'
    <3>1. MERGEDFIFO[i + n][1] <= NextSlot /\ MERGEDFIFO[i + n][1] \in Nat
      BY <1>3, <2>1 DEF InOrder
    <3> QED BY <1>1, <1>4, <1>10, <2>1, <2>3, <3>1
  <2> QED BY <1>2, <2>2, <2>3
<1>7. InOrder'
  BY <1>5, <1>6 DEF InOrder
<1>8. ASSUME NEW s \in Nat, First(s)
      PROVE  First(s)' /\ (Pops => s <= q'[1])
  <2>1. ASSUME NEW j \in 1 .. Len(MERGEDFIFO')
        PROVE  s <= MERGEDFIFO'[j][1]
    <3>1. \A i \in 1 .. Len(MERGEDFIFO) : s <= MERGEDFIFO[i][1]
      BY <1>8 DEF First
    <3>2. s <= NextSlot
      BY <1>8 DEF First
    <3>3. CASE j + n \in 1 .. Len(MERGEDFIFO) /\ MERGEDFIFO'[j] = MERGEDFIFO[j + n]
      BY <3>1, <3>3
    <3>4. CASE NextSlot <= MERGEDFIFO'[j][1] /\ MERGEDFIFO'[j][1] = merged'
      BY <1>1, <1>10, <3>2, <3>4
    <3> QED BY <1>2, <3>3, <3>4
  <2>2. s <= NextSlot'
    <3>1. s <= NextSlot
      BY <1>8 DEF First
    <3> QED BY <1>4, <1>10, <3>1
  <2>3. Pops => s <= q'[1]
    BY <1>1, <1>8 DEF First
  <2> QED BY <2>1, <2>2, <2>3 DEF First
<1>9. ASSUME Pops
      PROVE  First(q[1])'
  <2>1. q'[1] \in Nat /\ q'[1] <= NextSlot
        /\ \A j \in 1 .. Len(MERGEDFIFO) : q'[1] <= MERGEDFIFO[j][1]
    BY <1>1, <1>3, <1>4, <1>9 DEF InOrder
  <2>2. First(q'[1])
    BY <2>1 DEF First
  <2> QED BY <1>8, <2>1, <2>2 DEF First
<1> QED BY <1>7, <1>8, <1>9

-----------------------------------------------------------------------------
(***************************************************************************)
(* A clock of the reader and of the decision.                               *)
(***************************************************************************)
\* The LUT answers for the slot that the reader has finished; a slot is read after it
\* has been popped.
LEMMA ReaderStep ==
    ASSUME NEW new, SubReadRam(new)
    PROVE  /\ LUT' # None => /\ Reads /\ LUT'[1] = q[1]
                             /\ FSMReadRam' \in {"ReadFifo", "SetRamAddress1"}
                             /\ Reads' => Pops
           /\ Reads' => Pops \/ Reads
<1>1. CASE ReadFifo
  BY <1>1 DEF ReadFifo, Reads
<1>2. CASE SetRamAddress1(new)
  BY <1>2 DEF SetRamAddress1, Reads
<1>3. CASE SetDetector1(new)
  BY <1>3 DEF SetDetector1, Reads
<1>4. CASE ReadRam1(new)
  BY <1>4 DEF ReadRam1, Reads
<1>5. CASE ReadRam1_2
  BY <1>5 DEF ReadRam1_2, Reads
<1>6. CASE ReadRam1_3
  <2>1. /\ LUT' = <<q[1], q[2], Collected(q_b), wanted>>
        /\ FSMReadRam' = IF Pops THEN "SetRamAddress1" ELSE "ReadFifo"
        /\ FSMReadRam = "ReadRam1_3"
    BY <1>6 DEF ReadRam1_3
  <2>2. LUT'[1] = q[1]
    BY <2>1
  <2> QED BY <2>1, <2>2 DEF Reads
<1> QED BY <1>1, <1>2, <1>3, <1>4, <1>5, <1>6 DEF SubReadRam

\* A trigger is that of the LUT's slot and is told from the last one.
LEMMA TriggerStep ==
    ASSUME SlotTypeOK, SubTrigger
    PROVE  \/ triggers' = triggers /\ old_trigger_timestamp' = old_trigger_timestamp
           \/ /\ BURST125 /\ LUT # None
              /\ Timestamp(LUT[1]) # old_trigger_timestamp
              /\ triggers' = Append(triggers, Timestamp(LUT[1]))
              /\ old_trigger_timestamp' = Timestamp(LUT[1])
<1>1. CASE BURST125 /\ Accepts
  <2>1. LUT # None /\ Timestamp(LUT[1]) # old_trigger_timestamp
    BY <1>1 DEF Accepts, rdready
  <2>2. Decide
    BY <1>1 DEF SubTrigger
  <2> QED BY <1>1, <2>1, <2>2 DEF Decide
<1>2. CASE BURST125 /\ ~Accepts
  BY <1>2 DEF SubTrigger
<1>3. CASE ~BURST125
  BY <1>3 DEF SubTrigger
<1> QED BY <1>1, <1>2, <1>3

\* No trigger is later than a slot from which on none had been, nor than one that comes
\* after the slot decided in this clock.
LEMMA DecidedStays ==
    ASSUME SlotTypeOK, SubTrigger,
           NEW y \in Nat, Decided(y), LUT # None => LUT[1] <= y,
           NEW s \in Nat, y <= s
    PROVE  Decided(s)'
<1>1. Decided(s)
  BY DecidedLater
<1>2. CASE triggers' = triggers
  BY <1>1, <1>2 DEF Decided
<1>3. CASE /\ LUT # None
           /\ triggers' = Append(triggers, Timestamp(LUT[1]))
  <2> DEFINE t == Timestamp(LUT[1])
  <2>1. LUT[1] \in Nat /\ LUT[1] <= s
    BY <1>3 DEF SlotTypeOK
  <2>2. t \in Nat /\ t <= Timestamp(s)
    BY <2>1, TimestampGrows
  <2>3. triggers \in Seq(Nat) /\ triggers' = Append(triggers, t) /\ Len(triggers) \in Nat
    BY <1>3 DEF SlotTypeOK
  <2> HIDE DEF t
  <2>4. /\ Len(triggers') = Len(triggers) + 1
        /\ \A i \in 1 .. Len(triggers) : triggers'[i] = triggers[i]
        /\ triggers'[Len(triggers) + 1] = t
    BY <2>2, <2>3, AppendProperties
  <2>5. \A i \in 1 .. Len(triggers') : triggers'[i] <= Timestamp(s)
    BY <1>1, <2>2, <2>3, <2>4 DEF Decided
  <2> QED BY <2>5 DEF Decided
<1> QED BY <1>2, <1>3, TriggerStep

\* The timestamps of the triggers go on growing.
LEMMA TriggersGrow ==
    ASSUME SlotTypeOK, SubTrigger,
           \A i, j \in 1 .. Len(triggers) : i < j => triggers[i] < triggers[j],
           triggers # <<>> => triggers[Len(triggers)] = old_trigger_timestamp,
           LUT # None => Decided(LUT[1])
    PROVE  /\ \A i, j \in 1 .. Len(triggers') : i < j => triggers'[i] < triggers'[j]
           /\ triggers' # <<>> => triggers'[Len(triggers')] = old_trigger_timestamp'
<1>1. CASE triggers' = triggers /\ old_trigger_timestamp' = old_trigger_timestamp
  BY <1>1
<1>2. CASE /\ LUT # None
           /\ Timestamp(LUT[1]) # old_trigger_timestamp
           /\ triggers' = Append(triggers, Timestamp(LUT[1]))
           /\ old_trigger_timestamp' = Timestamp(LUT[1])
  <2> DEFINE t == Timestamp(LUT[1])
  <2>1. t \in Nat /\ \A i \in 1 .. Len(triggers) : triggers[i] <= t
    <3>1. LUT[1] \in Nat /\ LUT[1] <= LUT[1]
      BY <1>2 DEF SlotTypeOK
    <3>2. t \in Nat
      BY <3>1, TimestampGrows
    <3> QED BY <1>2, <3>2 DEF Decided
  <2>2. triggers \in Seq(Nat) /\ triggers' = Append(triggers, t) /\ Len(triggers) \in Nat
    BY <1>2 DEF SlotTypeOK
  <2>3. t # old_trigger_timestamp /\ old_trigger_timestamp' = t
    BY <1>2
  <2> HIDE DEF t
  <2>4. /\ Len(triggers') = Len(triggers) + 1
        /\ \A i \in 1 .. Len(triggers) : triggers'[i] = triggers[i]
        /\ triggers'[Len(triggers) + 1] = t
    BY <2>1, <2>2, AppendProperties
  <2>5. \A i \in 1 .. Len(triggers) : triggers[i] \in Nat
    BY <2>2, ElementOfSeq
  <2>6. \A i \in 1 .. Len(triggers) : triggers[i] < t
    <3> SUFFICES ASSUME NEW i \in 1 .. Len(triggers)
                 PROVE  triggers[i] < t
      OBVIOUS
    <3>1. triggers # <<>> /\ Len(triggers) \in 1 .. Len(triggers)
      BY <2>2, EmptySeq
    <3>2. triggers[Len(triggers)] < t
      BY <2>1, <2>3, <2>5, <3>1
    <3>3. triggers[i] <= triggers[Len(triggers)]
      BY <2>2, <2>5, <3>1
    <3> QED BY <2>1, <2>5, <3>1, <3>2, <3>3
  <2>7. \A i, j \in 1 .. Len(triggers') : i < j => triggers'[i] < triggers'[j]
    BY <2>1, <2>2, <2>4, <2>6
  <2> QED BY <2>2, <2>3, <2>4, <2>7
<1> QED BY <1>1, <1>2, TriggerStep

-----------------------------------------------------------------------------
(***************************************************************************)
(* The invariant.                                                           *)
(***************************************************************************)
\* The first state: nothing is merged, no trigger is made.
LEMMA InitSlotsInv == Init => SlotsInv
<1> SUFFICES ASSUME Init PROVE SlotsInv
  OBVIOUS
<1>1. BURST125 = FALSE /\ FSMResetCounters = "S0" /\ LUT = None /\ triggers = <<>>
  BY DEF Init
<1>2. window = 0 /\ MERGEDFIFO = <<>> /\ merged = -1 /\ q = <<0, {}>> /\ old_trigger_timestamp = 0
  BY DEF Init, NoTime
<1>6. copies = 0 /\ asked \in [Det -> [Slots -> Nat]]
  BY DEF Init, NothingAsked
<1>3. <<0, {}>> \in SlotTime
  BY DEF SlotTime
<1>4. SlotTypeOK
  <2>1. MERGEDFIFO \in Seq(SlotTime) /\ triggers \in Seq(Nat)
    BY <1>1, <1>2
  <2>2. merged \in Int /\ merged >= -1
    BY <1>2
  <2>3. BURST125 \in BOOLEAN
    BY <1>1
  <2> QED BY <1>1, <1>2, <1>3, <1>6, <2>1, <2>2, <2>3 DEF SlotTypeOK
<1>5. SlotsInOrder /\ TriggersBehind /\ OneAnswer
  BY <1>1 DEF SlotsInOrder, TriggersBehind, OneAnswer, Running
<1> QED BY <1>4, <1>5 DEF SlotsInv

\* The first clock of a burst, a clock of it, and a clock out of a burst.
LEMMA Steps ==
    ASSUME SlotTypeOK, Next
    PROVE  /\ BURST125' \in BOOLEAN
           /\ FSMResetCounters' = IF BURST125 THEN "S1" ELSE "S0"
           /\ \/ BURST125 /\ ~Running /\ ResetCounters /\ MergeCleared
              \/ Running /\ (\E new : SubReadRam(new)) /\ SubTrigger /\ Merge
              \/ ~BURST125 /\ (\E new : SubReadRam(new)) /\ SubTrigger /\ MergeCleared
<1>1. Gate
  BY DEF Next, Clock
<1>2. BURST125' \in BOOLEAN /\ FSMResetCounters' = IF BURST125 THEN "S1" ELSE "S0"
  BY <1>1 DEF Gate, SlotTypeOK
<1>3. CASE BURST125 /\ FSMResetCounters = "S0"
  BY <1>2, <1>3 DEF Next, Clock, Running
<1>4. CASE ~(BURST125 /\ FSMResetCounters = "S0")
  BY <1>2, <1>4 DEF Next, Clock, Running, SlotTypeOK
<1> QED BY <1>3, <1>4

\* A clock keeps the types.
LEMMA SlotTypeNext == SlotTypeOK /\ Next => SlotTypeOK'
<1> SUFFICES ASSUME SlotTypeOK, Next PROVE SlotTypeOK'
  OBVIOUS
<1>1. BURST125' \in BOOLEAN /\ FSMResetCounters' \in {"S0", "S1"}
  BY Steps
<1>2. /\ window' \in Nat /\ merged' \in Int /\ merged' >= -1 /\ copies' \in Nat
      /\ MERGEDFIFO' \in Seq(SlotTime) /\ q' \in SlotTime
  <2>1. CASE MergeCleared
    BY <2>1 DEF MergeCleared, SlotTime, NoTime
  <2>2. CASE Merge
    <3>1. /\ window' \in Nat /\ merged' \in Int /\ merged' >= -1 /\ copies' \in Nat
          /\ MERGEDFIFO' \in Seq(SlotTime)
      BY <2>2, MergeWords
    <3>2. /\ Pops => 1 \in 1 .. Len(MERGEDFIFO) /\ q' = MERGEDFIFO[1]
          /\ ~Pops => q' = q
      BY <2>2, MergeWords
    <3>3. q' \in SlotTime
      BY <3>2, SlotsOfFifo DEF SlotTypeOK
    <3> QED BY <3>1, <3>3
  <2> QED BY <2>1, <2>2, Steps
<1>3. LUT' # None => LUT'[1] \in Nat
  <2>1. CASE ResetCounters
    BY <2>1 DEF ResetCounters
  <2>2. CASE \E new : SubReadRam(new)
    <3>1. LUT' # None => LUT'[1] = q[1]
      BY <2>2, ReaderStep
    <3>2. q[1] \in Nat
      BY DEF SlotTypeOK, SlotTime
    <3> QED BY <3>1, <3>2
  <2> QED BY <2>1, <2>2, Steps
<1>4. triggers' \in Seq(Nat) /\ old_trigger_timestamp' \in Nat
  <2>1. CASE ResetCounters
    BY <2>1 DEF ResetCounters
  <2>2. CASE SubTrigger
    <3>1. CASE triggers' = triggers /\ old_trigger_timestamp' = old_trigger_timestamp
      BY <3>1 DEF SlotTypeOK
    <3>2. CASE /\ LUT # None
               /\ triggers' = Append(triggers, Timestamp(LUT[1]))
               /\ old_trigger_timestamp' = Timestamp(LUT[1])
      <4>1. LUT[1] \in Nat /\ LUT[1] <= LUT[1]
        BY <3>2 DEF SlotTypeOK
      <4>2. Timestamp(LUT[1]) \in Nat
        BY <4>1, TimestampGrows
      <4> QED BY <3>2, <4>2, AppendProperties DEF SlotTypeOK
    <3> QED BY <2>2, <3>1, <3>2, TriggerStep
  <2> QED BY <2>1, <2>2, Steps
<1>5. asked' \in [Det -> [Slots -> Nat]]
  <2>1. PICK new \in Arrivals : SubReceive(new)
    BY DEF Next, Clock
  <2>2. \/ asked' = NothingAsked
        \/ asked' = [d \in Det |-> [s \in Slots |->
                        IF new[d] # None /\ s = Slot(new[d][1]) THEN asked[d][s] + 1 ELSE asked[d][s]]]
    BY <2>1 DEF SubReceive
  <2>3. \A d \in Det, s \in Slots : asked[d][s] \in Nat /\ asked[d][s] + 1 \in Nat
    BY DEF SlotTypeOK
  <2> QED BY <2>2, <2>3 DEF NothingAsked
<1> QED BY <1>1, <1>2, <1>3, <1>4, <1>5 DEF SlotTypeOK

\* A clock keeps the slots on their way in order.
LEMMA OrderNext == SlotsInv /\ Next => SlotsInOrder'
<1> SUFFICES ASSUME SlotsInv, Next, Running'
             PROVE  /\ InOrder'
                    /\ Reads' => First(q[1])'
                    /\ LUT' # None => First(LUT[1])' /\ (Reads' => LUT'[1] <= q'[1])
  BY DEF SlotsInOrder
<1> USE DEF SlotsInv
<1>1. BURST125
  BY Steps DEF Running
<1>2. CASE ResetCounters /\ MergeCleared
  <2>1. MERGEDFIFO' = <<>> /\ merged' = -1 /\ q' = <<0, {}>> /\ LUT' = None
    BY <1>2 DEF ResetCounters, MergeCleared, NoTime
  <2>2. NextSlot' = 0 /\ q'[1] = 0
    BY <2>1 DEF NextSlot
  <2> QED BY <2>1, <2>2 DEF InOrder, First
<1>3. CASE Running /\ (\E new : SubReadRam(new)) /\ Merge
  <2>1. /\ InOrder
        /\ Reads => First(q[1])
        /\ q[1] \in Nat
    BY <1>3 DEF SlotsInOrder, SlotTypeOK, SlotTime
  <2>2. /\ InOrder'
        /\ Pops => First(q[1])'
        /\ \A s \in Nat : First(s) => First(s)' /\ (Pops => s <= q'[1])
    BY <1>3, <2>1, MergeOrder
  <2>3. /\ LUT' # None => Reads /\ LUT'[1] = q[1] /\ (Reads' => Pops)
        /\ Reads' => Pops \/ Reads
    BY <1>3, ReaderStep
  <2>4. ~Pops => q' = q
    BY <1>3, MergeWords
  <2>5. Reads => First(q[1]) /\ (\A j \in 1 .. Len(MERGEDFIFO') : q[1] <= MERGEDFIFO'[j][1])
                 /\ q[1] <= NextSlot' /\ (Pops => q[1] <= q'[1])
    BY <2>1, <2>2 DEF First
  <2>6. Reads' => First(q[1])'
    <3>1. CASE Pops
      BY <2>2, <3>1
    <3>2. CASE ~Pops
      BY <2>3, <2>4, <2>5, <3>2 DEF First
    <3> QED BY <3>1, <3>2
  <2>7. LUT' # None => First(LUT[1])' /\ (Reads' => LUT'[1] <= q'[1])
    BY <2>3, <2>5 DEF First
  <2> QED BY <2>2, <2>6, <2>7
<1> QED BY <1>1, <1>2, <1>3, Steps

\* A clock keeps the triggers made behind the slots on their way.
LEMMA BehindNext == SlotsInv /\ Next => TriggersBehind'
<1> SUFFICES ASSUME SlotsInv, Next PROVE TriggersBehind'
  OBVIOUS
<1> USE DEF SlotsInv
<1>1. CASE ResetCounters /\ MergeCleared
  <2>1. triggers' = <<>>
    BY <1>1 DEF ResetCounters
  <2>2. \A s : Decided(s)'
    BY <2>1 DEF Decided
  <2> QED BY <2>1, <2>2 DEF TriggersBehind, Decided
<1>2. CASE ~BURST125 /\ SubTrigger
  <2>1. ~Running'
    BY <1>2, Steps DEF Running
  <2>2. triggers' = triggers
    BY <1>2, TriggerStep
  <2> QED BY <2>1, <2>2 DEF TriggersBehind
<1>3. CASE Running /\ (\E new : SubReadRam(new)) /\ SubTrigger /\ Merge
  <2>1. /\ triggers # <<>> => triggers[Len(triggers)] = old_trigger_timestamp
        /\ LUT # None => Decided(LUT[1])
        /\ Reads => Decided(q[1])
        /\ \A j \in 1 .. Len(MERGEDFIFO) : Decided(MERGEDFIFO[j][1])
        /\ Decided(NextSlot)
        /\ \A i, j \in 1 .. Len(triggers) : i < j => triggers[i] < triggers[j]
    BY <1>3 DEF TriggersBehind
  <2>2. /\ \A i, j \in 1 .. Len(triggers') : i < j => triggers'[i] < triggers'[j]
        /\ triggers' # <<>> => triggers'[Len(triggers')] = old_trigger_timestamp'
    BY <1>3, <2>1, TriggersGrow
  <2>3. /\ LUT # None => First(LUT[1]) /\ (Reads => LUT[1] <= q[1])
    BY <1>3 DEF SlotsInOrder
  <2>4. \A y \in Nat : Decided(y) /\ (LUT # None => LUT[1] <= y)
                       => \A s \in Nat : y <= s => Decided(s)'
    BY <1>3, DecidedStays
  <2>5. q[1] \in Nat /\ merged \in Int /\ merged >= -1
    BY DEF SlotTypeOK, SlotTime
  <2>6. \A j \in 1 .. Len(MERGEDFIFO) : MERGEDFIFO[j][1] \in Nat
    BY SlotsOfFifo
  <2>7. merged' \in Int /\ merged' >= merged
    BY <1>3, MergeWords
  <2>8. NextSlot \in Nat /\ NextSlot' \in Nat /\ NextSlot <= NextSlot'
    BY <2>5, <2>7, NextSlotGrows
  <2>9. \A s \in Nat : NextSlot <= s => Decided(s)'
    BY <2>1, <2>3, <2>4, <2>8 DEF First
  <2>10. Reads => \A s \in Nat : q[1] <= s => Decided(s)'
    BY <2>1, <2>3, <2>4, <2>5
  <2>11. \A j \in 1 .. Len(MERGEDFIFO) : \A s \in Nat : MERGEDFIFO[j][1] <= s => Decided(s)'
    <3> SUFFICES ASSUME NEW j \in 1 .. Len(MERGEDFIFO)
                 PROVE  \A s \in Nat : MERGEDFIFO[j][1] <= s => Decided(s)'
      OBVIOUS
    <3>1. MERGEDFIFO[j][1] \in Nat /\ Decided(MERGEDFIFO[j][1])
      BY <2>1, <2>6
    <3>2. LUT # None => LUT[1] <= MERGEDFIFO[j][1]
      BY <2>3 DEF First
    <3> QED BY <2>4, <3>1, <3>2
  <2>12. Decided(NextSlot)'
    <3>1. \A i \in 1 .. Len(triggers') : triggers'[i] <= Timestamp(NextSlot')
      BY <2>8, <2>9 DEF Decided
    <3> QED BY <3>1 DEF Decided
  <2>13. \A j \in 1 .. Len(MERGEDFIFO') : Decided(MERGEDFIFO[j][1])'
    <3> SUFFICES ASSUME NEW j \in 1 .. Len(MERGEDFIFO')
                 PROVE  \A i \in 1 .. Len(triggers') : triggers'[i] <= Timestamp(MERGEDFIFO'[j][1])
      BY DEF Decided
    <3>1. MERGEDFIFO'[j][1] \in Nat
      <4>1. SlotTypeOK'
        BY SlotTypeNext
      <4>2. MERGEDFIFO'[j] \in SlotTime
        BY <4>1, ElementOfSeq DEF SlotTypeOK
      <4> QED BY <4>2 DEF SlotTime
    <3>2. \/ \E k \in 1 .. Len(MERGEDFIFO) : MERGEDFIFO'[j] = MERGEDFIFO[k]
          \/ NextSlot <= MERGEDFIFO'[j][1]
      BY <1>3, MergeWords
    <3>3. CASE \E k \in 1 .. Len(MERGEDFIFO) : MERGEDFIFO'[j] = MERGEDFIFO[k]
      <4>1. PICK k \in 1 .. Len(MERGEDFIFO) : MERGEDFIFO'[j] = MERGEDFIFO[k]
        BY <3>3
      <4>2. MERGEDFIFO[k][1] <= MERGEDFIFO'[j][1]
        BY <3>1, <4>1
      <4> QED BY <2>11, <3>1, <4>2 DEF Decided
    <3>4. CASE NextSlot <= MERGEDFIFO'[j][1]
      BY <2>9, <3>1, <3>4 DEF Decided
    <3> QED BY <3>2, <3>3, <3>4
  <2>14. /\ LUT' # None => Reads /\ LUT'[1] = q[1]
         /\ Reads' => Pops \/ Reads
         /\ Pops => 1 \in 1 .. Len(MERGEDFIFO) /\ q' = MERGEDFIFO[1]
         /\ ~Pops => q' = q
    BY <1>3, ReaderStep, MergeWords
  <2>15. LUT' # None => Decided(LUT[1])'
    BY <2>5, <2>10, <2>14 DEF Decided
  <2>16. Reads' => Decided(q[1])'
    <3>1. CASE Pops
      <4>1. q'[1] = MERGEDFIFO[1][1] /\ 1 \in 1 .. Len(MERGEDFIFO) /\ q'[1] \in Nat
        BY <2>6, <2>14, <3>1
      <4> QED BY <2>11, <4>1 DEF Decided
    <3>2. CASE ~Pops
      BY <2>5, <2>10, <2>14, <3>2 DEF Decided
    <3> QED BY <3>1, <3>2
  <2> QED BY <2>2, <2>12, <2>13, <2>15, <2>16 DEF TriggersBehind
<1> QED BY <1>1, <1>2, <1>3, Steps

\* A clock keeps one answer for each slot.
LEMMA OneAnswerNext == SlotsInv /\ Next => OneAnswer'
<1> SUFFICES ASSUME SlotsInv, Next PROVE OneAnswer'
  OBVIOUS
<1> USE DEF SlotsInv
<1>1. CASE ResetCounters /\ MergeCleared
  BY <1>1 DEF ResetCounters, OneAnswer
<1>2. CASE (\E new : SubReadRam(new)) /\ SubTrigger
  <2>1. LUT' # None => Reads /\ FSMReadRam' \in {"ReadFifo", "SetRamAddress1"}
                       /\ FSMReadRam = "ReadRam1_3"
    <3>1. PICK new : SubReadRam(new)
      BY <1>2
    <3>2. CASE ReadRam1_3
      BY <3>1, <3>2, ReaderStep DEF ReadRam1_3
    <3>3. CASE ~ReadRam1_3
      BY <3>1, <3>3 DEF SubReadRam, ReadFifo, SetRamAddress1, SetDetector1, ReadRam1, ReadRam1_2
    <3> QED BY <3>2, <3>3
  <2>2. LUT' # None => LUT = None
    BY <2>1 DEF OneAnswer
  <2>3. BURST125 /\ LUT = None => control_signal' = FALSE
    BY <1>2 DEF SubTrigger, Accepts, rdready, ControlCleared
  <2>4. Running' => BURST125
    BY Steps DEF Running
  <2> QED BY <1>2, <2>1, <2>2, <2>3, <2>4 DEF OneAnswer
<1> QED BY <1>1, <1>2, Steps

\* The invariant holds whatever the constants.
THEOREM SlotsInvariant == Spec => []SlotsInv
<1>1. Init => SlotsInv
  BY InitSlotsInv
<1>2. SlotsInv /\ [Next]_vars => SlotsInv'
  <2> SUFFICES ASSUME SlotsInv, [Next]_vars PROVE SlotsInv'
    OBVIOUS
  <2>1. CASE Next
    BY <2>1, SlotTypeNext, OrderNext, BehindNext, OneAnswerNext DEF SlotsInv
  <2>2. CASE UNCHANGED vars
    <3>1. UNCHANGED <<BURST125, FSMResetCounters, window, merged, copies, asked, MERGEDFIFO, q, LUT,
                      triggers, old_trigger_timestamp, FSMReadRam, control_signal>>
      BY <2>2 DEF vars, burstVars, readVars, triggerVars
    <3>2. SlotTypeOK'
      BY <3>1 DEF SlotsInv, SlotTypeOK
    <3>3. SlotsInOrder'
      BY <3>1 DEF SlotsInv, SlotsInOrder, InOrder, First, NextSlot, Running, Reads
    <3>4. TriggersBehind'
      BY <3>1 DEF SlotsInv, TriggersBehind, Decided, NextSlot, Running, Reads
    <3>5. OneAnswer'
      BY <3>1 DEF SlotsInv, OneAnswer, Running
    <3> QED BY <3>2, <3>3, <3>4, <3>5 DEF SlotsInv
  <2> QED BY <2>1, <2>2
<1> QED BY <1>1, <1>2, PTL DEF Spec

\* Whatever the masks, the downscalings, the cuts and the sizes, and whatever primitives
\* arrive when: the triggers of a burst go out in the order of their timestamps and
\* never twice for one (SubTrigger compares with the last trigger only).
THEOREM TriggersAdvanceAlways == Spec => []TriggersAdvance
<1>1. SlotsInv => TriggersAdvance
  <2> SUFFICES ASSUME SlotsInv,
                      NEW i \in DOMAIN triggers, NEW j \in DOMAIN triggers, i < j
               PROVE  triggers[i] < triggers[j]
    BY DEF TriggersAdvance
  <2>1. DOMAIN triggers = 1 .. Len(triggers)
    BY DEF SlotsInv, SlotTypeOK
  <2> QED BY <2>1 DEF SlotsInv, TriggersBehind
<1> QED BY <1>1, SlotsInvariant, PTL

\* During a burst each clock with a request is one decision, with its timestamp: the
\* control signal, which SubTrigger keeps when it decides, is never up when the LUT
\* answers again.
THEOREM EachRequestOnceAlways == Spec => EachRequestOnce
<1>1. SlotsInv /\ [Next]_vars =>
         [BURST125 /\ (trigger_signal' \/ control_signal') =>
             triggers' = Append(triggers, timestamp_out')]_vars
  <2> SUFFICES ASSUME SlotsInv, Next, BURST125, trigger_signal' \/ control_signal'
               PROVE  triggers' = Append(triggers, timestamp_out')
    OBVIOUS
  <2>1. CASE ResetCounters
    BY <2>1 DEF ResetCounters
  <2>2. CASE Running /\ SubTrigger
    <3>1. Accepts /\ Decide
      BY <2>2 DEF SubTrigger, ControlCleared
    <3>2. ~control_signal
      BY <2>2, <3>1 DEF SlotsInv, OneAnswer, Accepts, rdready
    <3>3. Fired # {} \/ ControlFired
      BY <3>1, <3>2 DEF Decide
    <3> QED BY <3>1, <3>3 DEF Decide
  <2> QED BY <2>1, <2>2, Steps DEF SlotsInv
<1> QED BY <1>1, SlotsInvariant, PTL DEF Spec, EachRequestOnce

-----------------------------------------------------------------------------
(***************************************************************************)
(* What the LUT collects.  The cells of a detector's memory hold the latest *)
(* primitives of the burst, but for the last cell, which may have kept one  *)
(* of an earlier burst; nothing received reaches round the memory to the    *)
(* slots that wait or are read; and the reader's registers carry what was   *)
(* read of the slots N, N-1 and N+1, two clocks one after the other.        *)
(***************************************************************************)
\* What has been written of one detector: the last primitive of each slot, none after
\* the window that is being received.
Written(g) ==
    /\ g \subseteq Nat
    /\ \A t, u \in g : Slot(t) = Slot(u) => t = u
    /\ \A t \in g : Slot(t) < (window + 1) * PerWindow

\* A primitive of a burst before b in the last cell.
Stale(c, b) == \E t \in Nat, e \in Nat : c = <<t, e>> /\ e < b /\ Address(Slot(t)) = Cells - 1

\* The cells of a detector's memory hold the latest primitives of the burst b and, but
\* for the last one, nothing else.
Holds(ram, g, b) ==
    \A a \in 0 .. Cells - 1 :
       /\ ram[a] # Empty => \/ \E t \in g : ram[a] = <<t, b>> /\ Address(Slot(t)) = a
                            \/ a = Cells - 1 /\ Stale(ram[a], b)
       /\ \A u \in g : Address(Slot(u)) = a =>
             \E t \in g : ram[a] = <<t, b>> /\ Address(Slot(t)) = a /\ Slot(u) <= Slot(t)

\* Nothing received so far reaches round the memory to the neighbours of slot s.
Fits(s) == (window + 1) * PerWindow < s + Cells

\* A reference time on its way to the reader.
Queued(w) == w[1] < window * PerWindow /\ Fits(w[1])

\* One with a primitive to compare with.
Referred(w) == \E t \in got[Leading(w[2])] : Slot(t) = w[1]

\* The last cell of a memory has nothing of burst b or later.
LastCell(ram, b) == ram[Cells - 1] # Empty => Stale(ram[Cells - 1], b)

\* Between two bursts the memory is cleared and the reader comes to rest.
Swept ==
    /\ alignreadaddressb_clear \in 0 .. Cells - 1 /\ burst \in Nat
    /\ ~BURST125 =>
          /\ \A d \in Det : \A a \in 0 .. alignreadaddressb_clear - 1 : alignRAM[d][a] = Empty
          /\ \A d \in Det : LastCell(alignRAM[d], burst + 1)
          /\ MERGEDFIFO # <<>> => alignreadaddressb_clear = 0
    /\ BURST125 /\ ~Running =>
          /\ \A d \in Det : \A a \in 0 .. Cells - 2 : alignRAM[d][a] = Empty
          /\ \A d \in Det : LastCell(alignRAM[d], burst)
          /\ FSMReadRam = "ReadFifo" /\ LUT = None

\* In a burst: the memories hold what has been written, and what waits fits.
Memory ==
    Running =>
       /\ burst \in Nat
       /\ \A d \in Det : Written(got[d]) /\ Holds(alignRAM[d], got[d], burst)
       /\ \A s \in ToMerge : Fits(s)
       /\ \A j \in 1 .. Len(MERGEDFIFO) : Queued(MERGEDFIFO[j])
       /\ Reads => Queued(q)

\* What timetocompare makes of a time.
Compare(t) == (Slot(t) % Compared) * Fine + (t % Fine)

\* Close enough to ref, which the leading detector's own primitive always is.
InCut(d, t, ref) == d = Leading(q[2]) \/ (t - ref < timecut[d] /\ ref - t < timecut[d])

\* A stray cell in the burst b.
StrayIn(c, s, b) ==
    \/ c[2] # b /\ Address(Slot(c[1])) = Cells - 1
    \/ c[2] = b /\ Slot(c[1]) = s + 1 - Cells

\* The cell has a primitive of slot r, one of w, with the tag of slot s.
Has(c, r, s, w, b) == c = <<c[1], b>> /\ c[1] \in w \cap Nat /\ Slot(c[1]) = r /\ Tag(r) = Tag(s)

\* The cell c that is read for slot r beside slot s, of the primitives w of the burst b.
Gives(c, r, s, w, b) ==
    /\ UpperBits(c) = Tag(s) => c = Empty \/ StrayIn(c, s, b) \/ Has(c, r, s, w, b)
    /\ Tag(r) = Tag(s) => \A t \in w : Slot(t) = r => c = <<t, b>> /\ UpperBits(c) = Tag(s)

\* What was read answers slot r.
Answers(r) == \A d \in Det : Gives(q_b[d], r, q[1], wanted[d], burst)

\* The registers that the LUT is going to take have what was read for slot r.
Holding(cells, r) ==
    \A d \in Det :
       /\ d \in detector_triggering =>
             \/ cells[d] = Empty
             \/ StrayIn(cells[d], q[1], burst)
             \/ /\ Has(cells[d], r, q[1], wanted[d], burst)
                /\ d # Leading(q[2]) => timetocompare[d] = Compare(cells[d][1])
       /\ Tag(r) = Tag(q[1]) =>
             \A t \in wanted[d] : Slot(t) = r => cells[d] = <<t, burst>> /\ d \in detector_triggering

\* The cell has a primitive of one of the slots S.
HasOf(c, S, s, w, b) == c = <<c[1], b>> /\ c[1] \in w /\ Slot(c[1]) \in S /\ Tag(Slot(c[1])) = Tag(s)

\* A collection has exactly the primitives of the slots S that are in time with ref.
Collects(coll, S, ref) ==
    \A d \in Det :
       /\ \A c \in coll[d] : \/ StrayIn(c, q[1], burst)
                             \/ HasOf(c, S, q[1], wanted[d], burst) /\ InCut(d, c[1], ref)
       /\ \A t \in wanted[d] :
             Slot(t) \in S /\ Tag(Slot(t)) = Tag(q[1]) /\ InCut(d, t, ref) => <<t, burst>> \in coll[d]

\* What was there when it was read is of the slots S.
Certain(S) == \A d \in Det : \A t \in wanted[d] : Slot(t) \in S

\* The reader's state, for the primitive ref of the reference time.
Reading(ref) ==
    /\ oldaddress = Address(q[1])
    /\ FSMReadRam = "SetDetector1" =>
          Answers(q[1]) /\ Certain({q[1]}) /\ ref \in wanted[Leading(q[2])]
    /\ FSMReadRam # "SetDetector1" => timetocompare[Leading(q[2])] = Compare(ref)
    /\ FSMReadRam = "ReadRam1" =>
          Holding(alignRAMoutput, q[1]) /\ Answers(q[1] - 1) /\ Certain({q[1], q[1] - 1})
    /\ FSMReadRam = "ReadRam1_2" =>
          /\ Collects(found, {q[1]}, ref) /\ Holding(alignRAMoutput, q[1] - 1)
          /\ Answers(q[1] + 1) /\ Certain({q[1], q[1] - 1, q[1] + 1})
    /\ FSMReadRam = "ReadRam1_3" =>
          /\ Collects(found, {q[1], q[1] - 1}, ref) /\ Holding(q_b, q[1] + 1)
          /\ Certain({q[1], q[1] - 1, q[1] + 1})

\* In a burst: the LUT is empty until slot N has been read, and the registers are those of N.
Reader ==
    Running =>
       /\ FSMReadRam \in {"ReadFifo", "SetRamAddress1", "SetDetector1", "ReadRam1"} => found = Nothing
       /\ FSMReadRam \notin {"ReadFifo", "SetRamAddress1"} /\ Referred(q) =>
             \E ref \in got[Leading(q[2])] : Slot(ref) = q[1] /\ Reading(ref)

CollectionInv == Swept /\ Memory /\ Reader /\ Coincidences

-----------------------------------------------------------------------------
(***************************************************************************)
(* Slots, addresses and tags.                                               *)
(***************************************************************************)
\* Multiples of a number are as far apart as it.
LEMMA Multiples ==
    ASSUME NEW P \in Nat \ {0}, NEW i \in Int, NEW j \in Int
    PROVE  /\ P * i \in Int /\ P * j \in Int
           /\ P * j - P * i = P * (j - i)
           /\ i < j => P * j - P * i >= P
<1>1. P * i \in Int /\ P * j \in Int /\ P * (j - i) \in Int /\ P * j - P * i = P * (j - i)
  OBVIOUS
<1>2. ASSUME i < j PROVE P * (j - i) >= P
  <2> DEFINE n == j - i - 1
  <2>1. n \in Nat /\ j - i = n + 1
    BY <1>2
  <2> HIDE DEF n
  <2>2. P * (n + 1) = P * n + P /\ P * n \in Nat
    BY <2>1
  <2> QED BY <2>1, <2>2
<1> QED BY <1>1, <1>2

\* A quotient and a remainder.
LEMMA Division ==
    ASSUME NEW P \in Nat \ {0}, NEW n \in Int
    PROVE  n \div P \in Int /\ n % P \in 0 .. P - 1 /\ n = P * (n \div P) + (n % P)
OBVIOUS

\* There is one of each only.
LEMMA DivisionUnique ==
    ASSUME NEW P \in Nat \ {0}, NEW i \in Int, NEW r \in 0 .. P - 1, NEW n \in Int, n = P * i + r
    PROVE  n \div P = i /\ n % P = r
<1> DEFINE j == n \div P
           s == n % P
<1>1. j \in Int /\ s \in 0 .. P - 1 /\ n = P * j + s
  BY Division
<1> HIDE DEF j, s
<1>2. P * i \in Int /\ P * j \in Int /\ (i < j => P * j - P * i >= P)
  BY <1>1, Multiples
<1>3. j < i => P * i - P * j >= P
  BY <1>1, Multiples
<1>4. i = j
  BY <1>1, <1>2, <1>3
<1>5. r = s
  BY <1>1, <1>2, <1>4
<1> QED BY <1>4, <1>5 DEF j, s

\* The sizes are numbers, not too small.
LEMMA SizesOK ==
    /\ Cells \in Nat \ {0} /\ Fine \in Nat \ {0} /\ Compared \in Nat \ {0} /\ PerWindow \in Nat \ {0}
    /\ PerTimestamp \in Nat \ {0} /\ PerTag \in Nat \ {0}
    /\ Compared >= 4 /\ PerWindow <= Cells /\ Cells % Compared = 0 /\ PerTag * PerTimestamp <= Cells
  BY SizeAssumption

\* A memory has more cells than slots are told apart by timetocompare.
LEMMA CellsDivided ==
    \E m \in Nat : m >= 1 /\ Cells = Compared * m /\ Cells >= 4
<1> DEFINE m == Cells \div Compared
<1>1. m \in Int /\ Cells % Compared = 0 /\ Cells = Compared * m + (Cells % Compared)
  BY SizesOK, Division
<1> HIDE DEF m
<1>2. Cells = Compared * m /\ Compared * m \in Int /\ Compared * 0 = 0 /\ Cells > 0
  BY <1>1, SizesOK
<1>3. m >= 1
  <2>1. CASE m = 0
    BY <1>2, <2>1
  <2>2. CASE m < 0
    <3>1. Compared * 0 - Compared * m >= Compared
      BY <1>1, <2>2, SizesOK, Multiples
    <3> QED BY <1>2, <3>1, SizesOK
  <2> QED BY <1>1, <2>1, <2>2
<1>4. Compared * m >= Compared
  <2>1. Compared * m - Compared * 0 >= Compared
    BY <1>1, <1>3, SizesOK, Multiples
  <2> QED BY <1>2, <2>1, SizesOK
<1> QED BY <1>1, <1>2, <1>3, <1>4, SizesOK

\* A slot is its address and a multiple of the memory's size.
LEMMA AddressOK ==
    ASSUME NEW s \in Int
    PROVE  /\ Address(s) \in 0 .. Cells - 1 /\ s \div Cells \in Int
           /\ s = Cells * (s \div Cells) + Address(s)
BY SizesOK, Division DEF Address

\* A time is its slot and its fine time.
LEMMA SlotOK ==
    ASSUME NEW t \in Nat
    PROVE  /\ Slot(t) \in Nat /\ t % Fine \in 0 .. Fine - 1
           /\ t = Fine * Slot(t) + (t % Fine)
<1>1. t \div Fine \in Int /\ t % Fine \in 0 .. Fine - 1 /\ t = Fine * (t \div Fine) + (t % Fine)
  BY SizesOK, Division
<1> DEFINE i == t \div Fine
<1> HIDE DEF i
<1>2. i \in Int /\ t = Fine * i + (t % Fine) /\ t % Fine \in 0 .. Fine - 1
  BY <1>1 DEF i
<1>3. i >= 0
  <2> SUFFICES ASSUME i < 0 PROVE FALSE
    BY <1>2
  <2>1. Fine * 0 - Fine * i >= Fine /\ Fine * i \in Int /\ Fine * 0 = 0
    BY <1>2, SizesOK, Multiples
  <2> QED BY <1>2, <2>1, SizesOK
<1> QED BY <1>2, <1>3 DEF i, Slot

\* Two slots with one address are a memory apart.
LEMMA SameAddress ==
    ASSUME NEW x \in Int, NEW y \in Int, Address(x) = Address(y), x < y
    PROVE  y >= x + Cells
<1>1. /\ x = Cells * (x \div Cells) + Address(x) /\ y = Cells * (y \div Cells) + Address(y)
      /\ x \div Cells \in Int /\ y \div Cells \in Int /\ Address(x) \in Int /\ Address(y) \in Int
  BY AddressOK
<1> DEFINE i == x \div Cells
           j == y \div Cells
<1>2. i \in Int /\ j \in Int /\ x = Cells * i + Address(x) /\ y = Cells * j + Address(x)
  BY <1>1
<1> HIDE DEF i, j
<1>3. Cells * i \in Int /\ Cells * j \in Int /\ (i < j => Cells * j - Cells * i >= Cells)
  BY <1>2, SizesOK, Multiples
<1>4. j < i => Cells * i - Cells * j >= Cells
  BY <1>2, SizesOK, Multiples
<1> DEFINE u == Cells * i
           v == Cells * j
<1>5. /\ u \in Int /\ v \in Int /\ x = u + Address(x) /\ y = v + Address(x)
      /\ (i < j => v - u >= Cells) /\ (j < i => u - v >= Cells) /\ (i = j => u = v)
  BY <1>2, <1>3, <1>4
<1> HIDE DEF u, v
<1>6. i < j
  BY <1>1, <1>2, <1>5, SizesOK
<1> QED BY <1>1, <1>5, <1>6, SizesOK

\* Slots with one tag are less than a memory apart.
LEMMA SameTag ==
    ASSUME NEW x \in Int, NEW y \in Int, Tag(x) = Tag(y)
    PROVE  x - y < Cells
<1> DEFINE P == PerTimestamp
           K == PerTag
           i == x \div P
           j == y \div P
           h == i \div K
<1>1. /\ i \in Int /\ x % P \in 0 .. P - 1 /\ x = P * i + (x % P)
      /\ j \in Int /\ y % P \in 0 .. P - 1 /\ y = P * j + (y % P)
  BY SizesOK, Division
<1>2. Tag(x) = h /\ Tag(y) = j \div K
  BY DEF Tag, Timestamp
<1>3. P \in Nat \ {0} /\ K \in Nat \ {0} /\ K * P <= Cells /\ Cells \in Nat
  BY SizesOK
<1> DEFINE p == x % P
           r == y % P
<1> HIDE DEF i, j, p, r, P, K
<1>4. /\ h \in Int /\ i % K \in 0 .. K - 1 /\ i = K * h + (i % K)
      /\ j \div K \in Int /\ j % K \in 0 .. K - 1 /\ j = K * (j \div K) + (j % K)
  BY <1>1, <1>3, Division
<1> DEFINE a == i % K
           b == j % K
<1>5. a \in 0 .. K - 1 /\ b \in 0 .. K - 1 /\ i = K * h + a /\ j = K * h + b /\ h \in Int
  BY <1>2, <1>4
<1>6. p \in 0 .. P - 1 /\ r \in 0 .. P - 1 /\ x = P * i + p /\ y = P * j + r
  BY <1>1 DEF p, r
<1> HIDE DEF a, b, h
<1>7. i - j <= K - 1 /\ i - j \in Int
  <2> DEFINE z == K * h
  <2>1. z \in Int /\ i = z + a /\ j = z + b
    BY <1>3, <1>5
  <2> HIDE DEF z
  <2> QED BY <1>3, <1>5, <2>1
<1>8. P * i - P * j <= P * (K - 1) /\ P * i \in Int /\ P * j \in Int
  <2> DEFINE n == (K - 1) - (i - j)
  <2>1. n \in Nat /\ K - 1 = (i - j) + n
    BY <1>1, <1>3, <1>7
  <2> HIDE DEF n
  <2>2. P * (K - 1) = P * (i - j) + P * n /\ P * n \in Nat /\ P * (i - j) \in Int
    BY <1>3, <1>7, <2>1
  <2>3. P * i - P * j = P * (i - j) /\ P * i \in Int /\ P * j \in Int
    BY <1>1, <1>3, Multiples
  <2> QED BY <1>3, <2>2, <2>3
<1>9. P * (K - 1) = K * P - P /\ K * P \in Int
  BY <1>3
<1> DEFINE u == P * i
           v == P * j
           z == K * P
<1>10. /\ u \in Int /\ v \in Int /\ z \in Int /\ u - v <= z - P /\ z <= Cells
       /\ x = u + p /\ y = v + r
  BY <1>3, <1>6, <1>8, <1>9
<1> HIDE DEF u, v, z
<1> QED BY <1>3, <1>6, <1>10

\* What has the address of a slot beside s and the tag of s is that slot, or that of
\* the memory's other end.
LEMMA Neighbours ==
    ASSUME NEW s \in Nat, NEW k \in {-1, 0, 1}, NEW x \in Nat,
           Address(x) = Address(s + k), Tag(x) = Tag(s)
    PROVE  x = s + k \/ x = s + 1 - Cells \/ x = s - 1 + Cells
<1>1. x - s < Cells /\ s - x < Cells /\ Cells \in Nat /\ Cells >= 4 /\ s + k \in Int
  BY SameTag, SizesOK, CellsDivided
<1>2. CASE x < s + k
  <2>1. s + k >= x + Cells
    BY <1>1, <1>2, SameAddress
  <2> QED BY <1>1, <2>1
<1>3. CASE s + k < x
  <2>1. x >= s + k + Cells
    BY <1>1, <1>3, SameAddress
  <2> QED BY <1>1, <2>1
<1> QED BY <1>1, <1>2, <1>3

\* What belongs to one of the three slots is no stray.
LEMMA NoStray ==
    ASSUME NEW s \in Nat, NEW t, Slot(t) \in s - 1 .. s + 1, NEW b
    PROVE  ~StrayIn(<<t, b>>, s, b)
<1>1. Cells \in Nat /\ Cells >= 4
  BY SizesOK, CellsDivided
<1>2. Slot(t) # s + 1 - Cells
  BY <1>1
<1> QED BY <1>2 DEF StrayIn

-----------------------------------------------------------------------------
(***************************************************************************)
(* Times that are compared.                                                 *)
(***************************************************************************)
\* A small number modulo a larger one.
LEMMA SmallModulo ==
    ASSUME NEW R \in Nat \ {0}, NEW x \in Int, NEW j \in Int, NEW y \in Int
    PROVE  -R < x /\ x < R /\ y = x + R * j => y % R = IF x >= 0 THEN x ELSE x + R
<1>0. ASSUME NEW i \in Int, NEW r \in 0 .. R - 1, y = R * i + r
      PROVE  y % R = r
  BY <1>0, DivisionUnique
<1> SUFFICES ASSUME -R < x, x < R, y = x + R * j
             PROVE  y % R = IF x >= 0 THEN x ELSE x + R
  OBVIOUS
<1>1. CASE x >= 0
  <2>1. x \in 0 .. R - 1 /\ y = R * j + x
    BY <1>1
  <2> QED BY <1>0, <1>1, <2>1
<1>2. CASE x < 0
  <2>1. R * j = R * (j - 1) + R /\ R * j \in Int /\ R * (j - 1) \in Int
    OBVIOUS
  <2>2. PICK i \in Int, r \in 0 .. R - 1 : r = x + R /\ y = R * i + r
    <3>1. j - 1 \in Int /\ x + R \in 0 .. R - 1 /\ y = R * (j - 1) + (x + R)
      BY <1>2, <2>1
    <3> QED BY <3>1
  <2>3. y % R = r
    BY <1>0, <2>2
  <2> QED BY <1>2, <2>2, <2>3
<1> QED BY <1>1, <1>2

\* What is compared is the time, but for multiples of the range of timetocompare.
LEMMA CompareOK ==
    ASSUME NEW t \in Nat
    PROVE  \E m \in Int : t = Compare(t) + (Compared * Fine) * m /\ Compare(t) \in Int
<1> DEFINE s == Slot(t)
           f == t % Fine
           m == s \div Compared
           r == s % Compared
<1>1. s \in Nat /\ f \in 0 .. Fine - 1 /\ t = Fine * s + f
  BY SlotOK
<1>2. m \in Int /\ r \in 0 .. Compared - 1 /\ s = Compared * m + r
  <2>1. s \in Int /\ Compared \in Nat \ {0}
    BY <1>1, SizesOK
  <2> QED BY <2>1, Division, Zenon
<1>3. Compare(t) = r * Fine + f
  BY DEF Compare
<1> HIDE DEF s, f, m, r
<1>4. Fine * s = Fine * (Compared * m) + Fine * r
  BY <1>1, <1>2, SizesOK
<1>5. Fine * (Compared * m) = (Compared * Fine) * m /\ Fine * r = r * Fine
  BY <1>2, SizesOK
<1>6. (Compared * Fine) * m \in Int /\ r * Fine \in Int /\ f \in Int
  BY <1>1, <1>2, SizesOK
<1> QED BY <1>1, <1>2, <1>3, <1>4, <1>5, <1>6

\* The range of timetocompare is at least four slots.
LEMMA RangeOK ==
    /\ Compared * Fine \in Nat \ {0}
    /\ Compared * Fine >= 4 * Fine
<1> DEFINE n == Compared - 4
<1>1. n \in Nat /\ Compared = n + 4
  BY SizesOK
<1> HIDE DEF n
<1>2. (n + 4) * Fine = n * Fine + 4 * Fine /\ n * Fine \in Nat
  BY <1>1, SizesOK
<1> QED BY <1>1, <1>2, SizesOK

\* The difference of the times compared is the distance, for slots next to each other:
\* the range of timetocompare is more than twice as large.
LEMMA DistanceOK ==
    ASSUME NEW t \in Nat, NEW u \in Nat, Slot(t) \in Slot(u) - 1 .. Slot(u) + 1
    PROVE  Distance(Compare(t), Compare(u)) = IF t >= u THEN t - u ELSE u - t
<1> DEFINE R == Compared * Fine
           x == t - u
<1>1. R \in Nat \ {0} /\ R >= 4 * Fine /\ Fine \in Nat \ {0}
  BY RangeOK, SizesOK
<1>2. x \in Int /\ -(2 * Fine) < x /\ x < 2 * Fine
  <2> DEFINE i == Slot(t)
             j == Slot(u)
             f == t % Fine
             g == u % Fine
  <2>1. /\ i \in Nat /\ f \in 0 .. Fine - 1 /\ t = Fine * i + f
        /\ j \in Nat /\ g \in 0 .. Fine - 1 /\ u = Fine * j + g
        /\ i \in j - 1 .. j + 1
    BY SlotOK
  <2> HIDE DEF i, j, f, g
  <2>2. PICK k \in {-1, 0, 1} : i = j + k
    BY <2>1
  <2>3. Fine * (j + k) = Fine * j + Fine * k /\ Fine * k \in {-Fine, 0, Fine} /\ Fine * j \in Int
    <3>1. Fine * (-1) = -Fine /\ Fine * 0 = 0 /\ Fine * 1 = Fine
      BY <1>1
    <3>2. Fine * k \in {-Fine, 0, Fine}
      BY <2>2, <3>1
    <3>3. Fine * (j + k) = Fine * j + Fine * k /\ Fine * j \in Int
      BY <1>1, <2>1, <2>2
    <3> QED BY <3>2, <3>3
  <2>4. x = Fine * k + f - g
    BY <1>1, <2>1, <2>2, <2>3
  <2> QED BY <1>1, <2>1, <2>3, <2>4
<1>3. PICK m \in Int : t = Compare(t) + R * m /\ Compare(t) \in Int
  BY CompareOK
<1>4. PICK n \in Int : u = Compare(u) + R * n /\ Compare(u) \in Int
  BY CompareOK
<1> DEFINE y == Compare(t) - Compare(u)
           j == n - m
<1> HIDE DEF R
<1>5. R * n - R * m = R * j /\ R * n \in Int /\ R * m \in Int /\ R * j \in Int
  BY <1>1, <1>3, <1>4
<1>6. y \in Int /\ j \in Int /\ y = x + R * j
  BY <1>3, <1>4, <1>5
<1>7. Distance(Compare(t), Compare(u)) =
         LET z == y % R IN IF 2 * z < R THEN z ELSE IF 2 * z > R THEN R - z ELSE -z
  BY DEF Distance, R
<1> HIDE DEF y, j
<1>8. y % R = IF x >= 0 THEN x ELSE x + R
  <2>1. x < R /\ -R < x
    BY <1>1, <1>2
  <2> HIDE DEF x
  <2> QED BY <1>1, <1>2, <1>6, <2>1, SmallModulo, Zenon
<1>9. CASE x >= 0
  BY <1>1, <1>2, <1>7, <1>8, <1>9
<1>10. CASE x < 0
  <2>1. y % R = x + R /\ 2 * (x + R) > R /\ R - (x + R) = u - t
    BY <1>1, <1>2, <1>8, <1>10
  <2> QED BY <1>1, <1>2, <1>7, <1>10, <2>1
<1> QED BY <1>2, <1>9, <1>10

-----------------------------------------------------------------------------
(***************************************************************************)
(* The memory.                                                              *)
(***************************************************************************)
\* What arrives is of the window that is being received.
LEMMA ArrivesOK ==
    ASSUME NEW new \in Arrivals, NEW d \in Det, new[d] # None
    PROVE  Running /\ new[d][1] \in Nat /\ Slot(new[d][1]) \div PerWindow = window
<1>1. new[d] \in MayArrive(d)
  BY DEF Arrivals
<1>2. new[d] \in Primitives(d) /\ Active /\ Slot(new[d][1]) \div PerWindow = window
  BY <1>1 DEF MayArrive
<1>3. new[d][1] \in Times[d] \cup CalibTimes[d]
  BY <1>2 DEF Primitives
<1> QED BY <1>2, <1>3, TimesAssumption DEF Active, Running

\* A clock writes nothing for a detector, or one primitive of that window.
LEMMA ArrivalOK ==
    ASSUME NEW new \in Arrivals, NEW d \in Det
    PROVE  \/ WrittenTo(new, d) = {}
           \/ /\ Running
              /\ \E t \in Nat : /\ WrittenTo(new, d) = {t} /\ new[d][1] = t
                                /\ Slot(t) \div PerWindow = window
<1>1. ASSUME NEW t \in WrittenTo(new, d)
      PROVE  new[d] # None /\ new[d][1] = t
  <2>1. new[d] = <<t, "physics">>
    BY DEF WrittenTo
  <2> QED BY <2>1 DEF None
<1>2. CASE WrittenTo(new, d) # {}
  <2>1. PICK t \in WrittenTo(new, d) : TRUE
    BY <1>2
  <2>2. WrittenTo(new, d) = {t}
    BY <1>1, <2>1
  <2> QED BY <1>1, <2>1, <2>2, ArrivesOK
<1> QED BY <1>2

\* Slots of a window.
LEMMA WindowOK ==
    ASSUME NEW s \in Nat, NEW w \in Nat
    PROVE  /\ w * PerWindow \in Nat /\ (w + 1) * PerWindow = w * PerWindow + PerWindow
           /\ s \div PerWindow = w => w * PerWindow <= s /\ s < (w + 1) * PerWindow
<1>1. w * PerWindow \in Nat /\ (w + 1) * PerWindow = w * PerWindow + PerWindow
  BY SizesOK
<1>2. s \div PerWindow \in Int /\ s % PerWindow \in 0 .. PerWindow - 1
      /\ s = PerWindow * (s \div PerWindow) + (s % PerWindow)
  BY SizesOK, Division
<1>3. ASSUME s \div PerWindow = w
      PROVE  w * PerWindow <= s /\ s < (w + 1) * PerWindow
  <2>1. s = PerWindow * w + (s % PerWindow) /\ PerWindow * w = w * PerWindow
    BY <1>2, <1>3, SizesOK
  <2> QED BY <1>1, <1>2, <2>1, SizesOK
<1> QED BY <1>1, <1>3

\* The primitives that are written take their cells and the places of those of their
\* slots; each comes later than what else was there.
LEMMA WriteStep ==
    ASSUME NEW new \in Arrivals, NEW d \in Det, SubReceive(new), Running, window \in Nat,
           Written(got[d]), Holds(alignRAM[d], got[d], burst)
    PROVE  /\ got'[d] = Latest(new, d)
           /\ \A a \in 0 .. Cells - 1 : alignRAM'[d][a] = After(new, d, a)
           /\ Written(got'[d]) /\ Holds(alignRAM'[d], got'[d], burst)
           /\ \A t \in Nat : Slot(t) < window * PerWindow => (t \in got'[d] <=> t \in got[d])
<1>1. got'[d] = Latest(new, d)
  BY DEF SubReceive, Running
<1>2. \A a \in 0 .. Cells - 1 : alignRAM'[d][a] = After(new, d, a)
  BY DEF SubReceive, Running, Sweeping
<1>3. CASE WrittenTo(new, d) = {}
  <2>1. got'[d] = got[d]
    BY <1>1, <1>3 DEF Latest
  <2>2. \A a \in 0 .. Cells - 1 : alignRAM'[d][a] = alignRAM[d][a]
    BY <1>2, <1>3 DEF After
  <2>3. Holds(alignRAM'[d], got'[d], burst)
    BY <2>1, <2>2 DEF Holds
  <2> QED BY <1>1, <1>2, <2>1, <2>3
<1>4. ASSUME NEW t \in Nat, WrittenTo(new, d) = {t}, new[d][1] = t, Slot(t) \div PerWindow = window
      PROVE  /\ Written(got'[d]) /\ Holds(alignRAM'[d], got'[d], burst)
             /\ \A u \in Nat : Slot(u) < window * PerWindow => (u \in got'[d] <=> u \in got[d])
  <2>1. /\ Slot(t) \in Nat /\ window * PerWindow <= Slot(t) /\ Slot(t) < (window + 1) * PerWindow
        /\ window * PerWindow \in Nat /\ (window + 1) * PerWindow = window * PerWindow + PerWindow
    BY <1>4, SlotOK, WindowOK
  <2>2. got'[d] = {u \in got[d] : Slot(u) # Slot(t)} \cup {t}
    <3>1. Latest(new, d) = {u \in got[d] : \A v \in {t} : Slot(v) # Slot(u)} \cup {t}
      BY <1>4, Zenon DEF Latest
    <3> QED BY <1>1, <3>1
  <2>3. Written(got'[d])
    BY <2>1, <2>2 DEF Written
  <2>4. \A a \in 0 .. Cells - 1 :
           alignRAM'[d][a] = IF Address(Slot(t)) = a THEN <<t, burst>> ELSE alignRAM[d][a]
    <3> SUFFICES ASSUME NEW a \in 0 .. Cells - 1
                 PROVE  After(new, d, a) = IF Address(Slot(t)) = a THEN <<t, burst>> ELSE alignRAM[d][a]
      BY <1>2
    <3>1. (\E x \in WrittenTo(new, d) : Address(Slot(x)) = a) <=> Address(Slot(t)) = a
      BY <1>4
    <3> QED BY <1>4, <3>1 DEF After
  <2>5. ASSUME NEW u \in got'[d], Address(Slot(u)) = Address(Slot(t))
        PROVE  Slot(u) <= Slot(t)
    <3>1. u \in Nat /\ Slot(u) \in Nat /\ Slot(u) < (window + 1) * PerWindow
      BY <2>3, SlotOK DEF Written
    <3>2. Slot(t) < Slot(u) => Slot(u) >= Slot(t) + Cells
      BY <2>1, <2>5, <3>1, SameAddress
    <3> QED BY <2>1, <3>1, <3>2, SizesOK
  <2>6. Holds(alignRAM'[d], got'[d], burst)
    <3> SUFFICES ASSUME NEW a \in 0 .. Cells - 1
                 PROVE  /\ alignRAM'[d][a] # Empty =>
                              \/ \E v \in got'[d] : alignRAM'[d][a] = <<v, burst>> /\ Address(Slot(v)) = a
                              \/ a = Cells - 1 /\ Stale(alignRAM'[d][a], burst)
                        /\ \A u \in got'[d] : Address(Slot(u)) = a =>
                              \E v \in got'[d] : /\ alignRAM'[d][a] = <<v, burst>>
                                                 /\ Address(Slot(v)) = a /\ Slot(u) <= Slot(v)
      BY DEF Holds
    <3>1. CASE Address(Slot(t)) = a
      <4>1. alignRAM'[d][a] = <<t, burst>>
        BY <2>4, <3>1
      <4>2. t \in got'[d]
        BY <2>2
      <4> QED BY <2>5, <3>1, <4>1, <4>2
    <3>2. CASE Address(Slot(t)) # a
      <4>1. alignRAM'[d][a] = alignRAM[d][a]
        BY <2>4, <3>2
      <4>2. /\ alignRAM[d][a] # Empty =>
                  \/ \E v \in got[d] : alignRAM[d][a] = <<v, burst>> /\ Address(Slot(v)) = a
                  \/ a = Cells - 1 /\ Stale(alignRAM[d][a], burst)
            /\ \A u \in got[d] : Address(Slot(u)) = a =>
                  \E v \in got[d] : /\ alignRAM[d][a] = <<v, burst>>
                                    /\ Address(Slot(v)) = a /\ Slot(u) <= Slot(v)
        BY DEF Holds
      <4>3. \A u : Address(Slot(u)) = a => (u \in got'[d] <=> u \in got[d])
        BY <2>2, <3>2
      <4> QED BY <4>1, <4>2, <4>3
    <3> QED BY <3>1, <3>2
  <2>7. ASSUME NEW u \in Nat, Slot(u) < window * PerWindow
        PROVE  u \in got'[d] <=> u \in got[d]
    <3>1. Slot(u) # Slot(t)
      BY <2>1, <2>7, SlotOK
    <3> QED BY <2>2, <3>1
  <2> QED BY <2>3, <2>6, <2>7
<1>5. CASE WrittenTo(new, d) # {}
  BY <1>1, <1>2, <1>4, <1>5, ArrivalOK
<1> QED BY <1>3, <1>5

\* A memory that holds the primitives g, none of which reaches round it to slot s.
Keeps(ram, g, s, b) ==
    /\ g \subseteq Nat /\ \A t, u \in g : Slot(t) = Slot(u) => t = u
    /\ \A t \in g : Slot(t) + 1 < s + Cells
    /\ Holds(ram, g, b)

\* A cell beside slot s gives the primitive of its slot if there is one with the tag of
\* s, and nothing but strays with that tag if there is not.
LEMMA CellOfSlot ==
    ASSUME NEW g, NEW ram, NEW b \in Nat, NEW s \in Nat, Keeps(ram, g, s, b),
           NEW k \in {-1, 0, 1}
    PROVE  Gives(ram[Address(s + k)], s + k, s, g, b)
<1> DEFINE a == Address(s + k)
           c == ram[a]
<1> USE DEF Keeps
<1>1. s + k \in Int /\ a \in 0 .. Cells - 1 /\ Cells \in Nat /\ Cells >= 4
  BY AddressOK, SizesOK, CellsDivided
<1>2. /\ c # Empty => \/ \E t \in g : c = <<t, b>> /\ Address(Slot(t)) = a
                      \/ a = Cells - 1 /\ Stale(c, b)
      /\ \A u \in g : Address(Slot(u)) = a =>
            \E t \in g : c = <<t, b>> /\ Address(Slot(t)) = a /\ Slot(u) <= Slot(t)
  BY <1>1 DEF Holds
<1>3. \A t \in g : t \in Nat /\ Slot(t) \in Nat /\ Slot(t) + 1 < s + Cells
  BY SlotOK
<1>4. ASSUME NEW t \in g, c = <<t, b>>, Address(Slot(t)) = a
      PROVE  c # Empty /\ c[1] = t /\ c[2] = b /\ UpperBits(c) = Tag(Slot(t))
  BY <1>4 DEF Empty, UpperBits
<1>5. ASSUME c # Empty, UpperBits(c) = Tag(s)
      PROVE  StrayIn(c, s, b) \/ Has(c, s + k, s, g, b)
  <2>1. CASE \E t \in g : c = <<t, b>> /\ Address(Slot(t)) = a
    <3>1. PICK t \in g : c = <<t, b>> /\ Address(Slot(t)) = a
      BY <2>1
    <3>2. c[1] = t /\ c[2] = b /\ Tag(Slot(t)) = Tag(s)
      BY <1>4, <1>5, <3>1
    <3> DEFINE x == Slot(t)
    <3>3. x \in Nat /\ x + 1 < s + Cells /\ Address(x) = Address(s + k) /\ Tag(x) = Tag(s)
      BY <1>3, <3>1, <3>2
    <3> HIDE DEF x
    <3>4. x = s + k \/ x = s + 1 - Cells \/ x = s - 1 + Cells
      BY <3>3, Neighbours
    <3>5. x = s + k \/ x = s + 1 - Cells
      BY <1>1, <3>3, <3>4
    <3> QED BY <1>3, <3>1, <3>2, <3>3, <3>5 DEF x, StrayIn, Has
  <2>2. CASE Stale(c, b)
    <3>1. PICK t \in Nat, e \in Nat : c = <<t, e>> /\ e < b /\ Address(Slot(t)) = Cells - 1
      BY <2>2 DEF Stale
    <3>2. c[1] = t /\ c[2] = e /\ e # b
      BY <3>1
    <3> QED BY <3>1, <3>2 DEF StrayIn
  <2> QED BY <1>2, <1>5, <2>1, <2>2
<1>6. ASSUME Tag(s + k) = Tag(s), NEW t \in g, Slot(t) = s + k
      PROVE  c = <<t, b>> /\ UpperBits(c) = Tag(s)
  <2>1. PICK u \in g : c = <<u, b>> /\ Address(Slot(u)) = a /\ Slot(t) <= Slot(u)
    BY <1>2, <1>6
  <2>2. Slot(t) < Slot(u) => Slot(u) >= Slot(t) + Cells
    BY <1>3, <1>6, <2>1, SameAddress
  <2>3. Slot(u) < Slot(t) + Cells
    BY <1>1, <1>3, <1>6
  <2>4. Slot(u) = Slot(t)
    BY <1>1, <1>3, <2>1, <2>2, <2>3
  <2>5. u = t
    BY <2>4
  <2> QED BY <1>4, <1>6, <2>1, <2>5
<1> QED BY <1>5, <1>6 DEF Gives

\* What a cell gives depends on the primitives of the slot only.
LEMMA GivesSame ==
    ASSUME NEW c, NEW r, NEW s, NEW g, NEW w, NEW b, Gives(c, r, s, g, b),
           \A t : Slot(t) = r => (t \in g <=> t \in w)
    PROVE  Gives(c, r, s, w, b)
BY DEF Gives, Has

-----------------------------------------------------------------------------
(***************************************************************************)
(* The reader.                                                              *)
(***************************************************************************)
\* A clock that reads slot r on its way through the reader.
ReadClock(r, new) ==
    /\ Running /\ SlotTypeOK /\ Memory /\ Reads
    /\ new \in Arrivals /\ SubReceive(new)
    /\ r \in q[1] - 1 .. q[1] + 1
    /\ Read(r, new)
    /\ q' = q /\ burst' = burst

\* What was wanted before this clock.
Before == IF FSMReadRam = "SetRamAddress1" THEN Nothing ELSE wanted

\* A read takes a detector's cell, and adds the primitives of its slot to what is
\* wanted, both before this clock's writes or both after them.
LEMMA WantedStep ==
    ASSUME NEW r, NEW new, ReadClock(r, new), NEW d \in Det
    PROVE  \/ /\ q_b'[d] = alignRAM[d][Address(r)]
              /\ wanted'[d] = Before[d] \cup {t \in got[d] : Slot(t) = r}
           \/ /\ q_b'[d] = alignRAM'[d][Address(r)]
              /\ wanted'[d] = Before[d] \cup {t \in got'[d] : Slot(t) = r}
<1>1. Running /\ r \in Int /\ SubReceive(new) /\ Read(r, new)
  BY DEF ReadClock, SlotTypeOK, SlotTime
<1>2. Address(r) \in 0 .. Cells - 1 /\ ~Sweeping
  BY <1>1, AddressOK DEF Running, Sweeping
<1>3. got'[d] = Latest(new, d) /\ alignRAM'[d][Address(r)] = After(new, d, Address(r))
  BY <1>1, <1>2 DEF SubReceive, Running
<1>4. PICK seen \in SUBSET {e \in Det : WrittenTo(new, e) # {}} :
         /\ q_b' = [e \in Det |-> IF e \in seen THEN After(new, e, Address(r)) ELSE alignRAM[e][Address(r)]]
         /\ wanted' = [e \in Det |-> Before[e] \cup
                         {t \in IF e \in seen THEN Latest(new, e) ELSE got[e] : Slot(t) = r}]
  BY <1>1, <1>2, Zenon DEF Read, Before
<1>5. CASE d \in seen
  BY <1>3, <1>4, <1>5
<1>6. CASE d \notin seen
  BY <1>3, <1>4, <1>6
<1> QED BY <1>5, <1>6

\* Answers in the next clock.
AnswersNext(r) == \A d \in Det : Gives(q_b'[d], r, q'[1], wanted'[d], burst')

\* What is read answers the slot, whether the clock's writes are seen or not.
LEMMA ReadStep ==
    ASSUME NEW r, NEW new, ReadClock(r, new),
           \A d \in Det : \A t \in Before[d] : Slot(t) # r
    PROVE  AnswersNext(r)
<1> USE DEF ReadClock
<1>1. q[1] \in Nat /\ window \in Nat /\ burst \in Nat
  BY DEF SlotTypeOK, SlotTime, Memory
<1>2. PICK k \in {-1, 0, 1} : r = q[1] + k
  BY <1>1
<1> SUFFICES ASSUME NEW d \in Det
             PROVE  Gives(q_b'[d], r, q[1], wanted'[d], burst)
  BY DEF AnswersNext
<1>3. Written(got[d]) /\ Holds(alignRAM[d], got[d], burst) /\ Fits(q[1])
  BY DEF Memory, Queued
<1>4. Written(got'[d]) /\ Holds(alignRAM'[d], got'[d], burst)
  BY <1>1, <1>3, WriteStep
<1>5. ASSUME NEW g, Written(g), NEW ram, Holds(ram, g, burst),
             q_b'[d] = ram[Address(r)], wanted'[d] = Before[d] \cup {t \in g : Slot(t) = r}
      PROVE  Gives(q_b'[d], r, q[1], wanted'[d], burst)
  <2> DEFINE s == q[1]
             b == burst
             w == wanted'[d]
  <2>1. g \subseteq Nat /\ (\A t, u \in g : Slot(t) = Slot(u) => t = u)
    BY <1>5 DEF Written
  <2>2. \A t \in g : Slot(t) + 1 < s + Cells
    <3> SUFFICES ASSUME NEW t \in g
                 PROVE  Slot(t) + 1 < s + Cells
      OBVIOUS
    <3>1. Slot(t) \in Nat /\ Slot(t) < (window + 1) * PerWindow /\ (window + 1) * PerWindow < s + Cells
      BY <1>3, <1>5, <2>1, SlotOK DEF Written, Fits
    <3>2. (window + 1) * PerWindow \in Nat
      BY <1>1, SizesOK
    <3> QED BY <1>1, <3>1, <3>2, SizesOK
  <2>3. Keeps(ram, g, s, b)
    BY <1>5, <2>1, <2>2 DEF Keeps
  <2>4. s \in Nat /\ b \in Nat /\ r = s + k
    BY <1>1, <1>2
  <2>5. \A t : Slot(t) = r => (t \in g <=> t \in w)
    BY <1>5
  <2>6. q_b'[d] = ram[Address(s + k)]
    BY <1>2, <1>5
  <2> HIDE DEF s, b, w, ReadClock
  <2>7. Gives(ram[Address(s + k)], s + k, s, g, b)
    BY <2>3, <2>4, CellOfSlot, Zenon
  <2>8. Gives(q_b'[d], r, s, g, b)
    BY <2>4, <2>6, <2>7
  <2>9. Gives(q_b'[d], r, s, w, b)
    BY <2>5, <2>8, GivesSame, Zenon
  <2> QED BY <2>9 DEF s, b, w
<1>6. CASE /\ q_b'[d] = alignRAM[d][Address(r)]
           /\ wanted'[d] = Before[d] \cup {t \in got[d] : Slot(t) = r}
  BY <1>3, <1>5, <1>6
<1>7. CASE /\ q_b'[d] = alignRAM'[d][Address(r)]
           /\ wanted'[d] = Before[d] \cup {t \in got'[d] : Slot(t) = r}
  BY <1>4, <1>5, <1>7
<1> QED BY <1>6, <1>7, WantedStep

\* Slots as timetocompare tells them apart, from the address of the slot beside.
LEMMA AddressCompared ==
    ASSUME NEW s \in Nat, NEW k \in {-1, 0, 1}
    PROVE  (Address(s) + k) % Compared = (s + k) % Compared
<1>0. ASSUME NEW x \in Int, NEW z \in Int, NEW r \in 0 .. Compared - 1, x = Compared * z + r
      PROVE  x % Compared = r
  BY <1>0, SizesOK, DivisionUnique
<1> DEFINE i == s \div Cells
           n == Address(s) + k
<1>1. i \in Int /\ n \in Int /\ s + k = Cells * i + n
  <2>1. i \in Int /\ Address(s) \in Int /\ s = Cells * i + Address(s)
    BY AddressOK
  <2> HIDE DEF i
  <2>2. Cells * i \in Int
    BY <2>1, SizesOK
  <2> QED BY <2>1, <2>2
<1>2. PICK m \in Nat : Cells = Compared * m
  BY CellsDivided
<1> DEFINE j == n \div Compared
           r == n % Compared
<1> HIDE DEF n
<1>3. j \in Int /\ r \in 0 .. Compared - 1 /\ n = Compared * j + r
  BY <1>1, SizesOK, Division
<1> HIDE DEF i, j, r
<1>4. PICK z \in Int : z = m * i + j
  BY <1>1, <1>2, <1>3
<1>5. Compared * (m * i + j) = (Compared * m) * i + Compared * j
  BY <1>1, <1>2, <1>3, SizesOK
<1>6. s + k = Compared * z + r
  BY <1>1, <1>2, <1>3, <1>4, <1>5, SizesOK
<1> DEFINE x == s + k
<1>7. x \in Int /\ x = Compared * z + r
  BY <1>6
<1> HIDE DEF x
<1>8. x % Compared = r
  BY <1>0, <1>3, <1>4, <1>7
<1> QED BY <1>8 DEF x, r, n

\* What is wanted grows by primitives of slot r only.
Later(r) ==
    /\ q' = q /\ burst' = burst
    /\ \A d \in Det : /\ wanted[d] \subseteq wanted'[d]
                      /\ \A t \in wanted'[d] : t \in wanted[d] \/ Slot(t) = r

\* Holding in the next clock.
HoldingNext(cells, r) ==
    \A d \in Det :
       /\ d \in detector_triggering' =>
             \/ cells[d] = Empty
             \/ StrayIn(cells[d], q'[1], burst')
             \/ /\ Has(cells[d], r, q'[1], wanted'[d], burst')
                /\ d # Leading(q'[2]) => timetocompare'[d] = Compare(cells[d][1])
       /\ Tag(r) = Tag(q'[1]) =>
             \A t \in wanted'[d] : Slot(t) = r => cells[d] = <<t, burst'>> /\ d \in detector_triggering'

\* Collects in the next clock.
CollectsNext(coll, S, ref) ==
    \A d \in Det :
       /\ \A c \in coll[d] : \/ StrayIn(c, q'[1], burst')
                             \/ HasOf(c, S, q'[1], wanted'[d], burst') /\ InCut(d, c[1], ref)
       /\ \A t \in wanted'[d] :
             Slot(t) \in S /\ Tag(Slot(t)) = Tag(q'[1]) /\ InCut(d, t, ref) => <<t, burst'>> \in coll[d]

\* The registers take what answers a slot.
LEMMA TakeStep ==
    ASSUME NEW k \in {-1, 0, 1}, Take(k), q[1] \in Nat, oldaddress = Address(q[1]),
           NEW s, s = q[1] + k, Answers(s),
           NEW r, Later(r), r # s,
           NEW cells, \A d \in Det : InSlot(d) => cells[d] = q_b[d]
    PROVE  HoldingNext(cells, s)
<1> SUFFICES ASSUME NEW d \in Det
             PROVE  /\ InSlot(d) =>
                          \/ cells[d] = Empty
                          \/ StrayIn(cells[d], q[1], burst)
                          \/ /\ Has(cells[d], s, q[1], wanted'[d], burst)
                             /\ d # Leading(q[2]) => timetocompare'[d] = Compare(cells[d][1])
                    /\ Tag(s) = Tag(q[1]) =>
                          \A t \in wanted'[d] : Slot(t) = s => cells[d] = <<t, burst>> /\ InSlot(d)
  BY DEF HoldingNext, Take, Later
<1>1. Gives(q_b[d], s, q[1], wanted[d], burst)
  BY DEF Answers
<1>2. wanted[d] \subseteq wanted'[d] /\ \A t \in wanted'[d] : t \in wanted[d] \/ Slot(t) = r
  BY DEF Later
<1>3. ASSUME InSlot(d), d # Leading(q[2]), Has(q_b[d], s, q[1], wanted[d], burst)
      PROVE  timetocompare'[d] = Compare(q_b[d][1])
  <2>1. timetocompare'[d] = ((oldaddress + k) % Compared) * Fine + FineTime(q_b[d])
    BY <1>3, Zenon DEF Take, TimeToCompare
  <2>2. (oldaddress + k) % Compared = Slot(q_b[d][1]) % Compared
    BY <1>3, AddressCompared DEF Has
  <2>3. FineTime(q_b[d]) = q_b[d][1] % Fine
    BY <1>3 DEF FineTime, Has, Empty
  <2> QED BY <2>1, <2>2, <2>3, Zenon DEF Compare
<1>4. ASSUME InSlot(d)
      PROVE  \/ cells[d] = Empty
             \/ StrayIn(cells[d], q[1], burst)
             \/ /\ Has(cells[d], s, q[1], wanted'[d], burst)
                /\ d # Leading(q[2]) => timetocompare'[d] = Compare(cells[d][1])
  <2>1. UpperBits(q_b[d]) = Tag(q[1]) /\ cells[d] = q_b[d]
    BY <1>4 DEF InSlot
  <2>2. q_b[d] = Empty \/ StrayIn(q_b[d], q[1], burst) \/ Has(q_b[d], s, q[1], wanted[d], burst)
    BY <1>1, <2>1 DEF Gives
  <2>3. Has(q_b[d], s, q[1], wanted[d], burst) => Has(q_b[d], s, q[1], wanted'[d], burst)
    BY <1>2 DEF Has
  <2> QED BY <1>3, <1>4, <2>1, <2>2, <2>3
<1>5. ASSUME Tag(s) = Tag(q[1]), NEW t \in wanted'[d], Slot(t) = s
      PROVE  cells[d] = <<t, burst>> /\ InSlot(d)
  <2>1. q_b[d] = <<t, burst>> /\ UpperBits(q_b[d]) = Tag(q[1])
    BY <1>1, <1>2, <1>5 DEF Gives
  <2> QED BY <2>1 DEF InSlot
<1> QED BY <1>4, <1>5

\* The leading detector's time is that of the slot's primitive, and stays.
LEMMA LeadingTime ==
    ASSUME NEW k \in {-1, 0, 1}, Take(k), q[1] \in Nat, oldaddress = Address(q[1]),
           NEW ref, NEW lead \in Det, lead = Leading(q[2]),
           IF k = 0 THEN Answers(q[1]) /\ ref \in wanted[lead] /\ Slot(ref) = q[1]
                    ELSE timetocompare[lead] = Compare(ref)
    PROVE  timetocompare'[lead] = Compare(ref)
<1>1. CASE k = 0
  <2>1. q_b[lead] = <<ref, burst>> /\ InSlot(lead)
    BY <1>1 DEF Answers, Gives, InSlot
  <2>2. timetocompare'[lead] = ((oldaddress + 0) % Compared) * Fine + FineTime(q_b[lead])
    BY <1>1, <2>1, Zenon DEF Take, TimeToCompare
  <2>3. (oldaddress + 0) % Compared = (q[1] + 0) % Compared
    BY AddressCompared
  <2>4. q[1] + 0 = q[1] /\ FineTime(q_b[lead]) = ref % Fine
    BY <2>1 DEF FineTime, Empty
  <2> QED BY <1>1, <2>2, <2>3, <2>4, Zenon DEF Compare
<1>2. CASE k # 0
  <2>1. timetocompare'[lead] = timetocompare[lead]
    BY <1>2, Zenon DEF Take, TimeToCompare
  <2> QED BY <1>2, <2>1
<1> QED BY <1>1, <1>2

\* A primitive in the slots around that of ref is in time as the LUT sees it if it is.
LEMMA InTimeOK ==
    ASSUME NEW d \in Det, NEW t \in Nat, NEW ref \in Nat,
           Slot(ref) = q[1], Slot(t) \in q[1] - 1 .. q[1] + 1,
           timetocompare[Leading(q[2])] = Compare(ref),
           d # Leading(q[2]) => timetocompare[d] = Compare(t)
    PROVE  InTime(d) <=> InCut(d, t, ref)
<1>1. CASE d = Leading(q[2])
  <2>1. Slot(ref) \in Slot(ref) - 1 .. Slot(ref) + 1
    BY SlotOK
  <2>2. Distance(Compare(ref), Compare(ref)) = 0
    BY <2>1, DistanceOK
  <2>3. timecut[d] \in Int /\ timecut[d] >= 1
    <3>1. timecut[d] \in 1 .. (Compared * Fine) \div 2
      BY CutAssumption
    <3>2. (Compared * Fine) \div 2 \in Int
      BY RangeOK
    <3> QED BY <3>1, <3>2
  <2>4. Distance(timetocompare[d], timetocompare[Leading(q[2])]) = 0
    BY <1>1, <2>2, Zenon
  <2>5. InTime(d)
    BY <2>3, <2>4 DEF InTime
  <2> QED BY <1>1, <2>5 DEF InCut
<1>2. CASE d # Leading(q[2])
  <2>1. Distance(Compare(t), Compare(ref)) = IF t >= ref THEN t - ref ELSE ref - t
    BY DistanceOK
  <2>2. InTime(d) <=> (IF t >= ref THEN t - ref ELSE ref - t) < timecut[d]
    BY <1>2, <2>1 DEF InTime
  <2>3. timecut[d] \in Int /\ timecut[d] >= 1
    <3>1. timecut[d] \in 1 .. (Compared * Fine) \div 2
      BY CutAssumption
    <3>2. (Compared * Fine) \div 2 \in Int
      BY RangeOK
    <3> QED BY <3>1, <3>2
  <2>4. InCut(d, t, ref) <=> (t - ref < timecut[d] /\ ref - t < timecut[d])
    BY <1>2 DEF InCut
  <2> QED BY <2>2, <2>3, <2>4
<1> QED BY <1>1, <1>2

\* The LUT collects what the registers hold of one more slot.
LEMMA CollectStep ==
    ASSUME NEW S, NEW ref \in Nat, q[1] \in Nat, Slot(ref) = q[1], Collects(found, S, ref),
           timetocompare[Leading(q[2])] = Compare(ref),
           NEW r, r \in q[1] - 1 .. q[1] + 1, r \notin S,
           NEW cells, Holding(cells, r)
    PROVE  Collects(Collected(cells), S \cup {r}, ref)
<1> SUFFICES ASSUME NEW d \in Det
             PROVE  /\ \A c \in Collected(cells)[d] :
                          \/ StrayIn(c, q[1], burst)
                          \/ HasOf(c, S \cup {r}, q[1], wanted[d], burst) /\ InCut(d, c[1], ref)
                    /\ \A t \in wanted[d] :
                          Slot(t) \in S \cup {r} /\ Tag(Slot(t)) = Tag(q[1]) /\ InCut(d, t, ref) =>
                             <<t, burst>> \in Collected(cells)[d]
  BY DEF Collects
<1> DEFINE x == cells[d]
<1>1. Collected(cells)[d] = IF d \in detector_triggering /\ InTime(d) THEN found[d] \cup ({x} \ {Empty})
                            ELSE found[d]
  BY DEF Collected
<1>2. /\ \A c \in found[d] : \/ StrayIn(c, q[1], burst)
                             \/ HasOf(c, S, q[1], wanted[d], burst) /\ InCut(d, c[1], ref)
      /\ \A t \in wanted[d] :
            Slot(t) \in S /\ Tag(Slot(t)) = Tag(q[1]) /\ InCut(d, t, ref) => <<t, burst>> \in found[d]
  BY DEF Collects
<1>3. /\ d \in detector_triggering =>
            \/ x = Empty
            \/ StrayIn(x, q[1], burst)
            \/ /\ Has(x, r, q[1], wanted[d], burst)
               /\ d # Leading(q[2]) => timetocompare[d] = Compare(x[1])
      /\ Tag(r) = Tag(q[1]) =>
            \A t \in wanted[d] : Slot(t) = r => x = <<t, burst>> /\ d \in detector_triggering
  BY DEF Holding
<1> HIDE DEF x
<1>4. ASSUME Has(x, r, q[1], wanted[d], burst), d # Leading(q[2]) => timetocompare[d] = Compare(x[1])
      PROVE  /\ HasOf(x, S \cup {r}, q[1], wanted[d], burst)
             /\ InTime(d) <=> InCut(d, x[1], ref)
  <2>1. /\ x = <<x[1], burst>> /\ x[1] \in wanted[d] /\ x[1] \in Nat /\ Slot(x[1]) = r /\ Tag(r) = Tag(q[1])
    BY <1>4 DEF Has
  <2>2. HasOf(x, S \cup {r}, q[1], wanted[d], burst)
    BY <2>1 DEF HasOf
  <2> QED BY <1>4, <2>1, <2>2, InTimeOK
<1>5. ASSUME NEW c \in Collected(cells)[d]
      PROVE  \/ StrayIn(c, q[1], burst)
             \/ HasOf(c, S \cup {r}, q[1], wanted[d], burst) /\ InCut(d, c[1], ref)
  <2>1. CASE c \in found[d]
    BY <1>2, <2>1 DEF HasOf
  <2>2. CASE c = x /\ d \in detector_triggering /\ InTime(d) /\ x # Empty
    BY <1>3, <1>4, <2>2
  <2> QED BY <1>1, <2>1, <2>2
<1>6. ASSUME NEW t \in wanted[d], Slot(t) \in S \cup {r}, Tag(Slot(t)) = Tag(q[1]), InCut(d, t, ref)
      PROVE  <<t, burst>> \in Collected(cells)[d]
  <2>1. CASE Slot(t) \in S
    BY <1>1, <1>2, <1>6, <2>1
  <2>2. CASE Slot(t) = r
    <3>1. x = <<t, burst>> /\ d \in detector_triggering
      BY <1>3, <1>6, <2>2
    <3>2. x[1] = t /\ x # Empty
      BY <3>1 DEF Empty
    <3>3. ~StrayIn(x, q[1], burst)
      <4>1. x[2] = burst
        BY <3>1
      <4>2. r # q[1] + 1 - Cells
        BY SizesOK, CellsDivided
      <4> QED BY <2>2, <3>2, <4>1, <4>2 DEF StrayIn
    <3>4. InTime(d)
      BY <1>3, <1>4, <1>6, <3>1, <3>2, <3>3
    <3> QED BY <1>1, <3>1, <3>2, <3>4
  <2> QED BY <1>6, <2>1, <2>2
<1> QED BY <1>5, <1>6

\* A collection is complete as long as nothing more of its slots is wanted.
LEMMA CollectsStays ==
    ASSUME NEW coll, NEW S, NEW ref, Collects(coll, S, ref), NEW r, Later(r), r \notin S
    PROVE  CollectsNext(coll, S, ref)
BY DEF Collects, CollectsNext, Later, HasOf

-----------------------------------------------------------------------------
(***************************************************************************)
(* A clock of the reader.                                                   *)
(***************************************************************************)
\* A clock of a burst in which the reader is at a reference time with a primitive to
\* compare with.
RunClock(new) ==
    /\ Running /\ SlotTypeOK /\ Memory /\ Reader
    /\ new \in Arrivals /\ SubReceive(new) /\ burst' = burst
    /\ Reads /\ Referred(q)

\* The slots that are read are wanted by then.
CertainNext(S) == \A d \in Det : \A t \in wanted'[d] : Slot(t) \in S

\* The times are compared with one of the detectors.
LEMMA LeadingOK == \A kinds : Leading(kinds) \in Det
  BY DetAssumption DEF Leading

\* The primitives of the reference time's slot are those of a window that has been
\* received: nothing takes their places.
LEMMA LeadingPrimitive ==
    ASSUME NEW new, RunClock(new)
    PROVE  /\ q[1] \in Nat
           /\ \A d \in Det : /\ got[d] \subseteq Nat
                             /\ \A t \in Nat : Slot(t) = q[1] => (t \in got'[d] <=> t \in got[d])
<1>1. q[1] \in Nat /\ window \in Nat
  BY DEF RunClock, SlotTypeOK, SlotTime
<1>2. q[1] < window * PerWindow
  BY DEF RunClock, Memory, Queued
<1>3. ASSUME NEW d \in Det
      PROVE  /\ got[d] \subseteq Nat
             /\ \A t \in Nat : Slot(t) = q[1] => (t \in got'[d] <=> t \in got[d])
  <2>1. Written(got[d]) /\ Holds(alignRAM[d], got[d], burst)
    BY DEF RunClock, Memory
  <2>2. \A t \in Nat : Slot(t) < window * PerWindow => (t \in got'[d] <=> t \in got[d])
    BY <1>1, <2>1, WriteStep DEF RunClock
  <2> QED BY <1>2, <2>1, <2>2 DEF Written
<1> QED BY <1>1, <1>3

\* A read of slot r makes what is wanted grow by primitives of that slot.
LEMMA ReadGrows ==
    ASSUME NEW new, RunClock(new), q' = q, NEW r, r \in q[1] - 1 .. q[1] + 1, Read(r, new),
           NEW S, r \notin S,
           FSMReadRam = "SetRamAddress1" \/ Certain(S),
           FSMReadRam # "SetRamAddress1" \/ S = {}
    PROVE  /\ AnswersNext(r) /\ CertainNext(S \cup {r})
           /\ r = q[1] => \A d \in Det : \A t \in got[d] : Slot(t) = r => t \in wanted'[d]
           /\ FSMReadRam # "SetRamAddress1" => Later(r)
<1>1. ReadClock(r, new)
  BY DEF RunClock, ReadClock
<1>2. \A d \in Det : \E g \in {got[d], got'[d]} : wanted'[d] = Before[d] \cup {t \in g : Slot(t) = r}
  BY <1>1, WantedStep
<1>3. \A d \in Det : \A t \in Before[d] : Slot(t) \in S
  <2>1. CASE FSMReadRam = "SetRamAddress1"
    BY <2>1 DEF Before, Nothing
  <2>2. CASE FSMReadRam # "SetRamAddress1"
    BY <2>2 DEF Before, Certain
  <2> QED BY <2>1, <2>2
<1>4. AnswersNext(r)
  BY <1>1, <1>3, ReadStep
<1>5. FSMReadRam # "SetRamAddress1" => Later(r)
  BY <1>2 DEF Before, Later, RunClock
<1>6. CertainNext(S \cup {r})
  BY <1>2, <1>3 DEF CertainNext
<1>7. ASSUME r = q[1], NEW d \in Det, NEW t \in got[d], Slot(t) = r
      PROVE  t \in wanted'[d]
  <2>1. t \in got'[d]
    BY <1>7, LeadingPrimitive
  <2> QED BY <1>2, <1>7, <2>1
<1> QED BY <1>4, <1>5, <1>6, <1>7

\* Slot N is read.
LEMMA ReaderSetRamAddress1 ==
    ASSUME NEW new, RunClock(new), SetRamAddress1(new), q' = q, FSMReadRam' = "SetDetector1"
    PROVE  \E ref \in got'[Leading(q'[2])] : Slot(ref) = q'[1] /\ Reading(ref)'
<1>1. PICK ref \in got[Leading(q[2])] : Slot(ref) = q[1]
  BY DEF RunClock, Referred
<1>2. ref \in got'[Leading(q[2])] /\ q[1] \in Nat
  BY <1>1, LeadingPrimitive, LeadingOK
<1>3. Read(q[1], new) /\ oldaddress' = Address(q[1]) /\ FSMReadRam = "SetRamAddress1"
  BY DEF SetRamAddress1
<1> DEFINE r == q[1]
           S == {}
<1>4. r = q[1] /\ r \in q[1] - 1 .. q[1] + 1 /\ S = {} /\ r \notin S /\ Read(r, new)
  BY <1>2, <1>3
<1> HIDE DEF r, S
<1>5. /\ AnswersNext(r) /\ CertainNext(S \cup {r})
      /\ \A d \in Det : \A t \in got[d] : Slot(t) = r => t \in wanted'[d]
  BY <1>3, <1>4, ReadGrows, Zenon
<1>6. Answers(q[1])'
  BY <1>4, <1>5 DEF AnswersNext, Answers
<1>7. Certain({q[1]})'
  BY <1>4, <1>5 DEF CertainNext, Certain
<1>8. (ref \in wanted[Leading(q[2])])'
  BY <1>1, <1>4, <1>5, LeadingOK
<1>9. Reading(ref)'
  BY <1>3, <1>6, <1>7, <1>8 DEF Reading
<1> QED BY <1>1, <1>2, <1>9

\* The registers take slot N, slot N-1 is read.
LEMMA ReaderSetDetector1 ==
    ASSUME NEW new, RunClock(new), SetDetector1(new), q' = q
    PROVE  \E ref \in got'[Leading(q'[2])] : Slot(ref) = q'[1] /\ Reading(ref)'
<1>1. /\ Take(0) /\ Read(q[1] - 1, new) /\ oldaddress' = oldaddress
      /\ FSMReadRam = "SetDetector1" /\ FSMReadRam' = "ReadRam1"
      /\ alignRAMoutput' = [d \in Det |-> IF InSlot(d) THEN q_b[d] ELSE alignRAMoutput[d]]
  BY DEF SetDetector1
<1>2. PICK ref \in got[Leading(q[2])] : Slot(ref) = q[1] /\ Reading(ref)
  BY <1>1 DEF RunClock, Reader
<1>3. ref \in got'[Leading(q[2])] /\ q[1] \in Nat
  BY <1>2, LeadingPrimitive, LeadingOK
<1>4. /\ oldaddress = Address(q[1]) /\ Answers(q[1]) /\ Certain({q[1]})
      /\ ref \in wanted[Leading(q[2])]
  BY <1>1, <1>2 DEF Reading
<1> DEFINE r == q[1] - 1
           S == {q[1]}
<1>5. /\ r = q[1] - 1 /\ r \in q[1] - 1 .. q[1] + 1
      /\ S = {q[1]} /\ Certain(S) /\ r \notin S /\ Read(r, new)
  BY <1>1, <1>3, <1>4
<1> HIDE DEF r, S
<1>6. AnswersNext(r) /\ CertainNext(S \cup {r}) /\ Later(r)
  <2>1. FSMReadRam # "SetRamAddress1"
    BY <1>1
  <2> QED BY <1>5, <2>1, ReadGrows, Zenon
<1>7. HoldingNext(alignRAMoutput', q[1])
  <2>1. q[1] = q[1] + 0 /\ r # q[1]
    BY <1>3, <1>5
  <2>2. \A d \in Det : InSlot(d) => alignRAMoutput'[d] = q_b[d]
    BY <1>1
  <2> QED BY <1>1, <1>3, <1>4, <1>6, <2>1, <2>2, TakeStep
<1>8. timetocompare'[Leading(q[2])] = Compare(ref)
  BY <1>1, <1>2, <1>3, <1>4, LeadingOK, LeadingTime
<1>9. Answers(q[1] - 1)'
  BY <1>5, <1>6 DEF AnswersNext, Answers
<1>10. Certain({q[1], q[1] - 1})'
  BY <1>5, <1>6 DEF CertainNext, Certain
<1>11. Holding(alignRAMoutput, q[1])'
  BY <1>7 DEF HoldingNext, Holding
<1>12. Reading(ref)'
  BY <1>1, <1>4, <1>8, <1>9, <1>10, <1>11 DEF Reading
<1> QED BY <1>2, <1>3, <1>12

\* The LUT collects slot N, the registers take slot N-1, slot N+1 is read.
LEMMA ReaderReadRam1 ==
    ASSUME NEW new, RunClock(new), ReadRam1(new), q' = q
    PROVE  \E ref \in got'[Leading(q'[2])] : Slot(ref) = q'[1] /\ Reading(ref)'
<1>1. /\ Take(-1) /\ Read(q[1] + 1, new) /\ oldaddress' = oldaddress
      /\ FSMReadRam = "ReadRam1" /\ FSMReadRam' = "ReadRam1_2"
      /\ found' = Collected(alignRAMoutput)
      /\ alignRAMoutput' = [d \in Det |-> IF InSlot(d) THEN q_b[d] ELSE alignRAMoutput[d]]
  BY DEF ReadRam1
<1>2. PICK ref \in got[Leading(q[2])] : Slot(ref) = q[1] /\ Reading(ref)
  BY <1>1 DEF RunClock, Reader
<1>3. ref \in got'[Leading(q[2])] /\ q[1] \in Nat /\ ref \in Nat
  BY <1>2, LeadingPrimitive, LeadingOK
<1>4. /\ oldaddress = Address(q[1]) /\ timetocompare[Leading(q[2])] = Compare(ref)
      /\ Holding(alignRAMoutput, q[1]) /\ Answers(q[1] - 1) /\ Certain({q[1], q[1] - 1})
  BY <1>1, <1>2 DEF Reading
<1>5. found = Nothing
  BY <1>1 DEF RunClock, Reader
<1>6. Collects(found, {}, ref)
  BY <1>5 DEF Collects, Nothing
<1> DEFINE r == q[1] + 1
           S == {q[1], q[1] - 1}
           s == q[1] - 1
           z == q[1]
<1>7. /\ r = q[1] + 1 /\ r \in q[1] - 1 .. q[1] + 1
      /\ S = {q[1], q[1] - 1} /\ Certain(S) /\ r \notin S /\ Read(r, new)
      /\ s = q[1] + -1 /\ s = q[1] - 1 /\ r # s /\ Answers(s)
      /\ z = q[1] /\ z \in q[1] - 1 .. q[1] + 1 /\ z \notin {} /\ r # z /\ Holding(alignRAMoutput, z)
  BY <1>1, <1>3, <1>4
<1> HIDE DEF r, S, s, z
<1>8. AnswersNext(r) /\ CertainNext(S \cup {r}) /\ Later(r)
  <2>1. FSMReadRam # "SetRamAddress1"
    BY <1>1
  <2> QED BY <1>7, <2>1, ReadGrows, Zenon
<1>9. CollectsNext(found', {z}, ref)
  <2>1. Collects(Collected(alignRAMoutput), {} \cup {z}, ref)
    BY <1>2, <1>3, <1>3, <1>4, <1>6, <1>7, CollectStep, Zenon
  <2>2. {} \cup {z} = {z} /\ r \notin {z}
    BY <1>7
  <2> QED BY <1>1, <1>8, <2>1, <2>2, CollectsStays, Zenon
<1>10. HoldingNext(alignRAMoutput', s)
  <2>1. \A d \in Det : InSlot(d) => alignRAMoutput'[d] = q_b[d]
    BY <1>1
  <2>2. -1 \in {-1, 0, 1}
    OBVIOUS
  <2> QED BY <1>1, <1>3, <1>4, <1>7, <1>8, <2>1, <2>2, TakeStep
<1>11. timetocompare'[Leading(q[2])] = Compare(ref)
  <2>1. -1 \in {-1, 0, 1} /\ -1 # 0
    OBVIOUS
  <2> QED BY <1>1, <1>2, <1>3, <1>4, <2>1, LeadingOK, LeadingTime
<1>12. Answers(q[1] + 1)'
  BY <1>7, <1>8 DEF AnswersNext, Answers
<1>13. Certain({q[1], q[1] - 1, q[1] + 1})'
  BY <1>7, <1>8 DEF CertainNext, Certain
<1>14. Holding(alignRAMoutput, q[1] - 1)'
  BY <1>7, <1>10 DEF HoldingNext, Holding
<1>15. Collects(found, {q[1]}, ref)'
  BY <1>7, <1>9 DEF CollectsNext, Collects, InCut
<1>16. Reading(ref)'
  BY <1>1, <1>4, <1>11, <1>12, <1>13, <1>14, <1>15 DEF Reading
<1> QED BY <1>2, <1>3, <1>16

\* The LUT collects slot N-1, the registers take slot N+1.
LEMMA ReaderReadRam1_2 ==
    ASSUME NEW new, RunClock(new), ReadRam1_2, q' = q
    PROVE  \E ref \in got'[Leading(q'[2])] : Slot(ref) = q'[1] /\ Reading(ref)'
<1>1. /\ Take(1) /\ oldaddress' = oldaddress
      /\ FSMReadRam = "ReadRam1_2" /\ FSMReadRam' = "ReadRam1_3"
      /\ found' = Collected(alignRAMoutput)
      /\ q_b' = q_b /\ wanted' = wanted
  BY DEF ReadRam1_2
<1>2. PICK ref \in got[Leading(q[2])] : Slot(ref) = q[1] /\ Reading(ref)
  BY <1>1 DEF RunClock, Reader
<1>3. ref \in got'[Leading(q[2])] /\ q[1] \in Nat /\ ref \in Nat
  BY <1>2, LeadingPrimitive, LeadingOK
<1>4. /\ oldaddress = Address(q[1]) /\ timetocompare[Leading(q[2])] = Compare(ref)
      /\ Collects(found, {q[1]}, ref)
      /\ Holding(alignRAMoutput, q[1] - 1) /\ Answers(q[1] + 1) /\ Certain({q[1], q[1] - 1, q[1] + 1})
  BY <1>1, <1>2 DEF Reading
<1> DEFINE S == {q[1]}
           s == q[1] + 1
           z == q[1] - 1
           r == q[1] + 2
<1>5. /\ S = {q[1]} /\ Collects(found, S, ref)
      /\ s = q[1] + 1 /\ Answers(s)
      /\ z = q[1] - 1 /\ z \in q[1] - 1 .. q[1] + 1 /\ z \notin S /\ Holding(alignRAMoutput, z)
      /\ r # s /\ r \notin S \cup {z}
  BY <1>3, <1>4
<1> HIDE DEF S, s, z, r
<1>6. Later(r)
  BY <1>1 DEF Later, RunClock
<1>7. CollectsNext(found', S \cup {z}, ref)
  <2>1. Collects(Collected(alignRAMoutput), S \cup {z}, ref)
    BY <1>2, <1>3, <1>4, <1>5, CollectStep, Zenon
  <2> QED BY <1>1, <1>5, <1>6, <2>1, CollectsStays, Zenon
<1>8. HoldingNext(q_b', s)
  <2>1. \A d \in Det : InSlot(d) => q_b'[d] = q_b[d]
    BY <1>1
  <2>2. 1 \in {-1, 0, 1}
    OBVIOUS
  <2> QED BY <1>1, <1>3, <1>4, <1>5, <1>6, <2>1, <2>2, TakeStep
<1>9. timetocompare'[Leading(q[2])] = Compare(ref)
  <2>1. 1 \in {-1, 0, 1} /\ 1 # 0
    OBVIOUS
  <2> QED BY <1>1, <1>2, <1>3, <1>4, <2>1, LeadingOK, LeadingTime
<1>10. Certain({q[1], q[1] - 1, q[1] + 1})'
  BY <1>1, <1>4 DEF Certain
<1>11. Holding(q_b, q[1] + 1)'
  BY <1>5, <1>8 DEF HoldingNext, Holding
<1>12. Collects(found, {q[1], q[1] - 1}, ref)'
  BY <1>5, <1>7 DEF CollectsNext, Collects, InCut
<1>13. Reading(ref)'
  BY <1>1, <1>4, <1>9, <1>10, <1>11, <1>12 DEF Reading
<1> QED BY <1>2, <1>3, <1>13

\* The LUT collects slot N+1, and has what is coincident and nothing else but strays.
LEMMA ReaderReadRam1_3 ==
    ASSUME NEW new, RunClock(new), ReadRam1_3, \A d \in Det : Written(got[d])'
    PROVE  Coincidences'
<1>1. /\ LUT' = <<q[1], q[2], Collected(q_b), wanted>>
      /\ FSMReadRam = "ReadRam1_3"
  BY DEF ReadRam1_3
<1>2. PICK ref \in got[Leading(q[2])] : Slot(ref) = q[1] /\ Reading(ref)
  BY <1>1 DEF RunClock, Reader
<1> DEFINE lead == Leading(q[2])
<1>3. ref \in got'[lead] /\ q[1] \in Nat /\ ref \in Nat /\ lead \in Det
  BY <1>2, LeadingPrimitive, LeadingOK
<1>4. /\ timetocompare[lead] = Compare(ref)
      /\ Collects(found, {q[1], q[1] - 1}, ref)
      /\ Holding(q_b, q[1] + 1) /\ Certain({q[1], q[1] - 1, q[1] + 1})
  BY <1>1, <1>2 DEF Reading
<1> DEFINE S == {q[1], q[1] - 1}
           z == q[1] + 1
<1>5. /\ Collects(found, S, ref)
      /\ z \in q[1] - 1 .. q[1] + 1 /\ z \notin S /\ Holding(q_b, z)
      /\ Certain(S \cup {z}) /\ S \cup {z} \subseteq q[1] - 1 .. q[1] + 1
  <2>1. Certain(S \cup {z})
    <3>1. S \cup {z} = {q[1], q[1] - 1, q[1] + 1}
      OBVIOUS
    <3> HIDE DEF S, z
    <3> QED BY <1>4, <3>1, Zenon
  <2>2. z \in q[1] - 1 .. q[1] + 1 /\ z \notin S /\ S \cup {z} \subseteq q[1] - 1 .. q[1] + 1
    BY <1>3
  <2> QED BY <1>4, <2>1, <2>2
<1> HIDE DEF S, z
<1>6. Collects(Collected(q_b), S \cup {z}, ref)
  BY <1>2, <1>3, <1>4, <1>5, CollectStep, Zenon
<1>7. LUT'[1] = q[1] /\ LUT'[2] = q[2] /\ LUT'[3] = Collected(q_b) /\ LUT'[4] = wanted
  BY <1>1
<1> DEFINE R == CHOOSE t \in got'[Leading(LUT'[2])] : Slot(t) = LUT'[1]
<1>8. R = ref
  <2>1. \A t, u \in got'[lead] : Slot(t) = Slot(u) => t = u
    BY <1>3 DEF Written
  <2>2. got'[Leading(LUT'[2])] = got'[lead] /\ LUT'[1] = q[1]
    BY <1>7
  <2>3. ref \in got'[Leading(LUT'[2])] /\ Slot(ref) = LUT'[1]
    BY <1>2, <1>3, <2>2
  <2>4. R \in got'[Leading(LUT'[2])] /\ Slot(R) = LUT'[1]
    BY <2>3, Zenon
  <2> HIDE DEF R
  <2> QED BY <1>2, <1>3, <2>1, <2>2, <2>4
<1>9. burst' = burst
  BY DEF RunClock
<1>10. ASSUME NEW d \in Det
       PROVE  Coincident(d, LUT[1], LUT[2], LUT[4][d])' =
                 {t \in wanted[d] : Tag(Slot(t)) = Tag(q[1]) /\ InCut(d, t, ref)}
  <2>1. Coincident(d, LUT[1], LUT[2], LUT[4][d])' =
           {t \in LUT'[4][d] : /\ Tag(Slot(t)) = Tag(LUT'[1])
                               /\ d = Leading(LUT'[2]) \/ (t - R < timecut[d] /\ R - t < timecut[d])}
    BY DEF Coincident
  <2> HIDE DEF R
  <2>2. Coincident(d, LUT[1], LUT[2], LUT[4][d])' =
           {t \in wanted[d] : /\ Tag(Slot(t)) = Tag(q[1])
                              /\ d = lead \/ (t - ref < timecut[d] /\ ref - t < timecut[d])}
    BY <1>7, <1>8, <2>1
  <2> QED BY <2>2 DEF InCut
<1> HIDE DEF R
<1>11. ASSUME NEW d \in Det
       PROVE  {c \in Collected(q_b)[d] : ~StrayIn(c, q[1], burst)} =
              {<<t, burst>> : t \in {u \in wanted[d] : Tag(Slot(u)) = Tag(q[1]) /\ InCut(d, u, ref)}}
  <2>1. /\ \A c \in Collected(q_b)[d] : \/ StrayIn(c, q[1], burst)
                                        \/ HasOf(c, S \cup {z}, q[1], wanted[d], burst) /\ InCut(d, c[1], ref)
        /\ \A t \in wanted[d] : Slot(t) \in S \cup {z} /\ Tag(Slot(t)) = Tag(q[1]) /\ InCut(d, t, ref) =>
                                   <<t, burst>> \in Collected(q_b)[d]
    BY <1>6 DEF Collects
  <2>2. ASSUME NEW c \in Collected(q_b)[d], ~StrayIn(c, q[1], burst)
        PROVE  \E t \in wanted[d] : Tag(Slot(t)) = Tag(q[1]) /\ InCut(d, t, ref) /\ c = <<t, burst>>
    BY <2>1, <2>2 DEF HasOf
  <2>3. ASSUME NEW t \in wanted[d], Tag(Slot(t)) = Tag(q[1]), InCut(d, t, ref)
        PROVE  <<t, burst>> \in Collected(q_b)[d] /\ ~StrayIn(<<t, burst>>, q[1], burst)
    <3>1. Slot(t) \in S \cup {z}
      BY <1>5 DEF Certain
    <3>2. <<t, burst>> \in Collected(q_b)[d]
      BY <2>1, <2>3, <3>1
    <3>3. ~StrayIn(<<t, burst>>, q[1], burst)
      BY <1>3, <1>5, <3>1, NoStray
    <3> QED BY <3>2, <3>3
  <2> QED BY <2>2, <2>3
<1> SUFFICES ASSUME NEW d \in Det
             PROVE  {c \in LUT'[3][d] : ~StrayIn(c, LUT'[1], burst')} =
                    {<<t, burst'>> : t \in Coincident(d, LUT[1], LUT[2], LUT[4][d])'}
  BY DEF Coincidences, Stray, StrayIn
<1>12. {c \in LUT'[3][d] : ~StrayIn(c, LUT'[1], burst')} = {c \in Collected(q_b)[d] : ~StrayIn(c, q[1], burst)}
  BY <1>7, <1>9
<1>13. {<<t, burst'>> : t \in Coincident(d, LUT[1], LUT[2], LUT[4][d])'} =
       {<<t, burst>> : t \in {u \in wanted[d] : Tag(Slot(u)) = Tag(q[1]) /\ InCut(d, u, ref)}}
  BY <1>9, <1>10
<1> QED BY <1>11, <1>12, <1>13

-----------------------------------------------------------------------------
(***************************************************************************)
(* A clock of the memory and of the merge.                                  *)
(***************************************************************************)
\* A clock of a burst after its first.
BurstClock(new) ==
    /\ Running /\ SlotsInv /\ Memory
    /\ new \in Arrivals /\ SubReceive(new) /\ Merge /\ burst' = burst

\* Queued in the next clock.
QueuedNext(w) == w[1] < window' * PerWindow /\ (window' + 1) * PerWindow < w[1] + Cells

\* What waits comes from what waited, or has been merged while no window was closed.
LEMMA MergedWords ==
    ASSUME SlotTypeOK, Merge
    PROVE  /\ \A j \in 1 .. Len(MERGEDFIFO') :
                 \/ \E i \in 1 .. Len(MERGEDFIFO) : MERGEDFIFO'[j] = MERGEDFIFO[i]
                 \/ \E s \in ToMerge : MERGEDFIFO'[j] = <<s, KindsOf(s)>>
           /\ window' = window \/ (MayClose /\ window' = window + 1)
<1> DEFINE kept == IF Pops THEN Tail(MERGEDFIFO) ELSE MERGEDFIFO
<1>1. MERGEDFIFO \in Seq(SlotTime)
  BY DEF SlotTypeOK
<1>2. /\ kept \in Seq(SlotTime)
      /\ \A j \in 1 .. Len(kept) : \E i \in 1 .. Len(MERGEDFIFO) : kept[j] = MERGEDFIFO[i]
  <2>1. CASE Pops
    <3>1. MERGEDFIFO # <<>>
      BY <2>1 DEF Pops
    <3>2. /\ Tail(MERGEDFIFO) \in Seq(SlotTime) /\ Len(Tail(MERGEDFIFO)) = Len(MERGEDFIFO) - 1
          /\ \A j \in 1 .. Len(Tail(MERGEDFIFO)) : Tail(MERGEDFIFO)[j] = MERGEDFIFO[j + 1]
      BY <1>1, <3>1, HeadTailProperties
    <3>3. \A j \in 1 .. Len(Tail(MERGEDFIFO)) : j + 1 \in 1 .. Len(MERGEDFIFO)
      BY <1>1, <3>2
    <3> QED BY <2>1, <3>2, <3>3
  <2>2. CASE ~Pops
    BY <1>1, <2>2
  <2> QED BY <2>1, <2>2
<1>3. \/ MERGEDFIFO' = kept
      \/ \E s \in ToMerge : MERGEDFIFO' = Append(kept, <<s, KindsOf(s)>>)
  BY DEF Merge
<1>4. window' = window \/ (MayClose /\ window' = window + 1)
  BY DEF Merge
<1> HIDE DEF kept
<1>5. CASE MERGEDFIFO' = kept
  BY <1>2, <1>4, <1>5
<1>6. CASE \E s \in ToMerge : MERGEDFIFO' = Append(kept, <<s, KindsOf(s)>>)
  <2>1. PICK s \in ToMerge : MERGEDFIFO' = Append(kept, <<s, KindsOf(s)>>)
    BY <1>6
  <2> DEFINE w == <<s, KindsOf(s)>>
  <2>2. w \in SlotTime
    <3>1. s \in Nat
      BY SlotsOK DEF ToMerge
    <3> QED BY <3>1 DEF SlotTime, KindsOf
  <2>3. MERGEDFIFO' = Append(kept, w)
    BY <2>1
  <2> HIDE DEF w
  <2>4. /\ Len(Append(kept, w)) = Len(kept) + 1
        /\ \A j \in 1 .. Len(kept) : Append(kept, w)[j] = kept[j]
        /\ Append(kept, w)[Len(kept) + 1] = w
    BY <1>2, <2>2, AppendProperties
  <2>5. Len(kept) \in Nat
    BY <1>2
  <2>6. \A j \in 1 .. Len(MERGEDFIFO') :
           \/ \E i \in 1 .. Len(MERGEDFIFO) : MERGEDFIFO'[j] = MERGEDFIFO[i]
           \/ MERGEDFIFO'[j] = w
    BY <1>2, <2>3, <2>4, <2>5
  <2> QED BY <1>4, <2>1, <2>6 DEF w
<1> QED BY <1>3, <1>5, <1>6

\* What has been written is of this window or an earlier one.
LEMMA GotGrows ==
    ASSUME NEW new, BurstClock(new), NEW d \in Det
    PROVE  /\ Written(got'[d]) /\ Holds(alignRAM'[d], got'[d], burst)
           /\ \A t \in Nat : Slot(t) < window * PerWindow => (t \in got'[d] <=> t \in got[d])
BY WriteStep DEF BurstClock, Memory, SlotsInv, SlotTypeOK

\* Windows go on.
LEMMA WindowGrows ==
    ASSUME NEW new, BurstClock(new)
    PROVE  /\ window \in Nat /\ window' \in Nat
           /\ window * PerWindow \in Nat /\ window' * PerWindow \in Nat
           /\ (window + 1) * PerWindow = window * PerWindow + PerWindow
           /\ (window' + 1) * PerWindow = window' * PerWindow + PerWindow
           /\ \/ window' = window
              \/ /\ MayClose /\ window' * PerWindow = window * PerWindow + PerWindow
                 /\ (window' + 1) * PerWindow - Oldest < Cells
<1>1. window \in Nat /\ window' \in Nat
  BY MergeWords DEF BurstClock, SlotsInv, SlotTypeOK
<1>2. window' = window \/ (MayClose /\ window' = window + 1)
  BY MergedWords DEF BurstClock, SlotsInv
<1>3. \A w \in Nat : w * PerWindow \in Nat /\ (w + 1) * PerWindow = w * PerWindow + PerWindow
  BY SizesOK
<1>4. ASSUME MayClose, window' = window + 1
      PROVE  (window' + 1) * PerWindow - Oldest < Cells
  <2>1. window' + 1 = window + 2
    BY <1>1, <1>4
  <2> QED BY <1>4, <2>1 DEF MayClose
<1> QED BY <1>1, <1>2, <1>3, <1>4

\* Nothing that waits comes before the oldest.
LEMMA OldestOK ==
    ASSUME NEW new, BurstClock(new)
    PROVE  /\ Oldest \in Nat /\ Oldest <= window * PerWindow
           /\ \A j \in 1 .. Len(MERGEDFIFO) : MERGEDFIFO[j][1] \in Nat /\ Oldest <= MERGEDFIFO[j][1]
           /\ Reads => q[1] \in Nat /\ Oldest <= q[1]
<1>1. /\ SlotTypeOK /\ InOrder /\ (Reads => First(q[1]) /\ Queued(q))
      /\ \A j \in 1 .. Len(MERGEDFIFO) : Queued(MERGEDFIFO[j])
  BY DEF BurstClock, SlotsInv, SlotsInOrder, Memory
<1>2. \A j \in 1 .. Len(MERGEDFIFO) : MERGEDFIFO[j][1] \in Nat
  BY <1>1, SlotsOfFifo
<1>3. q[1] \in Nat /\ window * PerWindow \in Nat
  BY <1>1, SizesOK DEF SlotTypeOK, SlotTime
<1>4. CASE Reads
  <2>1. Oldest = q[1]
    BY <1>4 DEF Oldest, Reads
  <2>2. q[1] < window * PerWindow /\ \A j \in 1 .. Len(MERGEDFIFO) : q[1] <= MERGEDFIFO[j][1]
    BY <1>1, <1>4 DEF Queued, First
  <2> QED BY <1>2, <1>3, <2>1, <2>2
<1>5. CASE ~Reads /\ MERGEDFIFO # <<>>
  <2>1. Oldest = MERGEDFIFO[1][1]
    BY <1>5 DEF Oldest, Reads
  <2>2. 1 \in 1 .. Len(MERGEDFIFO)
    BY <1>1, <1>5, EmptySeq DEF SlotTypeOK
  <2>3. \A j \in 1 .. Len(MERGEDFIFO) : MERGEDFIFO[1][1] <= MERGEDFIFO[j][1]
    BY <1>1, <2>2 DEF InOrder
  <2>4. MERGEDFIFO[1][1] < window * PerWindow
    BY <1>1, <2>2 DEF Queued
  <2> QED BY <1>2, <1>3, <1>5, <2>1, <2>2, <2>3, <2>4
<1>6. CASE ~Reads /\ MERGEDFIFO = <<>>
  <2>1. Oldest = window * PerWindow
    BY <1>6 DEF Oldest, Reads
  <2>2. \A j \in 1 .. Len(MERGEDFIFO) : FALSE
    BY <1>6
  <2> QED BY <1>3, <1>6, <2>1, <2>2
<1> QED BY <1>4, <1>5, <1>6

\* A reference time that waits in the reader and has a primitive has had it before.
LEMMA ReferredStays ==
    ASSUME NEW new, BurstClock(new), Reads, \E t \in got'[Leading(q[2])] : Slot(t) = q[1]
    PROVE  Referred(q)
<1>1. Leading(q[2]) \in Det /\ q[1] < window * PerWindow
  BY LeadingOK DEF BurstClock, Memory, Queued
<1>2. PICK t \in got'[Leading(q[2])] : Slot(t) = q[1]
  OBVIOUS
<1>3. t \in Nat
  BY <1>1, GotGrows DEF Written
<1> QED BY <1>1, <1>2, <1>3, GotGrows DEF Referred

\* What was queued still is.
LEMMA QueuedStays ==
    ASSUME NEW new, BurstClock(new), NEW w, Queued(w), w[1] \in Nat, Oldest <= w[1]
    PROVE  QueuedNext(w)
<1>2. /\ w[1] < window * PerWindow /\ (window + 1) * PerWindow < w[1] + Cells
  BY DEF Queued, Fits
<1> DEFINE s == w[1]
           o == Oldest
           a == window * PerWindow
           b == window' * PerWindow
<1>3. s \in Nat /\ o \in Nat /\ o <= s /\ s < a /\ a + PerWindow < s + Cells
  BY <1>2, WindowGrows, OldestOK
<1>4. /\ a \in Nat /\ b \in Nat /\ (window' + 1) * PerWindow = b + PerWindow
      /\ b = a \/ (b = a + PerWindow /\ b + PerWindow - o < Cells)
  <2>1. /\ window * PerWindow \in Nat /\ window' * PerWindow \in Nat
        /\ (window' + 1) * PerWindow = window' * PerWindow + PerWindow
        /\ \/ window' = window
           \/ /\ window' * PerWindow = window * PerWindow + PerWindow
              /\ (window' + 1) * PerWindow - Oldest < Cells
    BY WindowGrows
  <2>2. CASE window' = window
    BY <2>1, <2>2
  <2> DEFINE c == (window' + 1) * PerWindow
  <2>3. CASE window' * PerWindow = window * PerWindow + PerWindow /\ c - Oldest < Cells
    <3>1. b = a + PerWindow /\ c = b + PerWindow /\ c - o < Cells
      BY <2>1, <2>3
    <3>3. b \in Nat
      BY <2>1
    <3> HIDE DEF a, b, c, o
    <3>2. b + PerWindow - o < Cells
      BY <1>3, <3>3, <3>1, SizesOK
    <3> QED BY <2>1, <3>1, <3>2 DEF a, b, c, o
  <2> QED BY <2>1, <2>2, <2>3
<1> HIDE DEF s, o, a, b
<1>5. s < b /\ b + PerWindow < s + Cells
  BY <1>3, <1>4, SizesOK
<1> QED BY <1>4, <1>5 DEF s, b, QueuedNext

\* A reference time is merged with its kinds.
LEMMA QueuedMerged ==
    ASSUME NEW new, BurstClock(new), NEW s \in ToMerge
    PROVE  QueuedNext(<<s, KindsOf(s)>>) /\ window' = window
<1>1. window' = window
  BY WindowGrows DEF MayClose
<1>2. /\ s \in Nat /\ s < window * PerWindow /\ Fits(s)
  BY SlotsOK DEF ToMerge, BurstClock, Memory
<1> QED BY <1>1, <1>2 DEF QueuedNext, Fits

\* Nothing more is asked for in a slot of a window that has been received, and a word
\* of it that is merged is one less to come.
LEMMA KindsStay ==
    ASSUME NEW new, BurstClock(new), NEW s \in Slots, s < window * PerWindow, merged' <= s
    PROVE  KindsOf(s)' \subseteq KindsOf(s) /\ merged <= s
<1>1. /\ SlotTypeOK /\ s \in Nat /\ merged \in Int /\ merged' \in Int /\ merged <= merged'
      /\ window \in Nat /\ window * PerWindow \in Nat
  BY MergeWords, SlotsOK, SizesOK DEF BurstClock, SlotsInv, SlotTypeOK
<1>2. \A d \in Det : asked'[d][s] = asked[d][s]
  <2> SUFFICES ASSUME NEW d \in Det
               PROVE  asked'[d][s] = asked[d][s]
    OBVIOUS
  <2>1. asked'[d][s] = IF new[d] # None /\ s = Slot(new[d][1]) THEN asked[d][s] + 1 ELSE asked[d][s]
    BY DEF BurstClock, SubReceive, Running
  <2>2. new[d] # None => s # Slot(new[d][1])
    <3> SUFFICES ASSUME new[d] # None, s = Slot(new[d][1])
                 PROVE  FALSE
      OBVIOUS
    <3>1. s \div PerWindow = window
      BY ArrivesOK DEF BurstClock
    <3>2. window * PerWindow <= s
      BY <1>1, <3>1, WindowOK
    <3> QED BY <1>1, <3>2
  <2> QED BY <2>1, <2>2
<1>3. Words(s) \in Nat /\ Words(s)' \in Nat /\ Words(s) <= Words(s)'
  <2>1. copies \in Nat /\ copies' \in Nat
    BY <1>1, MergeWords DEF BurstClock, SlotTypeOK
  <2>2. CASE merged' = merged /\ copies' = copies
    BY <2>1, <2>2 DEF Words
  <2>3. CASE \E u \in ToMerge : merged' = u /\ copies' = Words(u) + 1
    <3>1. PICK u \in ToMerge : merged' = u /\ copies' = Words(u) + 1
      BY <2>3
    <3>2. CASE u = s
      <4>1. Words(s) \in Nat /\ Words(s)' = Words(s) + 1
        BY <2>1, <3>1, <3>2 DEF Words
      <4> QED BY <4>1
    <3>3. CASE u # s
      <4>1. s # merged' /\ s # merged
        BY <1>1, <3>1, <3>3
      <4> QED BY <4>1 DEF Words
    <3> QED BY <3>2, <3>3
  <2> QED BY <2>2, <2>3 DEF BurstClock, Merge
<1>4. \A d \in Det : asked[d][s] \in Nat
  BY <1>1 DEF SlotTypeOK
<1>5. \A k : DetectorOf(k) \in Det
  BY DetAssumption DEF DetectorOf
<1>6. ASSUME NEW k \in KindsOf(s)'
      PROVE  k \in KindsOf(s)
  <2>1. k \in {"reference", "control"} /\ asked'[DetectorOf(k)][s] > Words(s)'
    BY DEF KindsOf
  <2>2. asked[DetectorOf(k)][s] > Words(s)' /\ asked[DetectorOf(k)][s] \in Nat
    BY <1>2, <1>4, <1>5, <2>1
  <2> QED BY <1>3, <2>1, <2>2 DEF KindsOf
<1> QED BY <1>1, <1>6

\* What is still to be merged does not reach round the memory either.
LEMMA ToMergeStays ==
    ASSUME NEW new, BurstClock(new), NEW s \in ToMerge'
    PROVE  (window' + 1) * PerWindow < s + Cells
<1>1. /\ window * PerWindow \in Nat /\ window' * PerWindow \in Nat
      /\ (window' + 1) * PerWindow = window' * PerWindow + PerWindow
      /\ \/ window' = window
         \/ MayClose /\ (window' + 1) * PerWindow - Oldest < Cells
  BY WindowGrows
<1>2. s \in Slots /\ s \in Nat /\ merged' <= s /\ s < window' * PerWindow /\ KindsOf(s)' # {}
  BY SlotsOK DEF ToMerge
<1>3. s < window * PerWindow => s \in ToMerge
  BY <1>2, KindsStay DEF ToMerge
<1>4. CASE window' = window
  <2>1. s \in ToMerge
    BY <1>2, <1>3, <1>4
  <2>2. Fits(s)
    BY <2>1 DEF BurstClock, Memory
  <2> QED BY <1>4, <2>2 DEF Fits
<1>5. CASE MayClose /\ (window' + 1) * PerWindow - Oldest < Cells
  <2>1. ~(s < window * PerWindow)
    BY <1>3, <1>5 DEF MayClose
  <2>2. Oldest \in Nat /\ Oldest <= window * PerWindow
    BY OldestOK
  <2> DEFINE a == window * PerWindow
             b == (window' + 1) * PerWindow
             o == Oldest
  <2>3. b \in Nat /\ o \in Nat /\ a \in Nat /\ o <= a /\ ~(s < a) /\ b - o < Cells
    BY <1>1, <1>5, <2>1, <2>2, SizesOK
  <2> HIDE DEF a, b, o
  <2>4. b < s + Cells
    BY <1>2, <2>3, SizesOK
  <2> QED BY <2>4 DEF b
<1> QED BY <1>1, <1>4, <1>5

-----------------------------------------------------------------------------
(***************************************************************************)
(* The invariant of the memory.                                             *)
(***************************************************************************)
\* A clock of a burst after its first is one of the memory, the merge and the reader.
LEMMA ClockOfBurst ==
    ASSUME SlotsInv, Memory, Running, Next
    PROVE  \E new : BurstClock(new) /\ SubReadRam(new)
<1>1. PICK new \in Arrivals : SubReceive(new) /\ SubReadRam(new) /\ Merge
  BY DEF Next, Clock, Running
<1>2. burst' = burst
  BY DEF Next, Clock, Gate, Running
<1> QED BY <1>1, <1>2 DEF BurstClock

\* The slots written are of the windows so far.
LEMMA WrittenNext ==
    ASSUME NEW new, BurstClock(new), NEW d \in Det
    PROVE  Written(got[d])'
<1>1. Written(got'[d])
  BY GotGrows
<1>2. \A t \in got'[d] : t \in Nat /\ Slot(t) \in Nat
  BY <1>1, SlotOK DEF Written
<1> DEFINE a == (window + 1) * PerWindow
           b == (window' + 1) * PerWindow
<1>3. a \in Nat /\ b \in Nat /\ a <= b
  <2>1. /\ window * PerWindow \in Nat /\ window' * PerWindow \in Nat
        /\ (window + 1) * PerWindow = window * PerWindow + PerWindow
        /\ (window' + 1) * PerWindow = window' * PerWindow + PerWindow
        /\ \/ window' = window
           \/ window' * PerWindow = window * PerWindow + PerWindow
    BY WindowGrows
  <2> DEFINE x == window * PerWindow
             y == window' * PerWindow
  <2>2. /\ x \in Nat /\ y \in Nat /\ a = x + PerWindow /\ b = y + PerWindow
        /\ y = x \/ y = x + PerWindow
    BY <2>1
  <2> HIDE DEF a, b, x, y
  <2> QED BY <2>2, SizesOK
<1> HIDE DEF a, b
<1>4. \A t \in got'[d] : Slot(t) < b
  <2>1. \A t \in got'[d] : Slot(t) < a
    BY <1>1 DEF Written, a
  <2> QED BY <1>2, <1>3, <2>1
<1> QED BY <1>1, <1>4 DEF Written, b

\* A clock of a burst keeps what is said of the memory.
LEMMA MemoryNext ==
    ASSUME NEW new, BurstClock(new), SubReadRam(new)
    PROVE  Memory'
<1>1. ASSUME NEW d \in Det
      PROVE  Written(got[d])' /\ Holds(alignRAM[d], got[d], burst)'
  <2>1. Holds(alignRAM'[d], got'[d], burst) /\ burst' = burst
    BY GotGrows DEF BurstClock
  <2>2. Holds(alignRAM[d], got[d], burst)'
    BY <2>1 DEF Holds
  <2> QED BY <1>1, <2>2, WrittenNext
<1>2. ASSUME NEW s \in ToMerge'
      PROVE  Fits(s)'
  BY <1>2, ToMergeStays DEF Fits
<1>3. \A i \in 1 .. Len(MERGEDFIFO) : QueuedNext(MERGEDFIFO[i])
  <2> SUFFICES ASSUME NEW i \in 1 .. Len(MERGEDFIFO)
               PROVE  QueuedNext(MERGEDFIFO[i])
    OBVIOUS
  <2>1. Queued(MERGEDFIFO[i])
    BY DEF BurstClock, Memory
  <2>2. MERGEDFIFO[i][1] \in Nat /\ Oldest <= MERGEDFIFO[i][1]
    BY OldestOK
  <2> QED BY <2>1, <2>2, QueuedStays
<1>4. ASSUME NEW j \in 1 .. Len(MERGEDFIFO')
      PROVE  Queued(MERGEDFIFO[j])'
  <2>1. QueuedNext(MERGEDFIFO'[j])
    <3>1. \/ \E i \in 1 .. Len(MERGEDFIFO) : MERGEDFIFO'[j] = MERGEDFIFO[i]
          \/ \E s \in ToMerge : MERGEDFIFO'[j] = <<s, KindsOf(s)>>
      BY <1>4, MergedWords DEF BurstClock, SlotsInv
    <3>2. CASE \E i \in 1 .. Len(MERGEDFIFO) : MERGEDFIFO'[j] = MERGEDFIFO[i]
      BY <1>3, <3>2
    <3>3. CASE \E s \in ToMerge : MERGEDFIFO'[j] = <<s, KindsOf(s)>>
      BY <3>3, QueuedMerged
    <3> QED BY <3>1, <3>2, <3>3
  <2> QED BY <2>1 DEF QueuedNext, Queued, Fits
<1>5. ASSUME Reads'
      PROVE  Queued(q)'
  <2>1. Pops \/ Reads
    BY <1>5, ReaderStep
  <2>2. /\ Pops => 1 \in 1 .. Len(MERGEDFIFO) /\ q' = MERGEDFIFO[1]
        /\ ~Pops => q' = q
    BY MergeWords DEF BurstClock, SlotsInv
  <2>3. QueuedNext(q')
    <3>1. CASE Pops
      BY <1>3, <2>2, <3>1
    <3>2. CASE ~Pops
      <4>1. Reads /\ q' = q
        BY <2>1, <2>2, <3>2
      <4>2. Queued(q) /\ q[1] \in Nat /\ Oldest <= q[1]
        BY <4>1, OldestOK DEF BurstClock, Memory
      <4> QED BY <4>1, <4>2, QueuedStays
    <3> QED BY <3>1, <3>2
  <2> QED BY <2>3 DEF QueuedNext, Queued, Fits
<1>6. burst' \in Nat
  BY DEF BurstClock, Memory
<1> QED BY <1>1, <1>2, <1>4, <1>5, <1>6 DEF Memory

\* A clock of a burst keeps what is said of the reader.
LEMMA ReaderNext ==
    ASSUME NEW new, BurstClock(new), SubReadRam(new), Reader
    PROVE  Reader'
<1>1. FSMReadRam \notin {"ReadFifo", "ReadRam1_3"} => q' = q
  BY MergeWords DEF BurstClock, SlotsInv, Pops
<1>2. Reads /\ q' = q /\ Referred(q)' => RunClock(new)
  BY ReferredStays DEF RunClock, BurstClock, SlotsInv, Referred
<1>3. FSMReadRam \in {"ReadFifo", "SetRamAddress1", "SetDetector1", "ReadRam1"} => found = Nothing
  BY DEF Reader, BurstClock
<1>4. CASE ReadFifo
  BY <1>3, <1>4 DEF ReadFifo, Reader
<1>5. CASE SetRamAddress1(new)
  <2>1. FSMReadRam = "SetRamAddress1" /\ found' = Nothing /\ FSMReadRam' \in {"SetDetector1", "ReadFifo"}
    BY <1>3, <1>5 DEF SetRamAddress1
  <2>2. ASSUME FSMReadRam' = "SetDetector1", Referred(q)'
        PROVE  \E ref \in got'[Leading(q'[2])] : Slot(ref) = q'[1] /\ Reading(ref)'
    <3>1. q' = q /\ RunClock(new)
      BY <1>1, <1>2, <2>1, <2>2 DEF Reads
    <3> QED BY <1>5, <2>2, <3>1, ReaderSetRamAddress1
  <2> QED BY <2>1, <2>2 DEF Reader
<1>6. CASE SetDetector1(new)
  <2>1. FSMReadRam = "SetDetector1" /\ found' = Nothing /\ FSMReadRam' = "ReadRam1"
    BY <1>3, <1>6 DEF SetDetector1
  <2>2. ASSUME Referred(q)'
        PROVE  \E ref \in got'[Leading(q'[2])] : Slot(ref) = q'[1] /\ Reading(ref)'
    <3>1. q' = q /\ RunClock(new)
      BY <1>1, <1>2, <2>1, <2>2 DEF Reads
    <3> QED BY <1>6, <3>1, ReaderSetDetector1
  <2> QED BY <2>1, <2>2 DEF Reader
<1>7. CASE ReadRam1(new)
  <2>1. FSMReadRam = "ReadRam1" /\ FSMReadRam' = "ReadRam1_2"
    BY <1>7 DEF ReadRam1
  <2>2. ASSUME Referred(q)'
        PROVE  \E ref \in got'[Leading(q'[2])] : Slot(ref) = q'[1] /\ Reading(ref)'
    <3>1. q' = q /\ RunClock(new)
      BY <1>1, <1>2, <2>1, <2>2 DEF Reads
    <3> QED BY <1>7, <3>1, ReaderReadRam1
  <2> QED BY <2>1, <2>2 DEF Reader
<1>8. CASE ReadRam1_2
  <2>1. FSMReadRam = "ReadRam1_2" /\ FSMReadRam' = "ReadRam1_3"
    BY <1>8 DEF ReadRam1_2
  <2>2. ASSUME Referred(q)'
        PROVE  \E ref \in got'[Leading(q'[2])] : Slot(ref) = q'[1] /\ Reading(ref)'
    <3>1. q' = q /\ RunClock(new)
      BY <1>1, <1>2, <2>1, <2>2 DEF Reads
    <3> QED BY <1>8, <3>1, ReaderReadRam1_2
  <2> QED BY <2>1, <2>2 DEF Reader
<1>9. CASE ReadRam1_3
  <2>1. found' = Nothing /\ FSMReadRam' \in {"SetRamAddress1", "ReadFifo"}
    BY <1>9 DEF ReadRam1_3
  <2> QED BY <2>1 DEF Reader
<1> QED BY <1>4, <1>5, <1>6, <1>7, <1>8, <1>9 DEF SubReadRam

\* What the LUT answers in a clock of a burst is what is coincident.
LEMMA CoincidencesNext ==
    ASSUME NEW new, BurstClock(new), SubReadRam(new), Reader
    PROVE  Coincidences'
<1>1. CASE ReadRam1_3
  <2>1. LUT'[1] = q[1] /\ LUT'[2] = q[2] /\ Reads
    BY <1>1 DEF ReadRam1_3, Reads
  <2>2. CASE \E t \in got'[Leading(q[2])] : Slot(t) = q[1]
    <3>1. RunClock(new)
      BY <2>1, <2>2, ReferredStays DEF RunClock, BurstClock, SlotsInv
    <3>2. \A d \in Det : Written(got[d])'
      BY WrittenNext
    <3> QED BY <1>1, <3>1, <3>2, ReaderReadRam1_3
  <2>3. CASE ~\E t \in got'[Leading(q[2])] : Slot(t) = q[1]
    BY <2>1, <2>3 DEF Coincidences
  <2> QED BY <2>2, <2>3
<1>2. CASE ~ReadRam1_3
  <2>1. LUT' = None
    BY <1>2 DEF SubReadRam, ReadFifo, SetRamAddress1, SetDetector1, ReadRam1, ReadRam1_2
  <2> QED BY <2>1 DEF Coincidences
<1> QED BY <1>1, <1>2

\* The first clock of a burst begins with an empty memory, but for its last cell, and
\* an idle reader.
LEMMA FirstClock ==
    ASSUME Swept, Next, BURST125, FSMResetCounters = "S0"
    PROVE  Memory' /\ Reader' /\ Coincidences'
<1>1. PICK new \in Arrivals : SubReceive(new) /\ ResetCounters /\ MergeCleared
  BY DEF Next, Clock
<1>2. /\ \A d \in Det : \A a \in 0 .. Cells - 2 : alignRAM[d][a] = Empty
      /\ \A d \in Det : LastCell(alignRAM[d], burst)
      /\ FSMReadRam = "ReadFifo" /\ burst \in Nat
  BY DEF Swept, Running
<1>3. FSMReadRam' = "ReadFifo" /\ found' = Nothing /\ LUT' = None /\ MERGEDFIFO' = <<>>
  BY <1>1, <1>2 DEF ResetCounters, MergeCleared
<1>4. (\A d \in Det : got'[d] = {}) /\ asked' = NothingAsked
  <2>1. got' = Nothing /\ asked' = NothingAsked
    BY <1>1 DEF SubReceive
  <2> QED BY <2>1 DEF Nothing
<1>5. burst' = burst
  BY DEF Next, Clock, Gate
<1>6. ASSUME NEW d \in Det, NEW a \in 0 .. Cells - 1
      PROVE  alignRAM'[d][a] = alignRAM[d][a]
  <2>1. WrittenTo(new, d) = {}
    BY ArrivalOK DEF Running
  <2>2. alignRAM'[d][a] = After(new, d, a)
    BY <1>1 DEF SubReceive, Sweeping
  <2> QED BY <2>1, <2>2 DEF After
<1>7. ASSUME NEW d \in Det
      PROVE  Written(got[d])' /\ Holds(alignRAM[d], got[d], burst)'
  <2>1. ASSUME NEW a \in 0 .. Cells - 1, alignRAM'[d][a] # Empty
        PROVE  a = Cells - 1 /\ Stale(alignRAM'[d][a], burst)
    <3>1. a = Cells - 1
      BY <1>2, <1>6, <2>1, SizesOK
    <3> QED BY <1>2, <1>6, <2>1, <3>1 DEF LastCell
  <2>2. Holds(alignRAM'[d], got'[d], burst)
    BY <1>4, <2>1 DEF Holds
  <2>3. Holds(alignRAM[d], got[d], burst)'
    BY <1>5, <2>2 DEF Holds
  <2> QED BY <1>4, <2>3 DEF Written
<1>8. Memory'
  <2>1. ToMerge' = {}
    <3>1. \A k : DetectorOf(k) \in Det
      BY DetAssumption DEF DetectorOf
    <3>2. \A k : \A s \in Slots : asked'[DetectorOf(k)][s] = 0
      BY <1>4, <3>1 DEF NothingAsked
    <3>3. \A s \in Slots : Words(s)' = 0
      BY <1>1 DEF MergeCleared, Words
    <3>4. \A s \in Slots : KindsOf(s)' = {}
      BY <3>2, <3>3 DEF KindsOf
    <3> QED BY <3>4 DEF ToMerge
  <2>2. Len(MERGEDFIFO') = 0 /\ ~Reads' /\ burst' \in Nat
    BY <1>2, <1>3, <1>5 DEF Reads
  <2> QED BY <1>7, <2>1, <2>2 DEF Memory
<1>9. Reader'
  BY <1>3 DEF Reader
<1>10. Coincidences'
  BY <1>3 DEF Coincidences
<1> QED BY <1>8, <1>9, <1>10

\* What is left in the last cell when a burst ends is of that burst or an earlier one.
LEMMA LastCellOfBurst ==
    ASSUME NEW ram, NEW g, NEW b \in Nat, Written(g), Holds(ram, g, b)
    PROVE  LastCell(ram, b + 1)
<1>1. Cells - 1 \in 0 .. Cells - 1
  BY SizesOK
<1>2. ASSUME ram[Cells - 1] # Empty
      PROVE  Stale(ram[Cells - 1], b + 1)
  <2>1. CASE \E t \in g : ram[Cells - 1] = <<t, b>> /\ Address(Slot(t)) = Cells - 1
    <3>1. PICK t \in g : ram[Cells - 1] = <<t, b>> /\ Address(Slot(t)) = Cells - 1
      BY <2>1
    <3>2. t \in Nat /\ b \in Nat /\ b < b + 1
      BY DEF Written
    <3> QED BY <3>1, <3>2 DEF Stale
  <2>2. CASE Stale(ram[Cells - 1], b)
    <3>1. PICK t \in Nat, e \in Nat : ram[Cells - 1] = <<t, e>> /\ e < b /\ Address(Slot(t)) = Cells - 1
      BY <2>2 DEF Stale
    <3> QED BY <3>1 DEF Stale
  <2> QED BY <1>1, <1>2, <2>1, <2>2 DEF Holds
<1> QED BY <1>2 DEF LastCell

\* Between bursts the sweep goes on, and a burst begins when it is over.
LEMMA SweptNext ==
    ASSUME SlotsInv, Swept, Memory, Next
    PROVE  Swept'
<1>1. Gate /\ BURST125' \in BOOLEAN
  BY Steps DEF Next, Clock, SlotsInv
<1>2. Cells \in Nat /\ Cells >= 4 /\ alignreadaddressb_clear \in 0 .. Cells - 1 /\ burst \in Nat
  BY CellsDivided, SizesOK DEF Swept
<1>3. alignreadaddressb_clear' \in 0 .. Cells - 1 /\ burst' \in Nat
  <2>1. CASE BURST125
    BY <1>1, <1>2, <2>1 DEF Gate
  <2>2. CASE ~BURST125 /\ Sweeping
    BY <1>1, <1>2, <2>2 DEF Gate, Sweeping
  <2>3. CASE ~BURST125 /\ ~Sweeping
    BY <1>1, <1>2, <2>3 DEF Gate
  <2> QED BY <2>1, <2>2, <2>3
<1>4. CASE BURST125
  <2>1. alignreadaddressb_clear' = 0 /\ (BURST125' => Running') /\ burst' = burst
    BY <1>1, <1>4 DEF Gate, Running
  <2>2. ASSUME ~BURST125', NEW d \in Det
        PROVE  LastCell(alignRAM'[d], burst' + 1)
    <3>1. Running
      BY <1>1, <1>4, <2>2 DEF Gate, Running, SlotsInv, SlotTypeOK
    <3>2. PICK new : BurstClock(new)
      BY <3>1, ClockOfBurst
    <3>3. Written(got'[d]) /\ Holds(alignRAM'[d], got'[d], burst)
      BY <3>2, GotGrows
    <3> QED BY <1>2, <2>1, <3>3, LastCellOfBurst
  <2>3. \A d \in Det : \A a \in 0 .. alignreadaddressb_clear' - 1 : alignRAM'[d][a] = Empty
    BY <2>1
  <2>4. ~BURST125' => \A d \in Det : LastCell(alignRAM[d], burst + 1)'
    BY <2>2 DEF LastCell
  <2> QED BY <1>3, <2>1, <2>3, <2>4 DEF Swept
<1>5. CASE ~BURST125
  <2>1. PICK new \in Arrivals : SubReceive(new) /\ SubReadRam(new) /\ MergeCleared
    BY <1>5 DEF Next, Clock
  <2>2. /\ \A d \in Det : \A a \in 0 .. alignreadaddressb_clear - 1 : alignRAM[d][a] = Empty
        /\ \A d \in Det : LastCell(alignRAM[d], burst + 1)
        /\ MERGEDFIFO # <<>> => alignreadaddressb_clear = 0
    BY <1>5 DEF Swept
  <2>3. ASSUME NEW d \in Det, NEW a \in 0 .. Cells - 1
        PROVE  alignRAM'[d][a] = IF Sweeping /\ a = alignreadaddressb_clear THEN Empty ELSE alignRAM[d][a]
    <3>1. WrittenTo(new, d) = {}
      BY <1>5, ArrivalOK DEF Running
    <3>2. alignRAM'[d][a] = IF Sweeping /\ a = alignreadaddressb_clear THEN Empty ELSE After(new, d, a)
      BY <2>1 DEF SubReceive
    <3> QED BY <3>1, <3>2 DEF After
  <2>4. ASSUME NEW d \in Det
        PROVE  LastCell(alignRAM'[d], burst + 1)
    <3>1. Cells - 1 \in 0 .. Cells - 1
      BY <1>2
    <3>2. alignRAM'[d][Cells - 1] \in {Empty, alignRAM[d][Cells - 1]}
      BY <2>3, <3>1
    <3> QED BY <2>2, <3>2 DEF LastCell
  <2>5. burst' = IF BURST125' THEN burst + 1 ELSE burst
    BY <1>1, <1>5 DEF Gate
  <2>6. /\ ~BURST125' => \A d \in Det : LastCell(alignRAM[d], burst + 1)'
        /\ BURST125' => \A d \in Det : LastCell(alignRAM[d], burst)'
    BY <2>4, <2>5 DEF LastCell
  <2>7. CASE Sweeping
    <3>1. alignreadaddressb_clear' = alignreadaddressb_clear + 1 /\ ~BURST125'
      BY <1>1, <1>5, <2>7 DEF Gate
    <3>2. ASSUME NEW d \in Det, NEW a \in 0 .. alignreadaddressb_clear' - 1
          PROVE  alignRAM'[d][a] = Empty
      <4>1. a \in 0 .. Cells - 1 /\ (a = alignreadaddressb_clear \/ a \in 0 .. alignreadaddressb_clear - 1)
        BY <1>2, <2>7, <3>1 DEF Sweeping
      <4> QED BY <2>2, <2>3, <2>7, <4>1
    <3>3. MERGEDFIFO' = <<>>
      BY <2>1 DEF MergeCleared
    <3> QED BY <1>3, <2>6, <3>1, <3>2, <3>3 DEF Swept
  <2>8. CASE ~Sweeping
    <3>1. alignreadaddressb_clear' = alignreadaddressb_clear /\ alignreadaddressb_clear = Cells - 1
      BY <1>1, <1>2, <1>5, <2>8 DEF Gate, Sweeping
    <3>2. ASSUME NEW d \in Det, NEW a \in 0 .. Cells - 2
          PROVE  alignRAM'[d][a] = Empty
      <4>1. a \in 0 .. Cells - 1 /\ a \in 0 .. alignreadaddressb_clear - 1
        BY <1>2, <3>1
      <4> QED BY <2>2, <2>3, <2>8, <4>1
    <3>3. MERGEDFIFO' = <<>> /\ MERGEDFIFO = <<>>
      BY <1>2, <2>1, <2>2, <3>1 DEF MergeCleared
    <3>4. BURST125' => FSMReadRam' = "ReadFifo" /\ LUT' = None
      <4> SUFFICES ASSUME BURST125'
                   PROVE  FSMReadRam' = "ReadFifo" /\ LUT' = None
        OBVIOUS
      <4>1. FSMReadRam = "ReadFifo"
        BY <1>1, <1>5 DEF Gate
      <4>2. ReadFifo
        BY <2>1, <4>1 DEF SubReadRam, SetRamAddress1, SetDetector1, ReadRam1, ReadRam1_2, ReadRam1_3
      <4> QED BY <3>3, <4>2 DEF ReadFifo, Pops
    <3>5. \A d \in Det : \A a \in 0 .. alignreadaddressb_clear' - 1 : alignRAM'[d][a] = Empty
      <4>1. alignreadaddressb_clear' - 1 = Cells - 2
        BY <1>2, <3>1
      <4> QED BY <3>2, <4>1
    <3> QED BY <1>3, <2>6, <3>2, <3>3, <3>4, <3>5 DEF Swept
  <2> QED BY <2>7, <2>8
<1> QED BY <1>4, <1>5

\* The first state: the memory is empty, no burst has begun.
LEMMA InitCollectionInv == Init => CollectionInv
<1> SUFFICES ASSUME Init PROVE CollectionInv
  OBVIOUS
<1>1. /\ BURST125 = FALSE /\ alignreadaddressb_clear = Cells - 1 /\ MERGEDFIFO = <<>> /\ burst = 0
      /\ alignRAM = [d \in Det |-> [a \in 0 .. Cells - 1 |-> Empty]]
  BY DEF Init
<1>2. Swept
  <2>1. alignreadaddressb_clear \in 0 .. Cells - 1 /\ burst \in Nat
    BY <1>1, SizesOK
  <2>2. \A d \in Det : \A a \in 0 .. Cells - 1 : alignRAM[d][a] = Empty
    BY <1>1
  <2>3. Cells - 1 \in 0 .. Cells - 1 /\ \A a \in 0 .. alignreadaddressb_clear - 1 : a \in 0 .. Cells - 1
    BY <1>1, SizesOK
  <2>4. \A d \in Det : LastCell(alignRAM[d], burst + 1)
    BY <2>2, <2>3 DEF LastCell
  <2> QED BY <1>1, <2>1, <2>2, <2>3, <2>4 DEF Swept
<1>3. Memory /\ Reader /\ Coincidences
  BY <1>1 DEF Memory, Reader, Coincidences, Running
<1> QED BY <1>2, <1>3 DEF CollectionInv

\* A clock keeps the invariant.
LEMMA CollectionInvNext == SlotsInv /\ CollectionInv /\ Next => CollectionInv'
<1> SUFFICES ASSUME SlotsInv, CollectionInv, Next PROVE CollectionInv'
  OBVIOUS
<1>1. Swept'
  BY SweptNext DEF CollectionInv
<1>2. CASE Running
  <2>1. PICK new : BurstClock(new) /\ SubReadRam(new)
    BY <1>2, ClockOfBurst DEF CollectionInv
  <2> QED BY <1>1, <2>1, MemoryNext, ReaderNext, CoincidencesNext DEF CollectionInv
<1>3. CASE BURST125 /\ ~Running
  <2>1. FSMResetCounters = "S0"
    BY <1>3 DEF Running, SlotsInv, SlotTypeOK
  <2> QED BY <1>1, <1>3, <2>1, FirstClock DEF CollectionInv
<1>4. CASE ~BURST125
  <2>1. ~Running'
    BY <1>4, Steps DEF Running, SlotsInv
  <2>2. BURST125' => LUT' = None
    BY <1>1, <2>1 DEF Swept
  <2> QED BY <1>1, <2>1, <2>2 DEF CollectionInv, Memory, Reader, Coincidences
<1> QED BY <1>2, <1>3, <1>4 DEF Running

\* The invariant holds whatever the constants.
THEOREM CollectionInvariant == Spec => []CollectionInv
<1>1. Init => CollectionInv
  BY InitCollectionInv
<1>2. SlotsInv /\ CollectionInv /\ [Next]_vars => CollectionInv'
  <2> SUFFICES ASSUME SlotsInv, CollectionInv, [Next]_vars PROVE CollectionInv'
    OBVIOUS
  <2>1. CASE Next
    BY <2>1, CollectionInvNext
  <2>2. CASE UNCHANGED vars
    <3>1. /\ UNCHANGED <<BURST125, FSMResetCounters, burst, alignRAM, got, asked, window, MERGEDFIFO>>
          /\ UNCHANGED <<merged, copies, FSMReadRam, q, oldaddress, q_b, timetocompare>>
          /\ UNCHANGED <<detector_triggering, alignRAMoutput, found, wanted, LUT, alignreadaddressb_clear>>
      BY <2>2 DEF vars, burstVars, readVars
    <3>2. Swept'
      BY <3>1 DEF CollectionInv, Swept, Running, LastCell
    <3>3. Memory'
      <4>1. (Running' <=> Running) /\ (Reads' <=> Reads)
        BY <3>1 DEF Running, Reads
      <4>3. ToMerge' = ToMerge /\ \A s : Fits(s) => Fits(s)'
        BY <3>1 DEF ToMerge, KindsOf, Words, Fits
      <4>4. /\ \A j : Queued(MERGEDFIFO[j]) => Queued(MERGEDFIFO[j])'
            /\ Queued(q) => Queued(q)'
        BY <3>1 DEF Queued, Fits
      <4>5. MERGEDFIFO' = MERGEDFIFO
        BY <3>1
      <4>6. CASE ~Running
        BY <4>1, <4>6 DEF Memory
      <4>7. CASE Running
        <5>1. /\ \A d \in Det : Written(got[d]) /\ Holds(alignRAM[d], got[d], burst)
              /\ \A s \in ToMerge : Fits(s)
              /\ \A j \in 1 .. Len(MERGEDFIFO) : Queued(MERGEDFIFO[j])
              /\ Reads => Queued(q)
              /\ burst' \in Nat
          BY <3>1, <4>7 DEF CollectionInv, Memory
        <5>2. \A d \in Det : Written(got[d])' /\ Holds(alignRAM[d], got[d], burst)'
          <6> SUFFICES ASSUME NEW d \in Det
                       PROVE  Written(got[d])' /\ Holds(alignRAM[d], got[d], burst)'
            OBVIOUS
          <6>1. Written(got[d]) /\ Holds(alignRAM[d], got[d], burst)
            BY <5>1
          <6> QED BY <3>1, <6>1 DEF Written, Holds
        <5>3. \A s \in ToMerge' : Fits(s)'
          BY <4>3, <5>1
        <5>4. \A j \in 1 .. Len(MERGEDFIFO') : Queued(MERGEDFIFO[j])'
          BY <4>4, <4>5, <5>1
        <5>5. Reads' => Queued(q)'
          BY <4>1, <4>4, <5>1
        <5> QED BY <5>1, <5>2, <5>3, <5>4, <5>5 DEF Memory
      <4> QED BY <4>6, <4>7
    <3>4. Reader'
      <4>1. /\ \A r : Answers(r)' = Answers(r)
            /\ \A cells, r : Holding(cells, r)' = Holding(cells, r)
            /\ \A coll, S, ref : Collects(coll, S, ref)' = Collects(coll, S, ref)
            /\ \A S : Certain(S)' = Certain(S)
        BY <3>1 DEF Answers, Holding, Collects, InCut, Certain
      <4>2. ASSUME NEW ref, Reading(ref)
            PROVE  Reading(ref)'
        BY <3>1, <4>1, <4>2 DEF Reading
      <4>3. (Running' <=> Running) /\ (Referred(q)' <=> Referred(q))
        BY <3>1 DEF Running, Referred
      <4> QED BY <3>1, <4>2, <4>3 DEF CollectionInv, Reader
    <3>5. Coincidences'
      BY <3>1 DEF CollectionInv, Coincidences, Coincident, Stray
    <3> QED BY <3>2, <3>3, <3>4, <3>5 DEF CollectionInv
  <2> QED BY <2>1, <2>2
<1> QED BY <1>1, <1>2, SlotsInvariant, PTL DEF Spec

\* Whatever the sizes, the tags, the cuts and the primitives that arrive: the LUT
\* collects for a reference time exactly the primitives with its tag and in time with
\* it, and but for what the ends of the memory give nothing else.
THEOREM CoincidencesAlways == Spec => []Coincidences
<1>1. CollectionInv => Coincidences
  BY DEF CollectionInv
<1> QED BY <1>1, CollectionInvariant, PTL

=============================================================================
