---------------------------- MODULE TriggerSlots ----------------------------
(***************************************************************************)
(* From the merged reference times to the triggers (Trigger.vhd): the       *)
(* memories alignRAM, one per detector, that SubReceive writes primitives   *)
(* into, at the address of their time slot; the three reads of SubReadRam   *)
(* around every reference time, slots N, N-1 and N+1; the coincidences that *)
(* the LUT collects from them; and the decision of SubTrigger.              *)
(*                                                                          *)
(* A step is a clock of 125 MHz.  A time counts fine steps; its slot is the *)
(* time over Fine and its address the slot modulo the memory's size.  The   *)
(* upper bits of its timestamp are stored with it and compared when it is   *)
(* read: always those above 11, so that of the slots of a timestamp there   *)
(* may be few enough for several tags to share the memory.  The registers   *)
(* of the LUT are one, and delaydeliveryprimitive is 0.                     *)
(***************************************************************************)
EXTENDS Integers, Sequences, FiniteSets, Functions

CONSTANTS
    Det,                 \* detectors
    reference_detector, control_detector,
    Cells,               \* cells of an alignRAM, 2^14
    Fine,                \* fine steps of a slot, 2^(8 - bit_finetime)
    Compared,            \* slots told apart by timetocompare, 2^(8 + bit_finetime)
    PerTimestamp,        \* slots of a timestamp, 2^bit_finetime
    PerTag,              \* timestamps that are stored with the same upper bits, 2^11
    timecut,             \* of each detector, in fine steps
    Mask,                \* of each mask the detectors that must have a primitive and
                         \* those that must not
    ControlMask,
    downscaling_set, control_downscaling_set, downscaling_reset,
    Times,               \* times of each detector's primitives
    CalibTimes,          \* and of its calibration primitives, those with bit 15
    MaxPrim,             \* primitives of each detector in a burst
    PerWindow,           \* slots of a window of the realignment
    MaxWindow,           \* windows in a burst
    MaxBurst

ASSUME DetAssumption == reference_detector \in Det /\ control_detector \in Det
\* timetocompare tells more than twice two slots apart, a tag covers no more than the
\* memory, and a window fits into it.
ASSUME SizeAssumption == /\ {Cells, Fine, Compared, PerTimestamp, PerTag, PerWindow} \subseteq Nat \ {0}
                         /\ Cells % Compared = 0 /\ Compared >= 4
                         /\ PerTag * PerTimestamp <= Cells /\ PerWindow <= Cells
ASSUME CutAssumption == \A d \in Det : timecut[d] \in 1 .. (Compared * Fine) \div 2
ASSUME MaskAssumption == /\ Mask \in Seq((SUBSET Det) \X (SUBSET Det))
                         /\ ControlMask \in (SUBSET Det) \X (SUBSET Det)
ASSUME TimesAssumption == \A d \in Det : Times[d] \cup CalibTimes[d] \subseteq Nat /\ MaxPrim[d] \in Nat
ASSUME BoundAssumption == {MaxWindow, MaxBurst, downscaling_set, control_downscaling_set} \subseteq Nat
ASSUME ResetAssumption == downscaling_reset \in BOOLEAN

None == <<>>
Empty == <<>>            \* a cell of zeros

VARIABLES
    BURST125, FSMResetCounters, burst,
    alignRAM,            \* of each detector: time and burst of the primitive in a cell
    got,                 \* history: the last time written for each slot of this burst
    asked,               \* how many primitives of each slot were received, of any kind
    window,              \* the window that is being received
    MERGEDFIFO,          \* slot and kinds of the reference times that wait
    merged, copies,      \* slot of the last one of this burst, or -1; how many of that slot
    FSMReadRam,
    q, oldaddress,
    q_b, timetocompare, detector_triggering, alignRAMoutput,
    found,               \* what the LUT has collected
    wanted,              \* history: what was there when the slots were read
    LUT,                 \* its output
    trigger_signal, control_signal, timestamp_out, old_trigger_timestamp,
    downscaling, control_downscaling,
    triggers,            \* history: timestamps of the burst's triggers
    alignreadaddressb_clear

burstVars == <<BURST125, FSMResetCounters, burst, alignreadaddressb_clear>>
readVars == <<FSMReadRam, q, oldaddress, q_b, timetocompare, detector_triggering,
              alignRAMoutput, found, wanted, LUT>>
triggerVars == <<trigger_signal, control_signal, timestamp_out, old_trigger_timestamp,
                 downscaling, control_downscaling, triggers>>
vars == <<burstVars, alignRAM, got, asked, window, MERGEDFIFO, merged, copies, readVars, triggerVars>>

Slot(t) == t \div Fine
Address(s) == s % Cells
Timestamp(s) == s \div PerTimestamp
Tag(s) == Timestamp(s) \div PerTag

Slots == 0 .. MaxWindow * PerWindow - 1

NoTime == <<0, {}>>
Nothing == [d \in Det |-> {}]
NoCells == [d \in Det |-> Empty]
NothingAsked == [d \in Det |-> [s \in Slots |-> 0]]

Init ==
    /\ BURST125 = FALSE /\ FSMResetCounters = "S0" /\ burst = 0
    /\ alignreadaddressb_clear = Cells - 1
    /\ alignRAM = [d \in Det |-> [a \in 0 .. Cells - 1 |-> Empty]]
    /\ got = Nothing /\ asked = NothingAsked
    /\ window = 0 /\ MERGEDFIFO = <<>> /\ merged = -1 /\ copies = 0
    /\ FSMReadRam = "ReadFifo"
    /\ q = NoTime /\ oldaddress = 0
    /\ q_b = NoCells /\ alignRAMoutput = NoCells
    /\ timetocompare = [d \in Det |-> 0]
    /\ detector_triggering = {}
    /\ found = Nothing /\ wanted = Nothing
    /\ LUT = None
    /\ trigger_signal = FALSE /\ control_signal = FALSE
    /\ timestamp_out = 0 /\ old_trigger_timestamp = 0
    /\ downscaling = [i \in DOMAIN Mask |-> 0] /\ control_downscaling = 0
    /\ triggers = <<>>

-----------------------------------------------------------------------------
(***************************************************************************)
(* The write side (SubReceive): in a clock of each detector nothing or one  *)
(* primitive of the window that is being received.  The last of a slot      *)
(* survives.  Calibration primitives are not written to alignRAM; those of  *)
(* the reference and the control detector are reference times all the same. *)
(***************************************************************************)
Active == BURST125 /\ FSMResetCounters = "S1"

Primitives(d) == (Times[d] \X {"physics"}) \cup (CalibTimes[d] \X {"calibration"})

MayArrive(d) ==
    {None} \cup {p \in Primitives(d) : /\ Active /\ Slot(p[1]) \div PerWindow = window
                                      /\ SumFunction(asked[d]) < MaxPrim[d]}

Arrivals ==
    {new \in [Det -> UNION {MayArrive(d) : d \in Det}] : \A d \in Det : new[d] \in MayArrive(d)}

\* The time that is written for detector d, if there is one.
WrittenTo(new, d) == {t \in Times[d] : new[d] = <<t, "physics">>}

\* A cell after this clock's writes.
After(new, d, a) ==
    IF \E t \in WrittenTo(new, d) : Address(Slot(t)) = a THEN <<new[d][1], burst>> ELSE alignRAM[d][a]

\* The last time of each slot after this clock's writes.
Latest(new, d) ==
    {t \in got[d] : \A u \in WrittenTo(new, d) : Slot(u) # Slot(t)} \cup WrittenTo(new, d)

\* Out of a burst the other port writes zeros, cell after cell; it stops before the last.
SweepingLess == ~BURST125 /\ alignreadaddressb_clear < Cells - 2
Sweeping == ~BURST125 /\ alignreadaddressb_clear < Cells - 1

SubReceive(new) ==
    /\ alignRAM' = [d \in Det |-> [a \in 0 .. Cells - 1 |->
                        IF Sweeping /\ a = alignreadaddressb_clear THEN Empty ELSE After(new, d, a)]]
    /\ IF BURST125 /\ FSMResetCounters = "S0"
       THEN got' = Nothing /\ asked' = NothingAsked
       ELSE /\ got' = [d \in Det |-> Latest(new, d)]
            /\ asked' = [d \in Det |-> [s \in Slots |->
                            IF new[d] # None /\ s = Slot(new[d][1]) THEN asked[d][s] + 1 ELSE asked[d][s]]]

-----------------------------------------------------------------------------
(***************************************************************************)
(* The merged reference times.  Those of a window come after it has been    *)
(* received, in the order of slots and each as often as it was received:    *)
(* reference and control of one slot join, one by one, as long as there are *)
(* both.  The next window but one begins when what waits is recent enough   *)
(* for its primitives not to reach round the memory.                        *)
(***************************************************************************)
DetectorOf(kind) == IF kind = "reference" THEN reference_detector ELSE control_detector

\* Words of slot s so far, and the kinds of the next one.
Words(s) == IF s = merged THEN copies ELSE 0
KindsOf(s) == {k \in {"reference", "control"} : asked[DetectorOf(k)][s] > Words(s)}

ToMerge == {s \in Slots : merged <= s /\ s < window * PerWindow /\ KindsOf(s) # {}}

Oldest == IF FSMReadRam # "ReadFifo" THEN q[1] ELSE
          IF MERGEDFIFO # <<>> THEN Head(MERGEDFIFO)[1] ELSE window * PerWindow

MayClose ==
    /\ Active /\ window + 1 < MaxWindow /\ ToMerge = {}
    /\ (window + 2) * PerWindow - Oldest < Cells

Pops == FSMReadRam \in {"ReadFifo", "ReadRam1_3"} /\ MERGEDFIFO # <<>>

Merge ==
    /\ q' = IF Pops THEN Head(MERGEDFIFO) ELSE q
    /\ \/ window' = window
       \/ MayClose /\ window' = window + 1
    /\ LET kept == IF Pops THEN Tail(MERGEDFIFO) ELSE MERGEDFIFO
       IN  \/ MERGEDFIFO' = kept /\ UNCHANGED <<merged, copies>>
           \/ \E s \in ToMerge : /\ \A u \in ToMerge : s <= u
                                 /\ MERGEDFIFO' = Append(kept, <<s, KindsOf(s)>>)
                                 /\ merged' = s /\ copies' = Words(s) + 1

\* MERGEDFIFO is cleared out of a burst and in its first clock.
MergeCleared == MERGEDFIFO' = <<>> /\ q' = NoTime /\ merged' = -1 /\ copies' = 0 /\ window' = 0

-----------------------------------------------------------------------------
(***************************************************************************)
(* The read side (SubReadRam).                                              *)
(***************************************************************************)
\* A read of slot s in a clock in which that cell is written gives the old or the
\* new content, of each detector for itself: seen has those of which it is the new.
\* The sweep takes the port for itself.
Read(s, new) ==
    LET a == IF Sweeping THEN alignreadaddressb_clear ELSE Address(s)
        before == IF FSMReadRam = "SetRamAddress1" THEN Nothing ELSE wanted
    IN  \E seen \in SUBSET {d \in Det : WrittenTo(new, d) # {}} :
           /\ q_b' = [d \in Det |-> IF d \in seen THEN After(new, d, a) ELSE alignRAM[d][a]]
           /\ wanted' = [d \in Det |-> before[d] \cup
                {t \in IF d \in seen THEN Latest(new, d) ELSE got[d] : Slot(t) = s}]

\* The detector whose time the others are compared with.
Leading(kinds) == IF "reference" \in kinds THEN reference_detector ELSE control_detector

\* "MSB timestamp shoud be equal": what was read has the upper bits of the reference
\* time.  A cell of zeros has those of the first slots.
UpperBits(cell) == IF cell = Empty THEN 0 ELSE Tag(Slot(cell[1]))
FineTime(cell) == IF cell = Empty THEN 0 ELSE cell[1] % Fine

InSlotAny(d) == q_b[d] # Empty
InSlot(d) == UpperBits(q_b[d]) = Tag(q[1])

\* Slot and fine time of what was read k slots from the reference time.
LeadingMoves(d, k) == IF InSlot(d) THEN ((oldaddress + k) % Compared) * Fine + FineTime(q_b[d])
                      ELSE timetocompare[d]
TimeToCompare(d, k) == IF InSlot(d) /\ (k = 0 \/ d # Leading(q[2]))
                       THEN ((oldaddress + k) % Compared) * Fine + FineTime(q_b[d])
                       ELSE timetocompare[d]

\* abs of a difference of signed registers; that of the least number is itself.
Distance(a, b) ==
    LET range == Compared * Fine
        x == (a - b) % range
    IN  IF 2 * x < range THEN x ELSE IF 2 * x > range THEN range - x ELSE -x

InTime(d) == Distance(timetocompare[d], timetocompare[Leading(q[2])]) < timecut[d]

\* What the LUT has, with the cells it is given in this clock; the primitive ID of a
\* cell of zeros is none.
CollectedAll(cells) ==
    [d \in Det |-> IF d \in detector_triggering THEN found[d] \cup ({cells[d]} \ {Empty}) ELSE found[d]]
Collected(cells) ==
    [d \in Det |-> IF d \in detector_triggering /\ InTime(d) THEN found[d] \cup ({cells[d]} \ {Empty})
                   ELSE found[d]]

\* The registers take what was read k slots from the reference time.
Take(k) ==
    /\ timetocompare' = [d \in Det |-> TimeToCompare(d, k)]
    /\ detector_triggering' = {d \in Det : InSlot(d)}

ReadFifo ==
    /\ FSMReadRam = "ReadFifo"
    /\ FSMReadRam' = IF Pops THEN "SetRamAddress1" ELSE "ReadFifo"
    /\ LUT' = None
    /\ UNCHANGED <<oldaddress, q_b, timetocompare, detector_triggering, alignRAMoutput, found, wanted>>

SetRamAddress1(new) ==
    /\ FSMReadRam = "SetRamAddress1"
    /\ IF Address(q[1]) # oldaddress
       THEN /\ Read(q[1], new)
            /\ oldaddress' = Address(q[1])
            /\ FSMReadRam' = "SetDetector1"
       ELSE FSMReadRam' = "ReadFifo" /\ UNCHANGED <<q_b, oldaddress, wanted>>
    /\ timetocompare' = [d \in Det |-> 0]
    /\ alignRAMoutput' = NoCells
    /\ LUT' = None
    /\ UNCHANGED <<detector_triggering, found>>

SetDetector1(new) ==
    /\ FSMReadRam = "SetDetector1"
    /\ Take(0)
    /\ alignRAMoutput' = [d \in Det |-> IF InSlot(d) THEN q_b[d] ELSE alignRAMoutput[d]]
    /\ Read(q[1] - 1, new)
    /\ FSMReadRam' = "ReadRam1"
    /\ LUT' = None
    /\ UNCHANGED <<oldaddress, found>>

ReadRam1(new) ==
    /\ FSMReadRam = "ReadRam1"
    /\ found' = Collected(alignRAMoutput)
    /\ Take(-1)
    /\ alignRAMoutput' = [d \in Det |-> IF InSlot(d) THEN q_b[d] ELSE alignRAMoutput[d]]
    /\ Read(q[1] + 1, new)
    /\ FSMReadRam' = "ReadRam1_2"
    /\ LUT' = None
    /\ UNCHANGED oldaddress

ReadRam1_2 ==
    /\ FSMReadRam = "ReadRam1_2"
    /\ found' = Collected(alignRAMoutput)
    /\ Take(1)
    /\ FSMReadRam' = "ReadRam1_3"
    /\ LUT' = None
    /\ UNCHANGED <<oldaddress, q_b, alignRAMoutput, wanted>>

\* The third write completes what the LUT has collected.
ReadRam1_3 ==
    /\ FSMReadRam = "ReadRam1_3"
    /\ LUT' = <<q[1], q[2], Collected(q_b), wanted>>
    /\ found' = Nothing
    /\ timetocompare' = [d \in Det |-> 0]
    /\ detector_triggering' = {} /\ alignRAMoutput' = NoCells
    /\ FSMReadRam' = IF Pops THEN "SetRamAddress1" ELSE "ReadFifo"
    /\ UNCHANGED <<oldaddress, q_b, wanted>>

SubReadRam(new) ==
    \/ ReadFifo \/ SetRamAddress1(new) \/ SetDetector1(new)
    \/ ReadRam1(new) \/ ReadRam1_2 \/ ReadRam1_3

-----------------------------------------------------------------------------
(***************************************************************************)
(* The decision (altTriggerLUT, SubTrigger).                                *)
(***************************************************************************)
Hit == {d \in Det : LUT[3][d] # {}}
Fulfilled(mask) == mask[1] \subseteq Hit /\ mask[2] \cap Hit = {}
Physics == {i \in DOMAIN Mask : "reference" \in LUT[2] /\ Fulfilled(Mask[i])}
Control == "control" \in LUT[2] /\ Fulfilled(ControlMask)

\* A trigger of the timestamp that triggered last is rejected.
rdready == LUT # None /\ (Physics # {} \/ Control)
AcceptsAll == rdready
Accepts == rdready /\ Timestamp(LUT[1]) # old_trigger_timestamp

Fired == {i \in Physics : downscaling[i] = downscaling_set}
ControlFired == Control /\ control_downscaling = control_downscaling_set
Counted(n, limit) == IF n = limit THEN 0 ELSE n + 1

Decide ==
    /\ trigger_signal' = (Fired # {})
    /\ control_signal' = (control_signal \/ ControlFired)
    /\ timestamp_out' = Timestamp(LUT[1])
    /\ downscaling' = [i \in DOMAIN Mask |->
                          IF i \in Physics THEN Counted(downscaling[i], downscaling_set) ELSE downscaling[i]]
    /\ control_downscaling' = IF Control THEN Counted(control_downscaling, control_downscaling_set)
                              ELSE control_downscaling
    /\ IF Fired # {} \/ ControlFired
       THEN old_trigger_timestamp' = Timestamp(LUT[1]) /\ triggers' = Append(triggers, Timestamp(LUT[1]))
       ELSE UNCHANGED <<old_trigger_timestamp, triggers>>

ControlKept == control_signal
ControlCleared == FALSE

SubTrigger ==
    CASE BURST125 /\ Accepts -> Decide
      [] BURST125 /\ ~Accepts ->
            /\ trigger_signal' = FALSE /\ control_signal' = ControlCleared /\ timestamp_out' = 0
            /\ UNCHANGED <<old_trigger_timestamp, downscaling, control_downscaling, triggers>>
      [] OTHER ->
            /\ trigger_signal' = FALSE /\ timestamp_out' = 0
            /\ UNCHANGED <<control_signal, old_trigger_timestamp, downscaling, control_downscaling, triggers>>

\* The first clock of a burst resets the LUT and what the last burst has left.
ResetCounters ==
    /\ FSMReadRam' = FSMReadRam
    /\ oldaddress' = 0
    /\ found' = Nothing /\ wanted' = Nothing /\ LUT' = None
    /\ UNCHANGED <<q_b, timetocompare, detector_triggering, alignRAMoutput>>
    /\ trigger_signal' = FALSE /\ control_signal' = FALSE
    /\ timestamp_out' = 0 /\ old_trigger_timestamp' = 0
    /\ IF downscaling_reset
       THEN downscaling' = [i \in DOMAIN Mask |-> 0] /\ control_downscaling' = 0
       ELSE UNCHANGED <<downscaling, control_downscaling>>
    /\ triggers' = <<>>

-----------------------------------------------------------------------------
\* Bursts are seconds apart: the sweep is over and the reader idle.
Gate ==
    /\ BURST125' \in IF BURST125 THEN {FSMResetCounters = "S0", TRUE} ELSE
                     {FALSE, burst < MaxBurst /\ ~Sweeping /\ FSMReadRam = "ReadFifo" /\ LUT = None}
    /\ burst' = IF BURST125' /\ ~BURST125 THEN burst + 1 ELSE burst
    /\ FSMResetCounters' = IF BURST125 THEN "S1" ELSE "S0"
    /\ alignreadaddressb_clear' = IF BURST125 THEN 0 ELSE
                                  IF Sweeping THEN alignreadaddressb_clear + 1 ELSE alignreadaddressb_clear

Clock ==
    /\ Gate
    /\ \E new \in Arrivals :
          /\ SubReceive(new)
          /\ IF BURST125 /\ FSMResetCounters = "S0"
             THEN ResetCounters /\ MergeCleared
             ELSE /\ SubReadRam(new) /\ SubTrigger
                  /\ IF BURST125 THEN Merge ELSE MergeCleared

Next == Clock

Spec == Init /\ [][Next]_vars

-----------------------------------------------------------------------------
CellContent == {Empty} \cup (UNION {Times[d] : d \in Det}) \X (1 .. MaxBurst)

TypeOK ==
    /\ BURST125 \in BOOLEAN /\ FSMResetCounters \in {"S0", "S1"} /\ burst \in 0 .. MaxBurst
    /\ alignreadaddressb_clear \in 0 .. Cells - 1
    /\ alignRAM \in [Det -> [0 .. Cells - 1 -> CellContent]]
    /\ got \in [Det -> SUBSET UNION {Times[d] : d \in Det}]
    /\ FSMReadRam \in {"ReadFifo", "SetRamAddress1", "SetDetector1", "ReadRam1", "ReadRam1_2", "ReadRam1_3"}
    /\ asked \in [Det -> [Slots -> Nat]]
    /\ q[2] \subseteq {"reference", "control"}
    /\ oldaddress \in 0 .. Cells - 1
    /\ q_b \in [Det -> CellContent] /\ alignRAMoutput \in [Det -> CellContent]
    /\ timetocompare \in [Det -> 0 .. Compared * Fine - 1]
    /\ detector_triggering \subseteq Det
    /\ found \in [Det -> SUBSET (CellContent \ {Empty})]
    /\ {trigger_signal, control_signal} \subseteq BOOLEAN
    /\ downscaling \in [DOMAIN Mask -> 0 .. downscaling_set]
    /\ control_downscaling \in 0 .. control_downscaling_set

\* The primitives of a set that are coincident with the reference time of slot s: of
\* a slot with its tag and in time with the leading detector's.
Coincident(d, s, kinds, there) ==
    LET lead == Leading(kinds)
        ref == CHOOSE t \in got[lead] : Slot(t) = s
    IN  {t \in there : /\ Tag(Slot(t)) = Tag(s)
                       /\ d = lead \/ (t - ref < timecut[d] /\ ref - t < timecut[d])}

\* What else the memory gives for slot s: of an earlier burst what is in the last cell,
\* which the sweep does not reach; and in the place of the slot after the last cell
\* cell 0, when a tag covers the whole memory.
Stray(c, s) ==
    \/ c[2] # burst /\ Address(Slot(c[1])) = Cells - 1
    \/ c[2] = burst /\ Slot(c[1]) = s + 1 - Cells

\* For a reference time of which the leading detector has a primitive to compare with,
\* the LUT collects exactly the primitives of this burst that were there when its slot
\* and the two beside it were read, have its tag and are in time with it: none is
\* missed and, but for strays, none is of another time or another burst, whatever the
\* memory held before and whatever is written meanwhile ("position 0: slot N ...
\* position 1: slot N-1 ... position 2: slot N+1", Trigger.vhd:1328).
Coincidences ==
    LUT # None /\ BURST125 /\ (\E t \in got[Leading(LUT[2])] : Slot(t) = LUT[1]) =>
        \A d \in Det :
            {c \in LUT[3][d] : ~Stray(c, LUT[1])} =
            {<<t, burst>> : t \in Coincident(d, LUT[1], LUT[2], LUT[4][d])}

\* Triggers go out in the order of their timestamps and never twice for one,
\* although up to 8 slots with reference times share a timestamp.
TriggersAdvance ==
    \A i, j \in DOMAIN triggers : i < j => triggers[i] < triggers[j]

\* SubSendBuffer takes a trigger in every clock in which a request is up: during a
\* burst each clock with trigger_signal or control_signal is one decision, with its
\* timestamp beside it; no request stays up for a second clock.
EachRequestOnce ==
    [][BURST125 /\ (trigger_signal' \/ control_signal') =>
          triggers' = Append(triggers, timestamp_out')]_vars

=============================================================================
