-------------------------- MODULE CalibrationProofs --------------------------
(***************************************************************************)
(* Theorems about Calibration, for any size and lag of FIFOCALIB, any        *)
(* distance of primitives of at least two clocks and any pause before the    *)
(* first of them that is long enough to empty the FIFO.                      *)
(***************************************************************************)
EXTENDS Calibration, SequenceTheorems, TLAPS

Steady == BURST125 /\ activatecalibtrigger /\ age = Quiet
Draining == BURST125 /\ activatecalibtrigger /\ age < Quiet

\* Clocks to empty the FIFO once all its words can be seen.
Left == 2 * Len(FIFOCALIB) + (IF FSMCalib = "S1" THEN 1 ELSE 0)

\* What the primitives' distance makes of the words in the FIFO: they are at least
\* two clocks apart, the machine is ready when the first one can be seen, and the
\* last one leaves its distance to the next.
Fresh == \A i \in 1 .. Len(FIFOCALIB) : ~FIFOCALIB[i].old
InTime == \A i \in 1 .. Len(FIFOCALIB) : FIFOCALIB[i].clocks <= (IF FSMCalib = "S1" THEN Lag - 1 ELSE Lag)
Apart == \A i, j \in 1 .. Len(FIFOCALIB) :
            i < j => FIFOCALIB[i].clocks >= FIFOCALIB[j].clocks + 2 * (j - i)
Room == \A i \in 1 .. Len(FIFOCALIB) :
            FIFOCALIB[i].clocks >= (IF received = "none" THEN since - 2 ELSE 1)

Empties ==
    /\ \A i \in 1 .. Len(FIFOCALIB) : FIFOCALIB[i].clocks >= Lag \/ FIFOCALIB[i].clocks >= age
    /\ age >= Lag => Left = 0 \/ Left + age <= 2 * Size + Lag + 1

Inputs ==
    /\ BURST125 /\ age < Quiet => received = "none"
    /\ received # "none" => since = 1

IInv ==
    /\ TypeOK
    /\ Inputs
    /\ Draining => Empties
    /\ Steady => Fresh /\ InTime /\ Apart /\ Room
    /\ NeverRefused


-----------------------------------------------------------------------------
\* A word one clock later.
LEMMA LaterWord ==
    ASSUME NEW w \in Word, BURST125 \in BOOLEAN, BURST125' \in BOOLEAN
    PROVE  /\ Later(w) \in Word
           /\ Later(w).clocks = IF w.clocks < Lag + 1 THEN w.clocks + 1 ELSE Lag + 1
           /\ BURST125 => Later(w).old = w.old
<1>1. w.kind \in Kind /\ w.old \in BOOLEAN /\ w.clocks \in 0 .. Lag + 1
  BY DEF Word
<1>2. /\ UpTo(w.clocks, Lag + 1) \in 0 .. Lag + 1
      /\ UpTo(w.clocks, Lag + 1) = IF w.clocks < Lag + 1 THEN w.clocks + 1 ELSE Lag + 1
  BY <1>1, SizeAssumption DEF UpTo
<1>3. (w.old \/ Begins) \in BOOLEAN
  BY <1>1
<1>4. Later(w) \in Word
  BY <1>1, <1>2, <1>3 DEF Word, Later
<1>5. Later(w).clocks = UpTo(w.clocks, Lag + 1)
  BY DEF Later
<1>6. Later(w).old = (w.old \/ Begins)
  BY DEF Later
<1>7. BURST125 => Later(w).old = w.old
  BY <1>1, <1>6, Zenon DEF Begins
<1> QED BY <1>2, <1>4, <1>5, <1>7

\* A function on 1 .. k is a sequence of k values.
LEMMA FunctionSeq ==
    ASSUME NEW S, NEW m \in Nat, NEW f \in [1 .. m -> S]
    PROVE  f \in Seq(S) /\ Len(f) = m
<1>1. f \in Seq(S)
  BY SeqDef
<1> QED BY <1>1, LenProperties

\* The FIFO after a clock: less the word that is read, everything a clock older, with
\* the new word at its end.
LEMMA FifoNext ==
    ASSUME TypeOK, BURST125' \in BOOLEAN, NEW accepted \in BOOLEAN,
           FIFOCALIB' = NextFifo(accepted)
    PROVE  LET n == IF rdreq THEN 1 ELSE 0
               k == Len(FIFOCALIB) - n
           IN  /\ FIFOCALIB' \in Seq(Word)
               /\ k \in Nat
               /\ Len(FIFOCALIB') = k + (IF accepted THEN 1 ELSE 0)
               /\ \A i \in 1 .. k : /\ FIFOCALIB'[i] = Later(FIFOCALIB[i + n])
                                   /\ i + n \in 1 .. Len(FIFOCALIB)
                                   /\ FIFOCALIB[i + n] \in Word
               /\ accepted => FIFOCALIB'[k + 1] = [kind |-> received, old |-> Begins, clocks |-> 0]
<1> DEFINE n == IF rdreq THEN 1 ELSE 0
           k == Len(FIFOCALIB) - n
           kept == IF rdreq THEN Tail(FIFOCALIB) ELSE FIFOCALIB
           older == [i \in 1 .. Len(kept) |-> Later(kept[i])]
           w == [kind |-> received, old |-> Begins, clocks |-> 0]
<1>1. FIFOCALIB \in Seq(Word) /\ Len(FIFOCALIB) \in Nat
  BY DEF TypeOK
<1>2. rdreq => FIFOCALIB # <<>>
  BY DEF rdreq, rdempty
<1>3. rdreq => /\ Tail(FIFOCALIB) \in Seq(Word) /\ Len(Tail(FIFOCALIB)) = Len(FIFOCALIB) - 1
               /\ \A i \in 1 .. Len(FIFOCALIB) - 1 : Tail(FIFOCALIB)[i] = FIFOCALIB[i + 1]
  BY <1>1, <1>2, HeadTailProperties
<1>4. /\ kept \in Seq(Word) /\ Len(kept) = k /\ k \in Nat
      /\ \A i \in 1 .. k : kept[i] = FIFOCALIB[i + n] /\ i + n \in 1 .. Len(FIFOCALIB)
  <2>1. CASE rdreq
    <3>1. FIFOCALIB # <<>> => Len(FIFOCALIB) > 0
      BY <1>1, EmptySeq
    <3> QED BY <2>1, <1>1, <1>2, <1>3, <3>1
  <2>2. CASE ~rdreq
    BY <2>2, <1>1
  <2> QED BY <2>1, <2>2
<1>5. \A i \in 1 .. k : kept[i] \in Word
  BY <1>4, ElementOfSeq
<1>6. \A v \in Word : Later(v) \in Word
  BY LaterWord DEF TypeOK
<1>7. older \in Seq(Word) /\ Len(older) = k
  <2>1. older \in [1 .. k -> Word]
    BY <1>4, <1>5, <1>6
  <2> HIDE DEF older
  <2> HIDE DEF n, k, kept
  <2> QED BY <2>1, <1>4, FunctionSeq
<1>8. \A i \in 1 .. k : older[i] = Later(FIFOCALIB[i + n]) /\ FIFOCALIB[i + n] \in Word
  BY <1>4, <1>5
<1>9. FIFOCALIB' = IF accepted THEN Append(older, w) ELSE older
  BY DEF NextFifo
<1>10. w \in Word
  BY SizeAssumption DEF Word, TypeOK, Begins
<1> HIDE DEF older, kept, w, k, n
<1>11. CASE accepted
  <2>1. /\ Append(older, w) \in Seq(Word) /\ Len(Append(older, w)) = k + 1
        /\ \A i \in 1 .. k : Append(older, w)[i] = older[i]
        /\ Append(older, w)[k + 1] = w
    BY <1>4, <1>7, <1>10, AppendProperties
  <2> QED BY <2>1, <1>4, <1>8, <1>9, <1>11 DEF k, n, w
<1>12. CASE ~accepted
  <2>1. FIFOCALIB' = older
    BY <1>9, <1>12
  <2> QED BY <2>1, <1>4, <1>7, <1>8, <1>12 DEF k, n
<1> QED BY <1>11, <1>12


\* The words of the FIFO after a step, one by one.
Gone == IF rdreq THEN 1 ELSE 0
Stays == Len(FIFOCALIB) - Gone

LEMMA WordsNext ==
    ASSUME TypeOK, Next
    PROVE  \E accepted \in BOOLEAN :
              /\ accepted => Calibrates /\ Len(FIFOCALIB) < Size
              /\ FIFOCALIB' \in Seq(Word)
              /\ Gone \in 0 .. 1 /\ Stays \in Nat
              /\ Len(FIFOCALIB') = IF accepted THEN Stays + 1 ELSE Stays
              /\ \A i \in 1 .. Stays :
                    /\ i + Gone \in 1 .. Len(FIFOCALIB)
                    /\ FIFOCALIB[i + Gone].clocks \in 0 .. Lag + 1
                    /\ FIFOCALIB'[i].clocks = IF FIFOCALIB[i + Gone].clocks < Lag + 1
                                              THEN FIFOCALIB[i + Gone].clocks + 1 ELSE Lag + 1
                    /\ BURST125 => FIFOCALIB'[i].old = FIFOCALIB[i + Gone].old
              /\ accepted => FIFOCALIB'[Stays + 1].clocks = 0
              /\ accepted /\ BURST125 => ~FIFOCALIB'[Stays + 1].old
<1>1. PICK full \in {wrfull, MayBeFull} : FIFOCALIB' = NextFifo(Calibrates /\ ~full)
  BY DEF Next, SubReceive
<1> DEFINE accepted == Calibrates /\ ~full
<1>2. accepted \in BOOLEAN /\ BURST125' \in BOOLEAN /\ BURST125 \in BOOLEAN
  BY DEF Next, BurstGate, TypeOK
<1>3. accepted => Calibrates /\ Len(FIFOCALIB) < Size
  <2>1. Len(FIFOCALIB) \in Nat
    BY DEF TypeOK
  <2>2. ~wrfull => Len(FIFOCALIB) < Size
    BY <2>1, SizeAssumption DEF wrfull
  <2>3. ~MayBeFull => Len(FIFOCALIB) < Size
    BY <2>1, SizeAssumption DEF MayBeFull
  <2>4. ~full => ~wrfull \/ ~MayBeFull
    <3>1. full = wrfull \/ full = MayBeFull
      BY <1>1
    <3> QED BY <3>1, Zenon
  <2> QED BY <2>2, <2>3, <2>4
<1>4. FIFOCALIB' = NextFifo(accepted)
  BY <1>1
<1> HIDE DEF accepted
<1>5. /\ FIFOCALIB' \in Seq(Word)
      /\ Stays \in Nat
      /\ Len(FIFOCALIB') = Stays + (IF accepted THEN 1 ELSE 0)
      /\ \A i \in 1 .. Stays : /\ FIFOCALIB'[i] = Later(FIFOCALIB[i + Gone])
                              /\ i + Gone \in 1 .. Len(FIFOCALIB)
                              /\ FIFOCALIB[i + Gone] \in Word
      /\ accepted => FIFOCALIB'[Stays + 1] = [kind |-> received, old |-> Begins, clocks |-> 0]
  BY <1>2, <1>4, FifoNext, Zenon DEF Stays, Gone
<1>6. ASSUME NEW i \in 1 .. Stays
      PROVE  /\ FIFOCALIB[i + Gone].clocks \in 0 .. Lag + 1
             /\ FIFOCALIB'[i].clocks = IF FIFOCALIB[i + Gone].clocks < Lag + 1
                                       THEN FIFOCALIB[i + Gone].clocks + 1 ELSE Lag + 1
             /\ BURST125 => FIFOCALIB'[i].old = FIFOCALIB[i + Gone].old
  <2>1. FIFOCALIB[i + Gone] \in Word /\ FIFOCALIB'[i] = Later(FIFOCALIB[i + Gone])
    BY <1>5
  <2>2. FIFOCALIB[i + Gone].clocks \in 0 .. Lag + 1
    BY <2>1 DEF Word
  <2> QED BY <2>1, <2>2, <1>2, LaterWord
<1>7. accepted => FIFOCALIB'[Stays + 1].clocks = 0
  BY <1>5
<1>8. accepted /\ BURST125 => ~FIFOCALIB'[Stays + 1].old
  <2>1. accepted => FIFOCALIB'[Stays + 1].old = Begins
    BY <1>5
  <2> QED BY <2>1, Zenon DEF Begins
<1>9. Gone \in 0 .. 1
  BY DEF Gone
<1>10. Len(FIFOCALIB') = IF accepted THEN Stays + 1 ELSE Stays
  BY <1>5
<1> QED BY <1>2, <1>3, <1>5, <1>6, <1>7, <1>8, <1>9, <1>10

-----------------------------------------------------------------------------
LEMMA InitIInv == Init => IInv
<1> SUFFICES ASSUME Init PROVE IInv
  OBVIOUS
<1>1. FIFOCALIB \in Seq(Word) /\ Len(FIFOCALIB) = 0
  BY DEF Init
<1>2. NoWord \in Word
  BY SizeAssumption DEF NoWord, Word, Kind
<1>3. TypeOK
  <2>1. BURST125 \in BOOLEAN /\ activatecalibtrigger \in BOOLEAN
    BY DEF Init
  <2>2. /\ bursts \in 0 .. MaxBurst /\ age \in 0 .. Quiet /\ since \in 0 .. Gap
        /\ Len(FIFOCALIB) <= Size
    BY <1>1, SizeAssumption DEF Init
  <2>3. /\ received \in Kind /\ primitiveID \in BOOLEAN
        /\ FSMCalib \in {"S0", "S1"} /\ calib_signal \in BOOLEAN /\ TRIGGERERROR \in BOOLEAN
    BY DEF Init, Kind
  <2>4. q \in Word /\ issued \in Word
    BY <1>2 DEF Init
  <2> QED BY <1>1, <2>1, <2>2, <2>3, <2>4, Zenon DEF TypeOK
<1>4. ~BURST125 /\ received = "none"
  BY DEF Init
<1> QED BY <1>3, <1>4 DEF IInv, Draining, Steady, NeverRefused, Inputs

LEMMA TypeStep ==
    ASSUME TypeOK, Next
    PROVE  TypeOK'
<1>1. BURST125' \in BOOLEAN /\ activatecalibtrigger' \in BOOLEAN
  BY DEF Next, BurstGate, TypeOK
<1>2. bursts' \in 0 .. MaxBurst /\ age' \in 0 .. Quiet
  BY SizeAssumption DEF Next, BurstGate, TypeOK, UpTo
<1>3. since' \in 0 .. Gap /\ received' \in Kind
  BY SizeAssumption DEF Next, Input, TypeOK, UpTo
<1>4. FIFOCALIB' \in Seq(Word) /\ Len(FIFOCALIB') <= Size
  <2>1. /\ FIFOCALIB \in Seq(Word) /\ Len(FIFOCALIB) \in Nat
        /\ Len(FIFOCALIB) <= Size /\ Size \in Nat
    BY SizeAssumption DEF TypeOK
  <2> QED BY <2>1, WordsNext DEF Stays
<1>5. q' \in Word
  <2>1. rdreq => Head(FIFOCALIB) \in Word
    BY HeadTailProperties DEF rdreq, rdempty, TypeOK
  <2> QED BY <2>1 DEF Next, SubCalibration, TypeOK
<1>6. issued' \in Word
  <2>1. NoWord \in Word
    BY SizeAssumption DEF NoWord, Word, Kind
  <2> QED BY <2>1 DEF Next, SubCalibration, TypeOK
<1>7. FSMCalib' \in {"S0", "S1"}
  BY DEF Next, SubCalibration, NextCalib
<1>8. calib_signal' \in BOOLEAN /\ primitiveID' \in BOOLEAN
  BY DEF Next, SubCalibration, NextPrimitiveID
<1>9. TRIGGERERROR' \in BOOLEAN
  BY DEF Next, SubReceive
<1> QED BY <1>1, <1>2, <1>3, <1>4, <1>5, <1>6, <1>7, <1>8, <1>9 DEF TypeOK

-----------------------------------------------------------------------------
LEMMA InputsStep ==
    ASSUME TypeOK, Next
    PROVE  Inputs'
<1>1. BURST125' /\ age' < Quiet => received' = "none"
  <2> SUFFICES ASSUME BURST125', age' < Quiet, received' # "none" PROVE FALSE
    OBVIOUS
  <2>1. BURST125 /\ age = Quiet
    BY DEF Next, Input
  <2>2. age' = UpTo(age, Quiet)
    BY <2>1 DEF Next, BurstGate
  <2> QED BY <2>1, <2>2, SizeAssumption DEF UpTo
<1>2. received' # "none" => since' = 1
  BY DEF Next, Input
<1> QED BY <1>1, <1>2 DEF Inputs

LEMMA FirstSeen ==
    ASSUME NEW m \in Nat, NEW a \in Nat, NEW s \in Nat, NEW g \in Nat, a = g, m <= 2 * s + 1
    PROVE  m + a <= 2 * s + g + 1
OBVIOUS

LEMMA OneLess ==
    ASSUME NEW l \in Nat, NEW m \in Nat, NEW a \in Nat, NEW s \in Nat, NEW g \in Nat,
           l = 0 \/ l + a <= 2 * s + g + 1, m = 0 \/ m = l - 1
    PROVE  m = 0 \/ m + (a + 1) <= 2 * s + g + 1
OBVIOUS

\* While no primitive comes, what was left in the FIFO leaves it.
LEMMA DrainStep ==
    ASSUME TypeOK, Inputs, Draining => Empties, Next, Draining'
    PROVE  Empties'
<1>1. BURST125' /\ activatecalibtrigger' /\ age' < Quiet
  BY DEF Draining
<1>2. /\ age \in 0 .. Quiet /\ Len(FIFOCALIB) \in Nat /\ Len(FIFOCALIB) <= Size
      /\ FSMCalib \in {"S0", "S1"}
  BY DEF TypeOK
<1>3. Len(FIFOCALIB') \in Nat /\ Len(FIFOCALIB') <= Size /\ FSMCalib' \in {"S0", "S1"}
  BY TypeStep DEF TypeOK
<1>4. CASE ~BURST125
  <2>1. age' = 0
    BY <1>4 DEF Next, BurstGate
  <2>2. \A i \in 1 .. Len(FIFOCALIB') : FIFOCALIB'[i].clocks >= 0
    <3>1. \A i \in 1 .. Len(FIFOCALIB') : FIFOCALIB'[i] \in Word
      BY TypeStep, ElementOfSeq DEF TypeOK
    <3> QED BY <3>1, SizeAssumption DEF Word
  <2> QED BY <2>1, <2>2, SizeAssumption DEF Empties
<1>5. CASE BURST125
  <2>1. activatecalibtrigger /\ age' = age + 1 /\ age < Quiet
    <3>1. activatecalibtrigger' = activatecalibtrigger /\ age' = UpTo(age, Quiet)
      BY <1>5 DEF Next, BurstGate
    <3>2. age' = age + 1 /\ age < Quiet
      BY <3>1, <1>1, <1>2, SizeAssumption DEF UpTo
    <3> QED BY <3>1, <3>2, <1>1
  <2>2. Empties /\ ~Calibrates
    BY <2>1, <1>5 DEF Draining, Inputs, Calibrates
  <2>3. /\ Gone \in 0 .. 1 /\ Stays \in Nat
        /\ Len(FIFOCALIB') = Stays
        /\ \A i \in 1 .. Stays :
              /\ i + Gone \in 1 .. Len(FIFOCALIB)
              /\ FIFOCALIB[i + Gone].clocks \in 0 .. Lag + 1
              /\ FIFOCALIB'[i].clocks = IF FIFOCALIB[i + Gone].clocks < Lag + 1
                                        THEN FIFOCALIB[i + Gone].clocks + 1 ELSE Lag + 1
    BY <2>2, WordsNext
  <2>4. \A i \in 1 .. Len(FIFOCALIB') : FIFOCALIB'[i].clocks >= Lag \/ FIFOCALIB'[i].clocks >= age'
    <3> TAKE i \in 1 .. Len(FIFOCALIB')
    <3> DEFINE c == FIFOCALIB[i + Gone].clocks
               d == FIFOCALIB'[i].clocks
    <3>1. /\ c \in 0 .. Lag + 1 /\ d = IF c < Lag + 1 THEN c + 1 ELSE Lag + 1
          /\ i + Gone \in 1 .. Len(FIFOCALIB)
      BY <2>3
    <3>2. c >= Lag \/ c >= age
      BY <3>1, <2>2 DEF Empties
    <3> HIDE DEF c, d
    <3>3. d >= Lag \/ d >= age'
      BY <3>1, <3>2, <2>1, <1>2, SizeAssumption
    <3> QED BY <3>3 DEF d
  <2>5. age' >= Lag => Left' = 0 \/ Left' + age' <= 2 * Size + Lag + 1
    <3> SUFFICES ASSUME age' >= Lag PROVE Left' = 0 \/ Left' + age' <= 2 * Size + Lag + 1
      OBVIOUS
    <3>1. FSMCalib' = IF rdreq THEN "S1" ELSE "S0"
      BY DEF Next, SubCalibration, NextCalib
    <3>2. Left' = 2 * Len(FIFOCALIB') + (IF FSMCalib' = "S1" THEN 1 ELSE 0)
      BY DEF Left
    <3>3. Stays = Len(FIFOCALIB) - Gone
      BY DEF Stays
    <3>4. CASE age < Lag
      <4>1. age' = Lag
        BY <2>1, <1>2, <3>4, SizeAssumption
      <4>2. Left' <= 2 * Size + 1 /\ Left' \in Nat
        BY <3>2, <1>3, SizeAssumption
      <4>3. Left' + Lag <= 2 * Size + Lag + 1
        BY <4>2, FirstSeen, SizeAssumption
      <4> QED BY <4>1, <4>3
    <3>5. CASE age >= Lag
      <4>1. Left = 0 \/ Left + age <= 2 * Size + Lag + 1
        BY <2>2, <3>5 DEF Empties
      <4>2. Len(FIFOCALIB) > 0 /\ FSMCalib = "S0" => rdreq
        <5> SUFFICES ASSUME Len(FIFOCALIB) > 0, FSMCalib = "S0" PROVE ~rdempty
          BY <2>1, <1>5 DEF rdreq
        <5>1. 1 \in 1 .. Len(FIFOCALIB) /\ FIFOCALIB # <<>>
          BY <1>2, EmptySeq DEF TypeOK
        <5>2. Head(FIFOCALIB) = FIFOCALIB[1]
          BY <5>1, HeadTailProperties DEF TypeOK
        <5>3. FIFOCALIB[1].clocks >= Lag \/ FIFOCALIB[1].clocks >= age
          BY <5>1, <2>2 DEF Empties
        <5>4. FIFOCALIB[1].clocks \in 0 .. Lag + 1
          <6>1. FIFOCALIB[1] \in Word
            BY <5>1, ElementOfSeq DEF TypeOK
          <6> QED BY <6>1 DEF Word
        <5> QED BY <5>1, <5>2, <5>3, <5>4, <3>5, <1>2, SizeAssumption DEF rdempty
      <4>3. rdreq => FSMCalib = "S0" /\ Gone = 1
        BY DEF rdreq, Gone
      <4>4. ~rdreq => Gone = 0
        BY DEF Gone
      <4>5. Left = 2 * Len(FIFOCALIB) + (IF FSMCalib = "S1" THEN 1 ELSE 0)
        BY DEF Left
      <4> HIDE DEF Left
      <4>6. Left' = 0 \/ Left' = Left - 1
        <5>1. CASE rdreq
          BY <5>1, <3>1, <3>2, <3>3, <2>3, <4>3, <4>5, <1>2
        <5>2. CASE ~rdreq
          BY <5>2, <3>1, <3>2, <3>3, <2>3, <4>2, <4>4, <4>5, <1>2
        <5> QED BY <5>1, <5>2
      <4>7. Left \in Nat /\ Left' \in Nat
        BY <4>5, <3>2, <1>2, <1>3
      <4>8. age \in Nat /\ Size \in Nat /\ Lag \in Nat
        BY <1>2, SizeAssumption
      <4>9. Left' = 0 \/ Left' + (age + 1) <= 2 * Size + Lag + 1
        BY <4>1, <4>6, <4>7, <4>8, OneLess
      <4> QED BY <4>9, <2>1
    <3> QED BY <3>4, <3>5, <1>2, SizeAssumption
  <2> QED BY <2>4, <2>5 DEF Empties
<1> QED BY <1>4, <1>5

-----------------------------------------------------------------------------
LEMMA Emptied ==
    ASSUME NEW a \in Nat, NEW l \in Nat, NEW s \in Nat, NEW g \in Nat, NEW t \in Nat,
           t > 2 * s + g + 1, a = t - 1, l = 0 \/ l + a <= 2 * s + g + 1
    PROVE  l = 0
OBVIOUS

\* The FIFO is empty when primitives begin to come.
LEMMA DrainedStep ==
    ASSUME TypeOK, Inputs, Draining => Empties, Next, Steady', ~Steady
    PROVE  Len(FIFOCALIB') = 0
<1>1. /\ age \in 0 .. Quiet /\ Len(FIFOCALIB) \in Nat /\ Quiet > 2 * Size + Lag + 1
      /\ Size \in Nat /\ Lag \in Nat
  BY SizeAssumption DEF TypeOK
<1>2. BURST125' /\ activatecalibtrigger' /\ age' = Quiet
  BY DEF Steady
<1>3. BURST125
  <2> SUFFICES ASSUME ~BURST125 PROVE age' = 0
    BY <1>1, <1>2
  <2> QED BY DEF Next, BurstGate
<1>4. activatecalibtrigger /\ age' = UpTo(age, Quiet)
  BY <1>2, <1>3 DEF Next, BurstGate
<1>5. age < Quiet /\ age = Quiet - 1
  <2>1. age # Quiet
    BY <1>3, <1>4 DEF Steady
  <2> QED BY <2>1, <1>1, <1>2, <1>4 DEF UpTo
<1>6. Empties
  BY <1>3, <1>4, <1>5 DEF Draining
<1>7. Left = 2 * Len(FIFOCALIB) + (IF FSMCalib = "S1" THEN 1 ELSE 0)
  BY DEF Left
<1>8. Left \in Nat /\ (Left = 0 => Len(FIFOCALIB) = 0)
  BY <1>1, <1>7
<1>9. Left = 0 \/ Left + age <= 2 * Size + Lag + 1
  <2>1. age >= Lag
    <3>1. Quiet \in Nat /\ Quiet > Lag + 1
      BY <1>1, SizeAssumption
    <3> QED BY <3>1, <1>1, <1>5
  <2> QED BY <2>1, <1>6 DEF Empties
<1>10. Left = 0
  <2>1. Quiet \in Nat
    BY SizeAssumption
  <2> QED BY <2>1, <1>1, <1>5, <1>8, <1>9, Emptied
<1>11. ~Calibrates
  BY <1>3, <1>5 DEF Calibrates, Inputs
<1>12. Len(FIFOCALIB') = Stays /\ Stays \in Nat /\ Gone \in 0 .. 1
  BY <1>11, WordsNext
<1> QED BY <1>8, <1>10, <1>12 DEF Stays

\* From then on each word is read as soon as it can be seen.
LEMMA SteadyStep ==
    ASSUME TypeOK, Inputs, Steady, Fresh, InTime, Apart, Room, Next, Steady'
    PROVE  Fresh' /\ InTime' /\ Apart' /\ Room'
<1>1. /\ Lag \in Nat /\ Lag >= 1 /\ Gap \in Nat /\ Gap >= 2
      /\ Len(FIFOCALIB) \in Nat /\ since \in 0 .. Gap /\ since' \in 0 .. Gap
  BY TypeStep, SizeAssumption DEF TypeOK
<1>2. BURST125 /\ activatecalibtrigger
  BY DEF Steady
<1>3. PICK accepted \in BOOLEAN :
              /\ accepted => received # "none"
              /\ Gone \in 0 .. 1 /\ Stays \in Nat
              /\ Len(FIFOCALIB') = IF accepted THEN Stays + 1 ELSE Stays
              /\ \A i \in 1 .. Stays :
                    /\ i + Gone \in 1 .. Len(FIFOCALIB)
                    /\ FIFOCALIB[i + Gone].clocks \in 0 .. Lag + 1
                    /\ FIFOCALIB'[i].clocks = IF FIFOCALIB[i + Gone].clocks < Lag + 1
                                              THEN FIFOCALIB[i + Gone].clocks + 1 ELSE Lag + 1
                    /\ FIFOCALIB'[i].old = FIFOCALIB[i + Gone].old
              /\ accepted => FIFOCALIB'[Stays + 1].clocks = 0
              /\ accepted => ~FIFOCALIB'[Stays + 1].old
  BY <1>2, WordsNext DEF Calibrates
<1> DEFINE c(i) == FIFOCALIB[i].clocks
           d(i) == FIFOCALIB'[i].clocks
<1>4. \A i \in 1 .. Len(FIFOCALIB) : c(i) \in Nat /\ c(i) <= Lag
  <2> TAKE i \in 1 .. Len(FIFOCALIB)
  <2>1. FIFOCALIB[i] \in Word
    BY ElementOfSeq DEF TypeOK
  <2>2. c(i) \in 0 .. Lag + 1
    BY <2>1 DEF Word
  <2>3. c(i) <= IF FSMCalib = "S1" THEN Lag - 1 ELSE Lag
    BY DEF InTime
  <2> HIDE DEF c
  <2> QED BY <2>2, <2>3, <1>1
<1>5. \A i \in 1 .. Stays : i + Gone \in 1 .. Len(FIFOCALIB) /\ d(i) = c(i + Gone) + 1
  <2> TAKE i \in 1 .. Stays
  <2>1. i + Gone \in 1 .. Len(FIFOCALIB)
    BY <1>3
  <2>2. d(i) = IF c(i + Gone) < Lag + 1 THEN c(i + Gone) + 1 ELSE Lag + 1
    BY <1>3
  <2>3. c(i + Gone) \in Nat /\ c(i + Gone) <= Lag
    BY <2>1, <1>4
  <2> HIDE DEF c, d
  <2> QED BY <2>1, <2>2, <2>3, <1>1
<1>6. /\ Len(FIFOCALIB') = IF accepted THEN Stays + 1 ELSE Stays
      /\ Stays \in Nat /\ Gone \in 0 .. 1
      /\ accepted => d(Stays + 1) = 0
      /\ Stays = Len(FIFOCALIB) - Gone
  BY <1>3 DEF Stays
<1>7. \A i, j \in 1 .. Len(FIFOCALIB) : i < j => c(i) >= c(j) + 2 * (j - i)
  BY DEF Apart
<1>8. Fresh'
  <2> SUFFICES ASSUME NEW i \in 1 .. Len(FIFOCALIB') PROVE ~FIFOCALIB'[i].old
    BY DEF Fresh
  <2>1. CASE i \in 1 .. Stays
    <3>1. ~FIFOCALIB[i + Gone].old
      BY <2>1, <1>3 DEF Fresh
    <3> QED BY <2>1, <3>1, <1>3
  <2>2. CASE i \notin 1 .. Stays
    <3>1. accepted /\ i = Stays + 1
      BY <2>2, <1>6
    <3> QED BY <3>1, <1>3
  <2> QED BY <2>1, <2>2
<1>9. InTime'
  <2>1. FSMCalib' = IF rdreq THEN "S1" ELSE "S0"
    BY DEF Next, SubCalibration, NextCalib
  <2> SUFFICES ASSUME NEW i \in 1 .. Len(FIFOCALIB')
               PROVE  d(i) <= IF rdreq THEN Lag - 1 ELSE Lag
    BY <2>1 DEF InTime
  <2>2. CASE i \notin 1 .. Stays
    <3>1. d(i) = 0
      BY <2>2, <1>6
    <3> HIDE DEF d
    <3> QED BY <3>1, <1>1
  <2>3. CASE i \in 1 .. Stays
    <3> DEFINE n == i + Gone
    <3>1. n \in 1 .. Len(FIFOCALIB) /\ d(i) = c(n) + 1 /\ c(n) \in Nat
      BY <2>3, <1>4, <1>5
    <3>2. 1 \in 1 .. Len(FIFOCALIB) /\ c(1) \in Nat /\ c(1) <= Lag
      BY <3>1, <1>1, <1>4
    <3>4. i \in Nat /\ i >= 1 /\ n >= 1 /\ (Gone = 1 => n = i + 1) /\ (Gone = 0 => n = i)
      BY <2>3, <1>6
    <3> HIDE DEF n
    <3>3. n > 1 => c(1) >= c(n) + 2 * (n - 1)
      <4> HIDE DEF c
      <4> QED BY <3>1, <3>2, <1>7
    <3>5. rdreq => Gone = 1
      BY DEF Gone
    <3>6. CASE rdreq
      <4> HIDE DEF c, d
      <4>1. Gone = 1 /\ c(1) >= c(i + 1) + 2 * i
        BY <3>3, <3>4, <3>5, <3>6
      <4>2. c(i + 1) \in Nat /\ d(i) = c(i + 1) + 1
        BY <4>1, <3>1, <3>4
      <4>3. c(i + 1) + 1 <= Lag - 1
        BY <4>1, <4>2, <3>2, <3>4, <1>1
      <4> QED BY <4>2, <4>3, <3>6
    <3>7. CASE ~rdreq
      <4>1. c(1) <= Lag - 1
        <5>1. CASE FSMCalib = "S1"
          BY <5>1, <3>2 DEF InTime
        <5>2. CASE FSMCalib # "S1"
          <6>1. rdempty
            BY <5>2, <3>7, <1>2 DEF rdreq, TypeOK
          <6>2. FIFOCALIB # <<>> /\ Head(FIFOCALIB) = FIFOCALIB[1]
            BY <3>2, EmptySeq, HeadTailProperties DEF TypeOK
          <6>3. c(1) < Lag
            BY <6>1, <6>2 DEF rdempty
          <6> HIDE DEF c
          <6> QED BY <6>3, <3>2, <1>1
        <5> QED BY <5>1, <5>2
      <4>2. Gone = 0
        BY <3>7 DEF Gone
      <4> HIDE DEF c, d
      <4>3. c(i) <= Lag - 1
        <5>1. CASE i = 1
          BY <5>1, <4>1
        <5>2. CASE i > 1
          <6>1. c(1) >= c(i) + 2 * (i - 1) /\ c(i) \in Nat
            BY <5>2, <4>2, <3>1, <3>3, <3>4
          <6> QED BY <6>1, <4>1, <5>2, <3>2, <3>4, <1>1
        <5> QED BY <5>1, <5>2, <3>4
      <4>4. d(i) = c(i) + 1 /\ c(i) \in Nat
        BY <4>2, <3>1, <3>4
      <4> QED BY <4>3, <4>4, <3>7, <1>1
    <3> QED BY <3>6, <3>7
  <2> QED BY <2>2, <2>3
<1>10. Apart'
  <2> SUFFICES ASSUME NEW i \in 1 .. Len(FIFOCALIB'), NEW j \in 1 .. Len(FIFOCALIB'), i < j
               PROVE  d(i) >= d(j) + 2 * (j - i)
    BY DEF Apart
  <2> DEFINE m == i + Gone
  <2>1. /\ i \in 1 .. Stays /\ m \in 1 .. Len(FIFOCALIB)
        /\ d(i) = c(m) + 1 /\ c(m) \in Nat
    <3>1. i \in 1 .. Stays
      BY <1>6
    <3> QED BY <3>1, <1>4, <1>5
  <2>2. CASE j \in 1 .. Stays
    <3> DEFINE n == j + Gone
    <3>1. n \in 1 .. Len(FIFOCALIB) /\ d(j) = c(n) + 1 /\ c(n) \in Nat
      BY <2>2, <1>4, <1>5
    <3>2. m < n /\ n - m = j - i
      BY <2>1, <2>2, <1>6
    <3> HIDE DEF c, d, m, n
    <3>3. c(m) >= c(n) + 2 * (n - m)
      BY <2>1, <3>1, <3>2, <1>7
    <3>4. c(m) >= c(n) + 2 * (j - i)
      BY <3>2, <3>3
    <3> QED BY <2>1, <2>2, <3>1, <3>4
  <2>3. CASE j \notin 1 .. Stays
    <3> DEFINE n == Len(FIFOCALIB)
    <3>1. accepted /\ j = Stays + 1 /\ d(j) = 0
      BY <2>3, <1>6
    <3>2. n \in 1 .. Len(FIFOCALIB)
      BY <2>1, <1>1
    <3>3. c(n) \in Nat /\ c(n) >= 1
      BY <3>1, <3>2, <1>3, <1>4 DEF Room
    <3>4. m <= n /\ n - m = j - 1 - i /\ m \in Nat /\ n \in Nat
      BY <2>1, <3>1, <1>1, <1>6
    <3> HIDE DEF c, d, m, n
    <3>5. m < n => c(m) >= c(n) + 2 * (n - m)
      BY <2>1, <3>2, <1>7 DEF n
    <3>6. c(m) >= 1 + 2 * (n - m)
      BY <2>1, <3>3, <3>4, <3>5
    <3>7. c(m) >= 1 + 2 * (j - 1 - i)
      BY <3>4, <3>6
    <3>8. i \in Nat /\ j \in Nat
      BY <2>1, <3>1, <1>6
    <3> QED BY <2>1, <3>1, <3>7, <3>8
  <2> QED BY <2>2, <2>3
<1>11. Room'
  <2> SUFFICES ASSUME NEW i \in 1 .. Len(FIFOCALIB')
               PROVE  d(i) >= IF received' = "none" THEN since' - 2 ELSE 1
    BY DEF Room
  <2>1. received' # "none" => since = Gap
    BY DEF Next, Input
  <2>2. since' = IF received' # "none" THEN 1 ELSE IF since < Gap THEN since + 1 ELSE Gap
    BY DEF Next, Input, UpTo
  <2>3. received # "none" => since = 1
    BY DEF Inputs
  <2>4. CASE i \in 1 .. Stays
    <3> DEFINE n == i + Gone
    <3>1. n \in 1 .. Len(FIFOCALIB) /\ d(i) = c(n) + 1 /\ c(n) \in Nat
      BY <2>4, <1>4, <1>5
    <3>2. c(n) >= IF received = "none" THEN since - 2 ELSE 1
      BY <3>1 DEF Room
    <3> HIDE DEF c, d, n
    <3> QED BY <3>1, <3>2, <2>1, <2>2, <2>3, <1>1
  <2>5. CASE i \notin 1 .. Stays
    <3>1. accepted /\ d(i) = 0
      BY <2>5, <1>6
    <3>2. received' = "none" /\ since' = 2
      BY <3>1, <1>1, <1>3, <2>1, <2>2, <2>3
    <3> HIDE DEF d
    <3> QED BY <3>1, <3>2
  <2> QED BY <2>4, <2>5
<1> QED BY <1>8, <1>9, <1>10, <1>11

-----------------------------------------------------------------------------
LEMMA FewWords ==
    ASSUME NEW n \in Nat, NEW l \in Nat, NEW s \in Nat, NEW first \in Nat, NEW last \in Nat,
           n >= 1, first <= l, last >= 1, first >= last + 2 * (n - 1), s > l + 2
    PROVE  ~(n + (l + 1) \div 2 >= s) /\ ~(n >= s)
<1>1. 2 * n <= l + 1
  OBVIOUS
<1>2. (l + 1) \div 2 \in Nat /\ 2 * ((l + 1) \div 2) <= l + 1
  OBVIOUS
<1>3. 2 * (n + (l + 1) \div 2) < 2 * s
  BY <1>1, <1>2
<1> QED BY <1>2, <1>3

\* A request finds room: those in the FIFO are two clocks apart and none is older than
\* the lag.
LEMMA NotFull ==
    ASSUME IInv, BURST125, activatecalibtrigger, Calibrates
    PROVE  ~wrfull /\ ~MayBeFull
<1>1. received # "none" /\ age \in 0 .. Quiet /\ Quiet \in Nat
  BY SizeAssumption DEF Calibrates, IInv, TypeOK
<1>2. age = Quiet
  BY <1>1 DEF IInv, Inputs
<1>3. InTime /\ Apart /\ Room
  BY <1>2 DEF IInv, Steady
<1>4. Len(FIFOCALIB) \in Nat /\ Size \in Nat /\ Lag \in Nat /\ Lag >= 1 /\ Size > Lag + 2
  BY SizeAssumption DEF IInv, TypeOK
<1>5. CASE Len(FIFOCALIB) = 0
  <2>1. (Lag + 1) \div 2 <= Lag + 1 /\ (Lag + 1) \div 2 \in Nat
    BY <1>4
  <2> QED BY <1>4, <1>5, <2>1 DEF wrfull, MayBeFull
<1>6. CASE Len(FIFOCALIB) # 0
  <2> DEFINE n == Len(FIFOCALIB)
             first == FIFOCALIB[1].clocks
             last == FIFOCALIB[n].clocks
  <2>1. 1 \in 1 .. n /\ n \in 1 .. n
    BY <1>4, <1>6
  <2>2. first \in 0 .. Lag + 1 /\ last \in 0 .. Lag + 1
    <3>1. FIFOCALIB[1] \in Word /\ FIFOCALIB[n] \in Word
      BY <2>1, ElementOfSeq DEF IInv, TypeOK
    <3> QED BY <3>1 DEF Word
  <2>3. first <= IF FSMCalib = "S1" THEN Lag - 1 ELSE Lag
    BY <1>3, <2>1 DEF InTime
  <2>4. last >= 1
    BY <1>1, <1>3, <2>1 DEF Room
  <2>5. 1 < n => first >= last + 2 * (n - 1)
    BY <1>3, <2>1 DEF Apart
  <2>6. n = 1 => first = last
    OBVIOUS
  <2>7. n \in Nat /\ n >= 1
    BY <1>4, <1>6
  <2> HIDE DEF n, first, last
  <2>8. /\ first \in Nat /\ last \in Nat /\ first <= Lag
        /\ first >= last + 2 * (n - 1)
    BY <1>4, <2>2, <2>3, <2>5, <2>6, <2>7
  <2>9. ~(n + (Lag + 1) \div 2 >= Size) /\ ~(n >= Size)
    BY <1>4, <2>4, <2>7, <2>8, FewWords
  <2> QED BY <2>9 DEF n, wrfull, MayBeFull
<1> QED BY <1>5, <1>6

LEMMA NeverRefusedStep ==
    ASSUME IInv, Next
    PROVE  NeverRefused'
<1> SUFFICES ASSUME BURST125', activatecalibtrigger', age' > 0 PROVE ~TRIGGERERROR'
  BY DEF NeverRefused
<1>1. age \in 0 .. Quiet
  BY DEF IInv, TypeOK
<1>2. BURST125 /\ activatecalibtrigger
  <2>1. BURST125
    BY SizeAssumption DEF Next, BurstGate
  <2> QED BY <2>1 DEF Next, BurstGate
<1>3. PICK full \in {wrfull, MayBeFull} :
         TRIGGERERROR' = (~ResetCounters /\ (TRIGGERERROR \/ (Calibrates /\ full)))
  BY DEF Next, SubReceive
<1>4. CASE age = 0
  BY <1>2, <1>3, <1>4 DEF ResetCounters
<1>5. CASE age # 0
  <2>1. ~TRIGGERERROR
    BY <1>1, <1>2, <1>5 DEF IInv, NeverRefused
  <2>2. Calibrates => ~full
    <3>1. full = wrfull \/ full = MayBeFull
      BY <1>3
    <3>2. Calibrates => ~wrfull /\ ~MayBeFull
      BY <1>2, NotFull
    <3> QED BY <3>1, <3>2, Zenon
  <2> QED BY <1>3, <2>1, <2>2, Zenon
<1> QED BY <1>4, <1>5

LEMMA IInvStep ==
    ASSUME IInv, [Next]_vars
    PROVE  IInv'
<1>1. CASE Next
  <2>1. TypeOK' /\ Inputs'
    BY <1>1, TypeStep, InputsStep DEF IInv
  <2>2. Draining' => Empties'
    BY <1>1, DrainStep DEF IInv
  <2>3. Steady' => Fresh' /\ InTime' /\ Apart' /\ Room'
    <3>1. CASE Steady
      BY <1>1, <3>1, SteadyStep DEF IInv
    <3>2. CASE ~Steady
      <4>1. Steady' => Len(FIFOCALIB') = 0
        BY <1>1, <3>2, DrainedStep DEF IInv
      <4> QED BY <4>1 DEF Fresh, InTime, Apart, Room
    <3> QED BY <3>1, <3>2
  <2>4. NeverRefused'
    BY <1>1, NeverRefusedStep
  <2> QED BY <2>1, <2>2, <2>3, <2>4 DEF IInv
<1>2. CASE UNCHANGED vars
  BY <1>2 DEF vars, inputVars, IInv, TypeOK, Inputs, Draining, Empties, Left, Steady, Fresh,
              InTime, Apart, Room, NeverRefused
<1> QED BY <1>1, <1>2

LEMMA IInvAlways == Spec => []IInv
BY InitIInv, IInvStep, PTL DEF Spec

\* Type correctness of the calibration requests for any FIFO, lag and distance of the
\* primitives.
THEOREM TypeCorrect == Spec => []TypeOK
<1>1. IInv => TypeOK
  BY DEF IInv
<1> QED BY <1>1, IInvAlways, PTL

\* While calibration is active no request waits behind another, and none of an earlier
\* burst is left when the first primitive comes (SubCalibration).
THEOREM PromptAlways == Spec => []Prompt
<1>1. IInv => Prompt
  <2> SUFFICES ASSUME IInv, BURST125 /\ activatecalibtrigger /\ age = Quiet,
                      NEW i \in 1 .. Len(FIFOCALIB)
               PROVE  ~FIFOCALIB[i].old /\ FIFOCALIB[i].clocks <= Lag
    BY DEF Prompt
  <2>1. Fresh /\ InTime
    BY DEF IInv, Steady
  <2>2. FIFOCALIB[i].clocks \in 0 .. Lag + 1
    <3>1. FIFOCALIB[i] \in Word
      BY ElementOfSeq DEF IInv, TypeOK
    <3> QED BY <3>1 DEF Word
  <2>3. FIFOCALIB[i].clocks <= IF FSMCalib = "S1" THEN Lag - 1 ELSE Lag
    BY <2>1 DEF InTime
  <2> QED BY <2>1, <2>2, <2>3, SizeAssumption DEF Fresh
<1> QED BY <1>1, IInvAlways, PTL

\* While calibration is active FIFOCALIB has always room (SubReceive never sets the
\* error bit).
THEOREM NeverRefusedAlways == Spec => []NeverRefused
<1>1. IInv => NeverRefused
  BY DEF IInv
<1> QED BY <1>1, IInvAlways, PTL

=============================================================================
