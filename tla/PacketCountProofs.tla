-------------------------- MODULE PacketCountProofs --------------------------
(***************************************************************************)
(* Theorems about the realignment and the counting of packets, for any set  *)
(* of detectors, any packets to skip, any latency of at least two clocks,   *)
(* any FIFO size and any lateness of the packets.  The readers come first   *)
(* (module DelayAlign); what is counted rests on their alignment.  No       *)
(* fairness is assumed.                                                     *)
(***************************************************************************)
EXTENDS PacketCount, SequenceTheorems, FiniteSetTheorems, FunctionTheorems, TLAPS

-----------------------------------------------------------------------------
(***************************************************************************)
(* Types.                                                                   *)
(***************************************************************************)

\* The words that the code writes are words of the FIFO.
LEMMA WordType ==
    /\ \A n \in 0 .. 255 : Header(n) \in Word
    /\ Primitive \in Word /\ EndOfPacket \in Word /\ Zero \in Word
BY DEF Word, Header, Primitive, EndOfPacket, Zero

\* The registers are typed when the firmware starts.
LEMMA InitTypeOK == Init => TypeOK
<1> SUFFICES ASSUME Init PROVE TypeOK
    OBVIOUS
<1> USE SetAssumption, LatencyAssumption, WordType DEF Init
<1>1. FSMDelay \in [Det -> DelayStates] BY DEF DelayStates
<1>2. fifo \in [Det -> Seq(Word)] OBVIOUS
<1>3. q \in [Det -> Word] OBVIOUS
<1>4. start_latency \in 0 .. Latency OBVIOUS
<1>5. rx \in [Det -> Int] BY DEF Idle
<1>6. BURST125 \in BOOLEAN /\ FSMResetCounters \in {"S0", "S1"} /\ bursts \in Nat
    OBVIOUS
<1>7. fifodelay \in [Det -> Nat] /\ frames \in [Det -> Nat] OBVIOUS
<1>8. MTPNUMREF \in [Det -> 0 .. 255] /\ MTPNUMREF_in \in [Det -> 0 .. 255] OBVIOUS
<1>9. errorchecktimestamp \subseteq Det /\ ETHLINKERROR \subseteq Nat OBVIOUS
<1>10. received_signal \subseteq Det /\ packet_received \in BOOLEAN OBVIOUS
<1>. QED BY <1>1, <1>2, <1>3, <1>4, <1>5, <1>6, <1>7, <1>8, <1>9, <1>10 DEF TypeOK

\* A clock of the readers keeps their registers typed (SubReadFIFODelay).
LEMMA ReaderType ==
    ASSUME TypeOK, NEW late \in SUBSET AtPrimitive, NEW full, Reader(late, full)
    PROVE  /\ FSMDelay' \in [Det -> DelayStates]
           /\ q' \in [Det -> Word]
           /\ fifodelay' \in [Det -> Nat]
           /\ start_latency' \in 0 .. Latency
           /\ MTPNUMREF' \in [Det -> 0 .. 255]
           /\ errorchecktimestamp' \subseteq Det
           /\ ETHLINKERROR' \subseteq Nat
           /\ received_signal' \subseteq Det
           /\ packet_received' \in BOOLEAN
           /\ MTPNUMREF_in' \in [Det -> 0 .. 255]
<1> USE SetAssumption, LatencyAssumption, DetAssumption
<1>1. FSMDelay' \in [Det -> DelayStates]
  <2>1. ASSUME NEW d \in Det PROVE NextDelay(d) \in DelayStates
    <3>1. FSMDelay[d] \in DelayStates BY DEF TypeOK
    <3>. QED BY <3>1 DEF NextDelay, DelayStates
  <2>. QED BY <2>1 DEF Reader
<1>2. q' \in [Det -> Word]
  <2>1. ASSUME NEW d \in Det
        PROVE  (IF Read(d) THEN Head(fifo[d]) ELSE q[d]) \in Word
    <3>1. q[d] \in Word /\ fifo[d] \in Seq(Word) BY DEF TypeOK
    <3>2. CASE Read(d)
      <4>1. fifo[d] # <<>> BY <3>2 DEF Read, Empty
      <4>. QED BY <3>1, <3>2, <4>1
    <3>3. CASE ~Read(d) BY <3>1, <3>3
    <3>. QED BY <3>2, <3>3
  <2>. QED BY <2>1 DEF Reader
<1>3. fifodelay' \in [Det -> Nat] BY DEF Reader, NextSkipped, TypeOK
<1>4. start_latency' \in 0 .. Latency
  <2>1. start_latency \in 0 .. Latency BY DEF TypeOK
  <2>2. CanOpen /\ ~Opening => start_latency # Latency BY DEF Opening
  <2>. QED BY <2>1, <2>2 DEF Reader, NextLatency
<1>5. MTPNUMREF' \in [Det -> 0 .. 255]
  <2>1. ASSUME NEW d \in Det PROVE NextMTPNUMREF(d, late) \in 0 .. 255
    <3>1. MTPNUMREF[d] \in 0 .. 255 /\ q[d].n \in 0 .. 255 BY DEF TypeOK, Word
    <3>2. \A m \in 0 .. 255 : (m + 255) % 256 \in 0 .. 255 OBVIOUS
    <3>3. (MTPNUMREF[d] + 255) % 256 \in 0 .. 255 BY <3>1, <3>2
    <3>. QED BY <3>1, <3>3 DEF NextMTPNUMREF
  <2>. QED BY <2>1 DEF Reader
<1>6. errorchecktimestamp' \subseteq Det BY DEF Reader, TypeOK, AtPrimitive
<1>7. ETHLINKERROR' \subseteq Nat
  <2>1. ETHLINKERROR \subseteq Nat BY DEF TypeOK
  <2>2. \A d \in Last(LateBoards) : 9 + d \in Nat
        BY DEF Last, LateBoards, Closing
  <2>3. {9 + d : d \in Last(LateBoards)} \subseteq Nat BY <2>2
  <2>4. ETHLINKERROR' = NextError(full) BY DEF Reader
  <2>5. ETHLINKERROR \cup {9 + d : d \in Last(LateBoards)} \subseteq Nat
        BY <2>1, <2>3
  <2>6. ETHLINKERROR \cup {0} \subseteq Nat BY <2>1
  <2>. QED BY <2>1, <2>4, <2>5, <2>6, Zenon DEF NextError
<1>8. received_signal' \subseteq Det BY DEF Reader, AtPrimitive
<1>9. packet_received' \in BOOLEAN BY DEF Reader
<1>10. MTPNUMREF_in' \in [Det -> 0 .. 255] BY DEF Reader, TypeOK
<1>. QED BY <1>1, <1>2, <1>3, <1>4, <1>5, <1>6, <1>7, <1>8, <1>9, <1>10

\* A clock of the receivers keeps the FIFOs typed (end of SubReceive).
LEMMA WriterType ==
    ASSUME TypeOK, NEW w \in Offered, Writer(w)
    PROVE  /\ rx' \in [Det -> Int]
           /\ frames' \in [Det -> Nat]
           /\ fifo' \in [Det -> Seq(Word)]
<1> USE BoundAssumption
<1>1. \A d \in Det : w[d] \in Word /\ w[d].n \in Nat
  <2>1. \A d \in Det : w[d] \in Offers BY DEF Offered
  <2>2. Offers \subseteq Word BY WordType DEF Offers
  <2>. QED BY <2>1, <2>2 DEF Word
<1>2. rx' \in [Det -> Int]
  <2>1. ASSUME NEW d \in Det PROVE NextRx(d, w[d]) \in Int
    <3>1. rx[d] \in Int BY DEF TypeOK
    <3>. QED BY <1>1, <3>1 DEF NextRx, Word, Idle
  <2>. QED BY <2>1 DEF Writer
<1>3. frames' \in [Det -> Nat] BY DEF Writer, TypeOK
<1>4. fifo' \in [Det -> Seq(Word)]
  <2>1. ASSUME NEW d \in Det
        PROVE  LET left == IF Read(d) THEN Tail(fifo[d]) ELSE fifo[d]
               IN  (IF w[d] = Zero \/ Full(d) THEN left ELSE Append(left, w[d]))
                     \in Seq(Word)
    <3>1. fifo[d] \in Seq(Word) BY DEF TypeOK
    <3>2. Read(d) => fifo[d] # <<>> BY DEF Read, Empty
    <3>3. (IF Read(d) THEN Tail(fifo[d]) ELSE fifo[d]) \in Seq(Word) BY <3>1, <3>2
    <3>. QED BY <1>1, <3>3
  <2>. QED BY <2>1 DEF Writer
<1>. QED BY <1>2, <1>3, <1>4

\* Every step, of whichever phase of the burst, keeps the registers typed.
LEMMA StepTypeOK == TypeOK /\ [Next]_vars => TypeOK'
<1> SUFFICES ASSUME TypeOK, [Next]_vars PROVE TypeOK'
    OBVIOUS
<1> USE SetAssumption, LatencyAssumption
<1>0. CASE UNCHANGED vars
  <2>. USE <1>0 DEF vars, writerVars, readerVars, triggerVars
  <2>1. BURST125' \in BOOLEAN /\ FSMResetCounters' \in {"S0", "S1"} /\ bursts' \in Nat
        BY DEF TypeOK
  <2>2. FSMDelay' \in [Det -> DelayStates] /\ fifo' \in [Det -> Seq(Word)]
        BY DEF TypeOK
  <2>3. q' \in [Det -> Word] /\ fifodelay' \in [Det -> Nat] BY DEF TypeOK
  <2>4. start_latency' \in 0 .. Latency /\ MTPNUMREF' \in [Det -> 0 .. 255]
        BY DEF TypeOK
  <2>5. errorchecktimestamp' \subseteq Det /\ ETHLINKERROR' \subseteq Nat
        BY DEF TypeOK
  <2>6. rx' \in [Det -> Int] /\ frames' \in [Det -> Nat] BY DEF TypeOK
  <2>7. received_signal' \subseteq Det /\ packet_received' \in BOOLEAN
        BY DEF TypeOK
  <2>8. MTPNUMREF_in' \in [Det -> 0 .. 255] BY DEF TypeOK
  <2>. QED BY <2>1, <2>2, <2>3, <2>4, <2>5, <2>6, <2>7, <2>8 DEF TypeOK
<1>g. BurstGate => BURST125' \in BOOLEAN /\ bursts' \in Nat
  <2>1. BURST125 \in BOOLEAN /\ bursts \in Nat BY DEF TypeOK
  <2>2. BurstGate => bursts' \in Nat BY <2>1 DEF BurstGate
  <2>3. BurstGate => BURST125' \in {BURST125, TRUE, FALSE}
        BY Zenon DEF BurstGate
  <2>4. {BURST125, TRUE, FALSE} \subseteq BOOLEAN BY <2>1, Zenon
  <2>. QED BY <2>2, <2>3, <2>4, Zenon
<1>1. CASE StartOfBurst
  <2>1. BURST125' \in BOOLEAN /\ bursts' \in Nat BY <1>1, <1>g DEF StartOfBurst
  <2>2. FSMResetCounters' \in {"S0", "S1"} BY <1>1 DEF StartOfBurst
  <2>3. FSMDelay' \in [Det -> DelayStates] BY <1>1 DEF StartOfBurst, DelayStates
  <2>4. fifo' \in [Det -> Seq(Word)] BY <1>1 DEF StartOfBurst
  <2>5. q' \in [Det -> Word] BY <1>1, WordType DEF StartOfBurst
  <2>6. fifodelay' \in [Det -> Nat] /\ frames' \in [Det -> Nat]
        BY <1>1 DEF StartOfBurst
  <2>7. start_latency' \in 0 .. Latency BY <1>1 DEF StartOfBurst
  <2>8. MTPNUMREF' \in [Det -> 0 .. 255] BY <1>1 DEF StartOfBurst
  <2>9. errorchecktimestamp' \subseteq Det /\ ETHLINKERROR' \subseteq Nat
        BY <1>1 DEF StartOfBurst
  <2>10. rx' \in [Det -> Int] BY <1>1 DEF StartOfBurst, Idle
  <2>11. received_signal' \subseteq Det /\ packet_received' \in BOOLEAN
         BY <1>1 DEF StartOfBurst, AtPrimitive
  <2>12. MTPNUMREF_in' \in [Det -> 0 .. 255] BY <1>1 DEF StartOfBurst, TypeOK
  <2>. QED BY <2>1, <2>2, <2>3, <2>4, <2>5, <2>6, <2>7, <2>8, <2>9, <2>10, <2>11,
              <2>12 DEF TypeOK
<1>2. CASE InBurst
  <2>1. PICK w \in Offered, late \in SUBSET AtPrimitive :
           Reader(late, Refused(w)) /\ Writer(w)
        BY <1>2 DEF InBurst
  <2>2. BURST125' \in BOOLEAN /\ bursts' \in Nat BY <1>2, <1>g DEF InBurst
  <2>3. FSMResetCounters' \in {"S0", "S1"} BY <1>2 DEF InBurst, TypeOK
  <2>4. rx' \in [Det -> Int] /\ frames' \in [Det -> Nat] /\ fifo' \in [Det -> Seq(Word)]
        BY <2>1, WriterType
  <2>. HIDE SetAssumption, LatencyAssumption
  <2>5. Reader(late, Refused(w)) BY <2>1
  <2>6. /\ FSMDelay' \in [Det -> DelayStates]
        /\ q' \in [Det -> Word]
        /\ fifodelay' \in [Det -> Nat]
        /\ start_latency' \in 0 .. Latency
        /\ MTPNUMREF' \in [Det -> 0 .. 255]
        /\ errorchecktimestamp' \subseteq Det
        /\ ETHLINKERROR' \subseteq Nat
        /\ received_signal' \subseteq Det
        /\ packet_received' \in BOOLEAN
        /\ MTPNUMREF_in' \in [Det -> 0 .. 255]
        BY <2>5, ReaderType
  <2>. QED BY <2>2, <2>3, <2>4, <2>6 DEF TypeOK
<1>3. CASE OutOfBurst
  <2>1. PICK w \in Offered : Reader({}, Refused(w)) /\ Writer(w)
        BY <1>3 DEF OutOfBurst
  <2>2. BURST125' \in BOOLEAN /\ bursts' \in Nat BY <1>3, <1>g DEF OutOfBurst
  <2>3. FSMResetCounters' \in {"S0", "S1"} BY <1>3 DEF OutOfBurst, TypeOK
  <2>4. rx' \in [Det -> Int] /\ frames' \in [Det -> Nat] /\ fifo' \in [Det -> Seq(Word)]
        BY <2>1, WriterType
  <2>. HIDE SetAssumption, LatencyAssumption
  <2>. QED BY <2>1, <2>2, <2>3, <2>4, ReaderType DEF TypeOK
<1>. QED BY <1>0, <1>1, <1>2, <1>3 DEF Next

\* Type correctness of the receivers' FIFOs, the readers and the registers that
\* hand the primitives to the Trigger module.
THEOREM TypeCorrect == Spec => []TypeOK
<1>1. Init => TypeOK BY InitTypeOK
<1>2. TypeOK /\ [Next]_vars => TypeOK' BY StepTypeOK
<1>. QED BY <1>1, <1>2, PTL DEF Spec

-----------------------------------------------------------------------------
(***************************************************************************)
(* Alignment.  Aligned is inductive once the types are known.  The proof     *)
(* looks at one clock of the readers inside a burst.                         *)
(***************************************************************************)

\* Distances are natural numbers up to 3, and only a detector in waitdata is at 0.
LEMMA DistanceRange ==
    ASSUME TypeOK, NEW d \in Det
    PROVE  /\ Distance(d) \in 0 .. 3
           /\ Distance(d) = 0 <=> FSMDelay[d] = "waitdata"
<1>1. FSMDelay[d] \in DelayStates BY DEF TypeOK
<1>. QED BY <1>1 DEF Distance, DelayStates

\* When a window opens every detector is in waitdata: at start_latency = Latency
\* nobody can be left behind.
LEMMA NobodyBehind ==
    ASSUME TypeOK, Aligned, Active, Opening, Waiting # {}
    PROVE  \A d \in Det : FSMDelay[d] = "waitdata"
<1>1. \A d \in Det : Distance(d) = 0 \/ Latency + Distance(d) <= 2
      BY DEF Aligned, Opening
<1>2. \A d \in Det : Distance(d) = 0
      BY <1>1, DistanceRange, LatencyAssumption
<1>. QED BY <1>2, DistanceRange

\* While somebody waits and the window does not open, everybody else comes a clock
\* nearer.
LEMMA DistanceFalls ==
    ASSUME TypeOK, Aligned, Active, NEW late, NEW full, Reader(late, full),
           Waiting # {}, ~Opening
    PROVE  \A d \in Det : /\ Distance(d)' <= Distance(d)
                          /\ Distance(d) # 0 => Distance(d)' + 1 <= Distance(d)
<1>a. /\ BURST125
      /\ \A d \in Det : /\ FSMDelay[d] \in DelayStates
                        /\ FSMDelay'[d] = NextDelay(d)
                        /\ ~rdreq(d) => q'[d] = q[d]
                        /\ FSMDelay[d] # "waitcontrol" => fifodelay'[d] = fifodelay[d]
      BY DEF Active, Reader, Read, NextSkipped, TypeOK
<1>b. \A d \in Det : Distance(d) <= 2
  <2>1. start_latency \in Nat BY LatencyAssumption DEF TypeOK
  <2>2. \A d \in Det : Distance(d) = 0 \/ start_latency + Distance(d) <= 2
        BY DEF Aligned
  <2>. QED BY <2>1, <2>2, DistanceRange
<1>1. \A d \in Det : FSMDelay[d] \notin {"readdata", "waitcontrol"}
      BY <1>b DEF Distance
<1>2. \A d \in Det : FSMDelay[d] \in {"waitoutput", "endofframe"} => AllEnded
      BY <1>b DEF Distance
<1>3. \A d \in Det : Startup(d) => AllSkipped
      BY <1>b, <1>1 DEF Distance, Startup
<1>4. AllSkipped => AllSkipped' BY <1>a, <1>1 DEF AllSkipped
<1>5. \A d \in Det : ~rdreq(d)
      BY <1>a, <1>2, <1>3 DEF rdreq, AllEnded, AllSkipped, Startup
<1>6. AllEnded => AllEnded' BY <1>a, <1>5 DEF AllEnded, Ended
<1>7. ASSUME NEW d \in Det
      PROVE  Distance(d)' <= Distance(d)
              /\ (Distance(d) # 0 => Distance(d)' + 1 <= Distance(d))
  <2>1. CASE FSMDelay[d] = "waitdata"
    <3>1. FSMDelay'[d] = "waitdata" BY <1>a, <2>1 DEF NextDelay
    <3>. QED BY <2>1, <3>1 DEF Distance
  <2>2. CASE FSMDelay[d] = "waitoutput"
    <3>1. FSMDelay'[d] = "waitdata" BY <1>a, <1>2, <2>2 DEF NextDelay
    <3>. QED BY <1>2, <2>2, <3>1 DEF Distance
  <2>3. CASE FSMDelay[d] = "endofframe"
    <3>1. FSMDelay'[d] = "waitoutput"
          BY <1>a, <1>2, <2>3 DEF NextDelay, AllEnded
    <3>. QED BY <1>2, <1>6, <2>3, <3>1 DEF Distance
  <2>4. CASE FSMDelay[d] = "waitfinish"
    <3>1. FSMDelay'[d] = "waitdata"
          BY <1>a, <1>3, <2>4 DEF NextDelay, Startup
    <3>. QED BY <1>3, <2>4, <3>1 DEF Distance, Startup
  <2>5. CASE FSMDelay[d] = "skipdata"
    <3>1. FSMDelay'[d] = "waitfinish"
          BY <1>a, <1>3, <2>5 DEF NextDelay, Startup, AllSkipped
    <3>. QED BY <1>3, <1>4, <2>5, <3>1 DEF Distance, Startup
  <2>. QED BY <1>a, <1>1, <2>1, <2>2, <2>3, <2>4, <2>5 DEF DelayStates
<1>. QED BY <1>7

\* One clock of the readers inside a burst preserves the alignment.
LEMMA ReaderAligned ==
    ASSUME TypeOK, Aligned, Active, NEW late, NEW full, Reader(late, full)
    PROVE  /\ Waiting' = {} => start_latency' = 0
           /\ Waiting' # {} =>
                 \A d \in Det : Distance(d)' = 0 \/ start_latency' + Distance(d)' <= 2
           /\ (\E d \in Det : Startup(d)') =>
                 \A d \in Det : Startup(d)' \/ FSMDelay'[d] = "waitdata"
           /\ \A d \in Det : FSMDelay'[d] = "waitcontrol"
                               => fifodelay'[d] # fifoDELAY_set[d]
<1>0. /\ BURST125
      /\ \A d \in Det : /\ FSMDelay[d] \in DelayStates
                        /\ FSMDelay'[d] = NextDelay(d)
                        /\ ~rdreq(d) => q'[d] = q[d]
                        /\ FSMDelay[d] # "waitcontrol" => fifodelay'[d] = fifodelay[d]
      BY DEF Active, Reader, Read, NextSkipped, TypeOK
<1>1. start_latency \in Nat /\ Latency \in Nat /\ Latency >= 2
      BY LatencyAssumption DEF TypeOK
<1>2. \A d \in Det : FSMDelay'[d] = "waitcontrol"
                          => fifodelay'[d] # fifoDELAY_set[d]
      BY <1>0 DEF NextDelay, DelayStates
<1>3. ASSUME NEW d \in Det, Startup(d)'
      PROVE  \A e \in Det : Startup(e)' \/ FSMDelay'[e] = "waitdata"
  <2>1. Startup(d) BY <1>0, <1>3 DEF Startup, NextDelay, DelayStates
  <2>2. \A e \in Det : Startup(e) \/ FSMDelay[e] = "waitdata"
        BY <2>1 DEF Aligned, Active
  <2>3. ~(Opening /\ Waiting # {}) BY <2>1, NobodyBehind DEF Startup
  <2>4. \A e \in Det : FSMDelay[e] = "waitdata" => FSMDelay'[e] = "waitdata"
        BY <1>0, <2>3 DEF NextDelay, Waiting
  <2>5. \A e \in Det : Startup(e) => Startup(e)' \/ FSMDelay'[e] = "waitdata"
        BY <1>0 DEF Startup, NextDelay
  <2>. QED BY <2>2, <2>4, <2>5
<1>4. CASE Waiting = {}
  <2>1. start_latency = 0 /\ start_latency' = 0
        BY <1>4 DEF Aligned, Active, Reader, NextLatency
  <2>2. CASE \E d \in Det : FSMDelay[d] = "waitoutput" /\ AllEnded
    <3>1. \A e \in Det : FSMDelay[e] \in {"waitoutput", "endofframe", "readdata"}
          BY <1>0, <1>4, <2>2 DEF Aligned, Active, Startup, Waiting, DelayStates
    <3>2. \A e \in Det : ~rdreq(e) BY <2>2, <3>1 DEF rdreq, AllEnded
    <3>3. AllEnded' BY <1>0, <2>2, <3>2 DEF AllEnded, Ended
    <3>4. \A e \in Det : FSMDelay'[e] \in {"waitdata", "waitoutput", "endofframe"}
          BY <1>0, <2>2, <3>1 DEF NextDelay, AllEnded
    <3>5. \A e \in Det : Distance(e)' \in 0 .. 2 BY <3>3, <3>4 DEF Distance
    <3>6. \A e \in Det : start_latency' + Distance(e)' <= 2 BY <2>1, <3>5
    <3>. QED BY <1>2, <1>3, <2>1, <3>6
  <2>3. CASE \E d \in Det : FSMDelay[d] = "waitfinish" /\ AllSkipped
    <3>1. \A e \in Det : FSMDelay[e] \in {"skipdata", "waitfinish"}
          BY <1>0, <1>4, <2>3 DEF Aligned, Active, Startup, Waiting, AllSkipped
    <3>2. AllSkipped' BY <1>0, <2>3, <3>1 DEF AllSkipped
    <3>3. \A e \in Det : FSMDelay'[e] \in {"waitdata", "waitfinish"}
          BY <1>0, <2>3, <3>1 DEF NextDelay, AllSkipped
    <3>4. \A e \in Det : Distance(e)' \in 0 .. 2 BY <3>2, <3>3 DEF Distance
    <3>5. \A e \in Det : start_latency' + Distance(e)' <= 2 BY <2>1, <3>4
    <3>. QED BY <1>2, <1>3, <2>1, <3>5
  <2>4. CASE /\ ~ \E d \in Det : FSMDelay[d] = "waitoutput" /\ AllEnded
             /\ ~ \E d \in Det : FSMDelay[d] = "waitfinish" /\ AllSkipped
    <3>1. Waiting' = {} BY <1>0, <1>4, <2>4 DEF Waiting, NextDelay, DelayStates
    <3>. QED BY <1>2, <1>3, <2>1, <3>1
  <2>. QED BY <2>2, <2>3, <2>4
<1>5. CASE Waiting # {} /\ Opening
  <2>1. \A d \in Det : FSMDelay[d] = "waitdata" BY <1>5, NobodyBehind
  <2>2. \A d \in Det : FSMDelay'[d] = "readdata"
        BY <1>0, <1>5, <2>1 DEF NextDelay
  <2>3. start_latency' = 0 BY <1>0, <1>5 DEF Reader, NextLatency, Opening
  <2>4. Waiting' = {} BY <2>2 DEF Waiting
  <2>. QED BY <1>2, <1>3, <2>3, <2>4
<1>6. CASE Waiting # {} /\ ~Opening
  <2>1. start_latency' <= start_latency + 1 /\ start_latency' \in Nat
        BY <1>1, <1>6 DEF Reader, NextLatency
  <2>2. \A d \in Det : Distance(d) = 0 \/ start_latency + Distance(d) <= 2
        BY <1>6 DEF Aligned, Active
  <2>3. \A d \in Det : Distance(d) <= 2 BY <1>1, <2>2, DistanceRange
  <2>4. PICK d0 \in Det : FSMDelay[d0] = "waitdata" BY <1>6 DEF Waiting
  <2>5. \A d \in Det : Distance(d)' <= Distance(d)
                       /\ (Distance(d) # 0 => Distance(d)' + 1 <= Distance(d))
        BY <1>6, DistanceFalls
  <2>6. FSMDelay'[d0] = "waitdata" BY <1>0, <1>6, <2>4 DEF NextDelay
  <2>7. Waiting' # {} BY <2>6 DEF Waiting
  <2>8. \A d \in Det : Distance(d)' \in 0 .. 3
    <3>1. \A d \in Det : FSMDelay'[d] \in DelayStates
          BY <1>0 DEF NextDelay, DelayStates
    <3>. QED BY <3>1 DEF Distance, DelayStates
  <2>9. \A d \in Det : Distance(d)' = 0 \/ start_latency' + Distance(d)' <= 2
        BY <1>1, <2>1, <2>2, <2>5, <2>8, DistanceRange
  <2>. QED BY <1>2, <1>3, <2>7, <2>9
<1>. QED BY <1>4, <1>5, <1>6

\* Outside a burst, and in its first clock, nobody waits for a window.
LEMMA StepAligned == TypeOK /\ Aligned /\ [Next]_vars => Aligned'
<1> SUFFICES ASSUME TypeOK, Aligned, [Next]_vars, Active' PROVE Aligned'
    BY DEF Aligned
<1>0. CASE UNCHANGED vars
  <2>. USE <1>0 DEF vars, writerVars, readerVars
  <2>1. Active /\ Waiting' = Waiting /\ start_latency' = start_latency
        BY DEF Active, Waiting
  <2>2. \A d \in Det : Distance(d)' = Distance(d)
        BY DEF Distance, AllEnded, Ended, AllSkipped
  <2>3. \A d \in Det : Startup(d)' <=> Startup(d) BY DEF Startup
  <2>. QED BY <2>1, <2>2, <2>3 DEF Aligned
<1>1. CASE StartOfBurst
  <2>1. \A d \in Det : FSMDelay'[d] = "skipdata" BY <1>1 DEF StartOfBurst
  <2>2. Waiting' = {} BY <2>1 DEF Waiting
  <2>3. start_latency' = 0 BY <1>1 DEF StartOfBurst
  <2>. QED BY <2>1, <2>2, <2>3 DEF Aligned, Startup
<1>2. CASE InBurst
  <2>1. Active BY <1>2 DEF InBurst, Active
  <2>2. PICK w \in Offered, late \in SUBSET AtPrimitive : Reader(late, Refused(w))
        BY <1>2 DEF InBurst
  <2>. QED BY <2>1, <2>2, ReaderAligned DEF Aligned
<1>3. CASE OutOfBurst
  <2>1. FALSE BY <1>3 DEF OutOfBurst, BurstGate, Active
  <2>. QED BY <2>1
<1>. QED BY <1>0, <1>1, <1>2, <1>3 DEF Next

\* The detectors never drift apart: while one waits for a window the others are
\* at most two clocks behind it, in every state of every behaviour.
THEOREM AlignedAlways == Spec => []Aligned
<1>1. Init => Aligned BY DEF Init, Aligned, Active
<1>2. TypeOK /\ Aligned /\ [Next]_vars => Aligned' BY StepAligned
<1>. QED BY <1>1, <1>2, TypeCorrect, PTL DEF Spec

\* A window opens for all detectors in the same clock, or for none.
THEOREM OpenTogetherAlways == Spec => OpenTogether
<1> DEFINE Opens == \E d \in Det : FSMDelay[d] = "waitdata" /\ FSMDelay'[d] = "readdata"
           All == \A d \in Det : FSMDelay[d] = "waitdata" /\ FSMDelay'[d] = "readdata"
<1>1. TypeOK /\ Aligned /\ [Next]_vars => [Opens => All]_vars
  <2> SUFFICES ASSUME TypeOK, Aligned, Next,
                      NEW d \in Det, FSMDelay[d] = "waitdata", FSMDelay'[d] = "readdata"
               PROVE  All
      OBVIOUS
  <2>1. CASE StartOfBurst
    <3>1. FALSE BY <2>1 DEF StartOfBurst
    <3>. QED BY <3>1
  <2>2. CASE OutOfBurst
    <3>1. FSMDelay'[d] = "skipdata" BY <2>2 DEF OutOfBurst, Reader, NextDelay
    <3>. QED BY <3>1
  <2>3. CASE InBurst
    <3>1. Active BY <2>3 DEF InBurst, Active
    <3>2. \A e \in Det : FSMDelay'[e] = NextDelay(e) BY <2>3 DEF InBurst, Reader
    <3>3. Opening /\ Waiting # {} BY <3>1, <3>2 DEF NextDelay, Active, Waiting
    <3>4. \A e \in Det : FSMDelay[e] = "waitdata" BY <3>1, <3>3, NobodyBehind
    <3>5. \A e \in Det : FSMDelay'[e] = "readdata"
          BY <3>1, <3>2, <3>3, <3>4 DEF NextDelay, Active
    <3>. QED BY <3>4, <3>5
  <2>. QED BY <2>1, <2>2, <2>3 DEF Next
<1>. QED BY <1>1, TypeCorrect, AlignedAlways, PTL DEF Spec, OpenTogether

-----------------------------------------------------------------------------
(***************************************************************************)
(* The counting of packets.                                                 *)
(***************************************************************************)
Skipping == \E d \in Det : Startup(d)

CType ==
    /\ FSMPrimitiveInPacket \in {"WaitPacket", "Shift1Clock", "Shift2Clock"}
    /\ opened \in Nat /\ counted \in Nat

\* A window is owed its number until packet_received is taken; from then on, within
\* the two clocks in which the machine is blind, the readers have all come back.
Owed ==
    \/ opened = counted + 1 /\ FSMPrimitiveInPacket = "WaitPacket"
    \/ /\ opened = counted
       /\ FSMPrimitiveInPacket = "WaitPacket" => ~packet_received
       /\ FSMPrimitiveInPacket # "Shift1Clock" => Closing = {}

\* Nothing of a burst that has ended reaches the next one.
Gate ==
    FSMResetCounters = "S0" =>
        /\ Closing = {}
        /\ BURST125 => ~packet_received /\ \A d \in Det : FSMDelay[d] # "readdata"

\* From the first clock in which a reader waits again to the one in which all do.
Closed ==
    \/ opened = counted + 1 /\ packet_received /\ start_latency = 0
    \/ /\ FSMPrimitiveInPacket = "Shift1Clock" /\ start_latency <= 1
       /\ \A d \in Det : Distance(d) <= 1
    \/ FSMPrimitiveInPacket = "Shift2Clock" /\ \A d \in Det : Distance(d) = 0
    \/ /\ FSMPrimitiveInPacket = "WaitPacket" /\ ~packet_received /\ opened = counted
       /\ \A d \in Det : Distance(d) = 0

Phase ==
    Active =>
        /\ Skipping => /\ opened = counted /\ ~packet_received
                       /\ FSMPrimitiveInPacket # "Shift1Clock"
        /\ ~Skipping /\ Waiting = {} => opened = counted + 1 /\ ~packet_received
        /\ ~Skipping /\ Waiting # {} => Closed

IInv == TypeOK /\ Aligned /\ CType /\ Owed /\ Gate /\ Phase /\ QuietWhenCounting

-----------------------------------------------------------------------------
\* The first state: no packet, no word.
LEMMA InitIInv == PInit => IInv
<1> SUFFICES ASSUME PInit PROVE IInv
    OBVIOUS
<1>1. TypeOK /\ Aligned
  BY InitTypeOK DEF PInit, Init, Aligned, Active
<1>2. CType
  BY DEF PInit, CType
<1>3. Closing = {} /\ ~packet_received /\ ~BURST125 /\ received_signal = {}
  BY DEF PInit, Init, Closing
<1>4. Owed /\ Gate /\ Phase /\ QuietWhenCounting
  BY <1>3 DEF PInit, Owed, Gate, Phase, Active, QuietWhenCounting
<1> QED BY <1>1, <1>2, <1>4 DEF IInv

\* The machine and its two counts in one clock.
LEMMA CountStep ==
    ASSUME TypeOK, CType, SubPrimitiveInPacket, ~(BURST125 /\ FSMResetCounters = "S0")
    PROVE  /\ CType'
           /\ opened' = opened + (IF Active /\ Opening /\ Waiting # {} THEN 1 ELSE 0)
           /\ Stores => counted' = counted + 1 /\ FSMPrimitiveInPacket' = "Shift1Clock"
           /\ ~Stores => counted' = counted
           /\ ~Stores /\ FSMPrimitiveInPacket # "Shift1Clock"
                => FSMPrimitiveInPacket' = "WaitPacket"
           /\ FSMPrimitiveInPacket = "Shift1Clock" => FSMPrimitiveInPacket' = "Shift2Clock"
<1> DEFINE o == Active /\ Opening /\ Waiting # {}
<1>1. /\ opened' = opened + (IF o THEN 1 ELSE 0)
      /\ counted' = counted + (IF Stores THEN 1 ELSE 0)
      /\ FSMPrimitiveInPacket' = NextPrimitiveInPacket
  BY DEF SubPrimitiveInPacket
<1> HIDE DEF o
<1>2. opened' \in Nat /\ counted' \in Nat
  BY <1>1 DEF CType
<1>3. packet_received \in BOOLEAN
  BY DEF TypeOK
<1>4. /\ FSMPrimitiveInPacket' \in {"WaitPacket", "Shift1Clock", "Shift2Clock"}
      /\ Stores => FSMPrimitiveInPacket' = "Shift1Clock"
      /\ ~Stores /\ FSMPrimitiveInPacket # "Shift1Clock" => FSMPrimitiveInPacket' = "WaitPacket"
      /\ FSMPrimitiveInPacket = "Shift1Clock" => FSMPrimitiveInPacket' = "Shift2Clock"
  BY <1>1, <1>3 DEF NextPrimitiveInPacket, CType, Stores
<1>5. ~Stores => counted' = counted
  BY <1>1 DEF CType
<1>6. Stores => counted' = counted + 1
  BY <1>1
<1> QED BY <1>1, <1>2, <1>4, <1>5, <1>6 DEF CType, o

\* The first clock of a burst.
LEMMA StartStep ==
    ASSUME IInv, StartOfBurst, SubPrimitiveInPacket
    PROVE  CType' /\ Owed' /\ Gate' /\ Phase' /\ QuietWhenCounting'
<1>1. Closing = {} /\ ~packet_received /\ \A d \in Det : FSMDelay[d] # "readdata"
  BY DEF IInv, Gate, StartOfBurst
<1>2. opened' = 0 /\ counted' = 0 /\ FSMPrimitiveInPacket' = NextPrimitiveInPacket
  BY DEF SubPrimitiveInPacket, StartOfBurst
<1>3. FSMPrimitiveInPacket' \in {"WaitPacket", "Shift2Clock"}
  BY <1>1, <1>2 DEF NextPrimitiveInPacket, Stores, IInv, CType
<1>4. /\ ~packet_received' /\ FSMResetCounters' = "S1"
      /\ \A d \in Det : FSMDelay'[d] = "skipdata"
      /\ received_signal' = {}
  BY <1>1 DEF StartOfBurst, AtPrimitive
<1>5. Closing' = {} /\ Skipping'
  BY <1>4, DetAssumption DEF Closing, Skipping, Startup
<1> QED BY <1>2, <1>3, <1>4, <1>5 DEF CType, Owed, Gate, Phase, QuietWhenCounting

\* A clock outside a burst: readers in waitoutput close once, if at all.
LEMMA OutStep ==
    ASSUME IInv, OutOfBurst, SubPrimitiveInPacket
    PROVE  CType' /\ Owed' /\ Gate' /\ Phase' /\ QuietWhenCounting'
<1>a. TypeOK /\ CType /\ Owed /\ Gate /\ ~BURST125
  BY DEF IInv, OutOfBurst
<1>b. PICK w \in Offered : Reader({}, Refused(w))
  BY DEF OutOfBurst
<1>c. \A d \in Det : FSMDelay'[d] = NextDelay(d) /\ q'[d] = q[d] /\ FSMDelay[d] \in DelayStates
  BY <1>a, <1>b DEF Reader, Read, TypeOK
<1>1. Closing' = {}
  <2>1. AllEnded' <=> AllEnded
    BY <1>c DEF AllEnded, Ended
  <2>2. \A d \in Det : FSMDelay'[d] = "waitoutput" => FSMDelay[d] = "waitoutput" /\ ~AllEnded
    BY <1>a, <1>c DEF NextDelay, DelayStates
  <2> QED BY <2>1, <2>2 DEF Closing
<1>2. /\ packet_received' = (Closing # {}) /\ received_signal' = {}
      /\ \A d \in Det : FSMDelay'[d] # "readdata"
  BY <1>a, <1>b, <1>c DEF Reader, AtPrimitive, NextDelay, DelayStates
<1>3. Gate'
  <2>1. BURST125' => FSMResetCounters = "S0"
    BY <1>a DEF OutOfBurst, BurstGate
  <2> QED BY <1>a, <1>1, <1>2, <2>1 DEF Gate
<1>4. ~Active'
  BY <1>a DEF OutOfBurst, BurstGate, Active
<1>5. /\ CType' /\ opened' = opened
      /\ Stores => counted' = counted + 1 /\ FSMPrimitiveInPacket' = "Shift1Clock"
      /\ ~Stores => counted' = counted
      /\ ~Stores /\ FSMPrimitiveInPacket # "Shift1Clock"
           => FSMPrimitiveInPacket' = "WaitPacket"
      /\ FSMPrimitiveInPacket = "Shift1Clock" => FSMPrimitiveInPacket' = "Shift2Clock"
  BY <1>a, CountStep DEF Active, CType
<1>6. Owed'
  <2>1. CASE opened = counted + 1 /\ FSMPrimitiveInPacket = "WaitPacket"
    BY <1>1, <1>5, <2>1 DEF Owed, Stores
  <2>2. CASE /\ opened = counted
             /\ FSMPrimitiveInPacket = "WaitPacket" => ~packet_received
             /\ FSMPrimitiveInPacket # "Shift1Clock" => Closing = {}
    <3>1. ~Stores
      BY <2>2 DEF Stores
    <3>2. CASE FSMPrimitiveInPacket = "Shift1Clock"
      BY <1>1, <1>5, <2>2, <3>1, <3>2 DEF Owed
    <3>3. CASE FSMPrimitiveInPacket # "Shift1Clock"
      BY <1>1, <1>2, <1>5, <2>2, <3>1, <3>3 DEF Owed
    <3> QED BY <3>2, <3>3
  <2> QED BY <1>a, <2>1, <2>2 DEF Owed
<1> QED BY <1>2, <1>3, <1>4, <1>5, <1>6 DEF Phase, QuietWhenCounting

\* A clock of the readers inside a burst, by what they were doing.
LEMMA InStep ==
    ASSUME IInv, InBurst, SubPrimitiveInPacket, Aligned'
    PROVE  CType' /\ Owed' /\ Gate' /\ Phase' /\ QuietWhenCounting'
<1>a. /\ TypeOK /\ Aligned /\ CType /\ Owed /\ Gate /\ Phase
      /\ Active /\ BURST125 /\ FSMResetCounters = "S1" /\ FSMResetCounters' = "S1"
  BY DEF IInv, InBurst, Active
<1>b. PICK w \in Offered, late \in SUBSET AtPrimitive : Reader(late, Refused(w))
  BY DEF InBurst
<1>c. /\ \A d \in Det : FSMDelay'[d] = NextDelay(d) /\ FSMDelay[d] \in DelayStates
      /\ packet_received' = (Closing # {})
      /\ received_signal' \subseteq AtPrimitive
  BY <1>a, <1>b DEF Reader, TypeOK
<1>d. start_latency \in Nat /\ Latency \in Nat /\ Latency >= 2
  BY <1>a, LatencyAssumption DEF TypeOK
<1>e. /\ CType'
      /\ Opening /\ Waiting # {} => opened' = opened + 1
      /\ ~(Opening /\ Waiting # {}) => opened' = opened
      /\ Stores => counted' = counted + 1 /\ FSMPrimitiveInPacket' = "Shift1Clock"
      /\ ~Stores => counted' = counted
      /\ ~Stores /\ FSMPrimitiveInPacket # "Shift1Clock"
           => FSMPrimitiveInPacket' = "WaitPacket"
      /\ FSMPrimitiveInPacket = "Shift1Clock" => FSMPrimitiveInPacket' = "Shift2Clock"
  <2>1. opened' = opened + (IF Opening /\ Waiting # {} THEN 1 ELSE 0)
    BY <1>a, CountStep
  <2>2. ~(Opening /\ Waiting # {}) => opened' = opened
    BY <1>a, <2>1 DEF CType
  <2> QED BY <1>a, <2>1, <2>2, CountStep
<1>f. Gate'
  BY <1>a DEF Gate
<1>g. /\ \A d \in Det : Distance(d) \in 0 .. 3 /\ (Distance(d) = 0 <=> FSMDelay[d] = "waitdata")
      /\ \A d \in Det : Distance(d)' \in 0 .. 3 /\ (Distance(d)' = 0 <=> FSMDelay'[d] = "waitdata")
  <2>1. \A d \in Det : FSMDelay'[d] \in DelayStates
    BY <1>c DEF NextDelay, DelayStates
  <2>2. \A d \in Det : Distance(d)' \in 0 .. 3 /\ (Distance(d)' = 0 <=> FSMDelay'[d] = "waitdata")
    BY <2>1 DEF Distance, DelayStates
  <2> QED BY <1>a, <2>2, DistanceRange
\* A window that opens: all readers have waited, and begin to read.
<1>1. CASE Opening /\ Waiting # {}
  <2>1. \A d \in Det : FSMDelay[d] = "waitdata"
    BY <1>a, <1>1, NobodyBehind
  <2>2. \A d \in Det : FSMDelay'[d] = "readdata"
    BY <1>a, <1>c, <1>1, <2>1 DEF NextDelay
  <2>3. Closing = {} /\ Closing' = {} /\ Waiting' = {} /\ ~Skipping /\ ~Skipping'
    BY <2>1, <2>2 DEF Closing, Waiting, Skipping, Startup
  <2>4. ~packet_received' /\ received_signal' = {}
    BY <1>c, <2>1, <2>3 DEF AtPrimitive
  <2>5. start_latency >= 2
    BY <1>1, <1>d DEF Opening
  <2>6. Closed
    BY <1>a, <1>1, <2>3 DEF Phase
  <2>7. opened = counted /\ ~Stores /\ FSMPrimitiveInPacket # "Shift1Clock"
    BY <1>a, <2>5, <2>6, <1>d DEF Closed, Owed, Stores, CType
  <2>8. opened' = counted' + 1 /\ FSMPrimitiveInPacket' = "WaitPacket"
    BY <1>e, <1>1, <2>7
  <2> QED BY <1>e, <1>f, <2>3, <2>4, <2>8 DEF Owed, Phase, QuietWhenCounting
\* Packets are still being skipped.
<1>2. CASE ~(Opening /\ Waiting # {}) /\ Skipping
  <2>1. \A d \in Det : Startup(d) \/ FSMDelay[d] = "waitdata"
    BY <1>a, <1>2 DEF Aligned, Skipping
  <2>2. \A d \in Det : Startup(d)' \/ FSMDelay'[d] = "waitdata"
    BY <1>a, <1>c, <1>2, <2>1 DEF Startup, NextDelay, Waiting
  <2>3. Closing = {} /\ Closing' = {} /\ AtPrimitive = {}
    BY <2>1, <2>2 DEF Closing, Startup, AtPrimitive
  <2>4. opened = counted /\ ~packet_received /\ FSMPrimitiveInPacket # "Shift1Clock"
    BY <1>a, <1>2 DEF Phase
  <2>5. opened' = counted' /\ FSMPrimitiveInPacket' = "WaitPacket"
    BY <1>e, <1>2, <2>4 DEF Stores
  <2>7. ~packet_received' /\ received_signal' = {}
    BY <1>c, <2>3
  <2>6. ~Skipping' => Waiting' # {} /\ \A d \in Det : Distance(d)' = 0
    BY <1>g, <2>2, DetAssumption DEF Skipping, Waiting
  <2> QED BY <1>e, <1>f, <2>3, <2>5, <2>6, <2>7 DEF Owed, Phase, Closed, QuietWhenCounting
\* A window is read, and no reader waits for the next one yet.
<1>3. CASE ~Skipping /\ Waiting = {}
  <2>1. opened = counted + 1 /\ ~packet_received /\ FSMPrimitiveInPacket = "WaitPacket"
    BY <1>a, <1>3 DEF Phase, Owed, CType
  <2>2. opened' = counted' + 1 /\ FSMPrimitiveInPacket' = "WaitPacket"
    BY <1>e, <1>3, <2>1 DEF Stores
  <2>3. ~Skipping'
    BY <1>a, <1>c, <1>3 DEF Skipping, Startup, NextDelay, DelayStates
  <2>4. start_latency' = 0
    BY <1>a, <1>b, <1>3 DEF Aligned, Reader, NextLatency
  <2>5. Waiting' = Closing
    BY <1>a, <1>c, <1>3, <2>3 DEF Waiting, Closing, NextDelay, Skipping, Startup, DelayStates
  <2>6. Closing # {} => AtPrimitive = {}
    BY DEF Closing, AtPrimitive, AllEnded, Ended, Primitive, EndOfPacket, Zero
  <2> QED BY <1>c, <1>e, <1>f, <2>2, <2>3, <2>4, <2>5, <2>6
          DEF Owed, Phase, Closed, QuietWhenCounting
\* A window is being closed, or the next one is waited for.
<1>4. CASE ~Opening /\ ~Skipping /\ Waiting # {}
  <2>1. \A d \in Det : /\ Distance(d)' <= Distance(d)
                       /\ Distance(d) # 0 => Distance(d)' + 1 <= Distance(d)
    BY <1>a, <1>b, <1>4, DistanceFalls
  <2>2. \A d \in Det : Distance(d) <= 2
    BY <1>a, <1>d, <1>g, <1>4 DEF Aligned
  <2>3. AtPrimitive = {} /\ received_signal' = {}
    BY <1>c, <2>2 DEF AtPrimitive, Distance
  <2>4. ~Skipping'
    BY <1>a, <1>c, <1>4 DEF Skipping, Startup, NextDelay, DelayStates
  <2>5. Waiting' # {}
    BY <1>a, <1>c, <1>4 DEF Waiting, NextDelay
  <2>6. opened' = opened
    BY <1>e, <1>4
  <2>7. start_latency' <= start_latency + 1
    BY <1>b, <1>d, <1>4 DEF Reader, NextLatency
  <2>8. (\A d \in Det : Distance(d) = 0) => Closing = {}
    BY <1>g DEF Closing
  <2>9. (\A d \in Det : Distance(d)' = 0) => Closing' = {}
    BY <1>g DEF Closing
  <2>10. Closed
    BY <1>a, <1>4 DEF Phase
  <2>11. CASE opened = counted + 1 /\ packet_received /\ start_latency = 0
    <3>1. FSMPrimitiveInPacket = "WaitPacket"
      BY <1>a, <2>11 DEF Owed, CType
    <3>2. opened' = counted' /\ FSMPrimitiveInPacket' = "Shift1Clock"
      BY <1>e, <2>6, <2>11, <3>1 DEF Stores
    <3>3. \A d \in Det : Distance(d)' <= 1
      BY <1>g, <2>1, <2>2
    <3>4. start_latency' <= 1
      BY <2>7, <2>11
    <3> QED BY <1>e, <1>f, <2>3, <2>4, <2>5, <3>2, <3>3, <3>4
            DEF Owed, Phase, Closed, QuietWhenCounting
  <2>12. CASE /\ FSMPrimitiveInPacket = "Shift1Clock"
              /\ \A d \in Det : Distance(d) <= 1
    <3>1. \A d \in Det : Distance(d)' = 0
      BY <1>g, <2>1, <2>12
    <3>2. opened' = counted' /\ FSMPrimitiveInPacket' = "Shift2Clock"
      BY <1>a, <1>e, <2>6, <2>12 DEF Stores, Owed
    <3> QED BY <1>e, <1>f, <2>3, <2>4, <2>5, <2>9, <3>1, <3>2
            DEF Owed, Phase, Closed, QuietWhenCounting
  <2>13. CASE /\ \A d \in Det : Distance(d) = 0
              /\ \/ FSMPrimitiveInPacket = "Shift2Clock"
                 \/ FSMPrimitiveInPacket = "WaitPacket" /\ ~packet_received /\ opened = counted
    <3>1. \A d \in Det : Distance(d)' = 0
      BY <1>g, <2>1, <2>13
    <3>2. opened = counted /\ ~Stores /\ FSMPrimitiveInPacket # "Shift1Clock"
      BY <1>a, <2>13 DEF Owed, Stores
    <3>3. opened' = counted' /\ FSMPrimitiveInPacket' = "WaitPacket" /\ ~packet_received'
      BY <1>c, <1>e, <2>6, <2>8, <2>13, <3>2
    <3> QED BY <1>e, <1>f, <2>3, <2>4, <2>5, <2>9, <3>1, <3>3
            DEF Owed, Phase, Closed, QuietWhenCounting
  <2> QED BY <2>10, <2>11, <2>12, <2>13 DEF Closed
<1> QED BY <1>1, <1>2, <1>3, <1>4

\* A clock of all processes keeps the invariant.
LEMMA TickIInv == IInv /\ [Tick]_pvars => IInv'
<1> SUFFICES ASSUME IInv, [Tick]_pvars PROVE IInv'
    OBVIOUS
<1>1. TypeOK' /\ Aligned'
  <2>1. [Next]_vars
    BY DEF Tick, pvars
  <2> QED BY <2>1, StepTypeOK, StepAligned DEF IInv
<1>2. CASE UNCHANGED pvars
  <2> USE <1>2 DEF pvars, vars, countVars, readerVars, triggerVars, writerVars
  <2>1. CType' /\ Closing' = Closing /\ Waiting' = Waiting /\ (Active' <=> Active)
    BY DEF IInv, CType, Closing, AllEnded, Ended, Waiting, Active
  <2>2. (Skipping' <=> Skipping) /\ \A d \in Det : Distance(d)' = Distance(d)
    BY DEF Skipping, Startup, Distance, AllEnded, Ended, AllSkipped
  <2>3. Owed' /\ Gate' /\ QuietWhenCounting'
    BY <2>1 DEF IInv, Owed, Gate, QuietWhenCounting
  <2>4. Closed => Closed'
    BY <2>2 DEF Closed
  <2>5. Phase'
    BY <2>1, <2>2, <2>4 DEF IInv, Phase
  <2> QED BY <1>1, <2>1, <2>3, <2>5 DEF IInv
<1>3. CASE Tick
  <2>1. SubPrimitiveInPacket /\ (StartOfBurst \/ InBurst \/ OutOfBurst)
    BY <1>3 DEF Tick, Next
  <2>2. CType' /\ Owed' /\ Gate' /\ Phase' /\ QuietWhenCounting'
    BY <1>1, <2>1, StartStep, InStep, OutStep
  <2> QED BY <1>1, <2>2 DEF IInv
<1> QED BY <1>2, <1>3

-----------------------------------------------------------------------------
\* Whatever the number of detectors and the lengths and lateness of their packets, a
\* window that was opened is counted once, although packet_received comes from
\* readers that leave waitoutput in different clocks (Trigger.vhd:920).
THEOREM CountedOnceAlways == PSpec => []CountedOnce
<1>1. IInv => CountedOnce
  <2> SUFFICES ASSUME IInv PROVE CountedOnce
      OBVIOUS
  <2>1. counted <= opened /\ opened <= counted + 1
    BY DEF IInv, CType, Owed
  <2>2. ASSUME Active, Waiting = Det, ~packet_received, FSMPrimitiveInPacket = "WaitPacket"
        PROVE  counted = opened
    <3>1. ~Skipping /\ Waiting # {}
      BY <2>2, DetAssumption DEF Skipping, Startup, Waiting
    <3>2. Closed
      BY <2>2, <3>1 DEF IInv, Phase
    <3> QED BY <2>2, <3>2 DEF Closed
  <2> QED BY <2>1, <2>2 DEF CountedOnce
<1> QED BY <1>1, InitIInv, TickIInv, PTL DEF PSpec

\* No primitive reaches the FIFOs while the number of a window is taken
\* (Trigger.vhd:794), so that none is counted to the wrong window.
THEOREM QuietWhenCountingAlways == PSpec => []QuietWhenCounting
<1>1. IInv => QuietWhenCounting
  BY DEF IInv
<1> QED BY <1>1, InitIInv, TickIInv, PTL DEF PSpec

-----------------------------------------------------------------------------
(***************************************************************************)
(* Packets in time.  The words of a FIFODELAY are those of whole packets,   *)
(* but for the one being read and the one being received; from them follow  *)
(* the packets that each reader has been through and the primitives that    *)
(* are still to come of a packet.                                           *)
(***************************************************************************)
\* A packet of which x primitives are still to come, or none if x is Idle, goes on with
\* word w and then has y to come.
Follows(x, w, y) ==
    \/ x = Idle /\ w.kind = "header" /\ y = w.n
    \/ x > 0 /\ w = Primitive /\ y = x - 1
    \/ x = 0 /\ w = EndOfPacket /\ y = Idle

Remaining == Nat \cup {Idle}

\* So do the words of s, one after the other.
Continues(x, s, y) ==
    \E r \in [0 .. Len(s) -> Remaining] :
        /\ r[0] = x /\ r[Len(s)] = y
        /\ \A i \in 1 .. Len(s) : Follows(r[i - 1], s[i], r[i])

\* What is to come after word w.
AfterWord(w, x) ==
    \/ w.kind = "header" /\ x = w.n
    \/ w = Primitive /\ x \in Nat
    \/ w \in {EndOfPacket, Zero} /\ x = Idle

\* The number announced of a packet is that of its primitives that have been received,
\* the one at the output and those to come.
AtPrim(d) == FSMDelay[d] = "readdata" /\ q[d] = Primitive
AtHeader(d) == FSMDelay[d] = "readdata" /\ q[d].kind = "header"

Numbers(d, x) ==
    opened = counted + 1 =>
        IF AtHeader(d) THEN Received(d) = 0
        ELSE MTPNUMREF[d] = Received(d) + (IF x = Idle THEN 0 ELSE x) + (IF AtPrim(d) THEN 1 ELSE 0)

Stream(d) ==
    \E x \in Remaining : AfterWord(q[d], x) /\ Continues(x, fifo[d], rx[d]) /\ Numbers(d, x)

\* The packets that a reader has been through are those skipped and those of the
\* windows, but for the packet that it has not read to its end.
SkipPosition(d) ==
    Startup(d) =>
        /\ opened = 0
        /\ PacketsRead(d) = fifodelay[d] + (IF FSMDelay[d] = "waitcontrol" /\ q[d] = EndOfPacket
                                            THEN 1 ELSE 0)
        /\ FSMDelay[d] = "skipdata" /\ fifodelay[d] = fifoDELAY_set[d] => Ended(d)
        /\ FSMDelay[d] = "waitfinish" => Ended(d) /\ fifodelay[d] = fifoDELAY_set[d]

WindowPosition(d) ==
    ~Startup(d) =>
        /\ PacketsRead(d) = fifoDELAY_set[d] + opened - (IF Ended(d) THEN 0 ELSE 1)
        /\ FSMDelay[d] \in {"waitdata", "waitoutput"} => Ended(d)

\* No detector is behind the one that opens the windows.
FramesFirst ==
    frames[MaxDelayDet] > 0 =>
        \A e \in Det : frames[e] - fifoDELAY_set[e] >= frames[MaxDelayDet] - fifoDELAY_set[MaxDelayDet]

Ahead ==
    inTime /\ Active => FramesFirst /\ \A d \in Det : Stream(d) /\ SkipPosition(d) /\ WindowPosition(d)

\* When all packets of a window have been read, the numbers are those of the primitives
\* received, up to the clock in which they are stored.
Settled ==
    /\ opened = counted => \A d \in Det : Received(d) = 0
    /\ inTime /\ opened = counted + 1 =>
          /\ AllEnded => \A d \in Det : MTPNUMREF[d] = Received(d)
          /\ packet_received => \A d \in Det : MTPNUMREF_in[d] = Received(d)

DType == inTime \in BOOLEAN /\ delivered \in [Det -> Nat]

TInv == IInv /\ DType /\ Ahead /\ Settled

-----------------------------------------------------------------------------
(***************************************************************************)
(* Facts about the words of a FIFODELAY.                                    *)
(***************************************************************************)
Ends(s) == Cardinality({i \in 1 .. Len(s) : s[i] = EndOfPacket})

\* No word changes nothing.
LEMMA NoWords ==
    ASSUME NEW x \in Remaining
    PROVE  /\ Continues(x, <<>>, x)
           /\ \A y : Continues(x, <<>>, y) => x = y
<1>1. Continues(x, <<>>, x)
  <2> DEFINE r == [i \in 0 .. 0 |-> x]
  <2>1. r \in [0 .. 0 -> Remaining] /\ r[0] = x /\ Len(<<>>) = 0
    OBVIOUS
  <2> HIDE DEF r
  <2>2. \A i \in 1 .. Len(<<>>) : FALSE
    BY <2>1
  <2> QED BY <2>1, <2>2 DEF Continues
<1>2. \A y : Continues(x, <<>>, y) => x = y
  BY DEF Continues
<1> QED BY <1>1, <1>2

\* Words read in order: the first one, then the others.
LEMMA FirstWord ==
    ASSUME NEW s \in Seq(Word), s # <<>>, NEW x, NEW y, Continues(x, s, y)
    PROVE  \E z \in Remaining : Follows(x, Head(s), z) /\ Continues(z, Tail(s), y)
<1>1. PICK r \in [0 .. Len(s) -> Remaining] :
         /\ r[0] = x /\ r[Len(s)] = y
         /\ \A i \in 1 .. Len(s) : Follows(r[i - 1], s[i], r[i])
  BY DEF Continues
<1>2. Len(s) \in Nat /\ Len(s) >= 1 /\ Head(s) = s[1]
  BY EmptySeq
<1>3. /\ Tail(s) \in Seq(Word) /\ Len(Tail(s)) = Len(s) - 1
      /\ \A i \in 1 .. Len(Tail(s)) : Tail(s)[i] = s[i + 1]
  BY HeadTailProperties
<1> DEFINE n == Len(s)
           p == [i \in 0 .. n - 1 |-> r[i + 1]]
<1>4. r[1] \in Remaining /\ Follows(x, Head(s), r[1])
  BY <1>1, <1>2
<1>5. p \in [0 .. Len(Tail(s)) -> Remaining] /\ p[0] = r[1] /\ p[Len(Tail(s))] = y
  BY <1>1, <1>2, <1>3
<1>6. \A i \in 1 .. Len(Tail(s)) : Follows(p[i - 1], Tail(s)[i], p[i])
  <2> SUFFICES ASSUME NEW i \in 1 .. Len(Tail(s))
               PROVE  Follows(p[i - 1], Tail(s)[i], p[i])
    OBVIOUS
  <2>1. i + 1 \in 1 .. Len(s) /\ (i + 1) - 1 = i /\ i - 1 \in 0 .. n - 1 /\ i \in 0 .. n - 1 /\ (i - 1) + 1 = i
    BY <1>2, <1>3
  <2>2. Follows(r[i], s[i + 1], r[i + 1])
    BY <1>1, <2>1
  <2>3. p[i - 1] = r[i] /\ p[i] = r[i + 1] /\ Tail(s)[i] = s[i + 1]
    BY <1>3, <2>1
  <2> QED BY <2>2, <2>3
<1> HIDE DEF p
<1>7. Continues(r[1], Tail(s), y)
  BY <1>5, <1>6 DEF Continues
<1> QED BY <1>4, <1>7

\* A word added after the others.
LEMMA OneWordMore ==
    ASSUME NEW s \in Seq(Word), NEW w \in Word, NEW x, NEW y, NEW z \in Remaining,
           Continues(x, s, y), Follows(y, w, z)
    PROVE  Continues(x, Append(s, w), z)
<1>1. PICK r \in [0 .. Len(s) -> Remaining] :
         /\ r[0] = x /\ r[Len(s)] = y
         /\ \A i \in 1 .. Len(s) : Follows(r[i - 1], s[i], r[i])
  BY DEF Continues
<1> DEFINE t == Append(s, w)
<1>2. /\ t \in Seq(Word) /\ Len(t) = Len(s) + 1 /\ Len(s) \in Nat
      /\ \A i \in 1 .. Len(s) : t[i] = s[i]
      /\ t[Len(s) + 1] = w
  BY AppendProperties
<1> HIDE DEF t
<1> DEFINE n == Len(s)
           p == [i \in 0 .. n + 1 |-> IF i = n + 1 THEN z ELSE r[i]]
<1>3. p \in [0 .. Len(t) -> Remaining] /\ p[0] = x /\ p[Len(t)] = z
  BY <1>1, <1>2
<1>4. \A i \in 1 .. Len(t) : Follows(p[i - 1], t[i], p[i])
  <2> SUFFICES ASSUME NEW i \in 1 .. Len(t)
               PROVE  Follows(p[i - 1], t[i], p[i])
    OBVIOUS
  <2>1. CASE i = n + 1
    <3>1. p[i - 1] = y /\ p[i] = z /\ t[i] = w
      BY <1>1, <1>2, <2>1
    <3> QED BY <3>1
  <2>2. CASE i # n + 1
    <3>1. i \in 1 .. n /\ i - 1 \in 0 .. n
      BY <1>2, <2>2
    <3>2. p[i - 1] = r[i - 1] /\ p[i] = r[i] /\ t[i] = s[i]
      BY <1>2, <3>1
    <3> QED BY <1>1, <3>1, <3>2
  <2> QED BY <2>1, <2>2
<1> HIDE DEF p
<1> QED BY <1>3, <1>4 DEF Continues, t

\* Words that end between two packets end with an end of packet.
LEMMA LastWord ==
    ASSUME NEW s \in Seq(Word), s # <<>>, NEW x, Continues(x, s, Idle)
    PROVE  \E i \in 1 .. Len(s) : s[i] = EndOfPacket
<1>1. PICK r \in [0 .. Len(s) -> Remaining] :
         /\ r[Len(s)] = Idle
         /\ \A i \in 1 .. Len(s) : Follows(r[i - 1], s[i], r[i])
  BY DEF Continues
<1>2. Len(s) \in 1 .. Len(s) /\ Len(s) - 1 \in 0 .. Len(s)
  BY EmptySeq
<1>3. Follows(r[Len(s) - 1], s[Len(s)], Idle) /\ r[Len(s) - 1] \in Remaining /\ s[Len(s)] \in Word
  BY <1>1, <1>2, ElementOfSeq
<1> DEFINE a == r[Len(s) - 1]
           w == s[Len(s)]
<1>4. w = EndOfPacket
  <2>1. Follows(a, w, Idle) /\ a \in Remaining /\ w.n \in 0 .. 255
    BY <1>3 DEF Word
  <2> HIDE DEF a, w
  <2>2. a \in Int /\ Idle = -1
    BY <2>1 DEF Idle, Remaining
  <2>3. Idle # w.n
    <3>1. \A m \in 0 .. 255 : Idle # m
      BY DEF Idle
    <3> QED BY <2>1, <3>1, Zenon
  <2>4. a > 0 => Idle # a - 1
    BY <2>2
  <2> QED BY <2>1, <2>3, <2>4 DEF Follows
<1> QED BY <1>2, <1>4

\* The ends of packets among some words are a number, not zero if there is one.
LEMMA EndsNat ==
    ASSUME NEW s \in Seq(Word)
    PROVE  /\ IsFiniteSet({i \in 1 .. Len(s) : s[i] = EndOfPacket})
           /\ Ends(s) \in Nat
           /\ (\E i \in 1 .. Len(s) : s[i] = EndOfPacket) => Ends(s) >= 1
<1> DEFINE E == {i \in 1 .. Len(s) : s[i] = EndOfPacket}
<1>1. IsFiniteSet(1 .. Len(s)) /\ E \subseteq 1 .. Len(s)
  BY FS_Interval
<1>2. IsFiniteSet(E)
  BY <1>1, FS_Subset
<1> HIDE DEF E
<1>3. Cardinality(E) \in Nat /\ (E # {} => Cardinality(E) # 0)
  BY <1>2, FS_CardinalityType, FS_EmptySet
<1> QED BY <1>2, <1>3 DEF E, Ends

\* A word added counts if it is the end of a packet.
LEMMA EndsAppend ==
    ASSUME NEW s \in Seq(Word), NEW w \in Word
    PROVE  Ends(Append(s, w)) = Ends(s) + (IF w = EndOfPacket THEN 1 ELSE 0)
<1> DEFINE t == Append(s, w)
           E == {i \in 1 .. Len(s) : s[i] = EndOfPacket}
           F == {i \in 1 .. Len(t) : t[i] = EndOfPacket}
<1>1. /\ Len(t) = Len(s) + 1 /\ Len(s) \in Nat
      /\ \A i \in 1 .. Len(s) : t[i] = s[i]
      /\ t[Len(s) + 1] = w
  BY AppendProperties
<1> HIDE DEF t
<1>2. IsFiniteSet(E) /\ Cardinality(E) \in Nat
  BY EndsNat DEF Ends
<1>5. Ends(s) = Cardinality(E) /\ Ends(Append(s, w)) = Cardinality(F)
  BY DEF Ends, t
<1>3. CASE w = EndOfPacket
  <2>1. F = E \cup {Len(s) + 1} /\ Len(s) + 1 \notin E
    BY <1>1, <1>3
  <2> HIDE DEF E, F
  <2>2. Cardinality(F) = Cardinality(E) + 1
    BY <1>2, <2>1, FS_AddElement
  <2> QED BY <1>3, <1>5, <2>2
<1>4. CASE w # EndOfPacket
  <2>1. F = E
    BY <1>1, <1>4
  <2> HIDE DEF E, F
  <2> QED BY <1>2, <1>4, <1>5, <2>1
<1> QED BY <1>3, <1>4

\* So does the first of the words.
LEMMA EndsTail ==
    ASSUME NEW s \in Seq(Word), s # <<>>
    PROVE  Ends(s) = Ends(Tail(s)) + (IF Head(s) = EndOfPacket THEN 1 ELSE 0)
<1> DEFINE t == Tail(s)
           E == {i \in 1 .. Len(s) : s[i] = EndOfPacket}
           G == E \ {1}
           F == {i \in 1 .. Len(t) : t[i] = EndOfPacket}
           f == [i \in F |-> i + 1]
<1>1. /\ t \in Seq(Word) /\ Len(t) = Len(s) - 1 /\ Len(s) \in Nat
      /\ \A i \in 1 .. Len(t) : t[i] = s[i + 1]
  BY HeadTailProperties
<1>2. Len(s) >= 1 /\ Head(s) = s[1]
  BY EmptySeq
<1> HIDE DEF t
<1>3. IsFiniteSet(E) /\ Cardinality(E) \in Nat /\ IsFiniteSet(F) /\ Cardinality(F) \in Nat
  BY <1>1, EndsNat DEF Ends
<1>7. Ends(s) = Cardinality(E) /\ Ends(Tail(s)) = Cardinality(F)
  BY DEF Ends, t
<1>4. Cardinality(G) = Cardinality(F)
  <2>1. F \subseteq Nat /\ \A i \in F : i + 1 \in G
    BY <1>1
  <2>2. \A j \in G : j - 1 \in F /\ (j - 1) + 1 = j
    BY <1>1
  <2> HIDE DEF F, G
  <2>3. f \in Bijection(F, G)
    <3>1. f \in [F -> G]
      BY <2>1
    <3>2. \A i, j \in F : f[i] = f[j] => i = j
      BY <2>1
    <3>3. \A j \in G : \E i \in F : f[i] = j
      BY <2>2
    <3> QED BY <3>1, <3>2, <3>3 DEF Bijection, Injection, Surjection, IsInjective
  <2> QED BY <1>3, <2>3, FS_Bijection DEF ExistsBijection
<1>5. CASE Head(s) = EndOfPacket
  <2>1. E = G \cup {1} /\ 1 \notin G /\ G \subseteq E
    BY <1>2, <1>5
  <2> HIDE DEF E, F, G
  <2>2. IsFiniteSet(G)
    BY <1>3, <2>1, FS_Subset
  <2>3. Cardinality(E) = Cardinality(G) + 1
    BY <2>1, <2>2, FS_AddElement
  <2> QED BY <1>4, <1>5, <1>7, <2>3
<1>6. CASE Head(s) # EndOfPacket
  <2>1. E = G
    BY <1>2, <1>6
  <2> HIDE DEF E, F, G
  <2> QED BY <1>3, <1>4, <1>6, <1>7, <2>1
<1> QED BY <1>5, <1>6

-----------------------------------------------------------------------------
(***************************************************************************)
(* A clock of the receivers and of the reading of the FIFOs.                *)
(***************************************************************************)
\* The receivers present words of a FIFODELAY.
LEMMA OfferedWord ==
    ASSUME NEW w \in Offered, NEW d \in Det
    PROVE  Presents(d, w[d]) /\ w[d] \in Word /\ w[d].n \in Nat
<1> USE BoundAssumption
<1>1. w[d] \in Offers /\ Presents(d, w[d])
  BY DEF Offered
<1>2. Offers \subseteq Word
  <2>1. \A n \in 0 .. MaxPrim : n \in 0 .. 255
    OBVIOUS
  <2>2. \A n \in 0 .. MaxPrim : Header(n) \in Word
    BY <2>1, WordType
  <2> QED BY <2>2, WordType DEF Offers
<1>3. \A v \in Word : v.n \in Nat
  BY DEF Word
<1> QED BY <1>1, <1>2, <1>3

\* In time no word finds the FIFO full: each goes on with the packet being received.
LEMMA WordWritten ==
    ASSUME TypeOK, inTime, Active, InTime, NEW w \in Offered, Writer(w), NEW d \in Det,
           NEW left, left = IF Read(d) THEN Tail(fifo[d]) ELSE fifo[d]
    PROVE  \/ fifo'[d] = left /\ rx'[d] = rx[d] /\ frames'[d] = frames[d]
           \/ /\ fifo'[d] = Append(left, w[d])
              /\ w[d] \in Word /\ Follows(rx[d], w[d], rx'[d]) /\ rx'[d] \in Remaining
              /\ \/ w[d] # EndOfPacket /\ rx[d] = Idle /\ rx'[d] # Idle /\ frames'[d] = frames[d] + 1
                 \/ w[d] # EndOfPacket /\ rx[d] # Idle /\ rx'[d] # Idle /\ frames'[d] = frames[d]
                 \/ w[d] = EndOfPacket /\ rx[d] # Idle /\ rx'[d] = Idle /\ frames'[d] = frames[d]
<1>1. /\ rx'[d] = NextRx(d, w[d])
      /\ frames'[d] = IF w[d].kind = "header" THEN frames[d] + 1 ELSE frames[d]
      /\ fifo'[d] = IF w[d] = Zero \/ Full(d) THEN left ELSE Append(left, w[d])
      /\ rx[d] \in Int /\ frames[d] \in Nat
  BY DEF Writer, TypeOK
<1>2. Presents(d, w[d]) /\ w[d] \in Word
  BY OfferedWord
<1>3. Full(d) => rx'[d] = rx[d]
  BY DEF InTime
<1>4. w[d].n \in Nat
  BY OfferedWord
<1>5. CASE w[d] = Zero
  BY <1>1, <1>5 DEF NextRx, Zero
<1>6. CASE w[d] # Zero /\ w[d].kind = "header"
  <2>1. rx[d] = Idle /\ rx'[d] = w[d].n /\ frames'[d] = frames[d] + 1 /\ w[d] # EndOfPacket
    BY <1>1, <1>2, <1>6 DEF Presents, NextRx, Primitive, EndOfPacket
  <2>2. w[d].n # Idle
    <3>1. \A m \in Nat : m # Idle
      BY DEF Idle
    <3> QED BY <1>4, <3>1
  <2>3. fifo'[d] = Append(left, w[d])
    BY <1>1, <1>3, <1>6, <2>1, <2>2
  <2> QED BY <1>2, <1>4, <1>6, <2>1, <2>2, <2>3 DEF Follows, Remaining
<1>7. CASE w[d] = Primitive
  <2>1. rx[d] > 0 /\ rx'[d] = rx[d] - 1 /\ frames'[d] = frames[d] /\ w[d] # EndOfPacket /\ w[d] # Zero
    BY <1>1, <1>2, <1>7 DEF Presents, NextRx, Primitive, EndOfPacket, Zero
  <2>2. rx[d] # Idle /\ rx[d] - 1 # Idle /\ rx[d] - 1 # rx[d] /\ rx[d] - 1 \in Nat
    BY <1>1, <2>1 DEF Idle
  <2>3. fifo'[d] = Append(left, w[d])
    BY <1>1, <1>3, <2>1, <2>2
  <2> QED BY <1>2, <1>7, <2>1, <2>2, <2>3 DEF Follows, Remaining
<1>8. CASE w[d] = EndOfPacket
  <2>1. rx[d] = 0 /\ rx'[d] = Idle /\ frames'[d] = frames[d] /\ w[d] # Zero
    BY <1>1, <1>2, <1>8 DEF Presents, NextRx, Primitive, EndOfPacket, Zero
  <2>2. 0 # Idle
    BY DEF Idle
  <2>3. fifo'[d] = Append(left, w[d])
    BY <1>1, <1>3, <2>1, <2>2
  <2> QED BY <1>2, <1>8, <2>1, <2>2, <2>3 DEF Follows, Remaining
<1> QED BY <1>2, <1>5, <1>6, <1>7, <1>8 DEF Presents

\* What the arithmetic of PacketsRead comes to.
LEMMA Balance ==
    ASSUME NEW f \in Nat, NEW g \in Nat, NEW a \in 0 .. 1, NEW b \in 0 .. 1,
           NEW e \in Nat, NEW l \in Nat, NEW h \in Nat, NEW p \in 0 .. 1, NEW o \in 0 .. 1,
           e = l + o, h = l + p, g - b - p = f - a
    PROVE  g - b - h = f - a - e + o
OBVIOUS

\* A clock reads a packet more just when it reads the end of one.
LEMMA PacketsReadStep ==
    ASSUME TypeOK, TypeOK', inTime, Active, InTime, NEW w \in Offered, Writer(w), NEW d \in Det
    PROVE  /\ PacketsRead(d) \in Int
           /\ PacketsRead(d)' = PacketsRead(d) + (IF Read(d) /\ Head(fifo[d]) = EndOfPacket
                                                  THEN 1 ELSE 0)
<1> DEFINE left == IF Read(d) THEN Tail(fifo[d]) ELSE fifo[d]
           o == IF Read(d) /\ Head(fifo[d]) = EndOfPacket THEN 1 ELSE 0
           a == IF rx[d] = Idle THEN 0 ELSE 1
           b == IF rx'[d] = Idle THEN 0 ELSE 1
           f == frames[d]
           g == frames'[d]
<1>1. fifo[d] \in Seq(Word) /\ fifo'[d] \in Seq(Word) /\ f \in Nat /\ g \in Nat
  BY DEF TypeOK
<1>2. a \in 0 .. 1 /\ b \in 0 .. 1 /\ o \in 0 .. 1
  OBVIOUS
<1>3. left \in Seq(Word) /\ Ends(fifo[d]) = Ends(left) + o
  <2>1. CASE Read(d)
    <3>1. fifo[d] # <<>>
      BY <2>1 DEF Read, Empty
    <3>2. Tail(fifo[d]) \in Seq(Word)
      BY <1>1, <3>1
    <3> QED BY <1>1, <2>1, <3>1, <3>2, EndsTail
  <2>2. CASE ~Read(d)
    <3>1. Ends(fifo[d]) \in Nat
      BY <1>1, EndsNat
    <3> QED BY <1>1, <2>2, <3>1
  <2> QED BY <2>1, <2>2
<1>4. Ends(fifo[d]) \in Nat /\ Ends(left) \in Nat /\ Ends(fifo'[d]) \in Nat
  BY <1>1, <1>3, EndsNat
<1>5. /\ PacketsRead(d) = f - a - Ends(fifo[d])
      /\ PacketsRead(d)' = g - b - Ends(fifo'[d])
  BY DEF PacketsRead, Ends
<1>6. \/ fifo'[d] = left /\ rx'[d] = rx[d] /\ g = f
      \/ /\ fifo'[d] = Append(left, w[d])
         /\ w[d] \in Word
         /\ \/ w[d] # EndOfPacket /\ rx[d] = Idle /\ rx'[d] # Idle /\ g = f + 1
            \/ w[d] # EndOfPacket /\ rx[d] # Idle /\ rx'[d] # Idle /\ g = f
            \/ w[d] = EndOfPacket /\ rx[d] # Idle /\ rx'[d] = Idle /\ g = f
  BY WordWritten
<1>7. \E p \in 0 .. 1 : Ends(fifo'[d]) = Ends(left) + p /\ g - b - p = f - a
  <2>1. CASE fifo'[d] = left /\ rx'[d] = rx[d] /\ g = f
    <3>1. Ends(fifo'[d]) = Ends(left) + 0 /\ g - b - 0 = f - a
      BY <1>1, <1>2, <1>4, <2>1
    <3> QED BY <3>1
  <2>2. CASE /\ fifo'[d] = Append(left, w[d]) /\ w[d] \in Word
             /\ w[d] # EndOfPacket
             /\ \/ rx[d] = Idle /\ rx'[d] # Idle /\ g = f + 1
                \/ rx[d] # Idle /\ rx'[d] # Idle /\ g = f
    <3>1. Ends(fifo'[d]) = Ends(left) + 0
      BY <1>3, <2>2, EndsAppend
    <3>2. g - b - 0 = f - a
      <4>1. \/ a = 0 /\ b = 1 /\ g = f + 1
            \/ a = 1 /\ b = 1 /\ g = f
        BY <2>2
      <4> HIDE DEF a, b, f, g
      <4> QED BY <1>1, <4>1
    <3> QED BY <3>1, <3>2
  <2>3. CASE /\ fifo'[d] = Append(left, w[d]) /\ w[d] \in Word
             /\ w[d] = EndOfPacket /\ rx[d] # Idle /\ rx'[d] = Idle /\ g = f
    <3>1. Ends(fifo'[d]) = Ends(left) + 1
      BY <1>3, <2>3, EndsAppend
    <3>2. g - b - 1 = f - a
      <4>1. a = 1 /\ b = 0 /\ g = f
        BY <2>3
      <4> HIDE DEF a, b, f, g
      <4> QED BY <1>1, <4>1
    <3> QED BY <3>1, <3>2
  <2> QED BY <1>6, <2>1, <2>2, <2>3
<1> HIDE DEF left, a, b, f, g
<1>8. PacketsRead(d)' = PacketsRead(d) + o
  <2> HIDE DEF o
  <2>1. PICK e : e = Ends(fifo[d])
    OBVIOUS
  <2>2. PICK l : l = Ends(left)
    OBVIOUS
  <2>3. PICK h : h = Ends(fifo'[d])
    OBVIOUS
  <2>4. PICK p \in 0 .. 1 : h = l + p /\ g - b - p = f - a
    BY <1>7, <2>2, <2>3
  <2>5. e \in Nat /\ l \in Nat /\ h \in Nat /\ e = l + o
    BY <1>3, <1>4, <2>1, <2>2, <2>3
  <2>6. g - b - h = f - a - e + o
    BY <1>1, <1>2, <2>4, <2>5, Balance
  <2> QED BY <1>5, <2>1, <2>3, <2>6
<1>9. PacketsRead(d) \in Int
  BY <1>1, <1>2, <1>4, <1>5
<1> QED BY <1>8, <1>9

\* The words of a FIFO stay those of whole packets when one is read and one is added.
LEMMA ContinuesStep ==
    ASSUME TypeOK, inTime, Active, InTime, NEW w \in Offered, Writer(w), NEW d \in Det,
           NEW x \in Remaining, Continues(x, fifo[d], rx[d])
    PROVE  /\ Read(d) => \E z \in Remaining : /\ Follows(x, Head(fifo[d]), z)
                                              /\ Continues(z, fifo'[d], rx'[d])
           /\ ~Read(d) => Continues(x, fifo'[d], rx'[d])
<1> DEFINE left == IF Read(d) THEN Tail(fifo[d]) ELSE fifo[d]
<1>1. fifo[d] \in Seq(Word) /\ (Read(d) => fifo[d] # <<>>)
  BY DEF TypeOK, Read, Empty
<1>2. left \in Seq(Word)
  BY <1>1
<1>3. \/ fifo'[d] = left /\ rx'[d] = rx[d]
      \/ /\ fifo'[d] = Append(left, w[d]) /\ w[d] \in Word
         /\ Follows(rx[d], w[d], rx'[d]) /\ rx'[d] \in Remaining
  BY WordWritten
<1>4. \A z : Continues(z, left, rx[d]) => Continues(z, fifo'[d], rx'[d])
  <2> HIDE DEF left
  <2> SUFFICES ASSUME NEW z, Continues(z, left, rx[d]) PROVE Continues(z, fifo'[d], rx'[d])
    OBVIOUS
  <2>1. CASE fifo'[d] = left /\ rx'[d] = rx[d]
    BY <2>1
  <2>2. CASE /\ fifo'[d] = Append(left, w[d]) /\ w[d] \in Word
             /\ Follows(rx[d], w[d], rx'[d]) /\ rx'[d] \in Remaining
    <3>1. Continues(z, Append(left, w[d]), rx'[d])
      BY <1>2, <2>2, OneWordMore
    <3> QED BY <2>2, <3>1
  <2> QED BY <1>3, <2>1, <2>2
<1>5. ASSUME Read(d)
      PROVE  \E z \in Remaining : Follows(x, Head(fifo[d]), z) /\ Continues(z, fifo'[d], rx'[d])
  <2>1. PICK z \in Remaining : Follows(x, Head(fifo[d]), z) /\ Continues(z, Tail(fifo[d]), rx[d])
    BY <1>1, <1>5, FirstWord
  <2>2. Continues(z, left, rx[d])
    BY <1>5, <2>1
  <2> QED BY <1>4, <2>1, <2>2
<1>6. ASSUME ~Read(d) PROVE Continues(x, fifo'[d], rx'[d])
  BY <1>4, <1>6
<1> QED BY <1>5, <1>6

-----------------------------------------------------------------------------
(***************************************************************************)
(* A clock inside a burst, for packets in time.                             *)
(***************************************************************************)
\* What a word of a packet can be, and what is to come after it.
LEMMA WordOfPacket ==
    ASSUME NEW w \in Word, NEW x \in Remaining, NEW z \in Remaining
    PROVE  /\ Follows(x, w, z) => AfterWord(w, z) /\ w # Zero
           /\ Follows(x, w, z) /\ x = Idle => w.kind = "header" /\ w # EndOfPacket
           /\ Follows(x, w, z) /\ x # Idle => \/ w = Primitive /\ z = x - 1 /\ x \in Nat /\ x > 0
                                              \/ w = EndOfPacket /\ z = Idle /\ x = 0
           /\ AfterWord(w, x) => (x = Idle <=> w \in {EndOfPacket, Zero})
<1>1. w.n \in Nat
  <2>1. \A v \in Word : v.n \in Nat
    BY DEF Word
  <2> QED BY <2>1
<1>2. \A m \in Nat : m # Idle
  BY DEF Idle
<1>3. /\ Primitive.kind = "primitive" /\ EndOfPacket.kind = "eof" /\ Zero.kind = "zero"
      /\ Primitive # EndOfPacket /\ Primitive # Zero /\ EndOfPacket # Zero
  BY DEF Primitive, EndOfPacket, Zero
<1>4. AfterWord(w, x) => (x = Idle <=> w \in {EndOfPacket, Zero})
  BY <1>1, <1>2, <1>3 DEF AfterWord
<1>5. x \in Nat \/ x = Idle
  BY DEF Remaining
<1>6. Idle \notin Nat /\ ~(Idle > 0) /\ Idle # 0
  BY DEF Idle
<1>7. ASSUME Follows(x, w, z), x = Idle
      PROVE  w.kind = "header" /\ z = w.n
  BY <1>6, <1>7 DEF Follows
<1>8. ASSUME Follows(x, w, z), x # Idle
      PROVE  \/ w = Primitive /\ z = x - 1 /\ x \in Nat /\ x > 0 /\ z \in Nat
             \/ w = EndOfPacket /\ z = Idle /\ x = 0
  BY <1>5, <1>8 DEF Follows
<1>9. Follows(x, w, z) => AfterWord(w, z) /\ w # Zero
  BY <1>3, <1>7, <1>8 DEF AfterWord
<1> QED BY <1>3, <1>4, <1>7, <1>8, <1>9

\* No detector falls behind the one that opens the windows.
LEMMA FramesStep ==
    ASSUME TypeOK, TypeOK', inTime, Active, InTime, FramesFirst,
           NEW w \in Offered, Writer(w)
    PROVE  FramesFirst'
<1>1. \A d \in Det : /\ frames[d] \in Nat /\ frames'[d] \in Nat /\ fifoDELAY_set[d] \in Nat
                     /\ frames'[d] = frames[d] \/ frames'[d] = frames[d] + 1
  BY SetAssumption DEF TypeOK, Writer
<1> SUFFICES ASSUME frames'[MaxDelayDet] > 0, NEW e \in Det
             PROVE  frames'[e] - fifoDELAY_set[e] >= frames'[MaxDelayDet] - fifoDELAY_set[MaxDelayDet]
    BY DEF FramesFirst
<1>2. MaxDelayDet \in Det
  BY DetAssumption
<1>3. CASE e = MaxDelayDet
  BY <1>1, <1>3
<1>4. CASE e # MaxDelayDet /\ Begins(MaxDelayDet)
  <2>1. frames[e] - fifoDELAY_set[e] > frames[MaxDelayDet] - fifoDELAY_set[MaxDelayDet]
    BY <1>4 DEF InTime
  <2> QED BY <1>1, <1>2, <2>1
<1>5. CASE ~Begins(MaxDelayDet)
  <2>1. frames'[MaxDelayDet] = frames[MaxDelayDet]
    BY <1>1, <1>2, <1>5 DEF Begins
  <2>2. frames[e] - fifoDELAY_set[e] >= frames[MaxDelayDet] - fifoDELAY_set[MaxDelayDet]
    BY <2>1 DEF FramesFirst
  <2> QED BY <1>1, <1>2, <2>1, <2>2
<1> QED BY <1>3, <1>4, <1>5

\* A FIFO that has been read to the end of a packet holds something just when its
\* detector has begun a packet that has not been read.
LEMMA SomethingLeft ==
    ASSUME TypeOK, NEW d \in Det, Continues(Idle, fifo[d], rx[d])
    PROVE  fifo[d] # <<>> <=> frames[d] > PacketsRead(d)
<1>1. fifo[d] \in Seq(Word) /\ frames[d] \in Nat
  BY DEF TypeOK
<1>2. Ends(fifo[d]) \in Nat
  BY <1>1, EndsNat
<1>3. PacketsRead(d) = frames[d] - (IF rx[d] = Idle THEN 0 ELSE 1) - Ends(fifo[d])
  BY DEF PacketsRead, Ends
<1>4. CASE fifo[d] = <<>>
  <2>1. rx[d] = Idle
    BY <1>4, NoWords DEF Remaining
  <2>2. Ends(fifo[d]) = 0
    <3>1. {i \in 1 .. Len(fifo[d]) : fifo[d][i] = EndOfPacket} = {}
      BY <1>4
    <3> QED BY <3>1, FS_EmptySet DEF Ends
  <2> QED BY <1>1, <1>3, <1>4, <2>1, <2>2
<1>5. CASE fifo[d] # <<>> /\ rx[d] = Idle
  <2>1. Ends(fifo[d]) >= 1
    BY <1>1, <1>5, LastWord, EndsNat
  <2> QED BY <1>1, <1>2, <1>3, <1>5, <2>1
<1>6. CASE fifo[d] # <<>> /\ rx[d] # Idle
  BY <1>1, <1>2, <1>3, <1>6
<1> QED BY <1>4, <1>5, <1>6

\* When a window opens, every detector has its packet, and begins with its header.
LEMMA WindowOpens ==
    ASSUME IInv, Active, inTime, Ahead, Opening, Waiting # {}
    PROVE  /\ \A d \in Det : FSMDelay[d] = "waitdata" /\ ~Startup(d) /\ fifo[d] # <<>>
           /\ \A d \in Det : Continues(Idle, fifo[d], rx[d]) /\ Ended(d)
<1>1. TypeOK /\ Aligned /\ opened \in Nat
  BY DEF IInv, CType
<1>2. \A d \in Det : FSMDelay[d] = "waitdata" /\ ~Startup(d)
  BY <1>1, NobodyBehind DEF Startup
<1>3. \A d \in Det : /\ PacketsRead(d) = fifoDELAY_set[d] + opened - (IF Ended(d) THEN 0 ELSE 1)
                     /\ Ended(d)
  BY <1>2 DEF Ahead, WindowPosition
<1>4. ASSUME NEW d \in Det PROVE Continues(Idle, fifo[d], rx[d])
  <2>1. PICK x \in Remaining : AfterWord(q[d], x) /\ Continues(x, fifo[d], rx[d])
    BY DEF Ahead, Stream
  <2>2. x = Idle
    BY <1>1, <1>3, <2>1, WordOfPacket DEF TypeOK, Ended
  <2> QED BY <2>1, <2>2
<1>5. \A d \in Det : /\ frames[d] \in Nat /\ fifoDELAY_set[d] \in Nat
                     /\ PacketsRead(d) = fifoDELAY_set[d] + opened
  BY <1>1, <1>3, SetAssumption DEF TypeOK
<1>6. \A d \in Det : fifo[d] # <<>> <=> frames[d] > PacketsRead(d)
  BY <1>1, <1>4, SomethingLeft
<1>7. frames[MaxDelayDet] > PacketsRead(MaxDelayDet)
  BY <1>6, DetAssumption DEF Opening, CanOpen, Empty
<1>8. \A e \in Det : frames[e] - fifoDELAY_set[e] >= frames[MaxDelayDet] - fifoDELAY_set[MaxDelayDet]
  <2>1. frames[MaxDelayDet] > 0
    BY <1>1, <1>5, <1>7, DetAssumption
  <2> QED BY <2>1 DEF Ahead, FramesFirst
<1>9. \A e \in Det : frames[e] > PacketsRead(e)
  BY <1>1, <1>5, <1>7, <1>8, DetAssumption
<1> QED BY <1>2, <1>3, <1>4, <1>6, <1>9

\* The primitives received since the last number, in one clock of the machine.
LEMMA ReceivedStep ==
    ASSUME DType, SubPrimitiveInPacket, ~(BURST125 /\ FSMResetCounters = "S0"), NEW d \in Det
    PROVE  /\ Received(d) \in Nat
           /\ delivered' \in [Det -> Nat]
           /\ Stores => Received(d)' = IF d \in received_signal' THEN 1 ELSE 0
           /\ ~Stores => Received(d)' = Received(d) + (IF d \in received_signal' THEN 1 ELSE 0)
<1>1. \A e \in Det : Received(e) \in Nat
  BY DEF Received, DType
<1>2. delivered' = [e \in Det |-> IF Stores THEN 0 ELSE Received(e)]
  BY DEF SubPrimitiveInPacket
<1>3. delivered' \in [Det -> Nat]
  BY <1>1, <1>2
<1>4. Received(d)' = delivered'[d] + (IF d \in received_signal' THEN 1 ELSE 0)
  BY DEF Received
<1>5. delivered'[d] = IF Stores THEN 0 ELSE Received(d)
  BY <1>2
<1>6. Stores => Received(d)' = IF d \in received_signal' THEN 1 ELSE 0
  BY <1>4, <1>5
<1> QED BY <1>1, <1>3, <1>4, <1>5, <1>6

\* The counts of windows in a clock of a burst in which none opens.
LEMMA NoWindowOpens ==
    ASSUME IInv, Active, SubPrimitiveInPacket, ~(Opening /\ Waiting # {})
    PROVE  /\ opened' = opened
           /\ opened' = counted' + 1 => opened = counted + 1 /\ ~Stores
           /\ opened' = counted' /\ ~Stores => opened = counted
<1>1. TypeOK /\ CType /\ ~(BURST125 /\ FSMResetCounters = "S0") /\ Owed
  BY DEF IInv, Active
<1>2. /\ opened' = opened + (IF Active /\ Opening /\ Waiting # {} THEN 1 ELSE 0)
      /\ Stores => counted' = counted + 1
      /\ ~Stores => counted' = counted
  BY <1>1, CountStep
<1>3. opened \in Nat /\ counted \in Nat /\ opened <= counted + 1
  BY <1>1 DEF CType, Owed
<1>4. opened' = opened
  BY <1>2, <1>3
<1> QED BY <1>2, <1>3, <1>4

\* No primitive is at an output when all windows have been counted.
LEMMA QuietAhead ==
    ASSUME IInv, Active, opened = counted
    PROVE  AtPrimitive = {}
<1>1. TypeOK /\ Aligned /\ Phase /\ opened \in Nat /\ counted \in Nat
  BY DEF IInv, CType
<1>2. CASE Skipping
  <2>1. \A d \in Det : Startup(d) \/ FSMDelay[d] = "waitdata"
    BY <1>1, <1>2 DEF Aligned, Skipping
  <2> QED BY <2>1 DEF AtPrimitive, Startup
<1>3. CASE ~Skipping
  <2>1. Waiting # {}
    BY <1>1, <1>3 DEF Phase
  <2>2. \A d \in Det : Distance(d) = 0 \/ start_latency + Distance(d) <= 2
    BY <1>1, <2>1 DEF Aligned
  <2>3. start_latency \in Nat
    BY <1>1, LatencyAssumption DEF TypeOK
  <2>4. \A d \in Det : Distance(d) <= 2
    BY <1>1, <2>2, <2>3, DistanceRange
  <2> QED BY <2>4 DEF AtPrimitive, Distance
<1> QED BY <1>2, <1>3

\* The registers of one reader in a clock inside a burst.
LEMMA ReaderOf ==
    ASSUME TypeOK, Active, NEW late \in SUBSET AtPrimitive, NEW full, Reader(late, full),
           NEW d \in Det
    PROVE  /\ FSMDelay[d] \in DelayStates /\ FSMDelay'[d] = NextDelay(d)
           /\ q[d] \in Word /\ q'[d] = IF Read(d) THEN Head(fifo[d]) ELSE q[d]
           /\ fifodelay[d] \in Nat /\ fifodelay'[d] = NextSkipped(d)
           /\ MTPNUMREF[d] \in 0 .. 255 /\ MTPNUMREF'[d] = NextMTPNUMREF(d, late)
           /\ received_signal' = AtPrimitive \ late
           /\ Read(d) <=> rdreq(d) /\ fifo[d] # <<>>
           /\ d \in AtPrimitive <=> AtPrim(d)
           /\ BURST125
BY DEF TypeOK, Active, Reader, Read, Empty, AtPrimitive, AtPrim

\* A window opens for detector d, with the header of its packet.
LEMMA OpenStepOf ==
    ASSUME IInv, TypeOK', DType, inTime, Active, InTime, Ahead, Settled, SubPrimitiveInPacket,
           Opening, Waiting # {},
           NEW w \in Offered, NEW late \in SUBSET AtPrimitive, NEW full,
           Reader(late, full), Writer(w), NEW d \in Det
    PROVE  Stream(d)' /\ SkipPosition(d)' /\ WindowPosition(d)'
<1>1. TypeOK /\ CType /\ ~(BURST125 /\ FSMResetCounters = "S0") /\ opened \in Nat
  BY DEF IInv, Active, CType
<1>2. /\ FSMDelay[d] = "waitdata" /\ ~Startup(d) /\ fifo[d] # <<>>
      /\ Continues(Idle, fifo[d], rx[d]) /\ Ended(d)
  BY WindowOpens
<1>3. AtPrimitive = {}
  BY WindowOpens DEF AtPrimitive
<1>4. /\ FSMDelay'[d] = "readdata" /\ Read(d)
      /\ q'[d] = Head(fifo[d]) /\ received_signal' = {}
  <2>1. /\ FSMDelay'[d] = NextDelay(d) /\ BURST125
        /\ q'[d] = IF Read(d) THEN Head(fifo[d]) ELSE q[d]
        /\ received_signal' = AtPrimitive \ late
        /\ Read(d) <=> rdreq(d) /\ fifo[d] # <<>>
    BY <1>1, ReaderOf
  <2>2. Read(d)
    BY <1>2, <2>1 DEF rdreq
  <2>3. FSMDelay'[d] = "readdata"
    BY <1>2, <2>1 DEF NextDelay
  <2> QED BY <1>3, <2>1, <2>2, <2>3
<1>5. opened = counted /\ ~Stores
  <2>1. start_latency >= 2 /\ start_latency \in Nat
    BY <1>1, LatencyAssumption DEF Opening, TypeOK
  <2>2. Closed
    BY WindowOpens DEF IInv, Phase, Skipping
  <2> QED BY <1>1, <2>1, <2>2 DEF IInv, Closed, Owed, Stores, CType
<1>6. Received(d)' = 0
  <2>1. Received(d) = 0
    BY <1>5 DEF Settled
  <2>2. Received(d)' = Received(d) + (IF d \in received_signal' THEN 1 ELSE 0)
    BY <1>1, <1>5, ReceivedStep
  <2> QED BY <1>4, <2>1, <2>2
<1>7. opened' = opened + 1
  BY <1>1, CountStep
<1>8. Head(fifo[d]) \in Word
  BY <1>1, <1>2 DEF TypeOK
<1>9. PICK z \in Remaining : Follows(Idle, Head(fifo[d]), z) /\ Continues(z, fifo'[d], rx'[d])
  <2>1. Idle \in Remaining
    BY DEF Remaining
  <2> QED BY <1>1, <1>2, <1>4, <2>1, ContinuesStep
<1>10. AfterWord(q'[d], z) /\ q'[d].kind = "header" /\ q'[d] # EndOfPacket /\ q'[d] # Zero
  <2>1. Idle \in Remaining
    BY DEF Remaining
  <2> QED BY <1>4, <1>8, <1>9, <2>1, WordOfPacket
<1>11. AtHeader(d)'
  BY <1>4, <1>10 DEF AtHeader
<1>12. Stream(d)'
  <2>1. AfterWord(q'[d], z) /\ Continues(z, fifo'[d], rx'[d])
    BY <1>9, <1>10
  <2>2. \A y : Numbers(d, y)'
    BY <1>6, <1>11 DEF Numbers
  <2> QED BY <2>1, <2>2 DEF Stream
<1>13. ~Startup(d)' /\ SkipPosition(d)'
  BY <1>4 DEF Startup, SkipPosition
<1>14. PacketsRead(d)' = fifoDELAY_set[d] + opened' - 1
  <2>1. /\ PacketsRead(d) \in Int
        /\ PacketsRead(d)' = PacketsRead(d) + (IF Read(d) /\ Head(fifo[d]) = EndOfPacket
                                               THEN 1 ELSE 0)
    BY <1>1, PacketsReadStep
  <2>2. PacketsRead(d)' = PacketsRead(d)
    BY <1>4, <1>10, <2>1
  <2>3. PacketsRead(d) = fifoDELAY_set[d] + opened - (IF Ended(d) THEN 0 ELSE 1)
    BY <1>2 DEF Ahead, WindowPosition
  <2>4. fifoDELAY_set[d] \in Nat
    BY SetAssumption
  <2>5. PacketsRead(d)' = fifoDELAY_set[d] + opened
    BY <1>1, <1>2, <2>2, <2>3, <2>4
  <2> QED BY <1>1, <1>7, <2>4, <2>5
<1>15. WindowPosition(d)'
  <2>1. ~Ended(d)'
    BY <1>10 DEF Ended
  <2> QED BY <1>4, <1>14, <2>1 DEF WindowPosition
<1> QED BY <1>12, <1>13, <1>15

\* The number announced of a packet stays that of the primitives received, at the output
\* and to come, also when one of them is late.
LEMMA NumbersStep ==
    ASSUME IInv, DType, Active, SubPrimitiveInPacket, ~(Opening /\ Waiting # {}),
           NEW late \in SUBSET AtPrimitive, NEW full, Reader(late, full), NEW d \in Det,
           NEW x \in Remaining, AfterWord(q[d], x), Numbers(d, x),
           NEW z \in Remaining,
           Read(d) => Follows(x, Head(fifo[d]), z),
           ~Read(d) => z = x
    PROVE  Numbers(d, z)'
<1>1. TypeOK /\ CType /\ ~(BURST125 /\ FSMResetCounters = "S0") /\ Phase /\ opened \in Nat /\ counted \in Nat
  BY DEF IInv, Active, CType
<1> SUFFICES ASSUME opened' = counted' + 1
             PROVE  IF AtHeader(d)' THEN Received(d)' = 0
                    ELSE MTPNUMREF'[d] = Received(d)' + (IF z = Idle THEN 0 ELSE z)
                                                      + (IF AtPrim(d)' THEN 1 ELSE 0)
    BY DEF Numbers
<1>2. opened = counted + 1 /\ ~Stores
  BY NoWindowOpens
<1>3. /\ FSMDelay[d] \in DelayStates /\ FSMDelay'[d] = NextDelay(d)
      /\ q[d] \in Word /\ q'[d] = IF Read(d) THEN Head(fifo[d]) ELSE q[d]
      /\ MTPNUMREF[d] \in 0 .. 255 /\ MTPNUMREF'[d] = NextMTPNUMREF(d, late)
      /\ received_signal' = AtPrimitive \ late
      /\ Read(d) <=> rdreq(d) /\ fifo[d] # <<>>
      /\ d \in AtPrimitive <=> AtPrim(d)
      /\ BURST125
  <2>1. FSMDelay[d] \in DelayStates /\ FSMDelay'[d] = NextDelay(d)
    BY <1>1, ReaderOf
  <2>2. q[d] \in Word /\ q'[d] = IF Read(d) THEN Head(fifo[d]) ELSE q[d]
    BY <1>1, ReaderOf
  <2>3. MTPNUMREF[d] \in 0 .. 255 /\ MTPNUMREF'[d] = NextMTPNUMREF(d, late)
    BY <1>1, ReaderOf
  <2>4. received_signal' = AtPrimitive \ late
    BY <1>1, ReaderOf
  <2>5. Read(d) <=> rdreq(d) /\ fifo[d] # <<>>
    BY <1>1, ReaderOf
  <2>6. d \in AtPrimitive <=> AtPrim(d)
    BY <1>1, ReaderOf
  <2>7. BURST125
    BY <1>1, ReaderOf
  <2> QED BY <2>1, <2>2, <2>3, <2>4, <2>5, <2>6, <2>7
<1>4. ~Startup(d)
  BY <1>1, <1>2 DEF Phase, Skipping
<1>5. FSMDelay[d] # "waitdata" \/ ~Opening
  BY DEF Waiting
<1>6. /\ Received(d) \in Nat
      /\ Received(d)' = Received(d) + (IF d \in received_signal' THEN 1 ELSE 0)
  BY <1>1, <1>2, ReceivedStep
<1>7. IF AtHeader(d) THEN Received(d) = 0
      ELSE MTPNUMREF[d] = Received(d) + (IF x = Idle THEN 0 ELSE x) + (IF AtPrim(d) THEN 1 ELSE 0)
  BY <1>2 DEF Numbers
<1>8. x = Idle <=> q[d] \in {EndOfPacket, Zero}
  BY <1>3, WordOfPacket
<1>9. x = Idle \/ x \in Nat
  BY DEF Remaining
<1>10. Primitive.kind = "primitive" /\ EndOfPacket.kind = "eof" /\ Primitive # EndOfPacket
  BY DEF Primitive, EndOfPacket
\* The header is taken.
<1>11. CASE AtHeader(d)
  <2>1. FSMDelay'[d] = "endofframe" /\ ~Read(d) /\ d \notin received_signal'
    BY <1>3, <1>11, <1>10 DEF AtHeader, AtPrim, NextDelay, rdreq
  <2>2. MTPNUMREF'[d] = q[d].n
    BY <1>3, <1>11 DEF AtHeader, NextMTPNUMREF
  <2>3. x = q[d].n /\ x # Idle
    BY <1>8, <1>9, <1>10, <1>11 DEF AfterWord, AtHeader, EndOfPacket, Zero, Primitive
  <2>4. ~AtHeader(d)' /\ ~AtPrim(d)'
    BY <2>1 DEF AtHeader, AtPrim
  <2> QED BY <1>6, <1>7, <1>9, <1>11, <2>1, <2>2, <2>3, <2>4
\* A primitive is handed over, or is late.
<1>12. CASE AtPrim(d)
  <2>1. FSMDelay'[d] = "endofframe" /\ ~Read(d) /\ ~AtHeader(d)
    BY <1>3, <1>10, <1>12 DEF AtHeader, AtPrim, NextDelay, rdreq
  <2>2. ~AtHeader(d)' /\ ~AtPrim(d)'
    BY <2>1 DEF AtHeader, AtPrim
  <2>3. x # Idle /\ x \in Nat
    BY <1>8, <1>9, <1>10, <1>12 DEF AtPrim, Primitive, EndOfPacket, Zero
  <2>4. MTPNUMREF[d] = Received(d) + x + 1
    BY <1>7, <1>12, <2>1, <2>3
  <2>5. q[d].kind # "header"
    BY <1>10, <1>12 DEF AtPrim
  <2>6. CASE d \in late
    <3>1. MTPNUMREF'[d] = (MTPNUMREF[d] + 255) % 256
      BY <1>3, <2>5, <2>6 DEF NextMTPNUMREF
    <3>2. d \notin received_signal'
      BY <1>3, <2>6
    <3>3. Received(d)' = Received(d)
      BY <1>6, <3>2
    <3>4. MTPNUMREF'[d] = MTPNUMREF[d] - 1
      <4>1. \A m \in 1 .. 255 : (m + 255) % 256 = m - 1
        OBVIOUS
      <4>2. MTPNUMREF[d] \in 1 .. 255
        <5>1. \A m \in 0 .. 255, r \in Nat, y \in Nat : m = r + y + 1 => m \in 1 .. 255
          OBVIOUS
        <5>2. MTPNUMREF[d] \in 0 .. 255 /\ Received(d) \in Nat /\ x \in Nat
          BY <1>3, <1>6, <2>3
        <5> QED BY <2>4, <5>1, <5>2, Zenon
      <4> QED BY <3>1, <4>1, <4>2
    <3>5. MTPNUMREF'[d] = Received(d) + x
      BY <1>6, <2>3, <2>4, <3>4
    <3> QED BY <1>6, <2>1, <2>2, <2>3, <3>3, <3>5
  <2>7. CASE d \notin late
    <3>1. MTPNUMREF'[d] = MTPNUMREF[d]
      BY <1>3, <2>5, <2>7 DEF NextMTPNUMREF
    <3>2. d \in received_signal'
      BY <1>3, <1>12, <2>7
    <3>3. Received(d)' = Received(d) + 1
      BY <1>6, <3>2
    <3>4. MTPNUMREF'[d] = (Received(d) + 1) + x
      BY <1>6, <2>3, <2>4, <3>1
    <3> QED BY <1>6, <2>1, <2>2, <2>3, <3>3, <3>4
  <2> QED BY <2>6, <2>7
\* Otherwise the number stays, and a word may be read.
<1>13. CASE ~AtHeader(d) /\ ~AtPrim(d)
  <2>1. d \notin received_signal' /\ d \notin late
    BY <1>3, <1>13
  <2>2. Received(d)' = Received(d) /\ MTPNUMREF'[d] = MTPNUMREF[d]
    <3>1. ~(FSMDelay[d] = "readdata" /\ q[d].kind = "header")
      BY <1>13 DEF AtHeader
    <3>2. MTPNUMREF'[d] = MTPNUMREF[d]
      BY <1>3, <2>1, <3>1 DEF NextMTPNUMREF
    <3> QED BY <1>6, <2>1, <3>2
  <2>3. MTPNUMREF[d] = Received(d) + (IF x = Idle THEN 0 ELSE x)
    BY <1>6, <1>7, <1>9, <1>13
  <2>4. CASE ~Read(d)
    <3>1. FSMDelay'[d] # "readdata"
      BY <1>3, <1>4, <1>5, <2>4 DEF NextDelay, DelayStates, Startup, rdreq, Empty
    <3>2. ~AtHeader(d)' /\ ~AtPrim(d)'
      BY <3>1 DEF AtHeader, AtPrim
    <3>3. z = x
      BY <2>4
    <3> QED BY <1>6, <1>9, <2>2, <2>3, <3>2, <3>3
  <2>5. CASE Read(d)
    <3>1. FSMDelay[d] = "endofframe" /\ ~Ended(d) /\ fifo[d] # <<>>
      BY <1>3, <1>4, <1>5, <2>5 DEF rdreq, Startup
    <3>2. FSMDelay'[d] = "readdata" /\ q'[d] = Head(fifo[d]) /\ Head(fifo[d]) \in Word
      <4>1. FSMDelay'[d] = "readdata"
        BY <1>3, <3>1 DEF NextDelay, Empty
      <4>2. fifo[d] \in Seq(Word)
        BY <1>1 DEF TypeOK
      <4> QED BY <1>3, <2>5, <3>1, <4>1, <4>2
    <3>3. x # Idle
      BY <1>8, <3>1 DEF Ended
    <3>4. \/ q'[d] = Primitive /\ z = x - 1 /\ x \in Nat /\ x > 0
          \/ q'[d] = EndOfPacket /\ z = Idle /\ x = 0
      BY <2>5, <3>2, <3>3, WordOfPacket
    <3>5. ~AtHeader(d)'
      BY <1>10, <3>4 DEF AtHeader
    <3>6. CASE q'[d] = Primitive /\ z = x - 1 /\ x \in Nat /\ x > 0
      <4>1. AtPrim(d)'
        BY <3>2, <3>6 DEF AtPrim
      <4>2. x - 1 # Idle
        BY <3>6 DEF Idle
      <4> QED BY <1>6, <2>2, <2>3, <3>3, <3>5, <3>6, <4>1, <4>2
    <3>7. CASE q'[d] = EndOfPacket /\ z = Idle /\ x = 0
      <4>1. ~AtPrim(d)'
        BY <1>10, <3>7 DEF AtPrim
      <4> QED BY <1>6, <2>2, <2>3, <3>3, <3>5, <3>7, <4>1
    <3> QED BY <3>4, <3>6, <3>7
  <2> QED BY <2>4, <2>5
<1> QED BY <1>11, <1>12, <1>13

\* Between two openings a reader skips its packets and reads one to its end.
LEMMA PositionStep ==
    ASSUME IInv, TypeOK', Active, inTime, InTime, SubPrimitiveInPacket, ~(Opening /\ Waiting # {}),
           NEW w \in Offered, NEW late \in SUBSET AtPrimitive, NEW full,
           Reader(late, full), Writer(w), NEW d \in Det,
           Read(d) => Head(fifo[d]) # Zero,
           SkipPosition(d), WindowPosition(d)
    PROVE  SkipPosition(d)' /\ WindowPosition(d)'
<1>1. TypeOK /\ Aligned /\ opened \in Nat /\ fifoDELAY_set[d] \in Nat
  BY SetAssumption DEF IInv, CType
<1>2. /\ FSMDelay[d] \in DelayStates /\ FSMDelay'[d] = NextDelay(d) /\ BURST125
      /\ q'[d] = IF Read(d) THEN Head(fifo[d]) ELSE q[d]
      /\ fifodelay[d] \in Nat /\ fifodelay'[d] = NextSkipped(d)
  <2>1. BURST125 /\ TypeOK
    BY <1>1 DEF Active
  <2>2. FSMDelay[d] \in DelayStates /\ FSMDelay'[d] = NextDelay(d)
    BY <2>1, ReaderOf
  <2>3. q'[d] = IF Read(d) THEN Head(fifo[d]) ELSE q[d]
    BY <2>1, ReaderOf
  <2>4. fifodelay[d] \in Nat /\ fifodelay'[d] = NextSkipped(d)
    BY <2>1, ReaderOf
  <2> QED BY <2>1, <2>2, <2>3, <2>4
<1>3. Read(d) <=> rdreq(d) /\ fifo[d] # <<>>
  BY <1>1, ReaderOf
<1>4. /\ PacketsRead(d) \in Int
      /\ PacketsRead(d)' = PacketsRead(d) + (IF Read(d) /\ Head(fifo[d]) = EndOfPacket
                                             THEN 1 ELSE 0)
  BY <1>1, PacketsReadStep
<1>5. opened' = opened
  BY NoWindowOpens
<1>6. Ended(d)' <=> q'[d] \in {EndOfPacket, Zero}
  BY DEF Ended
<1>7. FSMDelay[d] # "waitdata" \/ ~Opening
  BY DEF Waiting
<1>8. ASSUME ~Read(d)
      PROVE  PacketsRead(d)' = PacketsRead(d) /\ q'[d] = q[d] /\ (Ended(d)' <=> Ended(d))
  <2>1. PacketsRead(d)' = PacketsRead(d)
    BY <1>4, <1>8
  <2>2. q'[d] = q[d]
    BY <1>2, <1>8
  <2> QED BY <1>6, <2>1, <2>2 DEF Ended
<1>9. ASSUME FSMDelay[d] # "waitcontrol" PROVE fifodelay'[d] = fifodelay[d]
  BY <1>2, <1>9 DEF NextSkipped
\* A detector that skips packets.
<1>10. CASE FSMDelay[d] = "skipdata" /\ fifodelay[d] = fifoDELAY_set[d]
  <2>1. FSMDelay'[d] = "waitfinish" /\ ~Read(d)
    BY <1>2, <1>3, <1>10 DEF NextDelay, rdreq
  <2>2. opened = 0 /\ PacketsRead(d) = fifodelay[d] /\ Ended(d)
    BY <1>1, <1>2, <1>10 DEF SkipPosition, Startup
  <2> QED BY <1>5, <1>8, <1>9, <1>10, <2>1, <2>2 DEF SkipPosition, WindowPosition, Startup
<1>11. CASE FSMDelay[d] = "skipdata" /\ fifodelay[d] # fifoDELAY_set[d] /\ fifo[d] = <<>>
  <2>1. FSMDelay'[d] = "skipdata" /\ ~Read(d)
    BY <1>2, <1>3, <1>11 DEF NextDelay, Empty
  <2>2. opened = 0 /\ PacketsRead(d) = fifodelay[d]
    BY <1>1, <1>2, <1>11 DEF SkipPosition, Startup
  <2> QED BY <1>5, <1>8, <1>9, <1>11, <2>1, <2>2 DEF SkipPosition, WindowPosition, Startup
<1>12. CASE FSMDelay[d] = "skipdata" /\ fifodelay[d] # fifoDELAY_set[d] /\ fifo[d] # <<>>
  <2>1. FSMDelay'[d] = "waitcontrol" /\ Read(d) /\ q'[d] = Head(fifo[d])
    <3>1. Read(d)
      BY <1>3, <1>12 DEF rdreq
    <3>2. FSMDelay'[d] = "waitcontrol"
      BY <1>2, <1>12 DEF NextDelay, Empty
    <3> QED BY <1>2, <3>1, <3>2
  <2>2. opened = 0 /\ PacketsRead(d) = fifodelay[d]
    BY <1>1, <1>2, <1>12 DEF SkipPosition, Startup
  <2>3. PacketsRead(d)' = fifodelay[d] + (IF FSMDelay'[d] = "waitcontrol" /\ q'[d] = EndOfPacket
                                          THEN 1 ELSE 0)
    BY <1>4, <2>1, <2>2
  <2>4. Startup(d)' /\ fifodelay'[d] = fifodelay[d]
    BY <1>9, <1>12, <2>1 DEF Startup
  <2> QED BY <1>5, <2>1, <2>2, <2>3, <2>4 DEF SkipPosition, WindowPosition
<1>13. CASE FSMDelay[d] = "waitcontrol"
  <2>1. FSMDelay'[d] = "skipdata" /\ ~Read(d)
    BY <1>2, <1>3, <1>13 DEF NextDelay, rdreq
  <2>2. opened = 0 /\ PacketsRead(d) = fifodelay[d] + (IF q[d] = EndOfPacket THEN 1 ELSE 0)
    BY <1>13 DEF SkipPosition, Startup
  <2>3. fifodelay'[d] = fifodelay[d] + (IF q[d] = EndOfPacket THEN 1 ELSE 0)
    BY <1>2, <1>13 DEF NextSkipped
  <2>4. fifodelay[d] # fifoDELAY_set[d]
    BY <1>1, <1>13 DEF Aligned
  <2>5. fifodelay'[d] = fifoDELAY_set[d] => Ended(d)
    <3>1. q[d] # EndOfPacket => fifodelay'[d] = fifodelay[d]
      BY <1>2, <2>3
    <3> QED BY <2>4, <3>1 DEF Ended
  <2>6. PacketsRead(d)' = fifodelay'[d]
    BY <1>8, <2>1, <2>2, <2>3
  <2>7. Startup(d)'
    BY <2>1 DEF Startup
  <2>8. fifodelay'[d] \in Nat
    BY <1>2, <2>3
  <2> QED BY <1>5, <1>8, <2>1, <2>2, <2>5, <2>6, <2>7, <2>8 DEF SkipPosition, WindowPosition
<1>14. CASE FSMDelay[d] = "waitfinish"
  <2>1. FSMDelay'[d] \in {"waitfinish", "waitdata"} /\ ~Read(d)
    BY <1>2, <1>3, <1>14 DEF NextDelay, rdreq
  <2>2. opened = 0 /\ PacketsRead(d) = fifodelay[d] /\ Ended(d) /\ fifodelay[d] = fifoDELAY_set[d]
    BY <1>1, <1>2, <1>14 DEF SkipPosition, Startup
  <2>3. PacketsRead(d)' = fifoDELAY_set[d] + opened' - 0
    BY <1>1, <1>5, <1>8, <2>1, <2>2
  <2>4. WindowPosition(d)'
    BY <1>8, <2>1, <2>2, <2>3 DEF WindowPosition
  <2>5. SkipPosition(d)'
    BY <1>1, <1>5, <1>8, <1>9, <1>14, <2>1, <2>2 DEF SkipPosition, Startup
  <2> QED BY <2>4, <2>5
\* A detector that has skipped them.
<1>15. CASE ~Startup(d)
  <2>1. /\ PacketsRead(d) = fifoDELAY_set[d] + opened - (IF Ended(d) THEN 0 ELSE 1)
        /\ FSMDelay[d] \in {"waitdata", "waitoutput"} => Ended(d)
    BY <1>15 DEF WindowPosition
  <2>2. ~Startup(d)' /\ SkipPosition(d)'
    BY <1>2, <1>15 DEF Startup, NextDelay, DelayStates, SkipPosition
  <2>3. CASE ~Read(d)
    <3>1. FSMDelay'[d] \in {"waitdata", "waitoutput"} => Ended(d)
      BY <1>2, <1>7, <1>15, <2>1 DEF NextDelay, DelayStates, Startup
    <3> QED BY <1>5, <1>8, <2>1, <2>2, <2>3, <3>1 DEF WindowPosition
  <2>4. CASE Read(d)
    <3>1. FSMDelay[d] = "endofframe" /\ ~Ended(d) /\ fifo[d] # <<>>
      BY <1>3, <1>7, <1>15, <2>4 DEF rdreq, Startup
    <3>2. FSMDelay'[d] = "readdata"
      BY <1>2, <3>1 DEF NextDelay, Empty
    <3>3. q'[d] = Head(fifo[d]) /\ q'[d] # Zero
      BY <1>2, <2>4
    <3>4. PacketsRead(d) = fifoDELAY_set[d] + opened - 1
      BY <2>1, <3>1
    <3>5. Ended(d)' <=> q'[d] = EndOfPacket
      BY <1>6, <3>3
    <3>6. CASE q'[d] = EndOfPacket
      <4>1. PacketsRead(d)' = fifoDELAY_set[d] + opened
        BY <1>1, <1>4, <2>4, <3>3, <3>4, <3>6
      <4> QED BY <1>1, <1>5, <2>2, <3>2, <3>5, <3>6, <4>1 DEF WindowPosition
    <3>7. CASE q'[d] # EndOfPacket
      <4>1. PacketsRead(d)' = fifoDELAY_set[d] + opened - 1
        BY <1>1, <1>4, <2>4, <3>3, <3>4, <3>7
      <4> QED BY <1>1, <1>5, <2>2, <3>2, <3>5, <3>7, <4>1 DEF WindowPosition
    <3> QED BY <3>6, <3>7
  <2> QED BY <2>3, <2>4
<1> QED BY <1>10, <1>11, <1>12, <1>13, <1>14, <1>15 DEF Startup

\* In time, every clock of a burst keeps the packets whole and in their places.
LEMMA AheadStep ==
    ASSUME IInv, TypeOK', DType, inTime, Active, InTime, Ahead, Settled, SubPrimitiveInPacket,
           NEW w \in Offered, NEW late \in SUBSET AtPrimitive, NEW full,
           Reader(late, full), Writer(w)
    PROVE  FramesFirst' /\ \A d \in Det : Stream(d)' /\ SkipPosition(d)' /\ WindowPosition(d)'
<1>1. TypeOK
  BY DEF IInv
<1>2. FramesFirst'
  BY <1>1, FramesStep DEF Ahead
<1>3. ASSUME Opening, Waiting # {}, NEW d \in Det
      PROVE  Stream(d)' /\ SkipPosition(d)' /\ WindowPosition(d)'
  BY <1>3, OpenStepOf
<1>4. ASSUME ~(Opening /\ Waiting # {}), NEW d \in Det
      PROVE  Stream(d)' /\ SkipPosition(d)' /\ WindowPosition(d)'
  <2>1. PICK x \in Remaining : AfterWord(q[d], x) /\ Continues(x, fifo[d], rx[d]) /\ Numbers(d, x)
    BY DEF Ahead, Stream
  <2>2. q'[d] = IF Read(d) THEN Head(fifo[d]) ELSE q[d]
    BY <1>1, ReaderOf
  <2>3. CASE Read(d)
    <3>1. PICK z \in Remaining : Follows(x, Head(fifo[d]), z) /\ Continues(z, fifo'[d], rx'[d])
      BY <1>1, <2>1, <2>3, ContinuesStep
    <3>2. Head(fifo[d]) \in Word
      BY <1>1, <2>3 DEF TypeOK, Read, Empty
    <3>3. AfterWord(q'[d], z) /\ Head(fifo[d]) # Zero
      BY <2>2, <2>3, <3>1, <3>2, WordOfPacket
    <3>4. Numbers(d, z)'
      BY <1>4, <2>1, <2>3, <3>1, NumbersStep
    <3>5. Stream(d)'
      BY <3>1, <3>3, <3>4 DEF Stream
    <3>6. SkipPosition(d) /\ WindowPosition(d)
      BY DEF Ahead
    <3> QED BY <1>4, <3>3, <3>5, <3>6, PositionStep
  <2>4. CASE ~Read(d)
    <3>1. Continues(x, fifo'[d], rx'[d])
      BY <1>1, <2>1, <2>4, ContinuesStep
    <3>2. AfterWord(q'[d], x)
      BY <2>1, <2>2, <2>4
    <3>3. Numbers(d, x)'
      BY <1>4, <2>1, <2>4, NumbersStep
    <3>4. Stream(d)'
      BY <3>1, <3>2, <3>3 DEF Stream
    <3>5. SkipPosition(d) /\ WindowPosition(d)
      BY DEF Ahead
    <3> QED BY <1>4, <2>4, <3>4, <3>5, PositionStep
  <2> QED BY <2>3, <2>4
<1> QED BY <1>2, <1>3, <1>4

\* A clock of the machine, inside a burst or out of it, in which no window opens and
\* those that have closed are counted.
LEMMA SettledStep ==
    ASSUME DType, Settled, SubPrimitiveInPacket, ~(BURST125 /\ FSMResetCounters = "S0"),
           inTime' = inTime,
           NEW late \in SUBSET AtPrimitive,
           received_signal' = AtPrimitive \ late, packet_received' = (Closing # {}),
           MTPNUMREF_in' = [d \in Det |-> IF Closing # {} THEN MTPNUMREF[d] ELSE 0],
           opened' = counted' => \/ Stores /\ received_signal' = {}
                                 \/ opened = counted /\ AtPrimitive = {},
           opened' = counted' + 1 /\ Closing # {} => opened = counted + 1 /\ ~Stores,
           inTime' /\ opened' = counted' + 1 /\ AllEnded' =>
               \A d \in Det : MTPNUMREF'[d] = Received(d)'
    PROVE  DType' /\ Settled'
<1>1. DType'
  BY ReceivedStep, DetAssumption DEF DType
<1>2. ASSUME opened' = counted', NEW d \in Det PROVE Received(d)' = 0
  <2>1. CASE Stores /\ received_signal' = {}
    BY <2>1, ReceivedStep
  <2>2. CASE ~Stores /\ opened = counted /\ AtPrimitive = {}
    <3>1. Received(d) = 0
      BY <2>2 DEF Settled
    <3>2. d \notin received_signal'
      BY <2>2
    <3>3. Received(d)' = Received(d) + (IF d \in received_signal' THEN 1 ELSE 0)
      BY <2>2, ReceivedStep
    <3> QED BY <3>1, <3>2, <3>3
  <2>3. CASE Stores /\ AtPrimitive = {}
    <3>1. received_signal' = {}
      BY <2>3
    <3> QED BY <2>3, <3>1, ReceivedStep
  <2> QED BY <1>2, <2>1, <2>2, <2>3
<1>3. ASSUME inTime', opened' = counted' + 1, packet_received', NEW d \in Det
      PROVE  MTPNUMREF_in'[d] = Received(d)'
  <2>1. Closing # {} /\ AllEnded
    BY <1>3 DEF Closing
  <2>2. opened = counted + 1 /\ ~Stores
    BY <1>3, <2>1
  <2>3. MTPNUMREF[d] = Received(d)
    BY <1>3, <2>1, <2>2 DEF Settled
  <2>4. d \notin received_signal'
    BY <2>1 DEF AtPrimitive, AllEnded, Ended, Primitive, EndOfPacket, Zero
  <2>5. Received(d)' = Received(d)
    <3>1. Received(d)' = Received(d) + (IF d \in received_signal' THEN 1 ELSE 0) /\ Received(d) \in Nat
      BY <2>2, ReceivedStep
    <3> QED BY <2>4, <3>1
  <2>6. MTPNUMREF_in'[d] = MTPNUMREF[d]
    BY <2>1
  <2> QED BY <2>3, <2>5, <2>6
<1> QED BY <1>1, <1>2, <1>3 DEF Settled

-----------------------------------------------------------------------------
(***************************************************************************)
(* Every clock.                                                             *)
(***************************************************************************)
\* The first state: no packet is counted.
LEMMA InitTInv == PInit => TInv
<1> SUFFICES ASSUME PInit PROVE TInv
    OBVIOUS
<1>1. IInv
  BY InitIInv
<1>2. DType /\ ~Active /\ opened = 0 /\ counted = 0
  BY DEF PInit, Init, DType, Active
<1>3. \A d \in Det : Received(d) = 0
  BY DEF PInit, Init, Received
<1>4. Settled
  BY <1>2, <1>3 DEF Settled
<1> QED BY <1>1, <1>2, <1>4 DEF TInv, Ahead

\* The first clock of a burst: every FIFO and count starts anew.
LEMMA StartTInv ==
    ASSUME IInv, TypeOK', inTime' = inTime, DType, StartOfBurst, SubPrimitiveInPacket
    PROVE  DType' /\ Ahead' /\ Settled'
<1>1. Closing = {} /\ ~packet_received /\ \A d \in Det : FSMDelay[d] # "readdata"
  BY DEF IInv, Gate, StartOfBurst
<1>2. opened' = 0 /\ counted' = 0 /\ delivered' = [d \in Det |-> 0] /\ received_signal' = {}
  BY <1>1 DEF SubPrimitiveInPacket, StartOfBurst, AtPrimitive
<1>3. DType'
  BY <1>2 DEF DType
<1>4. \A d \in Det : Received(d)' = 0
  BY <1>2 DEF Received
<1>5. Settled'
  BY <1>2, <1>4 DEF Settled
<1>6. \A d \in Det : /\ FSMDelay'[d] = "skipdata" /\ q'[d] = Zero /\ fifo'[d] = <<>>
                     /\ rx'[d] = Idle /\ frames'[d] = 0 /\ fifodelay'[d] = 0
  BY DEF StartOfBurst
<1>7. FramesFirst'
  <2>1. frames'[MaxDelayDet] = 0
    BY <1>6, DetAssumption
  <2> QED BY <2>1 DEF FramesFirst
<1>8. ASSUME NEW d \in Det PROVE Stream(d)' /\ SkipPosition(d)' /\ WindowPosition(d)'
  <2>1. Idle \in Remaining
    BY DEF Remaining
  <2>2. AfterWord(q'[d], Idle)
    BY <1>6 DEF AfterWord
  <2>3. Continues(Idle, fifo'[d], rx'[d])
    BY <1>6, <2>1, NoWords
  <2>4. Numbers(d, Idle)'
    BY <1>2 DEF Numbers
  <2>5. Stream(d)'
    BY <2>1, <2>2, <2>3, <2>4 DEF Stream
  <2>6. Startup(d)' /\ Ended(d)'
    BY <1>6 DEF Startup, Ended
  <2>7. PacketsRead(d)' = 0
    <3>1. {i \in 1 .. Len(fifo'[d]) : fifo'[d][i] = EndOfPacket} = {}
      BY <1>6
    <3>2. Cardinality({i \in 1 .. Len(fifo'[d]) : fifo'[d][i] = EndOfPacket}) = 0
      BY <3>1, FS_EmptySet
    <3> QED BY <1>6, <3>2 DEF PacketsRead
  <2> QED BY <1>2, <1>6, <2>5, <2>6, <2>7 DEF SkipPosition, WindowPosition
<1> QED BY <1>3, <1>5, <1>7, <1>8 DEF Ahead

\* A clock inside a burst.
LEMMA InTInv ==
    ASSUME TInv, TypeOK', QuietWhenCounting', inTime' = inTime, InTime, InBurst,
           SubPrimitiveInPacket
    PROVE  DType' /\ Ahead' /\ Settled'
<1>a. /\ IInv /\ DType /\ Ahead /\ Settled /\ TypeOK /\ CType /\ Owed
      /\ Active /\ ~(BURST125 /\ FSMResetCounters = "S0")
  BY DEF TInv, IInv, InBurst, Active
<1>b. PICK w \in Offered, late \in SUBSET AtPrimitive : Reader(late, Refused(w)) /\ Writer(w)
  BY DEF InBurst
<1>c. /\ received_signal' = AtPrimitive \ late /\ packet_received' = (Closing # {})
      /\ MTPNUMREF_in' = [d \in Det |-> IF Closing # {} THEN MTPNUMREF[d] ELSE 0]
  BY <1>b DEF Reader
<1>1. ASSUME inTime
      PROVE  FramesFirst' /\ \A d \in Det : Stream(d)' /\ SkipPosition(d)' /\ WindowPosition(d)'
  BY <1>1, <1>a, <1>b, AheadStep
<1>2. Ahead'
  BY <1>1 DEF Ahead
<1>3. ASSUME Opening, Waiting # {} PROVE Closing = {} /\ opened' # counted'
  <2>1. \A d \in Det : FSMDelay[d] = "waitdata"
    BY <1>3, <1>a, NobodyBehind DEF IInv
  <2>2. Closing = {} /\ ~Skipping
    BY <2>1 DEF Closing, Skipping, Startup
  <2>3. start_latency >= 2 /\ start_latency \in Nat
    BY <1>3, <1>a, LatencyAssumption DEF Opening, TypeOK
  <2>4. opened = counted /\ ~Stores
    <3>1. Closed
      BY <1>3, <1>a, <2>2 DEF IInv, Phase
    <3> QED BY <1>a, <2>3, <3>1 DEF Closed, Owed, Stores, CType
  <2>5. opened' = opened + 1 /\ counted' = counted /\ counted \in Nat
    BY <1>3, <1>a, <2>4, CountStep DEF CType
  <2> QED BY <2>2, <2>4, <2>5
<1>4. opened' = counted' => \/ Stores /\ received_signal' = {}
                            \/ opened = counted /\ AtPrimitive = {}
  <2> SUFFICES ASSUME opened' = counted'
               PROVE  \/ Stores /\ received_signal' = {}
                      \/ opened = counted /\ AtPrimitive = {}
      OBVIOUS
  <2>1. ~(Opening /\ Waiting # {})
    BY <1>3
  <2>2. CASE Stores
    <3>1. FSMPrimitiveInPacket' = "Shift1Clock"
      BY <1>a, <2>2, CountStep
    <3> QED BY <2>2, <3>1 DEF QuietWhenCounting
  <2>3. CASE ~Stores
    <3>1. opened = counted
      BY <1>a, <2>1, <2>3, NoWindowOpens
    <3> QED BY <1>a, <3>1, QuietAhead
  <2> QED BY <2>2, <2>3
<1>5. opened' = counted' + 1 /\ Closing # {} => opened = counted + 1 /\ ~Stores
  BY <1>3, <1>a, NoWindowOpens
<1>6. ASSUME inTime', opened' = counted' + 1, AllEnded', NEW d \in Det
      PROVE  MTPNUMREF'[d] = Received(d)'
  <2>1. PICK x \in Remaining : AfterWord(q'[d], x) /\ Numbers(d, x)'
    BY <1>1, <1>6 DEF Stream
  <2>2. q'[d] \in {EndOfPacket, Zero} /\ q'[d] \in Word
    BY <1>6 DEF AllEnded, Ended, TypeOK
  <2>3. x = Idle
    BY <2>1, <2>2, WordOfPacket
  <2>4. ~AtHeader(d)' /\ ~AtPrim(d)'
    BY <2>2 DEF AtHeader, AtPrim, EndOfPacket, Zero, Primitive
  <2>5. MTPNUMREF'[d] = Received(d)' + 0 + 0
    BY <1>6, <2>1, <2>3, <2>4 DEF Numbers
  <2>6. Received(d)' \in Nat
    <3>1. delivered' \in [Det -> Nat]
      BY <1>a, ReceivedStep
    <3> QED BY <3>1 DEF Received
  <2> QED BY <2>5, <2>6
<1>7. DType' /\ Settled'
  BY <1>a, <1>c, <1>4, <1>5, <1>6, SettledStep
<1> QED BY <1>2, <1>7

\* A clock outside a burst: the readers hand nothing over.
LEMMA OutTInv ==
    ASSUME TInv, inTime' = inTime, OutOfBurst, SubPrimitiveInPacket
    PROVE  DType' /\ Ahead' /\ Settled'
<1>a. /\ DType /\ Settled /\ TypeOK /\ CType /\ Owed /\ ~BURST125
      /\ ~Active /\ ~(BURST125 /\ FSMResetCounters = "S0")
  BY DEF TInv, IInv, OutOfBurst, Active
<1>b. PICK w \in Offered : Reader({}, Refused(w))
  BY DEF OutOfBurst
<1>c. AtPrimitive = {}
  BY <1>a DEF AtPrimitive
<1>d. /\ received_signal' = AtPrimitive \ {} /\ packet_received' = (Closing # {})
      /\ MTPNUMREF_in' = [d \in Det |-> IF Closing # {} THEN MTPNUMREF[d] ELSE 0]
  BY <1>b DEF Reader
<1>e. \A d \in Det : q'[d] = q[d] /\ MTPNUMREF'[d] = MTPNUMREF[d]
  BY <1>a, <1>b DEF Reader, Read, NextMTPNUMREF
<1>1. /\ opened' = opened
      /\ Stores => counted' = counted + 1
      /\ ~Stores => counted' = counted
      /\ opened \in Nat /\ counted \in Nat /\ opened <= counted + 1
  BY <1>a, CountStep DEF CType, Owed
<1>2. opened' = counted' => \/ Stores /\ received_signal' = {}
                            \/ opened = counted /\ AtPrimitive = {}
  BY <1>1, <1>c, <1>d
<1>3. opened' = counted' + 1 => opened = counted + 1 /\ ~Stores
  BY <1>1
<1>4. ASSUME inTime', opened' = counted' + 1, AllEnded', NEW d \in Det
      PROVE  MTPNUMREF'[d] = Received(d)'
  <2>1. AllEnded
    BY <1>4, <1>e DEF AllEnded, Ended
  <2>2. MTPNUMREF[d] = Received(d)
    BY <1>a, <1>3, <1>4, <2>1 DEF Settled
  <2>3. Received(d)' = Received(d)
    <3>1. Received(d)' = Received(d) + (IF d \in received_signal' THEN 1 ELSE 0) /\ Received(d) \in Nat
      BY <1>a, <1>3, <1>4, ReceivedStep
    <3> QED BY <1>c, <1>d, <3>1
  <2> QED BY <1>e, <2>2, <2>3
<1>5. DType' /\ Settled'
  <2>1. {} \in SUBSET AtPrimitive
    OBVIOUS
  <2> QED BY <1>a, <1>d, <1>2, <1>3, <1>4, <2>1, SettledStep
<1>6. ~Active'
  BY <1>a DEF OutOfBurst, BurstGate, Active
<1> QED BY <1>5, <1>6 DEF Ahead

\* A clock of all processes keeps the packets of the detectors together.
LEMMA TickTInv == TInv /\ [Tick]_pvars => TInv'
<1> SUFFICES ASSUME TInv, [Tick]_pvars PROVE TInv'
    OBVIOUS
<1>1. IInv'
  BY TickIInv DEF TInv
<1>2. CASE UNCHANGED pvars
  <2> USE <1>2 DEF pvars, vars, countVars, readerVars, triggerVars, writerVars
  <2>1. DType'
    BY DEF TInv, DType
  <2>2. \A d \in Det : Received(d)' = Received(d) /\ PacketsRead(d)' = PacketsRead(d)
    BY DEF Received, PacketsRead
  <2>3. Settled'
    BY <2>2 DEF TInv, Settled, AllEnded, Ended
  <2>4. FramesFirst' <=> FramesFirst
    BY DEF FramesFirst
  <2>5. \A d \in Det : (Stream(d) => Stream(d)') /\ (SkipPosition(d) => SkipPosition(d)')
                       /\ (WindowPosition(d) => WindowPosition(d)')
    <3>1. \A d \in Det : Stream(d) => Stream(d)'
      BY <2>2 DEF Stream, Numbers, AtHeader, AtPrim
    <3>2. \A d \in Det : SkipPosition(d) => SkipPosition(d)'
      BY <2>2 DEF SkipPosition, Startup, Ended
    <3>3. \A d \in Det : WindowPosition(d) => WindowPosition(d)'
      BY <2>2 DEF WindowPosition, Startup, Ended
    <3> QED BY <3>1, <3>2, <3>3
  <2>6. Ahead'
    BY <2>4, <2>5 DEF TInv, Ahead, Active
  <2> QED BY <1>1, <2>1, <2>3, <2>6 DEF TInv
<1>3. CASE Tick
  <2>1. /\ SubPrimitiveInPacket /\ InTime /\ inTime' = inTime
        /\ StartOfBurst \/ InBurst \/ OutOfBurst
    BY <1>3 DEF Tick, Next
  <2>2. TypeOK' /\ QuietWhenCounting' /\ IInv /\ DType
    BY <1>1 DEF TInv, IInv
  <2>3. DType' /\ Ahead' /\ Settled'
    BY <2>1, <2>2, StartTInv, InTInv, OutTInv
  <2> QED BY <1>1, <2>3 DEF TInv
<1> QED BY <1>2, <1>3

\* With packets in time, all readers that wait have been through the same number of
\* packets beyond those skipped, so that a window joins the packets of one frame
\* (SubReadFIFODelay, ethlink.vhd 2838-3045): nothing is lost on the way through a FIFO,
\* and no window opens before the packet of every detector has begun.
THEOREM RealignedAlways == PSpec => []Realigned
<1>1. TInv => Realigned
  <2> SUFFICES ASSUME TInv, inTime, Active, Waiting = Det, NEW d \in Det
               PROVE  PacketsRead(d) - fifoDELAY_set[d] = opened
    BY DEF Realigned
  <2>1. FSMDelay[d] = "waitdata"
    BY DEF Waiting
  <2>2. PacketsRead(d) = fifoDELAY_set[d] + opened - (IF Ended(d) THEN 0 ELSE 1) /\ Ended(d)
    BY <2>1 DEF TInv, Ahead, WindowPosition, Startup
  <2>3. fifoDELAY_set[d] \in Nat /\ opened \in Nat
    BY SetAssumption DEF TInv, IInv, CType
  <2> QED BY <2>2, <2>3
<1> QED BY <1>1, InitTInv, TickTInv, PTL DEF PSpec

\* With packets in time, the numbers stored for a window are those of the primitives that
\* came in it (Trigger.vhd:920), late ones taken off both (ethlink.vhd:2936).
THEOREM NumberMatchesAlways == PSpec => []NumberMatches
<1>1. TInv => NumberMatches
  <2> SUFFICES ASSUME TInv, inTime, Stores PROVE \A d \in Det : MTPNUMREF_in[d] = Received(d)
    BY DEF NumberMatches
  <2>1. opened = counted + 1 /\ packet_received
    BY DEF TInv, IInv, Owed, Stores
  <2> QED BY <2>1 DEF TInv, Settled
<1> QED BY <1>1, InitTInv, TickTInv, PTL DEF PSpec

=============================================================================
