----------------------------- MODULE DelayAlign -----------------------------
(***************************************************************************)
(* Realignment of the detectors' packets (ethlink.vhd).  The receivers      *)
(* write every MTP packet of a detector into its FIFODELAY: a header word,  *)
(* one word per primitive, an end-of-packet word.  SubReadFIFODelay reads   *)
(* the FIFOs of all detectors window by window (one packet per detector     *)
(* every 6.4 us) and hands the primitives to the Trigger module.            *)
(*                                                                          *)
(* One step is one period of the 125 MHz clock: all per-detector machines   *)
(* move at once, from the values the registers held before the edge.        *)
(***************************************************************************)
EXTENDS Integers, Sequences, FiniteSets

CONSTANTS
    Det,             \* detector indices, 0..6 in the firmware
    MaxDelayDet,     \* maximum_delay_detector: opens a window
    fifoDELAY_set,   \* packets to skip per detector, set by the user
    Latency,         \* 200 clocks in the firmware
    FifoSize,        \* words of a FIFODELAY, 8192 in the firmware
    MaxPrim,         \* bound: primitives per packet
    MaxFrame,        \* bound: packets of a detector in a burst
    MaxBurst         \* bound: bursts

ASSUME DetAssumption == Det \subseteq Nat /\ IsFiniteSet(Det) /\ MaxDelayDet \in Det
ASSUME SetAssumption == fifoDELAY_set \in [Det -> Nat]
ASSUME LatencyAssumption == Latency \in Nat /\ Latency >= 2
ASSUME BoundAssumption == /\ FifoSize \in Nat /\ MaxPrim \in Nat
                          /\ MaxFrame \in [Det -> Nat] /\ MaxBurst \in Nat
                          /\ MaxPrim < 256

VARIABLES
    BURST125,             \* burst gate, registered
    FSMResetCounters,     \* S0: waiting for a burst, S1: in a burst
    bursts,               \* bursts begun
    FSMDelay,             \* reader state per detector
    fifo,                 \* FIFODELAY contents per detector
    q,                    \* output register of each FIFODELAY
    fifodelay,            \* packets skipped so far
    start_latency,        \* clocks since the window could be opened
    MTPNUMREF,            \* number of primitives announced by the last header
    errorchecktimestamp,  \* detectors whose last primitive was late
    ETHLINKERROR,         \* set of error bits
    rx,                   \* per detector: packet being received
    frames,               \* packets begun per detector in this burst
    received_signal,      \* Trigger input register: primitives handed over
    packet_received,      \* Trigger input register: window complete
    MTPNUMREF_in          \* Trigger input register: announced numbers

writerVars == <<rx, frames>>
readerVars == <<FSMDelay, q, fifodelay, start_latency, MTPNUMREF,
                errorchecktimestamp, ETHLINKERROR>>
triggerVars == <<received_signal, packet_received, MTPNUMREF_in>>
vars == <<BURST125, FSMResetCounters, bursts, fifo, writerVars, readerVars,
          triggerVars>>

DelayStates == {"skipdata", "waitcontrol", "waitfinish", "waitdata",
                "readdata", "endofframe", "waitoutput"}

(***************************************************************************)
(* Words of FIFODELAY.  Bit 63 marks a header, which carries the number of  *)
(* primitives; the all-ones word ends a packet; zero is what the output     *)
(* register shows after a clear.                                            *)
(***************************************************************************)
Header(n) == [kind |-> "header", n |-> n]
Primitive == [kind |-> "primitive", n |-> 0]
EndOfPacket == [kind |-> "eof", n |-> 0]
Zero == [kind |-> "zero", n |-> 0]
Word == [kind : {"header", "primitive", "eof", "zero"}, n : 0 .. 255]

Idle == -1       \* rx[d]: no packet being received

Init ==
    /\ BURST125 = FALSE
    /\ FSMResetCounters = "S0"
    /\ bursts = 0
    /\ FSMDelay = [d \in Det |-> "skipdata"]
    /\ fifo = [d \in Det |-> <<>>]
    /\ q = [d \in Det |-> Zero]
    /\ fifodelay = [d \in Det |-> 0]
    /\ start_latency = 0
    /\ MTPNUMREF = [d \in Det |-> 0]
    /\ errorchecktimestamp = {}
    /\ ETHLINKERROR = {}
    /\ rx = [d \in Det |-> Idle]
    /\ frames = [d \in Det |-> 0]
    /\ received_signal = {}
    /\ packet_received = FALSE
    /\ MTPNUMREF_in = [d \in Det |-> 0]

-----------------------------------------------------------------------------
(***************************************************************************)
(* The reader: SubReadFIFODelay.                                            *)
(***************************************************************************)
EndedNoZero(d) == q[d] = EndOfPacket
Ended(d) == q[d] \in {EndOfPacket, Zero}

AnyEnded == \E d \in Det : FSMDelay[d] = "waitoutput" /\ Ended(d)
AllEnded == \A d \in Det : Ended(d)

AnySkipped == \E d \in Det : fifodelay[d] = fifoDELAY_set[d]
AllSkipped == \A d \in Det : fifodelay[d] = fifoDELAY_set[d]

Empty(d) == fifo[d] = <<>>

\* The window can be opened: the slowest detector has a word.
CanOpen == AllSkipped /\ ~Empty(MaxDelayDet)

OpeningAtOnce == CanOpen
Opening == CanOpen /\ start_latency = Latency

Waiting == {d \in Det : FSMDelay[d] = "waitdata"}

\* rdreq of detector d's FIFO (it reads nothing from an empty FIFO).
rdreq(d) ==
    \/ FSMDelay[d] = "skipdata" /\ fifodelay[d] # fifoDELAY_set[d]
    \/ FSMDelay[d] = "waitdata" /\ Opening
    \/ FSMDelay[d] = "endofframe" /\ ~Ended(d)

Read(d) == BURST125 /\ rdreq(d) /\ ~Empty(d)

NextDelay(d) ==
    CASE FSMDelay[d] = "waitoutput" ->
            IF AllEnded THEN "waitdata" ELSE "waitoutput"
      [] FSMDelay[d] # "waitoutput" /\ ~BURST125 -> "skipdata"
      [] FSMDelay[d] = "skipdata" /\ BURST125 ->
            IF fifodelay[d] = fifoDELAY_set[d] THEN "waitfinish"
            ELSE IF Empty(d) THEN "skipdata" ELSE "waitcontrol"
      [] FSMDelay[d] = "waitcontrol" /\ BURST125 -> "skipdata"
      [] FSMDelay[d] = "waitfinish" /\ BURST125 ->
            IF AllSkipped THEN "waitdata" ELSE "waitfinish"
      [] FSMDelay[d] = "waitdata" /\ BURST125 ->
            IF Opening THEN "readdata" ELSE "waitdata"
      [] FSMDelay[d] = "endofframe" /\ BURST125 ->
            IF Ended(d) THEN "waitoutput"
            ELSE IF Empty(d) THEN "endofframe" ELSE "readdata"
      [] FSMDelay[d] = "readdata" /\ BURST125 -> "endofframe"

\* Packets skipped: an end of packet went by.
NextSkippedAtHeader(d) ==
    IF BURST125 /\ FSMDelay[d] = "waitcontrol" /\ q[d].kind = "header"
    THEN fifodelay[d] + 1 ELSE fifodelay[d]
NextSkipped(d) ==
    IF BURST125 /\ FSMDelay[d] = "waitcontrol" /\ q[d] = EndOfPacket
    THEN fifodelay[d] + 1 ELSE fifodelay[d]

\* One counter for all detectors, driven by those that wait.
NextLatencyNoReset ==
    IF BURST125 /\ Waiting # {} /\ CanOpen THEN start_latency + 1 ELSE start_latency
NextLatency ==
    IF BURST125 /\ Waiting # {} /\ CanOpen
    THEN IF Opening THEN 0 ELSE start_latency + 1
    ELSE start_latency

\* Detectors that look at a primitive in this clock.
AtPrimitive == {d \in Det : BURST125 /\ FSMDelay[d] = "readdata"
                                     /\ q[d] = Primitive}

NextMTPNUMREFKept(d, late) ==
    IF BURST125 /\ FSMDelay[d] = "readdata" /\ q[d].kind = "header"
    THEN q[d].n ELSE MTPNUMREF[d]
NextMTPNUMREF(d, late) ==
    IF BURST125 /\ FSMDelay[d] = "readdata" /\ q[d].kind = "header"
    THEN q[d].n
    ELSE IF d \in late THEN (MTPNUMREF[d] + 255) % 256
         ELSE MTPNUMREF[d]

\* Detectors that leave waitoutput in this clock, closing the window.
Closing == {d \in Det : FSMDelay[d] = "waitoutput" /\ AllEnded}

\* Every assignment to ETHLINKERROR ORs into the register's OLD value, so of
\* several assignments in one clock the last one alone survives: the receivers'
\* (bit 0) is overridden by the reader's, and there the highest index wins.
LateBoards == Closing \cap errorchecktimestamp

Last(S) == {d \in S : \A e \in S : e <= d}

NextError(full) ==
    IF LateBoards # {} THEN ETHLINKERROR \cup {9 + d : d \in Last(LateBoards)}
    ELSE IF full THEN ETHLINKERROR \cup {0}
    ELSE ETHLINKERROR

Reader(late, full) ==
    /\ FSMDelay' = [d \in Det |-> NextDelay(d)]
    /\ q' = [d \in Det |-> IF Read(d) THEN Head(fifo[d]) ELSE q[d]]
    /\ fifodelay' = [d \in Det |-> NextSkipped(d)]
    /\ start_latency' = NextLatency
    /\ MTPNUMREF' = [d \in Det |-> NextMTPNUMREF(d, late)]
    /\ errorchecktimestamp' = (errorchecktimestamp \ AtPrimitive) \cup late
    /\ ETHLINKERROR' = NextError(full)
    /\ received_signal' = AtPrimitive \ late
    /\ packet_received' = (Closing # {})
    /\ MTPNUMREF_in' = [d \in Det |-> IF Closing # {} THEN MTPNUMREF[d] ELSE 0]

-----------------------------------------------------------------------------
(***************************************************************************)
(* The writer of one detector, at the level of words: the header when the   *)
(* second MTP word is complete, each primitive, the end of packet.  A word  *)
(* that finds the FIFO full is lost; a lost header or primitive raises bit  *)
(* 0, a lost end of packet raises nothing (state S3_loop has no test).      *)
(***************************************************************************)
Full(d) == Len(fifo[d]) >= FifoSize

\* w[d] is the word detector d's receiver presents in this clock.
Presents(d, w) ==
    \/ w = Zero                                   \* none
    \/ rx[d] = Idle /\ frames[d] < MaxFrame[d] /\ w.kind = "header" /\ w.n <= MaxPrim
    \/ rx[d] > 0 /\ w = Primitive
    \/ rx[d] = 0 /\ w = EndOfPacket

Offers == {Header(n) : n \in 0 .. MaxPrim} \cup {Primitive, EndOfPacket, Zero}

Offered == {w \in [Det -> Offers] : \A d \in Det : Presents(d, w[d])}

NextRx(d, w) ==
    CASE w.kind = "header" -> w.n
      [] w.kind = "primitive" -> rx[d] - 1
      [] w.kind = "eof" -> Idle
      [] w.kind = "zero" -> rx[d]

Writer(w) ==
    /\ rx' = [d \in Det |-> NextRx(d, w[d])]
    /\ frames' = [d \in Det |->
            IF w[d].kind = "header" THEN frames[d] + 1 ELSE frames[d]]
    /\ fifo' = [d \in Det |->
            LET left == IF Read(d) THEN Tail(fifo[d]) ELSE fifo[d]
            IN  IF w[d] = Zero \/ Full(d) THEN left ELSE Append(left, w[d])]

\* A header or a primitive finds the FIFO full.
Refused(w) == \E d \in Det : Full(d) /\ w[d].kind \in {"header", "primitive"}

-----------------------------------------------------------------------------
(***************************************************************************)
(* The burst gate, from the TTC.  A burst ends at any clock; bursts are     *)
(* seconds apart, so that the 20000-clock timer of ResetCounters has always *)
(* run out before the next one begins.                                      *)
(***************************************************************************)
BurstGate ==
    \/ UNCHANGED <<BURST125, bursts>>
    \/ BURST125 /\ FSMResetCounters = "S1" /\ BURST125' = FALSE /\ UNCHANGED bursts
    \/ /\ ~BURST125 /\ FSMResetCounters = "S0" /\ bursts < MaxBurst
       /\ BURST125' = TRUE /\ bursts' = bursts + 1

\* First clock of a burst: ResetCounters overrides every other procedure.
StartOfBurst ==
    /\ BURST125 /\ FSMResetCounters = "S0"
    /\ FSMResetCounters' = "S1"
    /\ FSMDelay' = [d \in Det |-> "skipdata"]
    /\ fifo' = [d \in Det |-> <<>>]
    /\ q' = [d \in Det |-> Zero]
    /\ fifodelay' = [d \in Det |-> 0]
    /\ start_latency' = 0
    /\ MTPNUMREF' = [d \in Det |-> 0]
    /\ errorchecktimestamp' = {}
    /\ ETHLINKERROR' = {}
    /\ rx' = [d \in Det |-> Idle]
    /\ frames' = [d \in Det |-> 0]
    /\ received_signal' = AtPrimitive
    /\ packet_received' = (Closing # {})
    /\ MTPNUMREF_in' = [d \in Det |-> IF Closing # {} THEN MTPNUMREF[d] ELSE 0]
    /\ BurstGate

\* A clock inside a burst.
InBurst ==
    /\ BURST125 /\ FSMResetCounters = "S1"
    /\ \E w \in Offered, late \in SUBSET AtPrimitive :
          Reader(late, Refused(w)) /\ Writer(w)
    /\ UNCHANGED FSMResetCounters
    /\ BurstGate

\* A clock between bursts: the receivers go on, the readers stop.  In one of these
\* clocks the timer of ResetCounters ends.
OutOfBurst ==
    /\ ~BURST125
    /\ \E w \in Offered : Reader({}, Refused(w)) /\ Writer(w)
    /\ FSMResetCounters' \in {FSMResetCounters, "S0"}
    /\ BurstGate

Next == StartOfBurst \/ InBurst \/ OutOfBurst

Spec == Init /\ [][Next]_vars

-----------------------------------------------------------------------------
(***************************************************************************)
(* Properties.                                                              *)
(***************************************************************************)
TypeOK ==
    /\ BURST125 \in BOOLEAN
    /\ FSMResetCounters \in {"S0", "S1"}
    /\ bursts \in Nat
    /\ FSMDelay \in [Det -> DelayStates]
    /\ fifo \in [Det -> Seq(Word)]
    /\ q \in [Det -> Word]
    /\ fifodelay \in [Det -> Nat]
    /\ start_latency \in 0 .. Latency
    /\ MTPNUMREF \in [Det -> 0 .. 255]
    /\ errorchecktimestamp \subseteq Det
    /\ ETHLINKERROR \subseteq Nat
    /\ rx \in [Det -> Int]
    /\ frames \in [Det -> Nat]
    /\ received_signal \subseteq Det
    /\ packet_received \in BOOLEAN
    /\ MTPNUMREF_in \in [Det -> 0 .. 255]

\* The seven machines keep in step: a window opens for every detector in the
\* same clock, whatever the lengths of their packets and the moments at which
\* each of them came back to waitdata (SubReadFIFODelay).
OpenTogether ==
    [][(\E d \in Det : FSMDelay[d] = "waitdata" /\ FSMDelay'[d] = "readdata")
         => \A d \in Det : FSMDelay[d] = "waitdata" /\ FSMDelay'[d] = "readdata"]_vars

\* How far detector d is from being in waitdata again.
Distance(d) ==
    CASE FSMDelay[d] = "waitdata" -> 0
      [] FSMDelay[d] = "waitoutput" -> IF AllEnded THEN 1 ELSE 3
      [] FSMDelay[d] = "endofframe" -> IF AllEnded THEN 2 ELSE 3
      [] FSMDelay[d] = "readdata" -> 3
      [] FSMDelay[d] = "waitfinish" -> IF AllSkipped THEN 1 ELSE 3
      [] FSMDelay[d] = "skipdata" -> IF AllSkipped THEN 2 ELSE 3
      [] FSMDelay[d] = "waitcontrol" -> 3

Active == BURST125 /\ FSMResetCounters = "S1"

Startup(d) == FSMDelay[d] \in {"skipdata", "waitcontrol", "waitfinish"}

\* While some detector already waits for the window, no other is more than two
\* clocks behind, so that none is left behind when start_latency expires; it
\* only counts while somebody waits.  Skipping is over for all detectors before
\* the first window, and no packet is skipped beyond fifoDELAY_set.
Aligned ==
    Active =>
      /\ Waiting = {} => start_latency = 0
      /\ Waiting # {} =>
            \A d \in Det : Distance(d) = 0 \/ start_latency + Distance(d) <= 2
      /\ (\E d \in Det : Startup(d)) =>
            \A d \in Det : Startup(d) \/ FSMDelay[d] = "waitdata"
      /\ \A d \in Det : FSMDelay[d] = "waitcontrol" => fifodelay[d] # fifoDELAY_set[d]

\* Packets that detector d's reader has been through: those begun, less the one
\* being received and those whose end of packet is still in the FIFO.
PacketsRead(d) ==
    frames[d] - (IF rx[d] = Idle THEN 0 ELSE 1)
              - Cardinality({i \in 1 .. Len(fifo[d]) : fifo[d][i] = EndOfPacket})

=============================================================================
