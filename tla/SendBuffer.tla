----------------------------- MODULE SendBuffer -----------------------------
(***************************************************************************)
(* The latency of the triggers (SubSendBuffer in ethlink.vhd, with           *)
(* SubSendDetectors on the other side).  A trigger word of any source is      *)
(* written to the cell of LATENCYRAM that its timestamp addresses, and its    *)
(* event to the next cell of SENDRAM; another one with the same timestamp     *)
(* joins both.  SubSendDetectors reads the cells one after the other, a       *)
(* latency behind the clock, and clears them.                               *)
(*                                                                          *)
(* A step is an edge of one of the clocks: port a of the memories is on the   *)
(* 125 MHz clock, port b on the 40 MHz clock, see GeneratePackets.            *)
(***************************************************************************)
EXTENDS SendDetectors

CONSTANTS
    Cells,           \* cells of LATENCYRAM, 32768 in the firmware
    SendSize,        \* cells of SENDRAM, 1024 in the firmware
    Kinds,           \* sources of triggers in use
    Late,            \* clocks by which a request may come after its timestamp
    FastEdges,       \* edges of the 125 MHz clock in one of the 40 MHz, {3, 4} at 125 : 40
    CalibLatency,    \* calib_latency, negative if calib_direction is 1
    BurstLimit       \* bound: bursts

\* The cell of a timestamp is free again before it is used, it is written before it
\* is read, and the reset goes round the ring.
ASSUME RingAssumption ==
    /\ Cells \in Nat /\ SendSize \in Nat /\ Late \in Nat /\ BurstLimit \in Nat
    /\ FastEdges # {} /\ FastEdges \subseteq Nat \ {0} /\ SendSize >= 1 /\ CalibLatency \in Int
    /\ "none" \notin Kinds
    /\ 1 - CalibLatency < Fixed_Latency /\ Late < Fixed_Latency
    /\ Fixed_Latency + 1 < Cells /\ Fixed_Latency + CalibLatency + 1 < Cells
    /\ ResetTime >= Cells

VARIABLES
    phase,           \* fast edges since the last slow one
    bursts,
    now,             \* the timestamp, modulo Cells
    age,             \* clocks since the burst began, or since it ended
    latencyreadaddressb,
    LATENCYRAM, SENDRAM,
    q_a, q_b,        \* outputs of LATENCYRAM
    BURST125,
    FSMoutputdata,
    tmp,             \* the request being written: cell and kind
    addressfarm,
    asked            \* history: per cell, the requests not yet due

memoryVars == <<LATENCYRAM, SENDRAM, asked>>
slowVars == <<bursts, now, age, latencyreadaddressb, q_b>>
fastVars == <<q_a, BURST125, FSMoutputdata, tmp, addressfarm>>
bufferVars == <<detVars, phase, memoryVars, slowVars, fastVars>>

Cell == 0 .. Cells - 1

\* A cell has a trigger word, here the set of sources that gave it, and an address;
\* an event has the words of all its sources and the data of one of them.
NoWord == [tw |-> {}, address |-> 0]
Word == [tw : SUBSET Kinds, address : 0 .. 2 * SendSize - 1]
Event == [tw : SUBSET Kinds, timestamp : Cell, data : Kinds \cup {"none"}]
NoEvent == [tw |-> {}, timestamp |-> 0, data |-> "none"]

NoRequest == [cell |-> 0, kind |-> "none"]

BufferInit ==
    /\ Init
    /\ phase = 0 /\ bursts = 0 /\ now = 0 /\ age = 0
    /\ latencyreadaddressb = 0
    /\ LATENCYRAM = [c \in Cell |-> NoWord]
    /\ SENDRAM = [a \in 0 .. SendSize - 1 |-> NoEvent]
    /\ q_a = NoWord /\ q_b = NoWord
    /\ BURST125 = FALSE /\ FSMoutputdata = "Idle" /\ tmp = NoRequest
    /\ addressfarm = 0
    /\ asked = [c \in Cell |-> {}]

-----------------------------------------------------------------------------
(***************************************************************************)
(* Port b.                                                                  *)
(***************************************************************************)
LatencyOver == FSMSendDetectors = "S1" /\ latencycounter >= Fixed_Latency - 3

rden_b == LatencyOver \/ FSMSendDetectors = "S2"
wren_bOnce == FSMSendDetectors = "S2"
wren_b == FSMSendDetectors \in {"S2", "S3"}

NextPointer ==
    CASE FSMSendDetectors = "S2" -> (latencyreadaddressb + 1) % Cells
      [] FSMSendDetectors = "S3" -> IF FSMSendDetectors' = "S3"
                                    THEN (latencyreadaddressb + 1) % Cells ELSE 0
      [] FSMSendDetectors = "S0" -> IF BURST40 THEN latencyreadaddressb ELSE 0
      [] FSMSendDetectors = "S1" -> IF LatencyOver THEN latencyreadaddressb ELSE 0
      [] FSMSendDetectors = "S0_0" -> latencyreadaddressb

\* The timestamp whose trigger goes out at this edge.
Due == (now - (Fixed_Latency + 1)) % Cells

\* CounterTstmp: the timestamp is zero in the clock in which the burst begins.
TimeGoesOn ==
    /\ now' = IF ~BURST /\ FSMSendDetectors = "S0" THEN 0 ELSE (now + 1) % Cells
    /\ age' = IF BURST' # BURST THEN 0 ELSE UpTo(Late + 1, age)

SlowEdge ==
    /\ phase \in FastEdges /\ phase' = 0
    /\ Clock40(q_b.tw # {}, FALSE) /\ clk40' = 1 - clk40
    /\ bursts' = IF BURST' /\ ~BURST THEN bursts + 1 ELSE bursts
    /\ bursts' <= BurstLimit
    /\ TimeGoesOn
    /\ latencyreadaddressb' = NextPointer
    /\ q_b' = IF rden_b THEN LATENCYRAM[latencyreadaddressb] ELSE q_b
    /\ LATENCYRAM' = IF wren_b THEN [LATENCYRAM EXCEPT ![latencyreadaddressb] = NoWord]
                     ELSE LATENCYRAM
    /\ asked' = [asked EXCEPT ![Due] = {}]
    /\ UNCHANGED <<SENDRAM, fastVars>>

-----------------------------------------------------------------------------
(***************************************************************************)
(* Port a: SubSendBuffer.                                                   *)
(***************************************************************************)
Pending == {c \in Cell : asked[c] # {}}

\* Primitives take their time; the other sources use the timestamp of the clock.
Lag(kind) == IF kind = "physics" THEN 0 .. Late ELSE 0 .. 1

\* A request for the timestamp of d clocks ago.  Of the signals of a clock the one of
\* the highest priority is taken; it is lost if the machine is not idle.  Timestamps
\* are those of a burst, and while an event waits there are fewer than SendSize others.
Address(c) == IF c = Due THEN q_b.address ELSE LATENCYRAM[c].address
Recent(a) == (addressfarm - a) % (2 * SendSize) < SendSize

MayAsk(d, c) ==
    /\ d <= Late
    /\ IF BURST THEN d <= age ELSE d > age /\ FSMSendDetectors \notin {"S0_0", "S0"}
    /\ FSMSendDetectors = "S1" => d <= now
    /\ asked[c] = {} => \A p \in Pending : Recent(Address(p))

Reset == addressfarm' = IF BURST125 THEN addressfarm ELSE 0

\* Only a NIM calibration without latency does not read the cell.
Accept(kind, d) ==
    LET shift == IF kind = "nim" THEN CalibLatency ELSE 0
        c == (now - d + shift) % Cells
    IN  /\ FSMoutputdata = "Idle" /\ FSMoutputdata' = "SetFarmAddress"
        /\ kind = "physics" \/ BURST
        /\ MayAsk(d - shift, c)
        /\ tmp' = [cell |-> c, kind |-> kind]
        /\ q_a' = IF kind = "nim" /\ CalibLatency = 0 THEN q_a ELSE LATENCYRAM[c]
        /\ asked' = [asked EXCEPT ![c] = @ \cup {kind}]
        /\ Reset /\ UNCHANGED <<LATENCYRAM, SENDRAM>>

Idle ==
    /\ FSMoutputdata = "Idle"
    /\ Reset /\ UNCHANGED <<memoryVars, q_a, FSMoutputdata, tmp>>

SetFarmAddressAlone ==
    /\ FSMoutputdata = "SetFarmAddress" /\ FSMoutputdata' = "WriteEvent"
    /\ LATENCYRAM' = [LATENCYRAM EXCEPT ![tmp.cell] =
            [tw |-> {tmp.kind}, address |-> IF q_a # NoWord THEN q_a.address ELSE addressfarm]]
    /\ Reset /\ UNCHANGED <<SENDRAM, asked, q_a, tmp>>
\* The word joins what the cell had, or begins an event.
SetFarmAddress ==
    /\ FSMoutputdata = "SetFarmAddress" /\ FSMoutputdata' = "WriteEvent"
    /\ LATENCYRAM' = [LATENCYRAM EXCEPT ![tmp.cell] =
            IF q_a # NoWord THEN [tw |-> q_a.tw \cup {tmp.kind}, address |-> q_a.address]
            ELSE [tw |-> {tmp.kind}, address |-> addressfarm]]
    /\ Reset /\ UNCHANGED <<SENDRAM, asked, q_a, tmp>>

WriteEventFirst ==
    /\ FSMoutputdata = "WriteEvent" /\ FSMoutputdata' = "Idle" /\ tmp' = NoRequest
    /\ IF q_a # NoWord
       THEN /\ SENDRAM' = [SENDRAM EXCEPT ![q_a.address % SendSize] =
                    [@ EXCEPT !.tw = @ \cup {tmp.kind}]]
            /\ addressfarm' = addressfarm
       ELSE /\ SENDRAM' = [SENDRAM EXCEPT ![addressfarm % SendSize] =
                    [tw |-> {tmp.kind}, timestamp |-> tmp.cell, data |-> tmp.kind]]
            /\ addressfarm' = (addressfarm + 1) % (2 * SendSize)
    /\ UNCHANGED <<LATENCYRAM, asked, q_a>>
\* The event of a request, and an event that a request joins: the data of a physics
\* trigger are never lost to those of another source.
NewEvent == [tw |-> {tmp.kind}, timestamp |-> tmp.cell, data |-> tmp.kind]

Joined(event) == IF tmp.kind = "physics" THEN [NewEvent EXCEPT !.tw = event.tw \cup @]
                 ELSE [event EXCEPT !.tw = @ \cup {tmp.kind}]

\* The event joins the one whose word was read when the request was taken.
WriteEvent ==
    /\ FSMoutputdata = "WriteEvent" /\ FSMoutputdata' = "Idle" /\ tmp' = NoRequest
    /\ IF q_a # NoWord
       THEN /\ SENDRAM' = [SENDRAM EXCEPT ![q_a.address % SendSize] = Joined(@)]
            /\ addressfarm' = addressfarm
       ELSE /\ SENDRAM' = [SENDRAM EXCEPT ![addressfarm % SendSize] = NewEvent]
            /\ addressfarm' = (addressfarm + 1) % (2 * SendSize)
    /\ UNCHANGED <<LATENCYRAM, asked, q_a>>

SubSendBuffer ==
    \/ \E kind \in Kinds : \E d \in Lag(kind) : Accept(kind, d)
    \/ Idle \/ SetFarmAddress \/ WriteEvent

FastEdge ==
    /\ \E n \in FastEdges : phase < n
    /\ phase' = phase + 1
    /\ BURST125' = BURST
    /\ SubSendBuffer
    /\ UNCHANGED <<detVars, slowVars>>

BufferNext == FastEdge \/ SlowEdge

BufferSpec == BufferInit /\ [][BufferNext]_bufferVars

-----------------------------------------------------------------------------
BufferTypeOK ==
    /\ phase \in Nat /\ \E n \in FastEdges : phase <= n
    /\ bursts \in 0 .. BurstLimit /\ now \in Cell /\ age \in 0 .. Late + 1
    /\ latencyreadaddressb \in Cell
    /\ LATENCYRAM \in [Cell -> Word] /\ SENDRAM \in [0 .. SendSize - 1 -> Event \cup {NoEvent}]
    /\ q_a \in Word /\ q_b \in Word
    /\ BURST125 \in BOOLEAN /\ FSMoutputdata \in {"Idle", "SetFarmAddress", "WriteEvent"}
    /\ tmp = NoRequest <=> FSMoutputdata = "Idle"
    /\ addressfarm \in 0 .. 2 * SendSize - 1
    /\ asked \in [Cell -> SUBSET Kinds]

\* The latency is fixed: a trigger word goes to the detectors Fixed_Latency + 2 clocks
\* after its timestamp and no other does, with the words of all the requests that were
\* taken for that timestamp, whichever source they came from and whenever they came
\* in between; while triggers may be sent, none that was taken is missing.
FixedLatency ==
    [][phase' = 0 =>
          /\ ev40' = "write" => asked[Due] # {} /\ q_b.tw = asked[Due]
          /\ asked[Due] # {} /\ MaySend /\ FarEnough => ev40' = "write"]_bufferVars

\* The event of a trigger that is sent is its own: it has the timestamp and the words
\* of all its sources, and the data of the physics trigger if there was one, although
\* addresses of SENDRAM are used again ("the winner is physics", SubSendBuffer).  Not
\* so in the last clock, when addressfarm has begun again for the next burst.
OwnEvent ==
    [][phase' = 0 /\ ev40' = "write" /\ BURST =>
          LET event == SENDRAM[q_b.address % SendSize]
          IN  /\ event.timestamp = Due /\ event.tw = asked[Due]
              /\ event.data \in asked[Due]
              /\ "physics" \in asked[Due] => event.data = "physics"]_bufferVars

\* Nothing is left of a burst when the next one may begin, so that no trigger is sent
\* again in it, not even those that came after its end.
NothingLeft ==
    FSMSendDetectors = "S0" /\ ~BURST =>
       /\ Pending = {} /\ FSMoutputdata = "Idle" /\ addressfarm = 0
       /\ LATENCYRAM = [c \in Cell |-> NoWord]

=============================================================================
