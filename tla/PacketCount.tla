----------------------------- MODULE PacketCount ----------------------------
(***************************************************************************)
(* Counting of the packets in the Trigger module (Trigger.vhd,              *)
(* SubPrimitiveInPacket), on the same 125 MHz clock as the readers of        *)
(* DelayAlign.  The readers leave waitoutput at up to three different        *)
(* clocks, each time with packet_received high; the machine takes the first  *)
(* pulse as the end of the window, stores the announced numbers of           *)
(* primitives and is blind for two clocks.  The primitives themselves go     *)
(* into FIFOs as they come (SubReceive), to be read back by those numbers.   *)
(*                                                                          *)
(* The clock never stops, also when no register changes: a parity bit makes  *)
(* every clock a step of its own, so that fairness says that time goes on    *)
(* and nothing else.                                                         *)
(***************************************************************************)
EXTENDS DelayAlign

VARIABLES
    clk125,        \* parity of the 125 MHz clock
    FSMPrimitiveInPacket,
    inTime,        \* every packet is there when its window opens, and none is lost
    opened,        \* history: windows opened in this burst
    counted,       \* history: numbers stored in this burst, in windows
    delivered      \* history: primitives received since the last number

countVars == <<clk125, inTime, FSMPrimitiveInPacket, opened, counted, delivered>>

PInit ==
    /\ Init
    /\ clk125 = 0
    /\ inTime \in BOOLEAN
    /\ FSMPrimitiveInPacket = "WaitPacket"
    /\ opened = 0
    /\ counted = 0
    /\ delivered = [d \in Det |-> 0]

\* The numbers are stored in FIFOMTPNUMREF and FIFOMTPNUMCONTROL.
Stores == FSMPrimitiveInPacket = "WaitPacket" /\ packet_received

\* Primitives of detector d received up to this clock and not yet accounted for.
Received(d) == delivered[d] + (IF d \in received_signal THEN 1 ELSE 0)

NextPrimitiveOneShift ==
    CASE Stores -> "Shift1Clock"
      [] ~Stores -> "WaitPacket"
NextPrimitiveInPacket ==
    CASE Stores -> "Shift1Clock"
      [] FSMPrimitiveInPacket = "WaitPacket" /\ ~packet_received -> "WaitPacket"
      [] FSMPrimitiveInPacket = "Shift1Clock" -> "Shift2Clock"
      [] FSMPrimitiveInPacket = "Shift2Clock" -> "WaitPacket"

SubPrimitiveInPacket ==
    /\ FSMPrimitiveInPacket' = NextPrimitiveInPacket
    /\ IF BURST125 /\ FSMResetCounters = "S0"       \* the FIFOs are cleared
       THEN opened' = 0 /\ counted' = 0 /\ delivered' = [d \in Det |-> 0]
       ELSE /\ opened' = opened + (IF Active /\ Opening /\ Waiting # {} THEN 1 ELSE 0)
            /\ counted' = counted + (IF Stores THEN 1 ELSE 0)
            /\ delivered' = [d \in Det |-> IF Stores THEN 0 ELSE Received(d)]

pvars == <<vars, countVars>>

\* The detectors may be in time: the packet that opens a window is then the last of
\* its window, and every word finds room in FIFODELAY.
Begins(d) == frames'[d] > frames[d]
InTime ==
    inTime /\ Active =>
       /\ Begins(MaxDelayDet) =>
             \A e \in Det \ {MaxDelayDet} :
                frames[e] - fifoDELAY_set[e] > frames[MaxDelayDet] - fifoDELAY_set[MaxDelayDet]
       /\ \A d \in Det : Full(d) => rx'[d] = rx[d]

Tick ==
    /\ Next /\ InTime /\ UNCHANGED inTime
    /\ SubPrimitiveInPacket
    /\ clk125' = 1 - clk125

\* Time goes on (as WF_pvars(Tick) says, for a clock always ticks); and a frame that
\* the MAC has begun to hand over, which it has stored whole, is handed over to its
\* end.
TimeGoesOn == []<>(clk125 = 0) /\ []<>(clk125 = 1)
HandedOver(d) == rx[d] = Idle \/ (inTime /\ Full(d))

Fairness == TimeGoesOn /\ \A d \in Det : []<>HandedOver(d)

PSpec == PInit /\ [][Tick]_pvars /\ Fairness

-----------------------------------------------------------------------------
PTypeOK ==
    /\ TypeOK
    /\ clk125 \in {0, 1} /\ inTime \in BOOLEAN
    /\ FSMPrimitiveInPacket \in {"WaitPacket", "Shift1Clock", "Shift2Clock"}
    /\ opened \in Nat /\ counted \in Nat
    /\ delivered \in [Det -> Nat]

\* Every window is counted exactly once, although packet_received may stay high
\* or come back for up to three clocks: when the readers all wait again and the
\* machine is ready, it has stored one number per window opened.
CountedOnce ==
    /\ counted <= opened /\ opened <= counted + 1
    /\ (Active /\ Waiting = Det /\ ~packet_received
          /\ FSMPrimitiveInPacket = "WaitPacket") => counted = opened

\* The number stored for a detector is the number of its primitives that were
\* received in the window, so that the merge can read the FIFOs packet by packet
\* (header of Trigger.vhd), if no packet came late or was lost: a primitive that is
\* late is neither counted nor received.
NumberMatches ==
    inTime /\ Stores => \A d \in Det : MTPNUMREF_in[d] = Received(d)

\* No primitive reaches the Trigger module while it takes the numbers of a
\* window: it would be counted to the wrong one.
QuietWhenCounting ==
    (packet_received \/ FSMPrimitiveInPacket # "WaitPacket")
       => received_signal = {}

\* Realignment proper: with packets in time, whenever the readers wait for a window
\* they have all read the same number of packets beyond those the user asked to skip
\* (fifoDELAY_set), so that the window that opens next holds the same MTP frame of
\* every detector.
Realigned ==
    (inTime /\ Active /\ Waiting = Det) =>
       \A d, e \in Det : PacketsRead(d) - fifoDELAY_set[d]
                          = PacketsRead(e) - fifoDELAY_set[e]

\* A window that has been opened is closed, for all detectors together, unless
\* the burst ends first: no detector waits for ever for the others in waitoutput
\* (SubReadFIFODelay, ethlink.vhd 2980-3027), however late and full its FIFO is.
WindowCloses ==
    \A d \in Det : (FSMDelay[d] = "readdata") ~> (packet_received \/ ~BURST125)

=============================================================================
