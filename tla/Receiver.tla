------------------------------ MODULE Receiver ------------------------------
(***************************************************************************)
(* Reception of the primitives of one detector (ethlink.vhd).  The four      *)
(* procedures SubReceive32bit, SubReceive64bit, SubReceiveRGMII32bit and     *)
(* SubReceiveRGMII64bit are one machine over the bytes per word and the kind *)
(* of port.  The machine takes a frame byte by byte from the read port of    *)
(* the MAC (rxport1.vhd) and, while activate_primitives is on, writes        *)
(* headers, primitives and end-of-packet words into FIFODELAY.  It ends a    *)
(* frame at whatever byte the MAC says it ends.                              *)
(*                                                                          *)
(* A frame is the sequence of its complete words and the number of bytes    *)
(* left over.  The clocks in which the machine only prepares data (S5 in     *)
(* the 64-bit format) are part of the step before.                          *)
(***************************************************************************)
EXTENDS Integers, Sequences, FiniteSets

CONSTANTS
    Modes,            \* formats and environments, see Mode
    MaxPrim,          \* bound: primitives in a frame
    MaxWords,         \* bound: words in a frame
    MaxFrame          \* bound: frames

\* bytes: 4 or 8 per word; rgmii: the port is one of enet_MAC; fill: FIFODELAY may be
\* full; fails: the port may become not ready within a frame; stops: primitives may be
\* deactivated; proper: frames are as the detectors build them.
Mode == [bytes : {4, 8}, rgmii : BOOLEAN, fill : BOOLEAN, fails : BOOLEAN,
         stops : BOOLEAN, proper : BOOLEAN]

ASSUME ModeAssumption == Modes \subseteq Mode
ASSUME ReceiverAssumption == /\ MaxPrim \in 0 .. 255 /\ MaxWords \in Nat
                             /\ MaxFrame \in Nat

VARIABLES
    mode,             \* format and environment, fixed
    rready,           \* read port: a frame is there
    frame,            \* the frame being read
    pos,              \* bytes read of it
    frames,           \* frames so far
    FSMReceive,       \* S3 stands for S3_1..S3_4 (S3_8), told apart by pos
    headermode,       \* the header is not complete
    headerreceived,   \* the first of two header words was received
    ETHLINKERROR,     \* set of error values: 1 FIFO full, 2 or 4 port not ready
    out,              \* the words written to FIFODELAY
    activate_primitives

WordBytes == mode.bytes
HeaderWord == IF mode.bytes = 4 THEN 2 ELSE 1     \* it completes the header

portVars == <<mode, rready, frame, pos, frames>>
vars == <<portVars, FSMReceive, headermode, headerreceived, ETHLINKERROR, out, activate_primitives>>

Kinds == {"primitive", "other"}        \* other: no primitive identifier

Frames == {f \in [words : UNION {[1 .. k -> Kinds] : k \in 0 .. MaxWords},
                  extra : 0 .. WordBytes - 1, n : 0 .. MaxPrim] :
             f.extra \in {0, 1, WordBytes - 1}}

Primitives(f) == Cardinality({i \in HeaderWord + 1 .. Len(f.words) :
                                 f.words[i] = "primitive"})

\* A frame as the detectors build it.
Proper(f) == f.extra = 0 /\ Len(f.words) >= HeaderWord /\ Primitives(f) = f.n

Bytes(f) == Len(f.words) * WordBytes + f.extra

NoFrame == [words |-> <<>>, extra |-> 0, n |-> 0]

Init ==
    /\ mode \in Modes
    /\ rready = FALSE
    /\ frame = NoFrame
    /\ pos = 0
    /\ frames = 0
    /\ FSMReceive = "S1"
    /\ headermode = TRUE
    /\ headerreceived = FALSE
    /\ ETHLINKERROR = {}
    /\ out = <<>>
    /\ activate_primitives \in BOOLEAN /\ (activate_primitives \/ mode.stops)

-----------------------------------------------------------------------------
\* The end of the frame, as the port shows it.
reoframe == pos = Bytes(frame)

\* A new frame at the port, and the loss of one within.
NewFrame ==
    /\ ~rready /\ frames < MaxFrame
    /\ FSMReceive \in {"S1", "S2"}
    /\ \E f \in Frames : (mode.proper => Proper(f)) /\ frame' = f
    /\ rready' = TRUE /\ pos' = 0 /\ frames' = frames + 1
    /\ UNCHANGED <<mode, FSMReceive, headermode, headerreceived, ETHLINKERROR, out, activate_primitives>>

PortDrops ==
    /\ mode.fails /\ rready /\ FSMReceive \in {"S3", "S3_loop"}
    /\ rready' = FALSE
    /\ UNCHANGED <<mode, frame, pos, frames, FSMReceive, headermode, headerreceived,
                   ETHLINKERROR, out, activate_primitives>>

\* The user's setting and the end of the extraction (top.vhd).
Activate ==
    /\ mode.stops
    /\ activate_primitives' = ~activate_primitives
    /\ UNCHANGED <<portVars, FSMReceive, headermode, headerreceived, ETHLINKERROR, out>>

-----------------------------------------------------------------------------
Header(n) == [kind |-> "header", n |-> n]
Primitive == [kind |-> "primitive", n |-> 0]
EndOfPacket == [kind |-> "eof", n |-> 0]

\* A write that tests wrfull; full is the FIFO's answer.
PutForgets(w, full) ==
    /\ UNCHANGED out
    /\ ETHLINKERROR' = IF full THEN ETHLINKERROR \cup {1} ELSE ETHLINKERROR
Put(w, full) ==
    /\ out' = IF full THEN out ELSE Append(out, w)
    /\ ETHLINKERROR' = IF full THEN ETHLINKERROR \cup {1} ELSE ETHLINKERROR

\* An end of frame that is written without testing wrfull.
PutEnd(full) == out' = (IF full THEN out ELSE Append(out, EndOfPacket)) /\ UNCHANGED ETHLINKERROR

S1 ==
    /\ FSMReceive = "S1"
    /\ FSMReceive' = "S2"
    /\ UNCHANGED <<portVars, headermode, headerreceived, ETHLINKERROR, out>>

\* A frame begins with its header.
BeginFrameStale == UNCHANGED <<headermode, headerreceived>>
BeginFrame == headermode' = TRUE /\ headerreceived' = FALSE

\* Wait for a frame; an empty one is an end of packet at once.
S2 ==
    /\ FSMReceive = "S2" /\ rready
    /\ \/ /\ ~reoframe
          /\ pos' = pos + 1
          /\ BeginFrame
          /\ FSMReceive' = "S3"
          /\ UNCHANGED <<ETHLINKERROR, out>>
       \/ /\ reoframe
          /\ \E full \in BOOLEAN : /\ full => mode.fill
                                  /\ IF mode.rgmii THEN PutEnd(full) ELSE Put(EndOfPacket, full)
          /\ FSMReceive' = "S4"
          /\ UNCHANGED <<pos, headermode, headerreceived>>
    /\ UNCHANGED <<mode, rready, frame, frames>>

WordComplete == pos % WordBytes = 0

\* A byte that does not complete a word: the next one, or the end of the frame.
S3Byte ==
    /\ FSMReceive = "S3" /\ ~WordComplete /\ rready
    /\ \/ ~reoframe /\ pos' = pos + 1 /\ UNCHANGED <<FSMReceive, ETHLINKERROR, out>>
       \/ /\ reoframe
          /\ \E full \in BOOLEAN : (full => mode.fill) /\ Put(EndOfPacket, full)
          /\ FSMReceive' = "S4" /\ UNCHANGED pos
    /\ UNCHANGED <<mode, rready, frame, frames, headermode, headerreceived>>

\* The port is not ready: back to S2, whatever was received is left as it is.
\* reoframe is low by then, except in the very clock in which the port drops.
S3NotReady ==
    /\ FSMReceive = "S3" /\ ~WordComplete /\ ~rready
    /\ FSMReceive' = "S2"
    /\ ETHLINKERROR' = ETHLINKERROR \cup {IF mode.rgmii THEN 4 ELSE 2}
    /\ UNCHANGED <<portVars, headermode, headerreceived, out>>

ThisWord == frame.words[pos \div WordBytes]

\* The header is complete: what follows is primitives.
HeaderDoneForgets == headermode' = FALSE /\ UNCHANGED headerreceived
HeaderDone == headermode' = FALSE /\ headerreceived' = FALSE

\* The byte that completes a word (S3_4; S3_8, S5_header and S5_write): the first
\* words are the header, the others are primitives if their identifier is not 0.
\* While primitives are not active nothing is written, and S3_4 stays where it is with
\* the second word of a header, which it takes for a primitive in the next clock.
S3Word ==
    /\ FSMReceive = "S3" /\ WordComplete
    /\ \/ /\ headermode /\ HeaderWord = 2
          /\ headermode' = FALSE /\ headerreceived' = TRUE
          /\ FSMReceive' = "S3_loop"
          /\ UNCHANGED <<ETHLINKERROR, out>>
       \/ /\ IF HeaderWord = 2 THEN ~headermode /\ headerreceived ELSE headermode
          /\ IF activate_primitives
             THEN \E full \in BOOLEAN : (full => mode.fill) /\ Put(Header(frame.n), full)
             ELSE UNCHANGED <<ETHLINKERROR, out>>
          /\ FSMReceive' = IF activate_primitives \/ HeaderWord = 1 THEN "S3_loop" ELSE "S3"
          /\ HeaderDone
       \/ /\ ~headermode /\ ~headerreceived
          /\ IF activate_primitives /\ ThisWord = "primitive"
             THEN \E full \in BOOLEAN : (full => mode.fill) /\ Put(Primitive, full)
             ELSE UNCHANGED <<ETHLINKERROR, out>>
          /\ FSMReceive' = "S3_loop"
          /\ UNCHANGED <<headermode, headerreceived>>
    /\ UNCHANGED portVars

\* Only SubReceiveRGMII64bit ends a frame whether primitives are active or not.
EndsFrame == activate_primitives \/ (mode.rgmii /\ mode.bytes = 8)

S3Loop ==
    /\ FSMReceive = "S3_loop"
    /\ \/ /\ rready /\ ~reoframe
          /\ pos' = pos + 1 /\ FSMReceive' = "S3"
          /\ UNCHANGED <<ETHLINKERROR, out>>
       \/ /\ rready /\ reoframe
          /\ IF EndsFrame
             THEN \E full \in BOOLEAN : (full => mode.fill) /\ PutEnd(full)
             ELSE UNCHANGED <<ETHLINKERROR, out>>
          /\ FSMReceive' = "S4" /\ UNCHANGED pos
       \/ ~rready /\ FSMReceive' = "S2" /\ UNCHANGED <<pos, ETHLINKERROR, out>>
    /\ UNCHANGED <<mode, rready, frame, frames, headermode, headerreceived>>

\* The frame is acknowledged.
S4NoAck ==
    /\ FSMReceive = "S4"
    /\ FSMReceive' = "S1"
    /\ UNCHANGED <<portVars, headermode, headerreceived, ETHLINKERROR, out>>
S4 ==
    /\ FSMReceive = "S4"
    /\ rready' = FALSE
    /\ FSMReceive' = "S1"
    /\ UNCHANGED <<mode, frame, pos, frames, headermode, headerreceived, ETHLINKERROR, out>>

Receive ==
    /\ S1 \/ S2 \/ S3Byte \/ S3NotReady \/ S3Word \/ S3Loop \/ S4
    /\ UNCHANGED activate_primitives

Next == NewFrame \/ PortDrops \/ Activate \/ Receive

Spec == Init /\ [][Next]_vars /\ WF_vars(Receive)

-----------------------------------------------------------------------------
TypeOK ==
    /\ mode \in Modes
    /\ rready \in BOOLEAN /\ frame \in Frames /\ pos \in 0 .. Bytes(frame)
    /\ frames \in 0 .. MaxFrame
    /\ FSMReceive \in {"S1", "S2", "S3", "S3_loop", "S4"}
    /\ headermode \in BOOLEAN /\ headerreceived \in BOOLEAN
    /\ ETHLINKERROR \subseteq {1, 2, 4}
    /\ activate_primitives \in BOOLEAN
    /\ \A i \in 1 .. Len(out) : out[i].kind \in {"header", "primitive", "eof"}

\* Words after the last end of packet.
Since ==
    LET ends == {i \in 1 .. Len(out) : out[i] = EndOfPacket}
    IN  IF ends = {} THEN out
        ELSE SubSeq(out, 1 + (CHOOSE i \in ends : \A j \in ends : j <= i), Len(out))

\* What a receiver promises is about frames as the detectors build them, a FIFO with
\* room, a port that stays ready and primitives that stay active.
Reliable == ~mode.fill /\ ~mode.fails /\ ~mode.stops
Promised == mode.proper /\ Reliable

Packet == INSTANCE PacketWriter
            WITH rx <- IF ~Promised \/ Since = <<>> THEN -1
                       ELSE Since[1].n - (Len(Since) - 1),
                 out <- IF Promised THEN out ELSE <<>>

\* The byte-level receiver, in either format, implements the writer of
\* PacketWriter: header, the announced primitives, end of packet, each once.
IsPacketWriter == Packet!Spec

EndsWritten == Cardinality({i \in 1 .. Len(out) : out[i] = EndOfPacket})

OneEndPerFrame ==
    FSMReceive = "S1" /\ ~rready =>
        EndsWritten <= frames /\ (Reliable => EndsWritten = frames)

HeaderFirst ==
    Reliable =>
        \A i \in 2 .. Len(out) :
            out[i].kind = "header" => out[i - 1] = EndOfPacket

\* Whatever the frames look like, two frames are never run together, however short
\* or long they were ("every byte extracted the end of frame is controlled",
\* ethlink.vhd): every frame ends in exactly one end-of-packet word, and a header
\* comes first in its packet, even when the frame before ended within its header.
\* No frame ends twice, whatever goes wrong and whenever primitives are deactivated.
FramesApart == OneEndPerFrame /\ HeaderFirst

\* A frame that is there is taken and released, also when the FIFO is full, the port
\* becomes not ready or primitives are deactivated at any byte.
FrameReleased == rready ~> ~rready

=============================================================================
