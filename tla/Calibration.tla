----------------------------- MODULE Calibration -----------------------------
(***************************************************************************)
(* The calibration requests of a detector (Trigger.vhd, SubReceive and       *)
(* SubCalibration).  A primitive whose bit 15 is set is not written into      *)
(* alignRAM: it waits in FIFOCALIB, from which a machine of two states takes  *)
(* one after the other and makes each a request of the clock.  FIFO and       *)
(* machine exist once per detector, and detectors share nothing but the burst *)
(* gate, so that one of them is modelled.                                    *)
(*                                                                          *)
(* A step is one period of the 125 MHz clock.  Nothing clears FIFOCALIB.      *)
(***************************************************************************)
EXTENDS Integers, Sequences

CONSTANTS
    Size,            \* words of FIFOCALIB, 32 in the firmware
    Lag,             \* clocks after which a side of the FIFO sees what the other did
    Gap,             \* clocks between primitives of a detector, 2 (SubReadFIFODelay)
    Quiet,           \* clocks of a burst before its first primitive, more than 200
    MaxBurst         \* bound: bursts

\* What is left of another burst is gone before the first primitive comes.
ASSUME SizeAssumption == /\ Size \in Nat /\ Lag \in Nat \ {0} /\ MaxBurst \in Nat
                         /\ Gap \in Nat /\ Gap >= 2 /\ Size > Lag + 2
                         /\ Quiet \in Nat /\ Quiet > 2 * Size + Lag + 1

VARIABLES
    BURST125,
    activatecalibtrigger,
    bursts,
    age,             \* clocks since the burst began, up to Quiet
    since,           \* clocks since the last primitive, up to Gap
    received,        \* kind of the primitive in the input register, "none" without one
    primitiveID,     \* bit 15 of the register of that name
    FIFOCALIB,
    q,               \* its output
    FSMCalib,
    calib_signal,
    issued,          \* the word that calib_signal is for
    TRIGGERERROR     \* bit 1: a calibration primitive found FIFOCALIB full

inputVars == <<BURST125, activatecalibtrigger, bursts, age, since, received>>
vars == <<inputVars, primitiveID, FIFOCALIB, q, FSMCalib, calib_signal, issued, TRIGGERERROR>>

Kind == {"none", "physics", "calibration"}

\* A word of FIFOCALIB: what the detector sent it as, whether that was in a burst
\* before this one, and the clocks it has been there.
Word == [kind : Kind, old : BOOLEAN, clocks : 0 .. Lag + 1]
NoWord == [kind |-> "none", old |-> FALSE, clocks |-> 0]

Init ==
    /\ BURST125 = FALSE /\ activatecalibtrigger \in BOOLEAN
    /\ bursts = 0 /\ age = 0 /\ since = Gap
    /\ received = "none" /\ primitiveID = FALSE
    /\ FIFOCALIB = <<>> /\ q = NoWord
    /\ FSMCalib = "S0"
    /\ calib_signal = FALSE /\ issued = NoWord
    /\ TRIGGERERROR = FALSE

UpTo(n, limit) == IF n < limit THEN n + 1 ELSE limit

-----------------------------------------------------------------------------
\* A burst ends at any clock; its settings are those of the user in the pause.
Begins == ~BURST125 /\ BURST125'
BurstGate ==
    /\ BURST125' \in BOOLEAN
    /\ bursts' = IF Begins THEN bursts + 1 ELSE bursts
    /\ bursts' <= MaxBurst
    /\ IF BURST125 \/ BURST125' THEN UNCHANGED activatecalibtrigger
       ELSE activatecalibtrigger' \in BOOLEAN
    /\ age' = IF BURST125 THEN UpTo(age, Quiet) ELSE 0

\* The readers hand over primitives while they see the burst.
Input ==
    /\ received' \in Kind
    /\ received' # "none" => BURST125 /\ age = Quiet /\ since = Gap
    /\ since' = IF received' # "none" THEN 1 ELSE UpTo(since, Gap)

\* The machine puts the ID of the word it has read into the input register.
NextPrimitiveID == FSMCalib = "S1" \/ received' = "calibration"

-----------------------------------------------------------------------------
\* SubReceive tells the kinds apart by bit 15 of the register.
Calibrates == received # "none" /\ primitiveID

\* The writer of the FIFO does not yet see the reads of the last clocks.
MayBeFull == Len(FIFOCALIB) + (Lag + 1) \div 2 >= Size
wrfull == Len(FIFOCALIB) >= Size

rdempty == FIFOCALIB = <<>> \/ Head(FIFOCALIB).clocks < Lag
rdreq == FSMCalib = "S0" /\ BURST125 /\ activatecalibtrigger /\ ~rdempty

Later(w) == [kind |-> w.kind, old |-> (w.old \/ Begins), clocks |-> UpTo(w.clocks, Lag + 1)]

NextFifo(accepted) ==
    LET kept == IF rdreq THEN Tail(FIFOCALIB) ELSE FIFOCALIB
        older == [i \in 1 .. Len(kept) |-> Later(kept[i])]
        new == [kind |-> received, old |-> Begins, clocks |-> 0]
    IN  IF accepted THEN Append(older, new) ELSE older

NextCalibLong == IF rdreq \/ (FSMCalib = "S1" /\ ~calib_signal) THEN "S1" ELSE "S0"
NextCalib == IF rdreq THEN "S1" ELSE "S0"

\* The first clock of a burst.
ResetNever == FALSE
ResetCounters == BURST125 /\ age = 0

SubReceive ==
    \E full \in {wrfull, MayBeFull} :
        /\ FIFOCALIB' = NextFifo(Calibrates /\ ~full)
        /\ TRIGGERERROR' = (~ResetCounters /\ (TRIGGERERROR \/ (Calibrates /\ full)))

SubCalibration ==
    /\ q' = IF rdreq THEN Head(FIFOCALIB) ELSE q
    /\ FSMCalib' = NextCalib
    /\ calib_signal' = (FSMCalib = "S1")
    /\ issued' = IF FSMCalib = "S1" THEN q ELSE NoWord
    /\ primitiveID' = NextPrimitiveID

Next == BurstGate /\ Input /\ SubReceive /\ SubCalibration

Spec == Init /\ [][Next]_vars

-----------------------------------------------------------------------------
TypeOK ==
    /\ BURST125 \in BOOLEAN /\ activatecalibtrigger \in BOOLEAN
    /\ bursts \in 0 .. MaxBurst /\ age \in 0 .. Quiet /\ since \in 0 .. Gap
    /\ received \in Kind /\ primitiveID \in BOOLEAN
    /\ FIFOCALIB \in Seq(Word) /\ Len(FIFOCALIB) <= Size
    /\ q \in Word /\ issued \in Word
    /\ FSMCalib \in {"S0", "S1"} /\ calib_signal \in BOOLEAN /\ TRIGGERERROR \in BOOLEAN

\* While calibration is active no request waits behind another: the machine takes
\* each as soon as the FIFO shows it, so that its time to be sent, which has to be
\* within the latency, does not depend on how many there are, nor on how many were
\* left in FIFOCALIB by earlier bursts, in which it may have been inactive.
Prompt ==
    BURST125 /\ activatecalibtrigger /\ age = Quiet =>
        \A i \in 1 .. Len(FIFOCALIB) : ~FIFOCALIB[i].old /\ FIFOCALIB[i].clocks <= Lag

\* The FIFO has always room while calibration is active, although it may be full when
\* the burst begins.
NeverRefused == BURST125 /\ activatecalibtrigger /\ age > 0 => ~TRIGGERERROR

\* What is issued as a calibration trigger was sent by the detector as one ("If bit
\* 15 of a primitive is equal to 1: calibration primitive", header of Trigger.vhd).
OnlyCalibration == calib_signal => issued.kind = "calibration"

=============================================================================
