---------------------------- MODULE PacketWriter ----------------------------
(***************************************************************************)
(* What a receiver promises about the words it puts into its FIFODELAY:     *)
(* packet after packet, a header with the number of primitives, that many   *)
(* primitives, the end-of-packet word.  This is the writer that DelayAlign  *)
(* assumes for each detector.                                               *)
(***************************************************************************)
EXTENDS Integers, Sequences

CONSTANT MaxPrim        \* primitives a packet may announce

VARIABLES
    rx,                 \* primitives still to be written, -1 between packets
    out                 \* the words written

Init == rx = -1 /\ out = <<>>

Begin(n) ==
    /\ rx = -1
    /\ rx' = n
    /\ out' = Append(out, [kind |-> "header", n |-> n])

Write ==
    /\ rx > 0
    /\ rx' = rx - 1
    /\ out' = Append(out, [kind |-> "primitive", n |-> 0])

End ==
    /\ rx = 0
    /\ rx' = -1
    /\ out' = Append(out, [kind |-> "eof", n |-> 0])

Next == (\E n \in 0 .. MaxPrim : Begin(n)) \/ Write \/ End

Spec == Init /\ [][Next]_<<rx, out>>

=============================================================================
