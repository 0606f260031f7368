---------------------------- MODULE MCPacketCount ---------------------------
EXTENDS PacketCount

\* Detector 0 sends the packet that is skipped as well; detector 1 may have none.
MCDet == {0, 1}
MCSet == [d \in MCDet |-> 1 - d]
MCFrame == [d \in MCDet |-> 3 - d]

=============================================================================
