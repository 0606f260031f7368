--------------------------- MODULE MCTriggerSlots ---------------------------
EXTENDS TriggerSlots

MCDet == {0, 1}
MCTimes == [d \in MCDet |-> IF d = 0 THEN {0, 8, 9, 14, 16} ELSE {1, 7, 8, 11, 13, 15, 16}]
MCCalib == [d \in MCDet |-> IF d = 0 THEN {8} ELSE {}]
MCPrim == [d \in MCDet |-> 2]
MCCut == [d \in MCDet |-> 3]
MCMask == <<<<{0, 1}, {}>>, <<{0}, {1}>>>>
MCControl == <<{1}, {}>>

=============================================================================
