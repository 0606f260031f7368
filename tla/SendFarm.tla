------------------------------ MODULE SendFarm ------------------------------
(***************************************************************************)
(* The packets of events to the PC farm (SubSendFARM in ethlink.vhd), on the *)
(* same 125 MHz clock as SubGeneratePackets.                                 *)
(*                                                                          *)
(* The two machines share FIFOPACKETS and one counter: MEPeventWritten       *)
(* equals MEPEventNumber for one clock, and the sender begins a packet only  *)
(* if it is idle in that clock.  Nothing in FIFOPACKETS tells where a packet *)
(* ends: the sender reads as many events as it was told, and tests rdempty   *)
(* before the first only.                                                    *)
(***************************************************************************)
EXTENDS GeneratePackets

CONSTANTS
    PacketsSize,     \* words of FIFOPACKETS, 128 in the firmware
    EventWords,      \* clocks to send an event, 12 in the firmware
    EOBWords         \* clocks to send the end of burst and the debug packet, about 250

ASSUME PacketsAssumption == PacketsSize \in Nat /\ PacketsSize >= 1
                            /\ EventWords \in Nat /\ EventWords >= 1
                            /\ EOBWords \in Nat /\ EOBWords >= 1

\* A packet is sent in less time than the words of the next one take to come, and
\* FIFOPACKETS has room for both.
ASSUME PaceAssumption == /\ MEPEventNumber * EventWords + Cross < 3 * WordGap * MEPEventNumber
                         /\ PacketsSize >= 2 * MEPEventNumber

\* The end of a burst is longer than a word takes to become an event, and the reset of
\* the memories than all that may have to be sent then: a full packet, the events
\* left and the end.  In the firmware 40000 slow clocks against a few thousand fast ones.
ASSUME EndAssumption ==
    /\ EOBWords >= Cross
    /\ 2 * (MEPEventNumber * EventWords) + EOBWords + 7 <= 3 * (Fixed_Latency + ResetTime)

VARIABLES
    FIFOPACKETS,     \* events in it
    eob_ev125,       \* register of eob_ev40, which stays until the memories are reset
    FSMSend,
    MEPEventRead,    \* events still to be sent of the packet, the current one included
    word,            \* words sent of the event, or of the end of burst
    eob_data_send,
    \* history
    settled,         \* no word came in the last WordGap clocks before this end of burst
    ends             \* ends of burst sent to the farm in this burst, up to 2

sendVars == <<FSMSend, MEPEventRead, word, eob_data_send>>
packetVars == <<FIFOPACKETS, eob_ev125, sendVars, settled, ends>>
allVars == <<detVars, farmVars, packetVars>>

SendInit ==
    /\ FarmInit
    /\ FIFOPACKETS = 0 /\ eob_ev125 = FALSE
    /\ FSMSend = "idle" /\ MEPEventRead = 0 /\ word = 0 /\ eob_data_send = FALSE
    /\ settled = TRUE /\ ends = 0

-----------------------------------------------------------------------------
PacketsFull == FIFOPACKETS >= PacketsSize

\* The port to the farm takes a word in this clock; only when many frames wait in it
\* it may be not ready, or full.
Ports == IF MACReady THEN {"takes"} ELSE {"takes", "not ready", "full"}

\* The read request is ignored if FIFOPACKETS is empty.
Packets(reads) ==
    FIFOPACKETS' = (IF reads /\ FIFOPACKETS > 0 THEN FIFOPACKETS - 1 ELSE FIFOPACKETS)
                   + (IF written' # None THEN 1 ELSE 0)

SendIdleForgets ==
    /\ FSMSend = "idle"
    /\ \/ /\ MEPeventWritten = MEPEventNumber
          /\ MEPEventRead' = MEPEventNumber /\ FSMSend' = "PacketHeader"
          /\ UNCHANGED eob_data_send
       \/ /\ MEPeventWritten # MEPEventNumber /\ eob_ev125 /\ ~eob_data_send
          /\ FSMSend' = "PacketHeaderEOB" /\ eob_data_send' = TRUE
          /\ UNCHANGED MEPEventRead
       \/ /\ MEPeventWritten # MEPEventNumber /\ (eob_ev125 => eob_data_send)
          /\ UNCHANGED <<FSMSend, MEPEventRead, eob_data_send>>
    /\ Packets(FALSE) /\ UNCHANGED <<word, ends>>
\* A full packet goes before the end of the burst.
SendIdle ==
    /\ FSMSend = "idle"
    /\ \/ /\ MEPeventWritten = MEPEventNumber
          /\ MEPEventRead' = MEPEventNumber /\ FSMSend' = "PacketHeader"
          /\ UNCHANGED eob_data_send
       \/ /\ MEPeventWritten # MEPEventNumber /\ eob_ev125 /\ ~eob_data_send
          /\ MEPEventRead' = MEPeventWritten /\ FSMSend' = "PacketHeaderEOB"
          /\ eob_data_send' = TRUE
       \/ /\ MEPeventWritten # MEPEventNumber /\ (eob_ev125 => eob_data_send)
          /\ UNCHANGED <<FSMSend, MEPEventRead, eob_data_send>>
    /\ Packets(FALSE) /\ UNCHANGED <<word, ends>>

\* A port that is full makes the sender give up the packet; its events stay behind.
PacketHeader(port) ==
    /\ FSMSend = "PacketHeader"
    /\ LET begins == FIFOPACKETS > 0 /\ port = "takes" IN
       /\ FSMSend' = IF begins THEN "Event"
                     ELSE IF FIFOPACKETS > 0 /\ port = "full" THEN "idle" ELSE FSMSend
       /\ Packets(begins)
    /\ UNCHANGED <<MEPEventRead, word, eob_data_send, ends>>

\* The events left at the end of a burst go first, then the end of burst alone.
PacketHeaderEOB(port) ==
    /\ FSMSend = "PacketHeaderEOB"
    /\ \/ /\ MEPEventRead # 0
          /\ LET begins == FIFOPACKETS > 0 /\ port = "takes" IN
             /\ FSMSend' = IF begins THEN "Event" ELSE FSMSend
             /\ Packets(begins)
       \/ /\ MEPEventRead = 0
          /\ FSMSend' = IF port = "takes" THEN "EOB" ELSE FSMSend
          /\ Packets(FALSE)
    /\ UNCHANGED <<MEPEventRead, word, eob_data_send, ends>>

SendEventReadsOn(port) ==
    /\ FSMSend = "Event"
    /\ \/ /\ port # "takes" /\ Packets(FALSE) /\ UNCHANGED sendVars
       \/ /\ port = "takes" /\ word < EventWords - 1 /\ word' = word + 1
          /\ Packets(FALSE) /\ UNCHANGED <<FSMSend, MEPEventRead, eob_data_send>>
       \/ /\ port = "takes" /\ word = EventWords - 1 /\ word' = 0
          /\ MEPEventRead' = MEPEventRead - 1
          /\ FSMSend' = IF MEPEventRead # 1 THEN "Event"
                        ELSE IF eob_data_send THEN "PacketHeaderEOB" ELSE "idle"
          /\ Packets(TRUE) /\ UNCHANGED eob_data_send
    /\ UNCHANGED ends
\* EventHeader, Data_0 .. Data_10: with the last word the next event is read.
SendEvent(port) ==
    /\ FSMSend = "Event"
    /\ \/ /\ port # "takes" /\ Packets(FALSE) /\ UNCHANGED sendVars
       \/ /\ port = "takes" /\ word < EventWords - 1 /\ word' = word + 1
          /\ Packets(FALSE) /\ UNCHANGED <<FSMSend, MEPEventRead, eob_data_send>>
       \/ /\ port = "takes" /\ word = EventWords - 1 /\ word' = 0
          /\ MEPEventRead' = MEPEventRead - 1
          /\ FSMSend' = IF MEPEventRead # 1 THEN "Event"
                        ELSE IF eob_data_send THEN "PacketHeaderEOB" ELSE "idle"
          /\ Packets(MEPEventRead # 1) /\ UNCHANGED eob_data_send
    /\ UNCHANGED ends

\* EventHeader .. Data_15 and IdleDebug .. Debug17.
SendEOB(port) ==
    /\ FSMSend = "EOB"
    /\ \/ /\ port # "takes" /\ UNCHANGED sendVars
       \/ /\ port = "takes" /\ word < EOBWords - 1 /\ word' = word + 1
          /\ UNCHANGED <<FSMSend, MEPEventRead, eob_data_send>>
       \/ /\ port = "takes" /\ word = EOBWords - 1 /\ word' = 0 /\ FSMSend' = "idle"
          /\ UNCHANGED <<MEPEventRead, eob_data_send>>
    /\ ends' = IF word = EOBWords - 1 /\ port = "takes" THEN UpTo(2, ends) ELSE ends
    /\ Packets(FALSE)

SubSendFARM ==
    \/ SendIdle
    \/ \E port \in Ports :
          PacketHeader(port) \/ PacketHeaderEOB(port) \/ SendEvent(port) \/ SendEOB(port)

ResetSendLater ==
    /\ FIFOPACKETS' = 0
    /\ FSMSend' = "idle" /\ MEPEventRead' = 0 /\ word' = 0 /\ UNCHANGED eob_data_send
    /\ ends' = 0
\* ResetCounters when a burst begins, whatever the sender was doing.
ResetSend ==
    /\ FIFOPACKETS' = 0
    /\ FSMSend' = "idle" /\ MEPEventRead' = 0 /\ word' = 0 /\ eob_data_send' = FALSE
    /\ ends' = 0

Edge125 ==
    /\ FastEdge(PacketsFull)
    /\ IF BURST /\ FSMSendDetectors = "S0" THEN ResetSend ELSE SubSendFARM
    /\ eob_ev125' = (FSMSendDetectors = "S3")
    /\ UNCHANGED settled

Edge40(a) ==
    /\ SlowEdge(a)
    /\ settled' = IF ev40' = "eob" THEN sinceWord >= WordGap ELSE settled
    /\ UNCHANGED <<FIFOPACKETS, eob_ev125, sendVars, ends>>

SendNext == Edge125 \/ \E a \in Address \cup {NoAddress} : Edge40(a)

SendSpec == SendInit /\ [][SendNext]_allVars

-----------------------------------------------------------------------------
SendTypeOK ==
    /\ FarmTypeOK
    /\ FIFOPACKETS \in 0 .. PacketsSize /\ eob_ev125 \in BOOLEAN
    /\ FSMSend \in {"idle", "PacketHeader", "PacketHeaderEOB", "Event", "EOB"}
    /\ MEPEventRead \in 0 .. MEPEventNumber /\ eob_data_send \in BOOLEAN
    /\ word \in 0 .. (IF FSMSend = "EOB" THEN EOBWords ELSE EventWords) - 1
    /\ settled \in BOOLEAN /\ ends \in 0 .. 2

\* Events of the packet that are still in FIFOPACKETS.
ToRead == CASE FSMSend \in {"PacketHeader", "PacketHeaderEOB"} -> MEPEventRead
            [] FSMSend = "Event" -> MEPEventRead - 1
            [] OTHER -> 0

Regular == apart /\ ~activate.farm

\* Whenever words are at least WordGap clocks apart, and the port is free, FIFOPACKETS
\* holds exactly the events of the packet being sent and those of the next one: no
\* packet begins with an event of another.
PacketsAreWhole ==
    Regular /\ ~eob_data_send => FIFOPACKETS = ToRead + MEPeventWritten

\* The end of a burst takes every event of the burst with it, if it comes no sooner
\* after the last word than a word would.
EndTakesAll ==
    Regular /\ eob_data_send /\ settled => FIFOPACKETS = ToRead

\* When the memories have been reset, the end of the burst was sent to the farm,
\* once.
EndWasSent ==
    Regular /\ bursts > 0 /\ ~BURST /\ FSMSendDetectors = "S0" => ends = 1

=============================================================================
