--------------------------- MODULE GeneratePackets --------------------------
(***************************************************************************)
(* The events that the L0TP announces to the PC farm (SubGeneratePackets in  *)
(* ethlink.vhd).  Every word that SubSendDetectors sends, on the 40 MHz      *)
(* clock, is announced for one period of that clock; the machine on the      *)
(* 125 MHz clock looks at the announcement only when it is idle, takes the   *)
(* event's address from FIFODETECTORFARM if it is a trigger, and writes the   *)
(* event to FIFOPACKETS.                                                     *)
(*                                                                          *)
(* A step is an edge of one of the two clocks.  25 ns are a little more than *)
(* three periods of 8 ns, so three or four fast edges go by between two slow *)
(* ones.                                                                     *)
(***************************************************************************)
EXTENDS SendDetectors, Sequences

CONSTANTS
    Address,         \* addresses of SENDRAM
    FarmSize,        \* words of FIFODETECTORFARM, 64 in the firmware
    WordGap,         \* slow clocks between two words, for the promises below
    Sync,            \* fast clocks until a word written to it can be read, at most
    MEPEventNumber,  \* events in a packet to the farm
    BurstLimit       \* bound: bursts

ASSUME FarmAssumption == FarmSize \in Nat /\ WordGap \in Nat
                         /\ Sync \in Nat /\ Sync >= 1 /\ BurstLimit \in Nat
                         /\ MEPEventNumber \in Nat /\ MEPEventNumber >= 1

\* Fast clocks from an announcement until a trigger's address has crossed.
Cross == IF Sync > 2 THEN Sync ELSE 2

\* An event is written before the next word, and its address is not older than the
\* reset of the memories is long.
ASSUME GapAssumption == /\ WordGap >= 3 /\ 3 * WordGap >= Cross + 4
                        /\ WordGap <= Fixed_Latency + ResetTime

VARIABLES
    phase,               \* fast edges since the last slow one
    bursts,
    FIFODETECTORFARM,    \* the addresses, each with its age
    ev125,               \* register of ev40
    FSMPackets,
    data_send,           \* the event being written: one of the *_data_send flags
    q,                   \* output of FIFODETECTORFARM
    MEPeventWritten,     \* events written of the packet
    ETHLINKERROR,        \* a trigger found FIFOPACKETS full
    \* history
    due,                 \* events announced and not yet written
    sinceWord,           \* slow clocks since the last announced word, up to WordGap
    apart,               \* so far words were at least WordGap clocks apart
    written              \* the event written in this clock

fastVars == <<ev125, FSMPackets, data_send, q, MEPeventWritten, ETHLINKERROR,
              written>>
slowVars == <<bursts, sinceWord, apart>>
farmVars == <<phase, slowVars, FIFODETECTORFARM, due, fastVars>>

Reported == {"sob", "write", "chokeOn", "chokeOff", "errorOn", "errorOff"}

NoAddress == 0
None == [kind |-> "none", address |-> NoAddress]
Event(kind, a) == [kind |-> kind, address |-> IF kind = "write" THEN a ELSE NoAddress]

FarmInit ==
    /\ Init
    /\ phase = 0 /\ bursts = 0
    /\ FIFODETECTORFARM = <<>>
    /\ ev125 = "none" /\ FSMPackets = "idle" /\ data_send = "none"
    /\ q = NoAddress /\ MEPeventWritten = 0
    /\ ETHLINKERROR = FALSE
    /\ due = <<>> /\ written = None
    /\ sinceWord = WordGap /\ apart = TRUE

-----------------------------------------------------------------------------
FarmFull == Len(FIFODETECTORFARM) >= FarmSize

\* The reset of the memories ends.
Cleared == FSMSendDetectors = "S3" /\ FSMSendDetectors' = "S0_0"

\* An edge of the 40 MHz clock; a is the address in the cell, if there is one.
SlowEdge(a) ==
    /\ phase \in {3, 4} /\ phase' = 0
    /\ Clock40(a # NoAddress, FarmFull)
    /\ bursts' = IF BURST' /\ ~BURST THEN bursts + 1 ELSE bursts
    /\ bursts' <= BurstLimit
    /\ FIFODETECTORFARM' =
          IF Cleared THEN <<>>
          ELSE IF ev40' = "write" THEN Append(FIFODETECTORFARM, [address |-> a, age |-> 0])
          ELSE FIFODETECTORFARM
    /\ sinceWord' = IF ev40' \in Reported THEN 1 ELSE UpTo(WordGap, sinceWord)
    /\ apart' = (apart /\ (ev40' \in Reported => sinceWord >= WordGap))
    /\ due' = IF ~apart' THEN <<>>
              ELSE IF ev40' \in Reported THEN Append(due, Event(ev40', a)) ELSE due
    /\ UNCHANGED <<clk40, fastVars>>

-----------------------------------------------------------------------------
Older(f) == [i \in 1 .. Len(f) |-> [f[i] EXCEPT !.age = UpTo(Sync, f[i].age)]]

WritesNothing == UNCHANGED <<due, MEPeventWritten, ETHLINKERROR>> /\ written' = None

OneMore == MEPeventWritten' = MEPeventWritten + 1

\* ResetCounters, when a burst begins; the machine has long been idle.
ResetCounters ==
    IF BURST /\ FSMSendDetectors = "S0" THEN MEPeventWritten' = 0 /\ ETHLINKERROR' = FALSE
    ELSE UNCHANGED <<MEPeventWritten, ETHLINKERROR>>

IdleMisses ==
    /\ FSMPackets = "idle"
    /\ IF ev125 \in Reported \ {"chokeOff"}
       THEN FSMPackets' = "deadtime_1" /\ data_send' = ev125
       ELSE UNCHANGED <<FSMPackets, data_send>>
    /\ FIFODETECTORFARM' = Older(FIFODETECTORFARM)
    /\ ResetCounters /\ written' = None /\ UNCHANGED <<due, q>>
\* An announcement is noticed here and nowhere else.
Idle ==
    /\ FSMPackets = "idle"
    /\ IF ev125 \in Reported
       THEN FSMPackets' = "deadtime_1" /\ data_send' = ev125
       ELSE UNCHANGED <<FSMPackets, data_send>>
    /\ FIFODETECTORFARM' = Older(FIFODETECTORFARM)
    /\ ResetCounters /\ written' = None /\ UNCHANGED <<due, q>>

\* The address of a trigger takes a few clocks to cross from the other clock.
deadtime_1 ==
    /\ FSMPackets = "deadtime_1"
    /\ \/ /\ data_send # "write"
          /\ FSMPackets' = "SetFarmAddress"
          /\ FIFODETECTORFARM' = Older(FIFODETECTORFARM) /\ UNCHANGED q
       \/ /\ data_send = "write" /\ FIFODETECTORFARM # <<>>
          /\ FSMPackets' = "SetFarmAddress"
          /\ q' = Head(FIFODETECTORFARM).address
          /\ FIFODETECTORFARM' = Older(Tail(FIFODETECTORFARM))
       \/ /\ data_send = "write"
          /\ FIFODETECTORFARM # <<>> => Head(FIFODETECTORFARM).age < Sync
          /\ FIFODETECTORFARM' = Older(FIFODETECTORFARM) /\ UNCHANGED <<FSMPackets, q>>
    /\ WritesNothing /\ UNCHANGED data_send

\* The event is read from SENDRAM.
SetFarmAddress ==
    /\ FSMPackets = "SetFarmAddress" /\ FSMPackets' = "deadtime_2"
    /\ FIFODETECTORFARM' = Older(FIFODETECTORFARM)
    /\ WritesNothing /\ UNCHANGED <<data_send, q>>

deadtime_2 ==
    /\ FSMPackets = "deadtime_2" /\ FSMPackets' = "WriteEvent"
    /\ FIFODETECTORFARM' = Older(FIFODETECTORFARM)
    /\ WritesNothing /\ UNCHANGED <<data_send, q>>

\* A full FIFOPACKETS loses the event; only a trigger raises an error.
WriteEventStale(full) ==
    /\ FSMPackets = "WriteEvent" /\ FSMPackets' = "deadtime_0"
    /\ written' = Event("write", q) /\ OneMore /\ UNCHANGED ETHLINKERROR
    /\ due' = IF due = <<>> THEN <<>> ELSE Tail(due)
    /\ data_send' = "none"
    /\ FIFODETECTORFARM' = Older(FIFODETECTORFARM) /\ UNCHANGED q
WriteEvent(full) ==
    /\ FSMPackets = "WriteEvent" /\ FSMPackets' = "deadtime_0"
    /\ \/ /\ ~full /\ written' = Event(data_send, q) /\ OneMore
          /\ UNCHANGED ETHLINKERROR
       \/ /\ full /\ written' = None /\ UNCHANGED MEPeventWritten
          /\ ETHLINKERROR' = (ETHLINKERROR \/ data_send = "write")
    /\ due' = IF due = <<>> THEN <<>> ELSE Tail(due)
    /\ data_send' = "none"
    /\ FIFODETECTORFARM' = Older(FIFODETECTORFARM) /\ UNCHANGED q

\* A packet is full for one clock, in which SubSendFARM has to see it.
deadtime_0 ==
    /\ FSMPackets = "deadtime_0" /\ FSMPackets' = "idle"
    /\ MEPeventWritten' = IF MEPeventWritten = MEPEventNumber THEN 0 ELSE MEPeventWritten
    /\ FIFODETECTORFARM' = Older(FIFODETECTORFARM)
    /\ written' = None /\ UNCHANGED <<due, data_send, q, ETHLINKERROR>>

\* full: FIFOPACKETS has no room.
SubGeneratePackets(full) ==
    Idle \/ deadtime_1 \/ SetFarmAddress \/ deadtime_2 \/ WriteEvent(full) \/ deadtime_0

FastEdge(full) ==
    /\ phase < 4 /\ phase' = phase + 1
    /\ ev125' = ev40
    /\ SubGeneratePackets(full)
    /\ UNCHANGED <<detVars, slowVars>>

FarmNext ==
    \/ \E full \in BOOLEAN : FastEdge(full)
    \/ \E a \in Address \cup {NoAddress} : SlowEdge(a)

FarmSpec == FarmInit /\ [][FarmNext]_<<detVars, farmVars>>

-----------------------------------------------------------------------------
FarmTypeOK ==
    /\ phase \in 0 .. 4 /\ bursts \in 0 .. BurstLimit
    /\ \A i \in 1 .. Len(FIFODETECTORFARM) :
          FIFODETECTORFARM[i] \in [address : Address, age : 0 .. Sync]
    /\ Len(FIFODETECTORFARM) <= FarmSize
    /\ ev125 \in Reported \cup {"none", "eob"} /\ data_send \in Reported \cup {"none"}
    /\ FSMPackets \in {"idle", "deadtime_1", "SetFarmAddress", "deadtime_2",
                       "WriteEvent", "deadtime_0"}
    /\ MEPeventWritten \in 0 .. MEPEventNumber
    /\ MEPeventWritten = MEPEventNumber => FSMPackets = "deadtime_0"
    /\ (data_send = "none") = (FSMPackets \in {"idle", "deadtime_0"})

\* The farm is told of what the detectors were told, once and in the same order: the
\* event written is the oldest one announced, with the address of its trigger,
\* although a trigger's address and its announcement cross the clocks on different
\* ways and announcements are not queued.  An event is lost only if the port to the
\* farm may fill up.
FarmFollowsDetectors ==
    [][apart /\ FSMPackets = "WriteEvent" /\ FSMPackets' = "deadtime_0" =>
          /\ due # <<>>
          /\ written' = Head(due) \/ (activate.farm /\ written' = None)]_<<detVars, farmVars>>

\* When the memories have been reset nothing is left to announce.
BurstComplete == apart /\ FSMSendDetectors = "S0" => due = <<>> /\ FIFODETECTORFARM = <<>>

=============================================================================
