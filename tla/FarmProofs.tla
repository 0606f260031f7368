----------------------------- MODULE FarmProofs ------------------------------
(***************************************************************************)
(* Theorems about the words to the detectors, and about their announcements  *)
(* and packets to the farm, with no fairness.                                *)
(*                                                                           *)
(* IInv is the invariant of the words (SendDetectors), for any latency, dead *)
(* time, reset time and settings: whatever the requests, the detectors are   *)
(* stopped and resumed in turn, get no trigger while stopped, and triggers   *)
(* keep their distance.                                                      *)
(*                                                                           *)
(* FInv is the invariant of the announcements, for any spacing of the words  *)
(* and synchronisation that the assumptions of GeneratePackets allow: while  *)
(* the words are apart, the clocks since the last one bound the state of     *)
(* SubGeneratePackets (Pace), and the state tells what is due and what       *)
(* FIFODETECTORFARM holds (Due).  SInv adds the sender, for any packet and   *)
(* event sizes that those of SendFarm allow: while the run is Regular,       *)
(* FIFOPACKETS holds what the packets count (Whole) because a packet is out  *)
(* before the next one is full (InTime), and the end of the burst finds      *)
(* nothing on its way (Quiet, Ending).                                       *)
(*                                                                           *)
(* EInv adds the end of the burst (Closing): from the begin of the reset the  *)
(* fast clocks that the sender still needs (EndLeft) go down with every fast *)
(* clock, and they were fewer than the reset has; once the end is sent no    *)
(* event is owed that would wake the sender again (Owed).                    *)
(***************************************************************************)
EXTENDS SendFarm, SequenceTheorems, TLAPS

\* From the start of a burst the flags say what the detectors were told.
Told ==
    FSMSendDetectors \in {"S1", "S2"} =>
       /\ sentCHOKE_ON <=> "CHOKE" \in stopped
       /\ sentERROR_ON <=> "ERROR" \in stopped

\* The pointer is never further from the last trigger than the clock.
Behind == distance <= sinceTrigger + 1

\* The safe distance begins when the detectors are told to resume.
Safe ==
    /\ sentCHOKE_ON \/ sentERROR_ON => safedistance = 0
    /\ ~sentCHOKE_ON /\ ~sentERROR_ON => sinceResume >= safedistance + 1

\* The reset of the memories takes more clocks than the safe distance.
Resets ==
    /\ FSMSendDetectors = "S2" => latencycounter = 0
    /\ FSMSendDetectors = "S3" => sinceResume >= 4 \/ sinceResume >= latencycounter + 1

IInv == TypeOK /\ Told /\ Behind /\ Safe /\ Resets

-----------------------------------------------------------------------------
(***************************************************************************)
(* The words to the detectors.                                              *)
(***************************************************************************)
USE DEF Setting, Choking, Erring

LEMMA LongBounds == Long \in Nat /\ Long >= 4 /\ Long >= primitiveDT + 1
  BY TimeAssumption DEF Long

\* The types that altTTC and the registers of its outputs keep.
TtcTypeOK ==
    /\ activate \in Settings
    /\ BURST \in BOOLEAN /\ MACBusy \in 0 .. MACTime
    /\ FSMChoke \in Choking \cup {"Idle", "Idle2"} /\ FSMERROR \in Erring \cup {"Idle"}
    /\ BURST40 \in BOOLEAN /\ CHOKE_ON \in BOOLEAN /\ ERROR_ON \in BOOLEAN

LEMMA TtcTypes == TypeOK /\ altTTC => TtcTypeOK'
<1> SUFFICES ASSUME TypeOK, altTTC PROVE TtcTypeOK'
  OBVIOUS
<1>1. activate' \in Settings
  BY DEF TypeOK, altTTC
<1>2. BURST' \in BOOLEAN
  BY DEF TypeOK, altTTC, NextBurst
<1>3. MACBusy' \in 0 .. MACTime
  BY TimeAssumption DEF TypeOK, altTTC, NextMACBusy, MACReady
<1>4. FSMChoke' \in Choking \cup {"Idle", "Idle2"}
  <2>1. PICK c \in BOOLEAN : FSMChoke' = NextChoke(c)
    BY DEF altTTC
  <2>2. FSMChoke \in Choking \cup {"Idle", "Idle2"} /\ activate \in Setting
    BY SettingsAssumption DEF TypeOK
  <2> QED
    BY <2>1, <2>2 DEF NextChoke
<1>5. FSMERROR' \in Erring \cup {"Idle"}
  <2>1. PICK e \in BOOLEAN : FSMERROR' = NextERROR(e)
    BY DEF altTTC
  <2> QED
    BY <2>1 DEF TypeOK, NextERROR
<1>6. BURST40' \in BOOLEAN
  BY DEF TypeOK, altTTC
<1>7. CHOKE_ON' \in BOOLEAN
  <2>1. CHOKE_ON' = (FSMChoke \in Choking \/ ~MACReady)
    BY Zenon DEF altTTC
  <2> HIDE DEF Choking
  <2> QED
    BY <2>1, Zenon
<1>8. ERROR_ON' \in BOOLEAN
  <2> HIDE DEF Erring
  <2>1. ERROR_ON' = (FSMERROR \in Erring)
    BY DEF altTTC
  <2>2. CASE FSMERROR \in Erring
    BY <2>1, <2>2
  <2>3. CASE FSMERROR \notin Erring
    BY <2>1, <2>3
  <2> QED
    BY <2>2, <2>3
<1> QED
  BY <1>1, <1>2, <1>3, <1>4, <1>5, <1>6, <1>7, <1>8 DEF TtcTypeOK

\* What a word does to the history.
LEMMA History ==
  ASSUME TypeOK, NEW code, NEW event, Sends(code, event)
  PROVE  /\ stopped' \subseteq {"CHOKE", "ERROR"}
         /\ sinceTrigger' \in 1 .. Long /\ sinceResume' \in 1 .. Long
         /\ ev40' = event
         /\ event # "write" => sinceTrigger' = Long \/ sinceTrigger' = sinceTrigger + 1
         /\ event \notin {"chokeOff", "errorOff"} =>
                sinceResume' = Long \/ sinceResume' = sinceResume + 1
<1>1. stopped' \subseteq {"CHOKE", "ERROR"}
  BY DEF TypeOK, Sends
<1>2. sinceTrigger' \in 1 .. Long
  BY LongBounds DEF TypeOK, Sends, UpTo
<1>3. sinceResume' \in 1 .. Long
  BY LongBounds DEF TypeOK, Sends, UpTo
<1>4. event # "write" => sinceTrigger' = Long \/ sinceTrigger' = sinceTrigger + 1
  BY LongBounds DEF TypeOK, Sends, UpTo
<1>5. event \notin {"chokeOff", "errorOff"} =>
         sinceResume' = Long \/ sinceResume' = sinceResume + 1
  BY LongBounds DEF TypeOK, Sends, UpTo
<1> QED
  BY <1>1, <1>2, <1>3, <1>4, <1>5 DEF Sends

\* Every clock sends a word or none.
LEMMA SendsSomething ==
  ASSUME NEW q_b, NEW full, SubSendDetectors(q_b, full)
  PROVE  \E code, event : Sends(code, event)
<1>1. CASE S0_0 \/ S0 \/ S1
  BY <1>1 DEF S0_0, S0, S1, SendsNothing
<1>2. CASE ChokeOn \/ ErrorOn \/ Restart
  BY <1>2 DEF ChokeOn, ErrorOn, Restart, SendsNothing
<1>3. CASE ChokeOff \/ ErrorOff \/ SafeDistance
  BY <1>3 DEF ChokeOff, ErrorOff, SafeDistance, SendsNothing
<1>4. CASE Trigger(q_b, full) \/ EndOfBurst \/ S3
  BY <1>4 DEF Trigger, EndOfBurst, S3, SendsNothing
<1> QED
  BY <1>1, <1>2, <1>3, <1>4 DEF SubSendDetectors

LEMMA MovesType == TypeOK /\ Moves => distance' \in 0 .. primitiveDT + 2
  BY TimeAssumption DEF TypeOK, Moves, UpTo

\* The types that SubSendDetectors keeps.
DetTypeOK ==
    /\ sentCHOKE_ON \in BOOLEAN /\ sentERROR_ON \in BOOLEAN /\ RESTART \in BOOLEAN
    /\ FSMSendDetectors \in {"S0_0", "S0", "S1", "S2", "S3"}
    /\ latencycounter \in 0 .. Fixed_Latency + ResetTime
    /\ delayafterchoke \in 0 .. Fixed_Latency
    /\ CHOKE_ON_Delay \in 0 .. 3 /\ ERROR_ON_Delay \in 0 .. 3 /\ safedistance \in 0 .. 3
    /\ distance \in 0 .. primitiveDT + 2

LEMMA SendTypes ==
  ASSUME TypeOK, NEW q_b, NEW full, SubSendDetectors(q_b, full)
  PROVE  DetTypeOK'
<1> USE LatencyAssumption, TimeAssumption DEF DetTypeOK, requestVars
<1>1. CASE S0_0
  BY <1>1 DEF TypeOK, S0_0
<1>2. CASE S0
  <2>1. sentCHOKE_ON' = FALSE /\ sentERROR_ON' = FALSE
    BY <1>2 DEF S0
  <2>2. UNCHANGED <<RESTART, delayafterchoke, CHOKE_ON_Delay, ERROR_ON_Delay, safedistance>>
    BY <1>2 DEF S0
  <2>3. \/ FSMSendDetectors' = "S1" /\ UNCHANGED <<latencycounter, distance>>
        \/ FSMSendDetectors' = "S0" /\ latencycounter' = 0 /\ distance' = 0
    BY <1>2 DEF S0
  <2>4. RESTART' \in BOOLEAN /\ sentCHOKE_ON' \in BOOLEAN /\ sentERROR_ON' \in BOOLEAN
    BY <2>1, <2>2 DEF TypeOK
  <2> QED
    BY <2>2, <2>3, <2>4 DEF TypeOK
<1>3. CASE S1
  <2>1. UNCHANGED requestVars
    BY <1>3 DEF S1
  <2>2. \/ /\ latencycounter < Fixed_Latency - 3 /\ latencycounter' = latencycounter + 1
           /\ distance' = 0 /\ FSMSendDetectors' = "S1"
        \/ latencycounter' = 0 /\ FSMSendDetectors' = "S2" /\ UNCHANGED distance
    BY <1>3 DEF S1
  <2> QED
    BY <2>1, <2>2 DEF TypeOK
<1>4. CASE ChokeOn
  <2>1. /\ RESTART' = FALSE /\ sentCHOKE_ON' \in {TRUE, sentCHOKE_ON}
        /\ UNCHANGED <<sentERROR_ON, ERROR_ON_Delay>>
        /\ Moves /\ Stays
    BY <1>4 DEF ChokeOn
  <2>2. RESTART' \in BOOLEAN /\ sentCHOKE_ON' \in BOOLEAN /\ sentERROR_ON' \in BOOLEAN
    BY <2>1 DEF TypeOK
  <2>3. CHOKE_ON_Delay' \in 0 .. 3
    <3>1. \/ CHOKE_ON_Delay' = 0
          \/ CHOKE_ON_Delay # 3 /\ CHOKE_ON_Delay' = (CHOKE_ON_Delay + 1) % 8
      BY <1>4 DEF ChokeOn
    <3>2. CHOKE_ON_Delay \in 0 .. 3
      BY DEF TypeOK
    <3> QED
      BY <3>1, <3>2
  <2>4. safedistance' \in 0 .. 3 /\ delayafterchoke' \in 0 .. Fixed_Latency
    <3>1. \/ delayafterchoke' = 0 /\ safedistance' = 0
          \/ UNCHANGED <<delayafterchoke, safedistance>>
      BY <1>4 DEF ChokeOn
    <3> QED
      BY <3>1 DEF TypeOK
  <2> QED
    BY <2>1, <2>2, <2>3, <2>4, MovesType DEF TypeOK, Stays
<1>5. CASE ErrorOn
  <2>1. /\ RESTART' = FALSE /\ sentERROR_ON' \in {TRUE, sentERROR_ON}
        /\ UNCHANGED <<sentCHOKE_ON, CHOKE_ON_Delay>>
        /\ Moves /\ Stays
    BY <1>5 DEF ErrorOn
  <2>2. RESTART' \in BOOLEAN /\ sentCHOKE_ON' \in BOOLEAN /\ sentERROR_ON' \in BOOLEAN
    BY <2>1 DEF TypeOK
  <2>3. ERROR_ON_Delay' \in 0 .. 3
    <3>1. \/ ERROR_ON_Delay' = 0
          \/ ERROR_ON_Delay # 3 /\ ERROR_ON_Delay' = (ERROR_ON_Delay + 1) % 8
      BY <1>5 DEF ErrorOn
    <3>2. ERROR_ON_Delay \in 0 .. 3
      BY DEF TypeOK
    <3> QED
      BY <3>1, <3>2
  <2>4. safedistance' \in 0 .. 3 /\ delayafterchoke' \in 0 .. Fixed_Latency
    <3>1. \/ delayafterchoke' = 0 /\ safedistance' = 0
          \/ UNCHANGED <<delayafterchoke, safedistance>>
      BY <1>5 DEF ErrorOn
    <3> QED
      BY <3>1 DEF TypeOK
  <2> QED
    BY <2>1, <2>2, <2>3, <2>4, MovesType DEF TypeOK, Stays
<1>6. CASE Restart
  <2>1. RESTART' \in BOOLEAN
    BY <1>6, Zenon DEF Restart
  <2>2. delayafterchoke' \in 0 .. Fixed_Latency
    BY <1>6 DEF TypeOK, Restart
  <2> QED
    BY <1>6, <2>1, <2>2, MovesType DEF TypeOK, Restart, Stays
<1>7. CASE ChokeOff
  BY <1>7, MovesType DEF TypeOK, ChokeOff, Stays
<1>8. CASE ErrorOff
  BY <1>8, MovesType DEF TypeOK, ErrorOff, Stays
<1>9. CASE SafeDistance
  BY <1>9, MovesType DEF TypeOK, SafeDistance, InS2, Duty, Stays
<1>10. CASE Trigger(q_b, full)
  <2>1. distance' \in 0 .. primitiveDT + 2
    BY <1>10, MovesType DEF Trigger
  <2> QED
    BY <1>10, <2>1 DEF TypeOK, Trigger, Stays
<1>11. CASE EndOfBurst
  BY <1>11, MovesType DEF TypeOK, EndOfBurst
<1>12. CASE S3
  <2>1. /\ sentCHOKE_ON' = FALSE /\ sentERROR_ON' = FALSE
        /\ UNCHANGED <<CHOKE_ON_Delay, ERROR_ON_Delay>>
    BY <1>12 DEF S3
  <2>2. CASE /\ latencycounter # Fixed_Latency + ResetTime
             /\ latencycounter' = latencycounter + 1 /\ Moves
             /\ UNCHANGED <<FSMSendDetectors, delayafterchoke, RESTART, safedistance>>
    <3>1. /\ RESTART' \in BOOLEAN /\ sentCHOKE_ON' \in BOOLEAN
          /\ sentERROR_ON' \in BOOLEAN
      BY <2>1, <2>2 DEF TypeOK
    <3> QED
      BY <2>1, <2>2, <3>1, MovesType DEF TypeOK
  <2>3. CASE /\ latencycounter' = 0 /\ FSMSendDetectors' = "S0_0" /\ distance' = 0
             /\ delayafterchoke' = 0 /\ RESTART' = FALSE /\ safedistance' = 3
    <3>1. /\ RESTART' \in BOOLEAN /\ sentCHOKE_ON' \in BOOLEAN
          /\ sentERROR_ON' \in BOOLEAN
      BY <2>1, <2>3 DEF TypeOK
    <3> QED
      BY <2>1, <2>3, <3>1 DEF TypeOK
  <2> QED
    BY <1>12, <2>2, <2>3 DEF S3
<1> QED
  BY <1>1, <1>2, <1>3, <1>4, <1>5, <1>6, <1>7, <1>8, <1>9, <1>10, <1>11, <1>12
  DEF SubSendDetectors

-----------------------------------------------------------------------------
\* The types in the initial states.
LEMMA TypeInit == Init => TypeOK
<1> SUFFICES ASSUME Init PROVE TypeOK
  OBVIOUS
<1>1. Long \in 1 .. Long
  BY LongBounds
<1>2. TtcTypeOK
  <2>1. BURST = FALSE /\ BURST40 = FALSE /\ CHOKE_ON = FALSE /\ ERROR_ON = FALSE
    BY DEF Init
  <2>2. activate \in Settings /\ MACBusy = 0 /\ FSMChoke = "Idle" /\ FSMERROR = "Idle"
    BY DEF Init
  <2>3. /\ BURST \in BOOLEAN /\ BURST40 \in BOOLEAN
        /\ CHOKE_ON \in BOOLEAN /\ ERROR_ON \in BOOLEAN
    BY <2>1
  <2> QED
    BY <2>2, <2>3, TimeAssumption DEF TtcTypeOK
<1>3. DetTypeOK
  <2>1. sentCHOKE_ON = FALSE /\ sentERROR_ON = FALSE /\ RESTART = FALSE
    BY DEF Init
  <2>2. /\ FSMSendDetectors = "S0_0" /\ latencycounter = 0 /\ delayafterchoke = 0
        /\ CHOKE_ON_Delay = 0 /\ ERROR_ON_Delay = 0 /\ safedistance = 3 /\ distance = 0
    BY DEF Init
  <2>3. sentCHOKE_ON \in BOOLEAN /\ sentERROR_ON \in BOOLEAN /\ RESTART \in BOOLEAN
    BY <2>1
  <2> QED
    BY <2>2, <2>3, LatencyAssumption, TimeAssumption DEF DetTypeOK
<1>4. clk40 \in {0, 1} /\ stopped \subseteq {"CHOKE", "ERROR"}
  BY DEF Init
<1>5. sinceTrigger \in 1 .. Long /\ sinceResume \in 1 .. Long
  BY <1>1 DEF Init
<1> QED
  BY <1>2, <1>3, <1>4, <1>5 DEF TypeOK, TtcTypeOK, DetTypeOK

LEMMA TypeStep == TypeOK /\ Next => TypeOK'
<1> SUFFICES ASSUME TypeOK, Next PROVE TypeOK'
  OBVIOUS
<1>1. PICK q_b \in BOOLEAN, full \in BOOLEAN : altTTC /\ SubSendDetectors(q_b, full)
  BY DEF Next, Clock40
<1>2. TtcTypeOK'
  BY <1>1, TtcTypes
<1>3. DetTypeOK'
  BY <1>1, SendTypes
<1>4. clk40' \in {0, 1}
  BY DEF TypeOK, Next
<1>5. /\ stopped' \subseteq {"CHOKE", "ERROR"}
      /\ sinceTrigger' \in 1 .. Long /\ sinceResume' \in 1 .. Long
  BY <1>1, SendsSomething, History
<1> QED
  BY <1>2, <1>3, <1>4, <1>5 DEF TypeOK, TtcTypeOK, DetTypeOK

\* The flags follow the words.
LEMMA ToldStep ==
  ASSUME TypeOK, Told, NEW q_b, NEW full, SubSendDetectors(q_b, full)
  PROVE  Told'
<1> USE DEF Told, SendsNothing, Sends, requestVars
<1>1. CASE S0_0 \/ S3
  BY <1>1 DEF S0_0, S3
<1>2. CASE S0
  BY <1>2 DEF S0
<1>3. CASE S1
  BY <1>3 DEF S1
<1>4. CASE ChokeOn
  <2>1. UNCHANGED sentERROR_ON /\ UNCHANGED FSMSendDetectors /\ FSMSendDetectors = "S2"
    BY <1>4 DEF ChokeOn, InS2, Stays
  <2>2. \/ sentCHOKE_ON' = TRUE /\ stopped' = stopped \cup {"CHOKE"}
        \/ UNCHANGED <<sentCHOKE_ON, stopped>>
    BY <1>4 DEF ChokeOn
  <2> QED
    BY <2>1, <2>2
<1>5. CASE ErrorOn
  <2>1. UNCHANGED sentCHOKE_ON /\ UNCHANGED FSMSendDetectors /\ FSMSendDetectors = "S2"
    BY <1>5 DEF ErrorOn, InS2, Stays
  <2>2. \/ sentERROR_ON' = TRUE /\ stopped' = stopped \cup {"ERROR"}
        \/ UNCHANGED <<sentERROR_ON, stopped>>
    BY <1>5 DEF ErrorOn
  <2> QED
    BY <2>1, <2>2
<1>6. CASE Restart \/ SafeDistance
  BY <1>6 DEF Restart, SafeDistance, InS2, Stays
<1>7. CASE ChokeOff
  BY <1>7 DEF ChokeOff, InS2, Stays
<1>8. CASE ErrorOff
  BY <1>8 DEF ErrorOff, InS2, Stays
<1>9. CASE Trigger(q_b, full)
  BY <1>9 DEF Trigger, InS2, Stays
<1>10. CASE EndOfBurst
  BY <1>10 DEF EndOfBurst
<1> QED
  BY <1>1, <1>2, <1>3, <1>4, <1>5, <1>6, <1>7, <1>8, <1>9, <1>10 DEF SubSendDetectors

LEMMA AtMostTwo ==
  ASSUME NEW d \in {0, 2}, NEW n \in Nat, n >= 1
  PROVE  d <= n + 1
<1>1. n + 1 \in Int /\ n + 1 >= 2
  OBVIOUS
<1> QED
  BY <1>1

\* The pointer moves one cell at most, and goes back to two when a trigger is due.
LEMMA BehindStep ==
  ASSUME TypeOK, Behind, NEW q_b, NEW full, SubSendDetectors(q_b, full)
  PROVE  Behind'
<1>1. PICK code, event : Sends(code, event)
  BY SendsSomething
<1>2. sinceTrigger' \in 1 .. Long
  BY <1>1, History
<1>3. /\ distance \in 0 .. primitiveDT + 2 /\ sinceTrigger \in 1 .. Long
      /\ distance <= sinceTrigger + 1
  BY DEF TypeOK, Behind
<1>4. CASE distance' \in {0, 2}
  <2>1. sinceTrigger' \in Nat /\ sinceTrigger' >= 1
    BY <1>2, LongBounds
  <2>2. distance' <= sinceTrigger' + 1
    BY <2>1, <1>4, AtMostTwo
  <2> QED
    BY <2>2 DEF Behind
<1>5. CASE /\ Moves \/ UNCHANGED distance
           /\ sinceTrigger' = Long \/ sinceTrigger' = sinceTrigger + 1
  <2>1. distance' \in 0 .. primitiveDT + 2 /\ distance' <= distance + 1
    BY <1>3, <1>5, TimeAssumption DEF Moves, UpTo
  <2>2. CASE sinceTrigger' = Long
    BY <2>1, <2>2, LongBounds, TimeAssumption DEF Behind
  <2>3. CASE sinceTrigger' = sinceTrigger + 1
    BY <1>3, <2>1, <2>3 DEF Behind
  <2> QED
    BY <1>5, <2>2, <2>3
<1>6. ASSUME NEW c, NEW e, Sends(c, e), e # "write", Moves \/ UNCHANGED distance
      PROVE  Behind'
  BY <1>5, <1>6, History
<1>7. CASE S0_0 \/ S1
  <2>1. SendsNothing /\ (distance' = 0 \/ UNCHANGED distance)
    BY <1>7 DEF S0_0, S1
  <2> QED
    BY <1>4, <1>6, <2>1 DEF SendsNothing
<1>12. CASE S0
  <2>1. distance' = 0 \/ UNCHANGED distance
    BY <1>12 DEF S0
  <2>2. Sends("SOB", "sob") \/ SendsNothing
    BY <1>12, Zenon DEF S0
  <2>3. CASE distance' = 0
    BY <1>4, <2>3
  <2>4. CASE UNCHANGED distance
    BY <1>6, <2>2, <2>4 DEF SendsNothing
  <2> QED
    BY <2>1, <2>3, <2>4
<1>8. CASE ChokeOn \/ ErrorOn \/ Restart
  BY <1>6, <1>8 DEF ChokeOn, ErrorOn, Restart, SendsNothing
<1>9. CASE ChokeOff \/ ErrorOff \/ SafeDistance
  BY <1>6, <1>9 DEF ChokeOff, ErrorOff, SafeDistance, SendsNothing
<1>10. CASE Trigger(q_b, full)
  BY <1>4, <1>6, <1>10 DEF Trigger, Writes, SendsNothing
<1>11. CASE EndOfBurst \/ S3
  BY <1>4, <1>6, <1>11 DEF EndOfBurst, S3, SendsNothing
<1> QED
  BY <1>7, <1>8, <1>9, <1>10, <1>11, <1>12 DEF SubSendDetectors

\* A trigger needs both flags clear and a safe distance of three.
LEMMA SafeStep ==
  ASSUME TypeOK, Safe, Resets, NEW q_b, NEW full, SubSendDetectors(q_b, full)
  PROVE  Safe'
<1>1. PICK code, event : Sends(code, event)
  BY SendsSomething
<1>2. /\ sinceResume' \in 1 .. Long /\ sinceResume \in 1 .. Long
      /\ Long \in Nat /\ Long >= 4 /\ safedistance \in 0 .. 3
  BY <1>1, History, LongBounds DEF TypeOK
<1>3. ASSUME NEW c, NEW e, Sends(c, e), e \notin {"chokeOff", "errorOff"}
      PROVE  sinceResume' = Long \/ sinceResume' = sinceResume + 1
  BY <1>3, History
<1>4. SendsNothing => sinceResume' = Long \/ sinceResume' = sinceResume + 1
  BY <1>3 DEF SendsNothing
<1>5. CASE safedistance' = 0
  BY <1>2, <1>5 DEF Safe
\* The flags stay, or are cleared, and so does the safe distance.
<1>6. CASE /\ UNCHANGED safedistance
           /\ sentCHOKE_ON' => sentCHOKE_ON
           /\ sentERROR_ON' => sentERROR_ON
           /\ sinceResume' = Long \/ sinceResume' = sinceResume + 1
  <2>1. sentCHOKE_ON' \/ sentERROR_ON' => safedistance' = 0
    BY <1>6 DEF Safe
  <2>2. sinceResume >= safedistance + 1
    BY <1>2 DEF Safe
  <2>3. sinceResume' >= safedistance' + 1
    BY <1>2, <1>6, <2>2
  <2> QED
    BY <2>1, <2>3 DEF Safe
<1>7. CASE S0_0 \/ S1
  <2>1. SendsNothing /\ UNCHANGED <<safedistance, sentCHOKE_ON, sentERROR_ON>>
    BY <1>7, Zenon DEF S0_0, S1, requestVars
  <2> QED
    BY <1>4, <1>6, <2>1
<1>8. CASE S0
  <2>1. /\ UNCHANGED safedistance /\ ~sentCHOKE_ON' /\ ~sentERROR_ON'
        /\ Sends("SOB", "sob") \/ SendsNothing
    BY <1>8, Zenon DEF S0
  <2> QED
    BY <1>3, <1>4, <1>6, <2>1
<1>9. CASE ChokeOn
  <2>1. \/ safedistance' = 0
        \/ SendsNothing /\ UNCHANGED <<safedistance, sentCHOKE_ON, sentERROR_ON>>
    BY <1>9, Zenon DEF ChokeOn
  <2> QED
    BY <1>4, <1>5, <1>6, <2>1
<1>10. CASE ErrorOn
  <2>1. \/ safedistance' = 0
        \/ SendsNothing /\ UNCHANGED <<safedistance, sentCHOKE_ON, sentERROR_ON>>
    BY <1>10, Zenon DEF ErrorOn
  <2> QED
    BY <1>4, <1>5, <1>6, <2>1
<1>11. CASE Restart
  BY <1>4, <1>6, <1>11 DEF Restart
<1>12. CASE ChokeOff
  <2>1. sentCHOKE_ON /\ UNCHANGED safedistance
    BY <1>12 DEF ChokeOff, InS2, Duty
  <2> QED
    BY <1>5, <2>1 DEF Safe
<1>13. CASE ErrorOff
  <2>1. sentERROR_ON /\ UNCHANGED safedistance
    BY <1>13 DEF ErrorOff, InS2, Duty
  <2> QED
    BY <1>5, <2>1 DEF Safe
<1>14. CASE SafeDistance
  <2>1. /\ ~sentCHOKE_ON /\ ~sentERROR_ON /\ safedistance # 3
    BY <1>14 DEF SafeDistance, InS2, Duty
  <2>2. /\ UNCHANGED <<sentCHOKE_ON, sentERROR_ON>>
        /\ safedistance' = safedistance + 1 /\ SendsNothing
    BY <1>14 DEF SafeDistance
  <2>3. sinceResume >= safedistance + 1
    BY <2>1 DEF Safe
  <2>4. sinceResume' >= safedistance' + 1
    BY <1>2, <1>4, <2>1, <2>2, <2>3
  <2> QED
    BY <2>1, <2>2, <2>4 DEF Safe
<1>15. CASE Trigger(q_b, full)
  <2>1. UNCHANGED <<safedistance, sentCHOKE_ON, sentERROR_ON>>
    BY <1>15 DEF Trigger, requestVars
  <2>2. sinceResume' = Long \/ sinceResume' = sinceResume + 1
    BY <1>3, <1>4, <1>15 DEF Trigger
  <2> QED
    BY <1>6, <2>1, <2>2
<1>16. CASE EndOfBurst
  <2>1. UNCHANGED <<safedistance, sentCHOKE_ON, sentERROR_ON>>
    BY <1>16 DEF EndOfBurst, requestVars
  <2>2. sinceResume' = Long \/ sinceResume' = sinceResume + 1
    BY <1>3, <1>16 DEF EndOfBurst
  <2> QED
    BY <1>6, <2>1, <2>2
<1>17. CASE S3
  <2>1. SendsNothing /\ ~sentCHOKE_ON' /\ ~sentERROR_ON'
    BY <1>17 DEF S3
  <2>2. CASE UNCHANGED safedistance
    BY <1>4, <1>6, <2>1, <2>2
  <2>3. CASE latencycounter = Fixed_Latency + ResetTime /\ safedistance' = 3
    <3>1. latencycounter >= 3 /\ latencycounter \in Nat
      BY <2>3, LatencyAssumption, TimeAssumption
    <3>2. sinceResume >= 4
      BY <1>17, <1>2, <3>1 DEF S3, Resets
    <3>3. sinceResume' >= 4
      BY <1>2, <1>4, <2>1, <3>2
    <3> QED
      BY <2>1, <2>3, <3>3 DEF Safe
  <2> QED
    BY <1>17, <2>2, <2>3 DEF S3
<1> QED
  BY <1>7, <1>8, <1>9, <1>10, <1>11, <1>12, <1>13, <1>14, <1>15, <1>16, <1>17
  DEF SubSendDetectors

\* The reset runs from zero to a limit over three.
LEMMA ResetsStep ==
  ASSUME TypeOK, Resets, NEW q_b, NEW full, SubSendDetectors(q_b, full)
  PROVE  Resets'
<1>1. PICK code, event : Sends(code, event)
  BY SendsSomething
<1>2. /\ sinceResume' \in 1 .. Long /\ sinceResume \in 1 .. Long
      /\ Long \in Nat /\ Long >= 4 /\ latencycounter \in Nat
  BY <1>1, History, LongBounds, LatencyAssumption, TimeAssumption DEF TypeOK
<1>3. SendsNothing => sinceResume' = Long \/ sinceResume' = sinceResume + 1
  BY History DEF SendsNothing
<1>4. CASE FSMSendDetectors' = "S2" /\ latencycounter' = 0
  BY <1>4 DEF Resets
<1>5. CASE FSMSendDetectors' \in {"S0_0", "S0", "S1"}
  BY <1>5 DEF Resets
<1>6. CASE FSMSendDetectors = "S2" /\ Stays
  BY <1>4, <1>6 DEF Resets, Stays
<1>7. CASE S0_0 \/ S0 \/ S1
  BY <1>4, <1>5, <1>7 DEF S0_0, S0, S1
<1>8. CASE ChokeOn \/ ErrorOn \/ Restart
  BY <1>6, <1>8 DEF ChokeOn, ErrorOn, Restart, InS2
<1>9. CASE ChokeOff \/ ErrorOff \/ SafeDistance
  BY <1>6, <1>9 DEF ChokeOff, ErrorOff, SafeDistance, InS2
<1>10. CASE Trigger(q_b, full)
  BY <1>6, <1>10 DEF Trigger, InS2
<1>11. CASE EndOfBurst
  <2>1. latencycounter' = 0 /\ FSMSendDetectors' = "S3"
    BY <1>11 DEF EndOfBurst, Resets
  <2> QED
    BY <1>2, <2>1 DEF Resets
<1>12. CASE S3
  <2>1. FSMSendDetectors = "S3" /\ SendsNothing
    BY <1>12 DEF S3
  <2>2. \/ FSMSendDetectors' = "S0_0"
        \/ FSMSendDetectors' = "S3" /\ latencycounter' = latencycounter + 1
    BY <1>12 DEF S3
  <2>3. CASE FSMSendDetectors' = "S3" /\ latencycounter' = latencycounter + 1
    <3>1. sinceResume >= 4 \/ sinceResume >= latencycounter + 1
      BY <2>1 DEF Resets
    <3>2. sinceResume' >= 4 \/ sinceResume' >= latencycounter' + 1
      BY <1>2, <1>3, <2>1, <2>3, <3>1
    <3> QED
      BY <2>3, <3>2 DEF Resets
  <2> QED
    BY <1>5, <2>2, <2>3
<1> QED
  BY <1>7, <1>8, <1>9, <1>10, <1>11, <1>12 DEF SubSendDetectors

-----------------------------------------------------------------------------
LEMMA IInvInit == Init => IInv
<1> SUFFICES ASSUME Init PROVE IInv
  OBVIOUS
<1>1. Long >= 4 /\ Long \in Nat
  BY LongBounds
<1> QED
  BY <1>1, TypeInit DEF Init, IInv, Told, Behind, Safe, Resets

LEMMA IInvStep == IInv /\ [Next]_detVars => IInv'
<1> SUFFICES ASSUME IInv, [Next]_detVars PROVE IInv'
  OBVIOUS
<1>1. CASE Next
  <2>1. PICK q_b \in BOOLEAN, full \in BOOLEAN : SubSendDetectors(q_b, full)
    BY <1>1 DEF Next, Clock40
  <2> QED
    BY <1>1, <2>1, TypeStep, ToldStep, BehindStep, SafeStep, ResetsStep DEF IInv
<1>2. CASE UNCHANGED detVars
  BY <1>2 DEF IInv, TypeOK, Told, Behind, Safe, Resets, detVars, ttcVars, requestVars,
              outputVars
<1> QED
  BY <1>1, <1>2

LEMMA Invariance == Spec => []IInv
  BY IInvInit, IInvStep, PTL DEF Spec

\* Type correctness, for all latencies, dead times and reset times: the shared
\* counters of SubSendDetectors never pass their limits.
THEOREM TypeCorrect == Spec => []TypeOK
<1>1. IInv => TypeOK
  BY DEF IInv
<1> QED
  BY Invariance, <1>1, PTL

\* Whatever requests the detectors make, and in whatever order, SubSendDetectors
\* tells them to stop and to resume in turn and sends no trigger in between.
THEOREM StopAndResumeAlways == Spec => StopAndResume
<1> DEFINE A == /\ ev40' = "chokeOn" => "CHOKE" \notin stopped
                /\ ev40' = "chokeOff" => "CHOKE" \in stopped
                /\ ev40' = "errorOn" => "ERROR" \notin stopped
                /\ ev40' = "errorOff" => "ERROR" \in stopped
                /\ ev40' = "write" => stopped = {}
<1>1. IInv /\ [Next]_detVars => [A]_detVars
  <2> SUFFICES ASSUME IInv, Next PROVE A
    OBVIOUS
  <2>1. PICK q_b \in BOOLEAN, full \in BOOLEAN : SubSendDetectors(q_b, full)
    BY DEF Next, Clock40
  <2>2. stopped \subseteq {"CHOKE", "ERROR"} /\ Told
    BY DEF IInv, TypeOK
  <2> USE DEF SendsNothing, Sends
  <2>3. CASE S0_0 \/ S0 \/ S1 \/ EndOfBurst \/ S3
    BY <2>3 DEF S0_0, S0, S1, EndOfBurst, S3
  <2>4. CASE ChokeOn
    BY <2>2, <2>4 DEF ChokeOn, InS2, Duty, Told
  <2>5. CASE ErrorOn
    BY <2>2, <2>5 DEF ErrorOn, InS2, Duty, Told
  <2>6. CASE Restart \/ SafeDistance
    BY <2>6 DEF Restart, SafeDistance
  <2>7. CASE ChokeOff
    BY <2>2, <2>7 DEF ChokeOff, InS2, Duty, Told
  <2>8. CASE ErrorOff
    BY <2>2, <2>8 DEF ErrorOff, InS2, Duty, Told
  <2>9. CASE Trigger(q_b, full)
    BY <2>2, <2>9 DEF Trigger, Writes, MaySend, InS2, Told
  <2> QED
    BY <2>1, <2>3, <2>4, <2>5, <2>6, <2>7, <2>8, <2>9 DEF SubSendDetectors
<1> QED
  BY Invariance, <1>1, PTL DEF Spec, StopAndResume

\* Whatever the dead time and the requests, two triggers keep their distance, and
\* the first one after a resume comes no earlier than the safe distance.
THEOREM TriggersKeepDistanceAlways == Spec => TriggersKeepDistance
<1> DEFINE A == ev40' = "write" => sinceTrigger > primitiveDT /\ sinceResume >= 4
<1>1. IInv /\ [Next]_detVars => [A]_detVars
  <2> SUFFICES ASSUME IInv, Next, ev40' = "write"
               PROVE  sinceTrigger > primitiveDT /\ sinceResume >= 4
    OBVIOUS
  <2>1. PICK q_b \in BOOLEAN, full \in BOOLEAN : SubSendDetectors(q_b, full)
    BY DEF Next, Clock40
  <2>2. Writes(q_b, full)
    <3> USE DEF SendsNothing, Sends
    <3>1. ~(S0_0 \/ S0 \/ S1 \/ EndOfBurst \/ S3)
      BY DEF S0_0, S0, S1, EndOfBurst, S3
    <3>2. ~(ChokeOn \/ ErrorOn \/ Restart)
      BY DEF ChokeOn, ErrorOn, Restart
    <3>3. ~(ChokeOff \/ ErrorOff \/ SafeDistance)
      BY DEF ChokeOff, ErrorOff, SafeDistance
    <3> QED
      BY <2>1, <3>1, <3>2, <3>3 DEF SubSendDetectors, Trigger
  <2>3. distance > primitiveDT + 1 /\ safedistance = 3 /\ ~sentCHOKE_ON /\ ~sentERROR_ON
    BY <2>2 DEF Writes, MaySend, FarEnough
  <2>4. sinceTrigger > primitiveDT
    <3>1. distance <= sinceTrigger + 1 /\ distance \in Nat /\ sinceTrigger \in Nat
      BY LongBounds, TimeAssumption DEF IInv, TypeOK, Behind
    <3> QED
      BY <2>3, <3>1, TimeAssumption
  <2>5. sinceResume >= 4
    BY <2>3 DEF IInv, Safe
  <2> QED
    BY <2>4, <2>5
<1> QED
  BY Invariance, <1>1, PTL DEF Spec, TriggersKeepDistance

-----------------------------------------------------------------------------
(***************************************************************************)
(* The announcements.                                                       *)
(***************************************************************************)
HIDE DEF Setting, Choking, Erring

\* Fast clocks since the last announced word, at least.
Clocks == 3 * (sinceWord - 1) + phase

\* The states in which a word is being announced.
Sequence == {"deadtime_1", "SetFarmAddress", "deadtime_2", "WriteEvent"}

\* A word that the machine has not noticed.
Pending == sinceWord = 1 /\ phase <= 1

\* The types, and what each state of the machine has latched.
FarmTypes ==
    /\ TypeOK
    /\ phase \in 0 .. 4
    /\ sinceWord \in 1 .. WordGap
    /\ FSMPackets \in Sequence \cup {"idle", "deadtime_0"}
    /\ FSMPackets \in Sequence => data_send \in Reported
    /\ FIFODETECTORFARM \in Seq([address : Address \cup {NoAddress}, age : 0 .. Sync])
    /\ MEPeventWritten \in 0 .. MEPEventNumber
    /\ MEPeventWritten = MEPEventNumber => FSMPackets = "deadtime_0"

\* The burst gate and its register.
Gate ==
    /\ FSMSendDetectors \in {"S3", "S0_0"} => ~BURST /\ ~BURST40
    /\ FSMSendDetectors \in {"S1", "S2"} => (BURST => BURST40)
    /\ FSMSendDetectors = "S0" => (BURST40 => BURST)

\* The word shows in ev40 in its first slow clock, and in ev125 one fast clock later.
Register ==
    /\ ev40 \in Reported <=> sinceWord = 1
    /\ phase > 0 => ev125 = ev40

\* The state of the machine tells how long ago the last word was announced.
Pace ==
    /\ phase = 0 /\ ev125 \in Reported =>
          FSMPackets \in {"deadtime_1", "SetFarmAddress", "deadtime_2"}
    /\ sinceWord = 1 =>
          /\ phase = 0 => FSMPackets \in {"idle", "deadtime_0"}
          /\ phase = 0 /\ FSMPackets = "deadtime_0" => 3 * WordGap <= Cross + 4
          /\ phase = 1 => FSMPackets = "idle"
          /\ phase = 2 => FSMPackets = "deadtime_1"
          /\ phase = 3 => FSMPackets \in {"deadtime_1", "SetFarmAddress"}
          /\ phase = 4 => FSMPackets \in {"deadtime_1", "SetFarmAddress", "deadtime_2"}
    /\ FSMPackets = "deadtime_1" => Clocks <= Cross
    /\ FSMPackets = "SetFarmAddress" => Clocks <= Cross + 1
    /\ FSMPackets = "deadtime_2" => Clocks <= Cross + 2 /\ Clocks >= 3
    /\ FSMPackets = "WriteEvent" => Clocks <= Cross + 3 /\ Clocks >= 4
    /\ FSMPackets = "deadtime_0" =>
          Clocks <= Cross + 4 /\ (sinceWord > 1 => Clocks >= 5)

\* The address of a trigger is on its way, alone.
Waits(kind, a, fifo, clocks) ==
    IF kind = "write"
    THEN Len(fifo) = 1 /\ fifo[1].address = a /\ (fifo[1].age >= Sync \/ fifo[1].age >= clocks)
    ELSE fifo = <<>>

\* What is due is what is announced or being written.
Due ==
    /\ Pending => \E a \in Address \cup {NoAddress} :
                     /\ due = <<Event(ev40, a)>>
                     /\ Waits(ev40, a, FIFODETECTORFARM, Clocks)
    /\ FSMPackets = "deadtime_1" =>
          \E a \in Address \cup {NoAddress} :
                     /\ due = <<Event(data_send, a)>>
                     /\ Waits(data_send, a, FIFODETECTORFARM, Clocks)
    /\ FSMPackets \in {"SetFarmAddress", "deadtime_2", "WriteEvent"} =>
          due = <<Event(data_send, q)>> /\ FIFODETECTORFARM = <<>>
    /\ FSMPackets \in {"idle", "deadtime_0"} /\ ~Pending =>
          due = <<>> /\ FIFODETECTORFARM = <<>>

\* The latency after the burst outlasts the last announcement.
Ended ==
    /\ FSMSendDetectors = "S3" => sinceWord = WordGap \/ sinceWord >= latencycounter + 2
    /\ FSMSendDetectors \in {"S0_0", "S0"} =>
          /\ sinceWord = WordGap
          /\ \/ FSMPackets = "idle"
             \/ FSMSendDetectors = "S0_0" /\ phase = 0 /\ FSMPackets = "deadtime_0"

\* The inductive invariant of the announcements.
FInv == FarmTypes /\ Gate /\ Register /\ Resets /\ (apart => Pace /\ Due /\ Ended)

-----------------------------------------------------------------------------
USE DEF Sequence

\* What the assumptions say of the constants.
LEMMA Gaps ==
  /\ WordGap \in Nat /\ WordGap >= 3 /\ Sync \in Nat /\ Sync >= 1
  /\ Cross \in Nat /\ Cross >= 2 /\ Cross >= Sync /\ 3 * WordGap >= Cross + 4
  /\ Fixed_Latency + ResetTime \in Nat /\ WordGap <= Fixed_Latency + ResetTime
  BY FarmAssumption, GapAssumption, LatencyAssumption, TimeAssumption DEF Cross

\* What SubSendDetectors says and where it goes, in a clock.
LEMMA Words ==
  ASSUME NEW b, NEW full, SubSendDetectors(b, full)
  PROVE  /\ ev40' \in Reported \cup {"none", "eob"}
         /\ FSMSendDetectors = "S0_0" => FSMSendDetectors' = "S0" /\ ev40' = "none"
         /\ FSMSendDetectors = "S0" =>
               \/ BURST40 /\ FSMSendDetectors' = "S1" /\ ev40' = "sob"
               \/ ~BURST40 /\ FSMSendDetectors' = "S0" /\ ev40' = "none"
         /\ FSMSendDetectors = "S1" => FSMSendDetectors' \in {"S1", "S2"} /\ ev40' = "none"
         /\ FSMSendDetectors = "S2" =>
               \/ BURST40 /\ FSMSendDetectors' = "S2" /\ ev40' # "eob"
               \/ /\ ~BURST40 /\ FSMSendDetectors' = "S3" /\ ev40' = "eob"
                  /\ UNCHANGED latencycounter
         /\ FSMSendDetectors = "S3" =>
               /\ ev40' = "none"
               /\ \/ FSMSendDetectors' = "S3" /\ latencycounter' = latencycounter + 1
                  \/ /\ FSMSendDetectors' = "S0_0"
                     /\ latencycounter = Fixed_Latency + ResetTime
<1> USE DEF SendsNothing, Sends, Reported
<1>1. CASE S0_0
  BY <1>1 DEF S0_0
<1>2. CASE S0
  BY <1>2 DEF S0
<1>3. CASE S1
  BY <1>3 DEF S1
<1>4. CASE ChokeOn \/ ErrorOn \/ Restart
  BY <1>4 DEF ChokeOn, ErrorOn, Restart, InS2, Stays
<1>5. CASE ChokeOff \/ ErrorOff \/ SafeDistance
  BY <1>5 DEF ChokeOff, ErrorOff, SafeDistance, InS2, Stays
<1>6. CASE Trigger(b, full)
  BY <1>6 DEF Trigger, InS2, Stays
<1>7. CASE EndOfBurst
  BY <1>7 DEF EndOfBurst
<1>8. CASE S3
  BY <1>8 DEF S3
<1> QED
  BY <1>1, <1>2, <1>3, <1>4, <1>5, <1>6, <1>7, <1>8 DEF SubSendDetectors

\* A slow clock keeps the invariant of the words (IInv), and the gate.
LEMMA DetStep ==
  ASSUME TypeOK, Gate, Resets, NEW a, SlowEdge(a)
  PROVE  TypeOK' /\ Gate' /\ Resets'
<1> DEFINE b == a # NoAddress
<1>1. altTTC /\ SubSendDetectors(b, FarmFull) /\ UNCHANGED clk40
  BY DEF SlowEdge, Clock40
<1> HIDE DEF b
<1>2. TypeOK'
  <2>1. TtcTypeOK'
    BY <1>1, TtcTypes
  <2>2. DetTypeOK'
    BY <1>1, SendTypes
  <2>3. clk40' \in {0, 1}
    BY <1>1 DEF TypeOK
  <2>4. /\ stopped' \subseteq {"CHOKE", "ERROR"}
        /\ sinceTrigger' \in 1 .. Long /\ sinceResume' \in 1 .. Long
    BY <1>1, SendsSomething, History
  <2> QED
    BY <2>1, <2>2, <2>3, <2>4 DEF TypeOK, TtcTypeOK, DetTypeOK
<1>3. Resets'
  BY <1>1, ResetsStep
<1>4. Gate'
  <2>1. FSMSendDetectors \in {"S0_0", "S0", "S1", "S2", "S3"}
    BY DEF TypeOK
  <2>2. BURST40' = BURST
    BY <1>1 DEF altTTC
  <2>3. /\ FSMSendDetectors = "S0_0" => FSMSendDetectors' = "S0"
        /\ FSMSendDetectors = "S0" =>
               (BURST40 /\ FSMSendDetectors' = "S1") \/ (~BURST40 /\ FSMSendDetectors' = "S0")
        /\ FSMSendDetectors = "S1" => FSMSendDetectors' \in {"S1", "S2"}
        /\ FSMSendDetectors = "S2" =>
               (BURST40 /\ FSMSendDetectors' = "S2") \/ (~BURST40 /\ FSMSendDetectors' = "S3")
        /\ FSMSendDetectors = "S3" => FSMSendDetectors' \in {"S3", "S0_0"}
    BY <1>1, Words
  <2>4. /\ FSMSendDetectors # "S0" => (BURST' => BURST)
        /\ BURST /\ FSMSendDetectors \notin {"S1", "S2"} => BURST'
    BY <1>1 DEF altTTC, NextBurst
  <2> QED
    BY <2>1, <2>2, <2>3, <2>4 DEF Gate
<1> QED
  BY <1>2, <1>3, <1>4

\* An address in FIFODETECTORFARM.
Cell == [address : Address \cup {NoAddress}, age : 0 .. Sync]

\* The addresses grow older, and stay.
LEMMA OlderSeq ==
  ASSUME NEW f \in Seq(Cell)
  PROVE  /\ Older(f) \in Seq(Cell) /\ Len(Older(f)) = Len(f)
         /\ \A i \in 1 .. Len(f) :
               /\ Older(f)[i].address = f[i].address
               /\ Older(f)[i].age >= Sync \/ Older(f)[i].age >= f[i].age + 1
<1> DEFINE g == Older(f)
<1>1. \A i \in 1 .. Len(f) : f[i] \in Cell
  BY ElementOfSeq
<1>2. \A i \in 1 .. Len(f) : [f[i] EXCEPT !.age = UpTo(Sync, f[i].age)] \in Cell
  <2> SUFFICES ASSUME NEW c \in Cell
               PROVE  [c EXCEPT !.age = UpTo(Sync, c.age)] \in Cell
    BY <1>1
  <2>1. c.age \in 0 .. Sync
    BY DEF Cell
  <2>2. UpTo(Sync, c.age) \in 0 .. Sync
    BY <2>1, Gaps DEF UpTo
  <2> QED
    BY <2>2 DEF Cell
<1>3. g = [i \in 1 .. Len(f) |-> [f[i] EXCEPT !.age = UpTo(Sync, f[i].age)]]
  BY DEF Older
<1>4. Len(f) \in Nat
  OBVIOUS
<1>5. g \in Seq(Cell) /\ Len(g) = Len(f)
  BY <1>2, <1>3, <1>4
<1>6. ASSUME NEW i \in 1 .. Len(f)
      PROVE  g[i].address = f[i].address /\ (g[i].age >= Sync \/ g[i].age >= f[i].age + 1)
  <2>1. g[i] = [f[i] EXCEPT !.age = UpTo(Sync, f[i].age)]
    BY <1>3, <1>6
  <2>2. f[i] \in Cell
    BY <1>1, <1>6
  <2>3. g[i].address = f[i].address /\ g[i].age = UpTo(Sync, f[i].age)
    BY <2>1, <2>2 DEF Cell
  <2>4. f[i].age \in 0 .. Sync
    BY <2>2 DEF Cell
  <2> QED
    BY <2>3, <2>4, Gaps DEF UpTo
<1> HIDE DEF g
<1>7. \A i \in 1 .. Len(f) :
         g[i].address = f[i].address /\ (g[i].age >= Sync \/ g[i].age >= f[i].age + 1)
  BY <1>6
<1> QED
  BY <1>5, <1>7 DEF g

\* Nothing in the FIFO, nothing to age.
LEMMA OlderEmpty == Older(<<>>) = <<>>
  <1>1. <<>> \in Seq(Cell) /\ Len(<<>>) = 0
    OBVIOUS
  <1>2. Older(<<>>) \in Seq(Cell) /\ Len(Older(<<>>)) = 0
    BY <1>1, OlderSeq
  <1> QED
    BY <1>2, EmptySeq

\* An address that has waited for some clocks has waited for fewer.
LEMMA WaitsLess ==
  ASSUME NEW kind, NEW a, NEW f \in Seq(Cell), NEW n \in Nat, NEW m \in Nat, m <= n,
         Waits(kind, a, f, n)
  PROVE  Waits(kind, a, f, m)
<1>1. CASE kind # "write"
  BY <1>1 DEF Waits
<1>2. CASE kind = "write"
  <2>1. Len(f) = 1 /\ f[1].address = a /\ (f[1].age >= Sync \/ f[1].age >= n)
    BY <1>2 DEF Waits
  <2>2. f[1] \in Cell
    <3>1. 1 \in 1 .. Len(f)
      BY <2>1
    <3> QED
      BY <3>1, ElementOfSeq
  <2>3. f[1].age \in 0 .. Sync
    BY <2>2 DEF Cell
  <2>4. f[1].age >= Sync \/ f[1].age >= m
    BY <2>1, <2>3, Gaps
  <2> QED
    BY <1>2, <2>1, <2>4 DEF Waits
<1> QED
  BY <1>1, <1>2

\* It waits for one clock more.
LEMMA WaitsMore ==
  ASSUME NEW kind, NEW a, NEW f \in Seq(Cell), NEW n \in Nat, Waits(kind, a, f, n)
  PROVE  Waits(kind, a, Older(f), n + 1)
<1>1. CASE kind # "write"
  BY <1>1, OlderEmpty DEF Waits
<1>2. CASE kind = "write"
  <2>1. Len(f) = 1 /\ f[1].address = a /\ (f[1].age >= Sync \/ f[1].age >= n)
    BY <1>2 DEF Waits
  <2>2. f[1] \in Cell
    <3>1. 1 \in 1 .. Len(f)
      BY <2>1
    <3> QED
      BY <3>1, ElementOfSeq
  <2>7. Older(f) \in Seq(Cell) /\ Len(Older(f)) = 1
    BY <2>1, OlderSeq
  <2>3. Older(f)[1] \in Cell
    BY <2>7, ElementOfSeq
  <2>4. f[1].age \in 0 .. Sync /\ Older(f)[1].age \in 0 .. Sync
    BY <2>2, <2>3 DEF Cell
  <2>5. /\ Older(f)[1].address = f[1].address
        /\ Older(f)[1].age >= Sync \/ Older(f)[1].age >= f[1].age + 1
    BY <2>1, OlderSeq
  <2>6. Older(f)[1].age >= Sync \/ Older(f)[1].age >= n + 1
    BY <2>1, <2>4, <2>5, Gaps
  <2> QED
    BY <1>2, <2>1, <2>5, <2>6, <2>7 DEF Waits
<1> QED
  BY <1>1, <1>2

-----------------------------------------------------------------------------
(***************************************************************************)
(* Edges of the 40 MHz clock.                                               *)
(***************************************************************************)
\* The types.
LEMMA SlowTypes ==
  ASSUME FarmTypes, TypeOK', NEW a \in Address \cup {NoAddress}, SlowEdge(a)
  PROVE  FarmTypes'
<1>1. phase' \in 0 .. 4
  BY DEF SlowEdge
<1>2. sinceWord' \in 1 .. WordGap
  <2>1. sinceWord' = 1 \/ sinceWord' = UpTo(WordGap, sinceWord)
    BY DEF SlowEdge
  <2> QED
    BY <2>1, Gaps DEF FarmTypes, UpTo
<1>3. UNCHANGED <<FSMPackets, MEPeventWritten, data_send>>
  BY DEF SlowEdge, fastVars
<1>4. FIFODETECTORFARM' \in Seq(Cell)
  <2>1. [address |-> a, age |-> 0] \in Cell
    BY Gaps DEF Cell
  <2>2. FIFODETECTORFARM \in Seq(Cell)
    BY DEF FarmTypes, Cell
  <2>3. \/ FIFODETECTORFARM' \in {<<>>, FIFODETECTORFARM}
        \/ FIFODETECTORFARM' = Append(FIFODETECTORFARM, [address |-> a, age |-> 0])
    BY DEF SlowEdge
  <2>4. Append(FIFODETECTORFARM, [address |-> a, age |-> 0]) \in Seq(Cell)
    BY <2>1, <2>2, AppendProperties
  <2>5. <<>> \in Seq(Cell)
    OBVIOUS
  <2> QED
    BY <2>2, <2>3, <2>4, <2>5
<1> QED
  BY <1>1, <1>2, <1>3, <1>4 DEF FarmTypes, Cell

\* A new word enters ev40.
LEMMA SlowRegister ==
  ASSUME FarmTypes, Register, NEW a, SlowEdge(a)
  PROVE  Register'
<1>1. sinceWord' = IF ev40' \in Reported THEN 1 ELSE UpTo(WordGap, sinceWord)
  BY DEF SlowEdge
<1>2. UpTo(WordGap, sinceWord) # 1
  BY Gaps DEF FarmTypes, UpTo
<1>3. phase' = 0
  BY DEF SlowEdge
<1> QED
  BY <1>1, <1>2, <1>3 DEF Register

\* While words are apart, a new one finds the machine idle or about to be.
LEMMA WordFindsIdle ==
  ASSUME FarmTypes, Pace, sinceWord = WordGap, phase \in {3, 4}
  PROVE  /\ FSMPackets = "idle" \/ (FSMPackets = "deadtime_0" /\ 3 * WordGap <= Cross + 4)
         /\ Clocks >= 3 * WordGap
<1>1. Clocks \in Nat /\ Clocks >= 3 * WordGap
  BY Gaps DEF Clocks
<1>2. FSMPackets \notin Sequence
  BY <1>1, Gaps DEF Pace
<1>3. FSMPackets = "deadtime_0" => 3 * WordGap <= Cross + 4
  BY <1>1, Gaps DEF Pace
<1> QED
  BY <1>1, <1>2, <1>3 DEF FarmTypes

\* Without a word, the clocks are not more than before.
LEMMA NoWordClocks ==
  ASSUME FarmTypes, phase \in {3, 4}, phase' = 0, sinceWord' = UpTo(WordGap, sinceWord)
  PROVE  /\ Clocks \in Nat /\ Clocks' \in Nat /\ Clocks' <= Clocks /\ Clocks' >= 3
         /\ sinceWord' > 1
         /\ sinceWord > 1 => Clocks' >= 6
<1>1. sinceWord \in 1 .. WordGap
  BY DEF FarmTypes
<1>2. CASE sinceWord = WordGap
  BY <1>1, <1>2, Gaps DEF Clocks, UpTo
<1>3. CASE sinceWord < WordGap
  BY <1>1, <1>3, Gaps DEF Clocks, UpTo
<1> QED
  BY <1>1, <1>2, <1>3, Gaps

\* In a clock with a word, or without.
LEMMA SlowPace ==
  ASSUME FarmTypes, Register, Pace, NEW a, SlowEdge(a), apart'
  PROVE  Pace'
<1>1. /\ phase \in {3, 4} /\ phase' = 0 /\ UNCHANGED fastVars
      /\ sinceWord' = IF ev40' \in Reported THEN 1 ELSE UpTo(WordGap, sinceWord)
      /\ ev40' \in Reported => sinceWord >= WordGap
  BY Zenon DEF SlowEdge
<1>2. UNCHANGED <<ev125, FSMPackets, data_send, q>>
  BY <1>1 DEF fastVars
<1>3. sinceWord \in 1 .. WordGap
  BY DEF FarmTypes
<1>4. ev125 = ev40 /\ (ev40 \in Reported <=> sinceWord = 1)
  BY <1>1 DEF Register
<1>5. CASE ev40' \in Reported
  <2>1. sinceWord = WordGap /\ sinceWord' = 1
    BY <1>1, <1>3, <1>5, Gaps
  <2>2. FSMPackets = "idle" \/ (FSMPackets = "deadtime_0" /\ 3 * WordGap <= Cross + 4)
    BY <1>1, <2>1, WordFindsIdle
  <2>3. ev125' \notin Reported
    BY <1>2, <1>4, <2>1, Gaps
  <2>4. Clocks' = 0
    BY <1>1, <2>1 DEF Clocks
  <2> QED
    BY <1>1, <1>2, <2>1, <2>2, <2>3, <2>4, Gaps DEF Pace
<1>6. CASE ev40' \notin Reported
  <2>1. /\ Clocks \in Nat /\ Clocks' \in Nat /\ Clocks' <= Clocks /\ Clocks' >= 3
        /\ sinceWord' > 1
        /\ sinceWord > 1 => Clocks' >= 6
    BY <1>1, <1>6, NoWordClocks
  <2>2. ev125' \in Reported => FSMPackets' \in {"deadtime_1", "SetFarmAddress", "deadtime_2"}
    BY <1>1, <1>2, <1>4 DEF Pace
  <2>3. sinceWord' # 1
    BY <2>1
  <2>4. FSMPackets \in {"WriteEvent", "deadtime_0"} => sinceWord > 1
    BY <1>1, <1>3 DEF Pace
  <2>5. /\ FSMPackets = "deadtime_1" => Clocks' <= Cross
        /\ FSMPackets = "SetFarmAddress" => Clocks' <= Cross + 1
        /\ FSMPackets = "deadtime_2" => Clocks' <= Cross + 2
    BY <2>1, Gaps DEF Pace
  <2>6. /\ FSMPackets = "WriteEvent" => Clocks' <= Cross + 3 /\ Clocks' >= 4
        /\ FSMPackets = "deadtime_0" => Clocks' <= Cross + 4 /\ Clocks' >= 5
    BY <2>1, <2>4, Gaps DEF Pace
  <2> QED
    BY <1>1, <1>2, <2>1, <2>2, <2>3, <2>5, <2>6 DEF Pace
<1> QED
  BY <1>5, <1>6

\* The memories are cleared when nothing has been announced for long.
LEMMA ClearedEmpty ==
  ASSUME FarmTypes, Pace, Due, Ended, phase \in {3, 4}, FSMSendDetectors = "S3",
         latencycounter = Fixed_Latency + ResetTime
  PROVE  FIFODETECTORFARM = <<>> /\ sinceWord = WordGap
         /\ FSMPackets \in {"idle", "deadtime_0"}
<1>1. sinceWord \in 1 .. WordGap
  BY DEF FarmTypes
<1>2. sinceWord = WordGap
  BY <1>1, Gaps DEF Ended
<1>3. FSMPackets \in {"idle", "deadtime_0"} /\ ~Pending
  BY <1>2, WordFindsIdle, Gaps DEF Pending
<1> QED
  BY <1>2, <1>3 DEF Due

\* A word joins what is due when nothing else is, and its address the empty FIFO.
LEMMA SlowDue ==
  ASSUME FarmTypes, Register, Pace, Due, Ended,
         NEW a \in Address \cup {NoAddress}, SlowEdge(a), apart'
  PROVE  Due'
<1>1. /\ phase \in {3, 4} /\ phase' = 0 /\ UNCHANGED fastVars
      /\ sinceWord' = IF ev40' \in Reported THEN 1 ELSE UpTo(WordGap, sinceWord)
      /\ ev40' \in Reported => sinceWord >= WordGap
      /\ SubSendDetectors(a # NoAddress, FarmFull)
  BY Zenon DEF SlowEdge, Clock40
<1>2. UNCHANGED <<ev125, FSMPackets, data_send, q>>
  BY <1>1 DEF fastVars
<1>3. sinceWord \in 1 .. WordGap
  BY DEF FarmTypes
<1>4. due' = IF ev40' \in Reported THEN Append(due, Event(ev40', a)) ELSE due
  BY Zenon DEF SlowEdge
<1>5. Cleared => /\ FIFODETECTORFARM = <<>> /\ ev40' = "none"
                 /\ FSMSendDetectors = "S3" /\ latencycounter = Fixed_Latency + ResetTime
  <2> SUFFICES ASSUME Cleared
               PROVE  /\ FIFODETECTORFARM = <<>> /\ ev40' = "none"
                      /\ FSMSendDetectors = "S3"
                      /\ latencycounter = Fixed_Latency + ResetTime
    OBVIOUS
  <2>1. FSMSendDetectors = "S3" /\ FSMSendDetectors' = "S0_0"
    BY DEF Cleared
  <2>2. ev40' = "none" /\ latencycounter = Fixed_Latency + ResetTime
    BY <1>1, <2>1, Words
  <2> QED
    BY <1>1, <2>1, <2>2, ClearedEmpty
<1>6. ~Pending
  BY <1>1 DEF Pending
<1>7. CASE ev40' \in Reported
  <2>1. sinceWord = WordGap /\ sinceWord' = 1
    BY <1>1, <1>3, <1>7, Gaps
  <2>2. FSMPackets \in {"idle", "deadtime_0"}
    BY <1>1, <2>1, WordFindsIdle
  <2>3. due = <<>> /\ FIFODETECTORFARM = <<>>
    BY <1>6, <2>2 DEF Due
  <2>4. due' = <<Event(ev40', a)>>
    BY <1>4, <1>7, <2>3
  <2>5. FIFODETECTORFARM' = IF ev40' = "write" THEN <<[address |-> a, age |-> 0]>> ELSE <<>>
    <3>1. ~Cleared
      BY <1>5, <1>7 DEF Reported
    <3> QED
      BY <3>1, <2>3 DEF SlowEdge
  <2>6. Clocks' = 0
    BY <1>1, <2>1 DEF Clocks
  <2>7. Waits(ev40', a, FIFODETECTORFARM', Clocks')
    BY <2>5, <2>6 DEF Waits
  <2>8. Pending'
    BY <1>1, <2>1 DEF Pending
  <2> QED
    BY <1>2, <2>2, <2>4, <2>7, <2>8 DEF Due
<1>8. CASE ev40' \notin Reported
  <2>1. due' = due
    BY <1>4, <1>8
  <2>2. FIFODETECTORFARM' = FIFODETECTORFARM
    <3>1. CASE Cleared
      BY <1>5, <3>1 DEF SlowEdge
    <3>2. CASE ~Cleared
      BY <3>2, <1>8 DEF SlowEdge, Reported
    <3> QED
      BY <3>1, <3>2
  <2>3. /\ Clocks \in Nat /\ Clocks' \in Nat /\ Clocks' <= Clocks /\ sinceWord' > 1
    BY <1>1, <1>8, NoWordClocks
  <2>4. ~Pending'
    BY <2>3 DEF Pending
  <2>5. FIFODETECTORFARM \in Seq(Cell)
    BY DEF FarmTypes, Cell
  <2>6. FSMPackets' = "deadtime_1" =>
          \E b \in Address \cup {NoAddress} :
             /\ due' = <<Event(data_send', b)>>
             /\ Waits(data_send', b, FIFODETECTORFARM', Clocks')
    <3> SUFFICES ASSUME FSMPackets' = "deadtime_1"
                 PROVE  \E b \in Address \cup {NoAddress} :
                           /\ due' = <<Event(data_send', b)>>
                           /\ Waits(data_send', b, FIFODETECTORFARM', Clocks')
      OBVIOUS
    <3>1. PICK b \in Address \cup {NoAddress} :
             /\ due = <<Event(data_send, b)>>
             /\ Waits(data_send, b, FIFODETECTORFARM, Clocks)
      BY <1>2 DEF Due
    <3>2. Waits(data_send, b, FIFODETECTORFARM, Clocks')
      BY <2>3, <2>5, <3>1, WaitsLess
    <3> QED
      BY <1>2, <2>1, <2>2, <3>1, <3>2
  <2>7. FSMPackets' \in {"SetFarmAddress", "deadtime_2", "WriteEvent"} =>
          due' = <<Event(data_send', q')>> /\ FIFODETECTORFARM' = <<>>
    BY <1>2, <2>1, <2>2 DEF Due
  <2>8. FSMPackets' \in {"idle", "deadtime_0"} => due' = <<>> /\ FIFODETECTORFARM' = <<>>
    BY <1>2, <1>6, <2>1, <2>2 DEF Due
  <2> QED
    BY <2>4, <2>6, <2>7, <2>8 DEF Due
<1> QED
  BY <1>7, <1>8

\* From the end of a burst the clocks without a word are counted with the reset.
LEMMA SlowEnded ==
  ASSUME FarmTypes, Register, Resets, Pace, Due, Ended, Gate,
         NEW a \in Address \cup {NoAddress}, SlowEdge(a), apart'
  PROVE  Ended'
<1>1. /\ phase \in {3, 4} /\ phase' = 0 /\ UNCHANGED fastVars
      /\ sinceWord' = IF ev40' \in Reported THEN 1 ELSE UpTo(WordGap, sinceWord)
      /\ SubSendDetectors(a # NoAddress, FarmFull)
  BY Zenon DEF SlowEdge, Clock40
<1>2. UNCHANGED FSMPackets
  BY <1>1 DEF fastVars
<1>3. /\ sinceWord \in 1 .. WordGap /\ latencycounter \in Nat
      /\ FSMSendDetectors \in {"S0_0", "S0", "S1", "S2", "S3"}
  BY Gaps DEF FarmTypes, TypeOK
<1>4. ev40' \in {"none", "eob"} => sinceWord' = UpTo(WordGap, sinceWord)
  BY <1>1 DEF Reported
<1>5. CASE FSMSendDetectors = "S0_0"
  <2>1. FSMSendDetectors' = "S0" /\ ev40' = "none"
    BY <1>1, <1>5, Words
  <2>2. FSMPackets = "idle" /\ sinceWord = WordGap
    BY <1>1, <1>5 DEF Ended
  <2> QED
    BY <1>2, <1>4, <2>1, <2>2, Gaps DEF Ended, UpTo
<1>6. CASE FSMSendDetectors = "S0"
  <2>1. FSMPackets = "idle" /\ sinceWord = WordGap
    BY <1>6 DEF Ended
  <2>2. FSMSendDetectors' = "S1" \/ (FSMSendDetectors' = "S0" /\ ev40' = "none")
    BY <1>1, <1>6, Words
  <2> QED
    BY <1>2, <1>4, <2>1, <2>2, Gaps DEF Ended, UpTo
<1>7. CASE FSMSendDetectors = "S1"
  <2>1. FSMSendDetectors' \in {"S1", "S2"}
    BY <1>1, <1>7, Words
  <2> QED
    BY <2>1 DEF Ended
<1>8. CASE FSMSendDetectors = "S2"
  <2>1. \/ FSMSendDetectors' = "S2"
        \/ FSMSendDetectors' = "S3" /\ ev40' = "eob" /\ latencycounter' = latencycounter
    BY <1>1, <1>8, Words
  <2>2. latencycounter = 0
    BY <1>8 DEF Resets
  <2>3. UpTo(WordGap, sinceWord) = WordGap \/ UpTo(WordGap, sinceWord) >= 2
    BY <1>3, Gaps DEF UpTo
  <2> QED
    BY <1>4, <2>1, <2>2, <2>3 DEF Ended
<1>9. CASE FSMSendDetectors = "S3"
  <2>1. /\ ev40' = "none"
        /\ \/ FSMSendDetectors' = "S3" /\ latencycounter' = latencycounter + 1
           \/ /\ FSMSendDetectors' = "S0_0"
              /\ latencycounter = Fixed_Latency + ResetTime
    BY <1>1, <1>9, Words
  <2>2. CASE FSMSendDetectors' = "S3" /\ latencycounter' = latencycounter + 1
    <3>1. sinceWord = WordGap \/ sinceWord >= latencycounter + 2
      BY <1>9 DEF Ended
    <3>2. sinceWord' = WordGap \/ sinceWord' >= latencycounter' + 2
      BY <1>3, <1>4, <2>1, <2>2, <3>1, Gaps DEF UpTo
    <3> QED
      BY <2>2, <3>2 DEF Ended
  <2>3. CASE FSMSendDetectors' = "S0_0" /\ latencycounter = Fixed_Latency + ResetTime
    <3>1. sinceWord = WordGap /\ FSMPackets \in {"idle", "deadtime_0"}
      BY <1>1, <1>9, <2>3, ClearedEmpty
    <3>2. sinceWord' = WordGap
      BY <1>4, <2>1, <3>1, Gaps DEF UpTo
    <3> QED
      BY <1>1, <1>2, <2>3, <3>1, <3>2 DEF Ended
  <2> QED
    BY <2>1, <2>2, <2>3
<1> QED
  BY <1>3, <1>5, <1>6, <1>7, <1>8, <1>9

-----------------------------------------------------------------------------
(***************************************************************************)
(* Edges of the 125 MHz clock.                                              *)
(***************************************************************************)
\* The types.
LEMMA FastTypes ==
  ASSUME FarmTypes, NEW full \in BOOLEAN, FastEdge(full)
  PROVE  FarmTypes'
<1>1. /\ phase' \in 0 .. 4 /\ UNCHANGED <<detVars, slowVars>> /\ SubGeneratePackets(full)
  BY DEF FastEdge, FarmTypes
<1>2. TypeOK'
  BY <1>1 DEF FarmTypes, TypeOK, detVars, ttcVars, requestVars, outputVars
<1>3. sinceWord' \in 1 .. WordGap
  BY <1>1 DEF slowVars, FarmTypes
<1>4. FIFODETECTORFARM \in Seq(Cell)
  BY DEF FarmTypes, Cell
<1>5. Older(FIFODETECTORFARM) \in Seq(Cell)
  BY <1>4, OlderSeq
<1>6. FIFODETECTORFARM # <<>> => Older(Tail(FIFODETECTORFARM)) \in Seq(Cell)
  <2> SUFFICES ASSUME FIFODETECTORFARM # <<>>
               PROVE  Older(Tail(FIFODETECTORFARM)) \in Seq(Cell)
    OBVIOUS
  <2>1. Tail(FIFODETECTORFARM) \in Seq(Cell)
    BY <1>4, HeadTailProperties
  <2> QED
    BY <2>1, OlderSeq
<1>7. FIFODETECTORFARM' \in Seq(Cell)
  <2>1. \/ FIFODETECTORFARM' = Older(FIFODETECTORFARM)
        \/ /\ FIFODETECTORFARM # <<>>
           /\ FIFODETECTORFARM' = Older(Tail(FIFODETECTORFARM))
    BY <1>1 DEF SubGeneratePackets, Idle, deadtime_1, SetFarmAddress, deadtime_2, WriteEvent,
                deadtime_0
  <2> QED
    BY <1>5, <1>6, <2>1
<1>8. FSMPackets' \in Sequence \cup {"idle", "deadtime_0"}
  BY <1>1 DEF SubGeneratePackets, Idle, deadtime_1, SetFarmAddress, deadtime_2, WriteEvent,
              deadtime_0
<1>10. FSMPackets' \in Sequence => data_send' \in Reported
  BY <1>1 DEF FarmTypes, SubGeneratePackets, Idle, deadtime_1, SetFarmAddress, deadtime_2,
              WriteEvent, deadtime_0
<1>9. /\ MEPeventWritten' \in 0 .. MEPEventNumber
      /\ MEPeventWritten' = MEPEventNumber => FSMPackets' = "deadtime_0"
  <2>1. /\ MEPeventWritten \in 0 .. MEPEventNumber
        /\ MEPeventWritten = MEPEventNumber => FSMPackets = "deadtime_0"
    BY DEF FarmTypes
  <2>2. CASE FSMPackets = "WriteEvent"
    <3>1. WriteEvent(full)
      BY <1>1, <2>2 DEF SubGeneratePackets, Idle, deadtime_1, SetFarmAddress, deadtime_2,
                        deadtime_0
    <3>2. /\ FSMPackets' = "deadtime_0"
          /\ MEPeventWritten' = MEPeventWritten + 1 \/ MEPeventWritten' = MEPeventWritten
      BY <3>1 DEF WriteEvent, OneMore
    <3> QED
      BY <2>1, <2>2, <3>2, FarmAssumption
  <2>3. CASE FSMPackets = "deadtime_0"
    <3>1. MEPeventWritten' = IF MEPeventWritten = MEPEventNumber THEN 0 ELSE MEPeventWritten
      BY <1>1, <2>3 DEF SubGeneratePackets, Idle, deadtime_1, SetFarmAddress, deadtime_2,
                        WriteEvent, deadtime_0
    <3> QED
      BY <2>1, <3>1, FarmAssumption
  <2>4. CASE FSMPackets \notin {"WriteEvent", "deadtime_0"}
    <3>1. MEPeventWritten' = MEPeventWritten \/ MEPeventWritten' = 0
      BY <1>1, <2>4 DEF SubGeneratePackets, Idle, deadtime_1, SetFarmAddress, deadtime_2,
                        WriteEvent, deadtime_0, WritesNothing, ResetCounters
    <3> QED
      BY <2>1, <2>4, <3>1, FarmAssumption
  <2> QED
    BY <2>2, <2>3, <2>4
<1> QED
  BY <1>1, <1>2, <1>3, <1>7, <1>8, <1>9, <1>10 DEF FarmTypes, Cell

\* What the machine does in each of its states, the addresses and the counter apart.
LEMMA FastMoves ==
  ASSUME NEW full, FastEdge(full)
  PROVE  /\ FSMPackets = "idle" =>
               /\ IF ev125 \in Reported
                  THEN FSMPackets' = "deadtime_1" /\ data_send' = ev125
                  ELSE FSMPackets' = "idle"
               /\ FIFODETECTORFARM' = Older(FIFODETECTORFARM) /\ due' = due
         /\ FSMPackets = "deadtime_1" =>
               /\ \/ /\ data_send # "write" /\ FSMPackets' = "SetFarmAddress"
                     /\ FIFODETECTORFARM' = Older(FIFODETECTORFARM)
                  \/ /\ data_send = "write" /\ FSMPackets' = "SetFarmAddress"
                     /\ q' = Head(FIFODETECTORFARM).address
                     /\ FIFODETECTORFARM' = Older(Tail(FIFODETECTORFARM))
                  \/ /\ data_send = "write" /\ FSMPackets' = "deadtime_1"
                     /\ FIFODETECTORFARM # <<>> => Head(FIFODETECTORFARM).age < Sync
                     /\ FIFODETECTORFARM' = Older(FIFODETECTORFARM)
               /\ due' = due /\ data_send' = data_send
         /\ FSMPackets \in {"SetFarmAddress", "deadtime_2"} =>
               /\ FSMPackets' = IF FSMPackets = "deadtime_2" THEN "WriteEvent" ELSE "deadtime_2"
               /\ FIFODETECTORFARM' = Older(FIFODETECTORFARM)
               /\ due' = due /\ data_send' = data_send /\ q' = q
         /\ FSMPackets = "WriteEvent" =>
               /\ FSMPackets' = "deadtime_0" /\ FIFODETECTORFARM' = Older(FIFODETECTORFARM)
               /\ due' = IF due = <<>> THEN <<>> ELSE Tail(due)
         /\ FSMPackets = "deadtime_0" =>
               /\ FSMPackets' = "idle" /\ FIFODETECTORFARM' = Older(FIFODETECTORFARM)
               /\ due' = due
  BY DEF FastEdge, SubGeneratePackets, Idle, deadtime_1, SetFarmAddress, deadtime_2, WriteEvent,
         deadtime_0, WritesNothing

\* ev125 takes ev40 over; the slow side stays.
LEMMA FastRegister ==
  ASSUME FarmTypes, Register, NEW full, FastEdge(full)
  PROVE  Register' /\ Gate = Gate' /\ Resets = Resets'
  BY DEF FastEdge, Register, Gate, Resets, detVars, ttcVars, requestVars, outputVars, slowVars

\* Each state of the machine leads to the next as the clocks pass.
LEMMA FastPace ==
  ASSUME FarmTypes, Register, Pace, Due, NEW full, FastEdge(full)
  PROVE  Pace'
<1>1. phase < 4 /\ phase' = phase + 1 /\ ev125' = ev40 /\ sinceWord' = sinceWord
  BY DEF FastEdge, slowVars
<1>2. phase \in 0 .. 4 /\ sinceWord \in 1 .. WordGap /\ phase' # 0
  BY <1>1 DEF FarmTypes
<1>3. Clocks \in Nat /\ Clocks' = Clocks + 1
  BY <1>1, <1>2, Gaps DEF Clocks
<1>4. CASE FSMPackets = "idle"
  <2>1. CASE ev125 \in Reported
    <3>1. phase # 0 /\ ev125 = ev40 /\ sinceWord = 1
      BY <1>2, <1>4, <2>1 DEF Pace, Register
    <3>2. phase = 1
      BY <1>1, <1>2, <1>4, <3>1 DEF Pace
    <3>3. FSMPackets' = "deadtime_1" /\ phase' = 2
      BY <1>1, <1>4, <2>1, <3>2, FastMoves
    <3>4. Clocks' <= Cross
      BY <3>1, <3>2, <1>3, Gaps DEF Clocks
    <3> QED
      BY <3>3, <3>4 DEF Pace
  <2>2. CASE ev125 \notin Reported
    <3>1. FSMPackets' = "idle"
      BY <1>4, <2>2, FastMoves
    <3>2. sinceWord = 1 => phase = 0
      <4> SUFFICES ASSUME sinceWord = 1, phase # 0 PROVE FALSE
        OBVIOUS
      <4>1. phase > 0
        BY <1>2
      <4> QED
        BY <2>2, <4>1 DEF Register
    <3> QED
      BY <1>1, <1>2, <3>1, <3>2 DEF Pace
  <2> QED
    BY <2>1, <2>2
<1>5. CASE FSMPackets = "deadtime_1"
  <2>1. Clocks <= Cross /\ (sinceWord = 1 => phase \in {2, 3})
    BY <1>1, <1>2, <1>5 DEF Pace
  <2>2. CASE FSMPackets' = "SetFarmAddress"
    BY <1>1, <1>2, <1>3, <2>1, <2>2, Gaps DEF Pace
  <2>3. CASE /\ data_send = "write" /\ FSMPackets' = "deadtime_1"
             /\ FIFODETECTORFARM # <<>> => Head(FIFODETECTORFARM).age < Sync
    <3>1. PICK a : Waits(data_send, a, FIFODETECTORFARM, Clocks)
      BY <1>5 DEF Due
    <3>2. Len(FIFODETECTORFARM) = 1
      BY <2>3, <3>1 DEF Waits
    <3>3. FIFODETECTORFARM \in Seq(Cell)
      BY DEF FarmTypes, Cell
    <3>4. FIFODETECTORFARM # <<>> /\ FIFODETECTORFARM[1] \in Cell
      <4>1. 1 \in 1 .. Len(FIFODETECTORFARM)
        BY <3>2
      <4>2. FIFODETECTORFARM # <<>>
        BY <3>2
      <4> QED
        BY <3>3, <4>1, <4>2, ElementOfSeq
    <3>5. FIFODETECTORFARM[1].age \in 0 .. Sync
      BY <3>4 DEF Cell
    <3>6. FIFODETECTORFARM[1].age < Sync
      BY <2>3, <3>3, <3>4, HeadTailProperties
    <3>7. FIFODETECTORFARM[1].age >= Clocks
      BY <2>3, <3>1, <3>5, <3>6, Gaps DEF Waits
    <3>8. Clocks' <= Cross
      BY <1>3, <3>5, <3>6, <3>7, Gaps
    <3> QED
      BY <1>1, <1>2, <2>1, <2>3, <3>8 DEF Pace
  <2> QED
    BY <1>5, <2>2, <2>3, FastMoves
<1>6. CASE FSMPackets = "SetFarmAddress"
  <2>1. FSMPackets' = "deadtime_2"
    BY <1>6, FastMoves
  <2>2. Clocks <= Cross + 1 /\ (sinceWord = 1 => phase = 3)
    BY <1>1, <1>2, <1>6 DEF Pace
  <2>3. Clocks' >= 3
    BY <1>2, <1>3, <2>2, Gaps DEF Clocks
  <2> QED
    BY <1>1, <1>2, <1>3, <2>1, <2>2, <2>3, Gaps DEF Pace
<1>7. CASE FSMPackets = "deadtime_2"
  <2>1. FSMPackets' = "WriteEvent"
    BY <1>7, FastMoves
  <2>2. Clocks <= Cross + 2 /\ Clocks >= 3 /\ sinceWord # 1
    BY <1>1, <1>2, <1>7 DEF Pace
  <2> QED
    BY <1>1, <1>2, <1>3, <2>1, <2>2, Gaps DEF Pace
<1>8. CASE FSMPackets = "WriteEvent"
  <2>1. FSMPackets' = "deadtime_0"
    BY <1>8, FastMoves
  <2>2. Clocks <= Cross + 3 /\ Clocks >= 4 /\ sinceWord # 1
    BY <1>1, <1>2, <1>8 DEF Pace
  <2> QED
    BY <1>1, <1>2, <1>3, <2>1, <2>2, Gaps DEF Pace
<1>9. CASE FSMPackets = "deadtime_0"
  <2>1. FSMPackets' = "idle"
    BY <1>9, FastMoves
  <2>2. sinceWord = 1 => phase = 0
    BY <1>1, <1>2, <1>9 DEF Pace
  <2> QED
    BY <1>1, <1>2, <2>1, <2>2 DEF Pace
<1> QED
  BY <1>4, <1>5, <1>6, <1>7, <1>8, <1>9 DEF FarmTypes

\* The machine takes the one address that waits, and pays what is due in WriteEvent.
LEMMA FastDue ==
  ASSUME FarmTypes, Register, Pace, Due, NEW full, FastEdge(full)
  PROVE  Due'
<1>1. phase < 4 /\ phase' = phase + 1 /\ sinceWord' = sinceWord /\ ev40' = ev40
  BY DEF FastEdge, slowVars, detVars, outputVars
<1>2. phase \in 0 .. 4 /\ sinceWord \in 1 .. WordGap
  BY DEF FarmTypes
<1>3. Clocks \in Nat /\ Clocks' = Clocks + 1
  BY <1>1, <1>2, Gaps DEF Clocks
<1>4. FIFODETECTORFARM \in Seq(Cell)
  BY DEF FarmTypes, Cell
\* A word that stays pending.
<1>5. ASSUME Pending', FSMPackets \in {"idle", "deadtime_0"}, FSMPackets' = "idle"
      PROVE  Due'
  <2>1. Pending
    BY <1>1, <1>2, <1>5 DEF Pending
  <2>2. PICK a \in Address \cup {NoAddress} :
           due = <<Event(ev40, a)>> /\ Waits(ev40, a, FIFODETECTORFARM, Clocks)
    BY <2>1 DEF Due
  <2>3. due' = due /\ FIFODETECTORFARM' = Older(FIFODETECTORFARM)
    BY <1>5, FastMoves
  <2>4. Waits(ev40, a, FIFODETECTORFARM', Clocks')
    BY <1>3, <1>4, <2>2, <2>3, WaitsMore
  <2> QED
    BY <1>1, <1>5, <2>2, <2>3, <2>4 DEF Due
<1>6. ASSUME ~Pending', FSMPackets \in {"idle", "deadtime_0"}, FSMPackets' = "idle", ~Pending
      PROVE  Due'
  <2>1. due = <<>> /\ FIFODETECTORFARM = <<>>
    BY <1>6 DEF Due
  <2>2. due' = <<>> /\ FIFODETECTORFARM' = <<>>
    BY <1>6, <2>1, FastMoves, OlderEmpty
  <2> QED
    BY <1>6, <2>2 DEF Due
<1>7. CASE FSMPackets = "idle"
  <2>1. CASE ev125 \in Reported
    <3>1. phase # 0 /\ ev125 = ev40 /\ sinceWord = 1
      BY <1>2, <1>7, <2>1 DEF Pace, Register
    <3>2. phase = 1
      BY <1>1, <1>2, <1>7, <3>1 DEF Pace
    <3>3. Pending /\ ~Pending'
      BY <1>1, <3>1, <3>2 DEF Pending
    <3>4. PICK a \in Address \cup {NoAddress} :
             due = <<Event(ev40, a)>> /\ Waits(ev40, a, FIFODETECTORFARM, Clocks)
      BY <3>3 DEF Due
    <3>5. /\ due' = due /\ FIFODETECTORFARM' = Older(FIFODETECTORFARM)
          /\ FSMPackets' = "deadtime_1" /\ data_send' = ev40
      BY <1>7, <2>1, <3>1, FastMoves
    <3>6. Waits(ev40, a, FIFODETECTORFARM', Clocks')
      BY <1>3, <1>4, <3>4, <3>5, WaitsMore
    <3> QED
      BY <3>3, <3>4, <3>5, <3>6 DEF Due
  <2>2. CASE ev125 \notin Reported
    <3>1. FSMPackets' = "idle"
      BY <1>7, <2>2, FastMoves
    <3>2. Pending => Pending'
      <4> SUFFICES ASSUME Pending, phase # 0 PROVE FALSE
        BY <1>1, <1>2 DEF Pending
      <4>1. phase > 0 /\ sinceWord = 1
        BY <1>2 DEF Pending
      <4> QED
        BY <2>2, <4>1 DEF Register
    <3> QED
      BY <1>5, <1>6, <1>7, <3>1, <3>2
  <2> QED
    BY <2>1, <2>2
<1>8. CASE FSMPackets = "deadtime_1"
  <2>1. sinceWord = 1 => phase \in {2, 3}
    BY <1>1, <1>2, <1>8 DEF Pace
  <2>2. ~Pending'
    BY <1>1, <1>2, <2>1 DEF Pending
  <2>3. PICK a \in Address \cup {NoAddress} :
           due = <<Event(data_send, a)>> /\ Waits(data_send, a, FIFODETECTORFARM, Clocks)
    BY <1>8 DEF Due
  <2>4. due' = due /\ data_send' = data_send
    BY <1>8, FastMoves
  <2>5. CASE /\ data_send # "write" /\ FSMPackets' = "SetFarmAddress"
             /\ FIFODETECTORFARM' = Older(FIFODETECTORFARM)
    <3>1. FIFODETECTORFARM' = <<>>
      BY <2>3, <2>5, OlderEmpty DEF Waits
    <3>2. due' = <<Event(data_send', q')>>
      BY <2>3, <2>4, <2>5 DEF Event
    <3> QED
      BY <2>2, <2>5, <3>1, <3>2 DEF Due
  <2>6. CASE /\ data_send = "write" /\ FSMPackets' = "SetFarmAddress"
             /\ q' = Head(FIFODETECTORFARM).address
             /\ FIFODETECTORFARM' = Older(Tail(FIFODETECTORFARM))
    <3>1. Len(FIFODETECTORFARM) = 1 /\ FIFODETECTORFARM[1].address = a
      BY <2>3, <2>6 DEF Waits
    <3>2. FIFODETECTORFARM # <<>>
      BY <3>1
    <3>3. /\ Head(FIFODETECTORFARM) = FIFODETECTORFARM[1]
          /\ Tail(FIFODETECTORFARM) \in Seq(Cell)
          /\ Len(Tail(FIFODETECTORFARM)) = Len(FIFODETECTORFARM) - 1
      BY <1>4, <3>2, HeadTailProperties
    <3>4. Tail(FIFODETECTORFARM) = <<>>
      <4>1. Len(Tail(FIFODETECTORFARM)) = 0
        BY <3>1, <3>3
      <4> QED
        BY <3>3, <4>1, EmptySeq
    <3>5. q' = a /\ FIFODETECTORFARM' = <<>>
      BY <2>6, <3>1, <3>3, <3>4, OlderEmpty
    <3> QED
      BY <2>2, <2>3, <2>4, <2>6, <3>5 DEF Due
  <2>7. CASE /\ FSMPackets' = "deadtime_1"
             /\ FIFODETECTORFARM' = Older(FIFODETECTORFARM)
    <3>1. Waits(data_send, a, FIFODETECTORFARM', Clocks')
      BY <1>3, <1>4, <2>3, <2>7, WaitsMore
    <3> QED
      BY <2>2, <2>3, <2>4, <2>7, <3>1 DEF Due
  <2> QED
    BY <1>8, <2>5, <2>6, <2>7, FastMoves
<1>9. CASE FSMPackets \in {"SetFarmAddress", "deadtime_2"}
  <2>1. sinceWord = 1 => phase \in {3, 4}
    BY <1>1, <1>2, <1>9 DEF Pace
  <2>2. ~Pending'
    BY <1>1, <1>2, <2>1 DEF Pending
  <2>3. due = <<Event(data_send, q)>> /\ FIFODETECTORFARM = <<>>
    BY <1>9 DEF Due
  <2>4. /\ FSMPackets' \in {"deadtime_2", "WriteEvent"} /\ FIFODETECTORFARM' = <<>>
        /\ due' = due /\ data_send' = data_send /\ q' = q
    BY <1>9, <2>3, FastMoves, OlderEmpty
  <2> QED
    BY <2>2, <2>3, <2>4 DEF Due
<1>10. CASE FSMPackets = "WriteEvent"
  <2>1. sinceWord # 1
    BY <1>1, <1>2, <1>10 DEF Pace
  <2>2. ~Pending'
    BY <1>1, <2>1 DEF Pending
  <2>3. due = <<Event(data_send, q)>> /\ FIFODETECTORFARM = <<>>
    BY <1>10 DEF Due
  <2>4. /\ FSMPackets' = "deadtime_0" /\ FIFODETECTORFARM' = <<>> /\ due' = <<>>
    BY <1>10, <2>3, FastMoves, OlderEmpty
  <2> QED
    BY <2>2, <2>4 DEF Due
<1>11. CASE FSMPackets = "deadtime_0"
  <2>1. FSMPackets' = "idle"
    BY <1>11, FastMoves
  <2>2. sinceWord = 1 => phase = 0
    BY <1>1, <1>2, <1>11 DEF Pace
  <2>3. Pending => Pending'
    BY <1>1, <1>2, <2>2 DEF Pending
  <2> QED
    BY <1>5, <1>6, <1>11, <2>1, <2>3
<1> QED
  BY <1>7, <1>8, <1>9, <1>10, <1>11 DEF FarmTypes

\* After the reset nothing wakes the machine.
LEMMA FastEnded ==
  ASSUME FarmTypes, Register, Pace, Ended, NEW full, FastEdge(full)
  PROVE  Ended'
<1>1. /\ phase' = phase + 1 /\ sinceWord' = sinceWord
      /\ UNCHANGED <<FSMSendDetectors, latencycounter>>
  BY DEF FastEdge, slowVars, detVars
<1>2. phase \in 0 .. 4
  BY DEF FarmTypes
<1>3. CASE FSMSendDetectors \in {"S0_0", "S0"}
  <2>1. sinceWord = WordGap /\ FSMPackets \in {"idle", "deadtime_0"}
    BY <1>3 DEF Ended
  <2>2. FSMPackets = "idle" => ev125 \notin Reported
    <3> SUFFICES ASSUME FSMPackets = "idle", ev125 \in Reported PROVE FALSE
      OBVIOUS
    <3>1. phase > 0
      BY <1>2 DEF Pace
    <3>2. sinceWord = 1
      BY <3>1 DEF Register
    <3> QED
      BY <2>1, <3>2, Gaps
  <2>3. FSMPackets' = "idle"
    BY <2>1, <2>2, FastMoves
  <2> QED
    BY <1>1, <1>3, <2>1, <2>3 DEF Ended
<1>4. CASE FSMSendDetectors \notin {"S0_0", "S0"}
  BY <1>1, <1>4 DEF Ended
<1> QED
  BY <1>3, <1>4

-----------------------------------------------------------------------------
\* The invariant of the announcements holds at first ...
LEMMA FInvInit == FarmInit => FInv
<1> SUFFICES ASSUME FarmInit PROVE FInv
  OBVIOUS
<1>1. TypeOK
  BY TypeInit DEF FarmInit
<1>2. FarmTypes
  BY <1>1, Gaps, FarmAssumption DEF FarmInit, FarmTypes
<1>3. Gate /\ Resets
  <2>1. FSMSendDetectors = "S0_0" /\ BURST = FALSE /\ BURST40 = FALSE
    BY DEF FarmInit, Init
  <2> QED
    BY <2>1 DEF Gate, Resets
<1>4. /\ ev40 = "none" /\ ev125 = "none" /\ phase = 0 /\ sinceWord = WordGap
      /\ FSMPackets = "idle" /\ due = <<>> /\ FIFODETECTORFARM = <<>>
      /\ FSMSendDetectors = "S0_0"
  BY DEF FarmInit, Init
<1>5. Register
  BY <1>4, Gaps DEF Register, Reported
<1>6. Pace
  BY <1>4, Gaps DEF Pace, Reported
<1>7. Due /\ Ended
  BY <1>4, Gaps DEF Due, Ended, Pending
<1> QED
  BY <1>2, <1>3, <1>5, <1>6, <1>7 DEF FInv

\* ... each step keeps it ...
LEMMA FInvStep == FInv /\ [FarmNext]_<<detVars, farmVars>> => FInv'
<1> SUFFICES ASSUME FInv, [FarmNext]_<<detVars, farmVars>> PROVE FInv'
  OBVIOUS
<1>1. FarmTypes /\ Gate /\ Register /\ Resets /\ (apart => Pace /\ Due /\ Ended) /\ TypeOK
  BY DEF FInv, FarmTypes
<1>2. ASSUME NEW full \in BOOLEAN, FastEdge(full) PROVE FInv'
  <2>1. FarmTypes' /\ Register' /\ Gate' /\ Resets'
    BY <1>1, <1>2, FastTypes, FastRegister
  <2>2. apart' = apart
    BY <1>2 DEF FastEdge, slowVars
  <2>3. apart => Pace' /\ Due' /\ Ended'
    BY <1>1, <1>2, FastPace, FastDue, FastEnded
  <2> QED
    BY <2>1, <2>2, <2>3 DEF FInv
<1>3. ASSUME NEW a \in Address \cup {NoAddress}, SlowEdge(a) PROVE FInv'
  <2>1. TypeOK' /\ Gate' /\ Resets'
    BY <1>1, <1>3, DetStep
  <2>2. FarmTypes' /\ Register'
    BY <1>1, <1>3, <2>1, SlowTypes, SlowRegister
  <2>3. apart' => apart
    BY <1>3, Zenon DEF SlowEdge
  <2>4. apart' => Pace' /\ Due' /\ Ended'
    BY <1>1, <1>3, <2>3, SlowPace, SlowDue, SlowEnded
  <2> QED
    BY <2>1, <2>2, <2>4 DEF FInv
<1>4. CASE UNCHANGED <<detVars, farmVars>>
  <2>1. TypeOK' = TypeOK /\ Gate' = Gate /\ Resets' = Resets
    BY <1>4 DEF TypeOK, Gate, Resets, detVars, ttcVars, requestVars, outputVars
  <2>2. FarmTypes' = FarmTypes
    BY <1>4, <2>1 DEF FarmTypes, farmVars, slowVars, fastVars
  <2>3. Register' = Register /\ Pace' = Pace /\ Due' = Due /\ Ended' = Ended
    BY <1>4 DEF Register, Pace, Due, Ended, Pending, Clocks, detVars, outputVars, farmVars,
                slowVars, fastVars
  <2>4. apart' = apart
    BY <1>4 DEF farmVars, slowVars
  <2> QED
    BY <1>1, <2>1, <2>2, <2>3, <2>4 DEF FInv
<1> QED
  BY <1>2, <1>3, <1>4 DEF FarmNext

\* ... and so it always holds.
LEMMA FarmInvariance == FarmSpec => []FInv
  BY FInvInit, FInvStep, PTL DEF FarmSpec

\* However many clocks an address takes to cross, if words are far enough apart nothing
\* is left to announce when the memories have been reset.
THEOREM BurstCompleteAlways == FarmSpec => []BurstComplete
<1>1. FInv => BurstComplete
  <2> SUFFICES ASSUME FInv, apart, FSMSendDetectors = "S0"
               PROVE  due = <<>> /\ FIFODETECTORFARM = <<>>
    BY DEF BurstComplete
  <2>1. sinceWord = WordGap /\ FSMPackets = "idle" /\ Due
    BY DEF FInv, Ended
  <2> QED
    BY <2>1, Gaps DEF Due, Pending
<1> QED
  BY FarmInvariance, <1>1, PTL

-----------------------------------------------------------------------------
(***************************************************************************)
(* The sender.                                                              *)
(***************************************************************************)
\* The fewest fast clocks in which n words come.
Span(n) == 3 * WordGap * n
\* Fast clocks in which n events are sent.
Sending(n) == EventWords * n

\* Fast clocks until the sender is idle.
Left == CASE FSMSend = "PacketHeader" -> 1 + Sending(MEPEventRead)
          [] FSMSend = "Event" -> Sending(MEPEventRead) - word
          [] OTHER -> 0

\* The events in the next packet.
Coming == MEPeventWritten + Len(due)

\* The types of the sender, and what each of its states has counted.
SenderTypes ==
    /\ FIFOPACKETS \in Nat /\ MEPEventRead \in 0 .. MEPEventNumber /\ word \in Nat
    /\ FSMSend \in {"idle", "PacketHeader", "PacketHeaderEOB", "Event", "EOB"}
    /\ FSMSend = "Event" => word < EventWords
    /\ FSMSend \in {"idle", "PacketHeader", "PacketHeaderEOB"} => word = 0
    /\ FSMSend \in {"PacketHeader", "Event"} => MEPEventRead >= 1

\* The end of the burst is looked for after the burst only.
Flags ==
    /\ FSMSend \in {"PacketHeaderEOB", "EOB"} => eob_data_send
    /\ eob_ev125 => FSMSendDetectors = "S3" \/ (FSMSendDetectors = "S0_0" /\ phase = 0)
    /\ eob_data_send => FSMSendDetectors \in {"S3", "S0_0", "S0"}
    /\ FSMSendDetectors = "S0" /\ BURST /\ (phase > 0 \/ BURST40) =>
          FSMSend = "idle" /\ ~eob_data_send

\* A burst starts with an empty packet.
Emptied ==
    FSMSendDetectors = "S0" /\ BURST /\ (phase > 0 \/ BURST40) => MEPeventWritten = 0

\* FIFOPACKETS holds the events of the packets on their way, and no other.
Whole == ~eob_data_send => FIFOPACKETS = ToRead + MEPeventWritten

\* Before the next packet is full the sender is idle.
InTime ==
    ~eob_data_send /\ Left > 0 =>
       Left + Span(Coming) + Clocks <= Cross + 6 + Sending(MEPEventNumber)

\* Once the reset is over nothing is being announced ...
Quiet ==
    settled /\ FSMSendDetectors \in {"S3", "S0_0", "S0"} =>
       /\ due = <<>>
       /\ \/ FSMPackets = "idle"
          \/ FSMPackets = "deadtime_0" /\ phase = 0 /\ ~eob_ev125

\* ... and once the sender noticed the end, what is left fits in one packet.
Ending ==
    /\ eob_data_send /\ settled =>
          /\ FSMSend # "PacketHeader" /\ FSMPackets = "idle"
          /\ FIFOPACKETS = ToRead /\ MEPeventWritten # MEPEventNumber
    /\ eob_data_send /\ ~settled => FIFOPACKETS + Len(due) <= MEPEventNumber

\* The inductive invariant of the sender: its types at any time, the rest in regular runs.
SInv == /\ FInv /\ SenderTypes /\ Flags /\ (~activate.farm => MACBusy = 0)
        /\ Regular => Emptied /\ Whole /\ InTime /\ Quiet /\ Ending

\* The two products, without multiplication: a packet is sent before the next is full.
LEMMA Spans ==
  /\ \A n \in Nat : Span(n) \in Nat /\ Span(n + 1) = Span(n) + 3 * WordGap
  /\ Span(0) = 0 /\ Span(MEPEventNumber) \in Nat
  /\ \A n \in Nat : Sending(n) \in Nat /\ Sending(n + 1) = Sending(n) + EventWords
  /\ Sending(0) = 0 /\ Sending(MEPEventNumber) \in Nat
  /\ Sending(MEPEventNumber) + Cross < Span(MEPEventNumber)
<1>1. \A n \in Nat : Span(n) \in Nat /\ Span(n + 1) = Span(n) + 3 * WordGap
  <2> DEFINE w == 3 * WordGap
  <2>1. w \in Nat
    BY Gaps
  <2>2. \A n \in Nat : w * n \in Nat /\ w * (n + 1) = w * n + w
    <3> HIDE DEF w
    <3> QED
      BY <2>1
  <2> QED
    BY <2>2 DEF Span
<1>2. \A n \in Nat : Sending(n) \in Nat /\ Sending(n + 1) = Sending(n) + EventWords
  <2>1. EventWords \in Nat
    BY PacketsAssumption
  <2> QED
    BY <2>1 DEF Sending
<1>3. Span(0) = 0 /\ Sending(0) = 0
  BY Gaps, PacketsAssumption DEF Span, Sending
<1>4. MEPEventNumber \in Nat
  BY FarmAssumption
<1>5. Sending(MEPEventNumber) = MEPEventNumber * EventWords
  BY <1>4, PacketsAssumption DEF Sending
<1>6. Sending(MEPEventNumber) + Cross < Span(MEPEventNumber)
  BY <1>5, PaceAssumption DEF Span
<1> QED
  BY <1>1, <1>2, <1>3, <1>4, <1>6

\* A packet of one event takes as long as the event.
LEMMA SendingGrows == ASSUME NEW n \in Nat, n >= 1 PROVE Sending(n) >= EventWords
<1>1. n - 1 \in Nat /\ n = (n - 1) + 1
  OBVIOUS
<1>2. Sending(n - 1) \in Nat /\ Sending(n) = Sending(n - 1) + EventWords
  BY <1>1, Spans
<1> QED
  BY <1>2, PacketsAssumption

\* FIFOPACKETS is a count of words.
LEMMA PacketsType ==
  ASSUME FIFOPACKETS \in Nat, NEW reads, Packets(reads)
  PROVE  FIFOPACKETS' \in Nat
<1>1. CASE written' # None
  BY <1>1 DEF Packets
<1>2. CASE written' = None
  BY <1>2 DEF Packets
<1> QED
  BY <1>1, <1>2

\* The types of the sender, in a fast clock.
LEMMA SenderTypesFast ==
  ASSUME FarmTypes, SenderTypes, Edge125
  PROVE  SenderTypes'
<1>0. /\ MEPeventWritten \in 0 .. MEPEventNumber /\ MEPEventNumber \in Nat /\ MEPEventNumber >= 1
      /\ EventWords \in Nat /\ EventWords >= 1
      /\ FIFOPACKETS \in Nat /\ MEPEventRead \in 0 .. MEPEventNumber /\ word \in Nat
  BY FarmAssumption, PacketsAssumption DEF FarmTypes, SenderTypes
<1>1. CASE ResetSend
  BY <1>0, <1>1 DEF SenderTypes, ResetSend
<1>2. CASE SendIdle
  <2>1. FIFOPACKETS' \in Nat
    BY <1>0, <1>2, PacketsType DEF SendIdle
  <2>2. FSMSend = "idle" /\ word' = word
    BY <1>2 DEF SendIdle
  <2>3. \/ MEPEventRead' = MEPEventNumber /\ FSMSend' = "PacketHeader"
        \/ MEPEventRead' = MEPeventWritten /\ FSMSend' = "PacketHeaderEOB"
        \/ UNCHANGED <<FSMSend, MEPEventRead>>
    BY <1>2 DEF SendIdle
  <2> QED
    BY <1>0, <2>1, <2>2, <2>3 DEF SenderTypes
<1>3. ASSUME NEW port, PacketHeader(port) PROVE SenderTypes'
  <2>1. FIFOPACKETS' \in Nat
    BY <1>0, <1>3, PacketsType DEF PacketHeader
  <2>2. /\ FSMSend = "PacketHeader" /\ UNCHANGED <<word, MEPEventRead>>
        /\ FSMSend' \in {"Event", "idle", "PacketHeader"}
    BY <1>3 DEF PacketHeader
  <2> QED
    BY <1>0, <2>1, <2>2 DEF SenderTypes
<1>4. ASSUME NEW port, PacketHeaderEOB(port) PROVE SenderTypes'
  <2>1. FIFOPACKETS' \in Nat
    BY <1>0, <1>4, PacketsType DEF PacketHeaderEOB
  <2>2. /\ FSMSend = "PacketHeaderEOB" /\ UNCHANGED <<word, MEPEventRead>>
        /\ FSMSend' \in {"Event", "EOB", "PacketHeaderEOB"}
        /\ FSMSend' = "Event" => MEPEventRead # 0
    BY <1>4 DEF PacketHeaderEOB
  <2> QED
    BY <1>0, <2>1, <2>2 DEF SenderTypes
<1>5. ASSUME NEW port, SendEvent(port) PROVE SenderTypes'
  <2>1. FIFOPACKETS' \in Nat
    BY <1>0, <1>5, PacketsType DEF SendEvent
  <2>2. FSMSend = "Event" /\ word < EventWords /\ MEPEventRead >= 1
    BY <1>5 DEF SendEvent, SenderTypes
  <2>3. CASE UNCHANGED sendVars
    BY <1>0, <2>1, <2>2, <2>3 DEF SenderTypes, sendVars
  <2>4. CASE word < EventWords - 1 /\ word' = word + 1 /\ UNCHANGED <<FSMSend, MEPEventRead>>
    BY <1>0, <2>1, <2>2, <2>4 DEF SenderTypes
  <2>5. CASE /\ word' = 0 /\ MEPEventRead' = MEPEventRead - 1
             /\ FSMSend' = IF MEPEventRead # 1 THEN "Event"
                           ELSE IF eob_data_send THEN "PacketHeaderEOB" ELSE "idle"
    <3>1. MEPEventRead' \in 0 .. MEPEventNumber /\ (MEPEventRead # 1 => MEPEventRead' >= 1)
      BY <1>0, <2>2, <2>5
    <3>2. FSMSend' \in {"Event", "PacketHeaderEOB", "idle"}
          /\ (FSMSend' = "Event" => MEPEventRead # 1)
      BY <2>5
    <3> QED
      BY <1>0, <2>1, <2>5, <3>1, <3>2 DEF SenderTypes
  <2> QED
    BY <1>5, <2>3, <2>4, <2>5 DEF SendEvent
<1>6. ASSUME NEW port, SendEOB(port) PROVE SenderTypes'
  <2>1. FIFOPACKETS' \in Nat
    BY <1>0, <1>6, PacketsType DEF SendEOB
  <2>2. FSMSend = "EOB"
    BY <1>6 DEF SendEOB
  <2>3. CASE UNCHANGED sendVars
    BY <1>0, <2>1, <2>2, <2>3 DEF SenderTypes, sendVars
  <2>4. CASE word' = word + 1 /\ UNCHANGED <<FSMSend, MEPEventRead>>
    BY <1>0, <2>1, <2>2, <2>4 DEF SenderTypes
  <2>5. CASE word' = 0 /\ FSMSend' = "idle" /\ UNCHANGED MEPEventRead
    BY <1>0, <2>1, <2>5 DEF SenderTypes
  <2> QED
    BY <1>6, <2>3, <2>4, <2>5 DEF SendEOB
<1> QED
  BY <1>1, <1>2, <1>3, <1>4, <1>5, <1>6 DEF Edge125, SubSendFARM

\* The flags of the end of the burst, in a fast clock ...
LEMMA FlagsFast ==
  ASSUME FarmTypes, Flags, Edge125
  PROVE  Flags'
<1>1. /\ UNCHANGED <<FSMSendDetectors, BURST, BURST40>> /\ phase' = phase + 1
      /\ eob_ev125' = (FSMSendDetectors = "S3")
  BY Zenon DEF Edge125, FastEdge, detVars, ttcVars
<1>2. eob_ev125' => FSMSendDetectors' = "S3"
  BY <1>1, Zenon
<1>3. CASE BURST /\ FSMSendDetectors = "S0"
  <2>1. FSMSend' = "idle" /\ ~eob_data_send'
    BY <1>3 DEF Edge125, ResetSend
  <2> QED
    BY <1>2, <2>1 DEF Flags
<1>4. CASE ~(BURST /\ FSMSendDetectors = "S0")
  <2>1. SubSendFARM
    BY <1>4 DEF Edge125
  <2>2. eob_data_send' => eob_data_send \/ eob_ev125
    BY <2>1 DEF SubSendFARM, SendIdle, PacketHeader, PacketHeaderEOB, SendEvent, SendEOB, sendVars
  <2>3. FSMSend' \in {"PacketHeaderEOB", "EOB"} => eob_data_send'
    BY <2>1, Zenon DEF Flags, SubSendFARM, SendIdle, PacketHeader, PacketHeaderEOB, SendEvent, SendEOB,
                sendVars
  <2> QED
    BY <1>1, <1>2, <1>4, <2>2, <2>3 DEF Flags
<1> QED
  BY <1>3, <1>4

\* ... and in a slow one.
LEMMA FlagsSlow ==
  ASSUME FarmTypes, Gate, Flags, NEW a \in Address \cup {NoAddress}, Edge40(a)
  PROVE  Flags'
<1>1. /\ phase \in {3, 4} /\ UNCHANGED <<FSMSend, eob_data_send, eob_ev125>> /\ phase' = 0
      /\ SubSendDetectors(a # NoAddress, FarmFull) /\ altTTC
  BY DEF Edge40, SlowEdge, Clock40, sendVars
<1>2. BURST40' = BURST
  BY <1>1 DEF altTTC
<1>3. FSMSendDetectors \in {"S0_0", "S0", "S1", "S2", "S3"}
  BY DEF FarmTypes, TypeOK
<1>4. CASE FSMSendDetectors = "S3"
  <2>1. FSMSendDetectors' \in {"S3", "S0_0"}
    BY <1>1, <1>4, Words
  <2> QED
    BY <1>1, <2>1 DEF Flags
<1>5. CASE FSMSendDetectors = "S0_0"
  <2>1. FSMSendDetectors' = "S0" /\ ~BURST
    BY <1>1, <1>5, Words DEF Gate
  <2>2. ~eob_ev125
    BY <1>1, <1>5 DEF Flags
  <2> QED
    BY <1>1, <1>2, <2>1, <2>2 DEF Flags
<1>6. CASE FSMSendDetectors = "S0"
  <2>1. \/ BURST40 /\ FSMSendDetectors' = "S1"
        \/ FSMSendDetectors' = "S0"
    BY <1>1, <1>6, Words
  <2>2. ~eob_ev125 /\ (BURST => FSMSend = "idle" /\ ~eob_data_send)
    BY <1>1, <1>6 DEF Flags
  <2>3. BURST40 => BURST
    BY <1>6 DEF Gate
  <2> QED
    BY <1>1, <1>2, <2>1, <2>2, <2>3 DEF Flags
<1>7. CASE FSMSendDetectors \in {"S1", "S2"}
  <2>1. FSMSendDetectors' \in {"S1", "S2", "S3"} /\ ~eob_data_send /\ ~eob_ev125
    BY <1>1, <1>7, Words DEF Flags
  <2> QED
    BY <1>1, <2>1 DEF Flags
<1> QED
  BY <1>3, <1>4, <1>5, <1>6, <1>7

\* What the machine writes and counts in a clock.
LEMMA Counts ==
  ASSUME FarmTypes, NEW full, FastEdge(full)
  PROVE  /\ FSMPackets = "WriteEvent" /\ ~full =>
               written' # None /\ MEPeventWritten' = MEPeventWritten + 1
         /\ FSMPackets # "WriteEvent" => written' = None
         /\ FSMPackets = "deadtime_0" =>
               MEPeventWritten' = IF MEPeventWritten = MEPEventNumber THEN 0 ELSE MEPeventWritten
         /\ FSMPackets = "idle" =>
               MEPeventWritten' = IF BURST /\ FSMSendDetectors = "S0" THEN 0 ELSE MEPeventWritten
         /\ FSMPackets \in {"deadtime_1", "SetFarmAddress", "deadtime_2"} =>
               MEPeventWritten' = MEPeventWritten
<1>1. SubGeneratePackets(full)
  BY DEF FastEdge
<1>2. CASE FSMPackets = "WriteEvent" /\ ~full
  <2>1. written' = Event(data_send, q) /\ MEPeventWritten' = MEPeventWritten + 1
    BY <1>1, <1>2 DEF SubGeneratePackets, Idle, deadtime_1, SetFarmAddress, deadtime_2,
                      WriteEvent, deadtime_0, OneMore
  <2>2. written'.kind = data_send /\ None.kind = "none" /\ data_send # "none"
    BY <1>2, <2>1 DEF FarmTypes, Event, None, Reported
  <2> QED
    BY <1>2, <2>1, <2>2
<1>3. CASE FSMPackets = "WriteEvent" /\ full
  BY <1>3
<1>4. CASE FSMPackets # "WriteEvent"
  BY <1>1, <1>4 DEF SubGeneratePackets, Idle, deadtime_1, SetFarmAddress, deadtime_2,
                    WriteEvent, deadtime_0, WritesNothing, ResetCounters
<1> QED
  BY <1>2, <1>3, <1>4

\* One event is due at most, and the machine pays it.
LEMMA DueLength ==
  ASSUME FarmTypes, Due
  PROVE  /\ Len(due) \in {0, 1}
         /\ FSMPackets = "WriteEvent" => due = <<Event(data_send, q)>> /\ Len(due) = 1
         /\ FSMPackets \in {"idle", "deadtime_0"} => Len(due) = IF Pending THEN 1 ELSE 0
         /\ due = <<>> => Len(due) = 0
<1>1. CASE FSMPackets \in Sequence
  BY <1>1 DEF Due
<1>2. CASE FSMPackets \in {"idle", "deadtime_0"}
  BY <1>2 DEF Due
<1> QED
  BY <1>1, <1>2 DEF FarmTypes

\* WriteEvent pays what is due; no other state does.
LEMMA DuePaid ==
  ASSUME FarmTypes, Due, NEW full, FastEdge(full)
  PROVE  /\ FSMPackets = "WriteEvent" => due' = <<>> /\ Len(due) = 1 /\ Len(due') = 0
         /\ FSMPackets # "WriteEvent" => due' = due
<1>1. CASE FSMPackets = "WriteEvent"
  <2>1. due = <<Event(data_send, q)>> /\ Len(due) = 1
    BY <1>1, DueLength
  <2>2. due' = <<>>
    BY <1>1, <2>1, FastMoves
  <2> QED
    BY <1>1, <2>1, <2>2
<1>2. CASE FSMPackets # "WriteEvent"
  BY <1>2, FastMoves DEF FarmTypes
<1> QED
  BY <1>1, <1>2

\* No more than a packet is left to read.
LEMMA ToReadBound ==
  SenderTypes => ToRead \in 0 .. MEPEventNumber
<1> SUFFICES ASSUME SenderTypes PROVE ToRead \in 0 .. MEPEventNumber
  OBVIOUS
<1>1. MEPEventRead \in 0 .. MEPEventNumber /\ MEPEventNumber \in Nat
  BY FarmAssumption DEF SenderTypes
<1>2. CASE FSMSend \in {"PacketHeader", "PacketHeaderEOB"}
  BY <1>1, <1>2 DEF ToRead
<1>3. CASE FSMSend = "Event"
  <2>1. MEPEventRead >= 1
    BY <1>3 DEF SenderTypes
  <2> QED
    BY <1>1, <1>3, <2>1 DEF ToRead
<1>4. CASE FSMSend \in {"idle", "EOB"}
  BY <1>1, <1>4 DEF ToRead
<1> QED
  BY <1>2, <1>3, <1>4 DEF SenderTypes

\* FIFOPACKETS has room for every event.
LEMMA NotFull ==
  ASSUME SInv, Regular, FSMPackets = "WriteEvent"
  PROVE  ~PacketsFull
<1>1. /\ FarmTypes /\ SenderTypes /\ Due /\ Whole /\ Ending
  BY DEF SInv, FInv, Regular
<1>2. /\ MEPeventWritten \in 0 .. MEPEventNumber /\ MEPeventWritten # MEPEventNumber
      /\ MEPEventNumber \in Nat /\ MEPEventNumber >= 1 /\ PacketsSize \in Nat
      /\ PacketsSize >= 2 * MEPEventNumber /\ FIFOPACKETS \in Nat
  BY <1>1, FarmAssumption, PacketsAssumption, PaceAssumption DEF FarmTypes, SenderTypes
<1>3. Len(due) = 1
  BY <1>1, DueLength
<1>4. CASE ~eob_data_send
  <2>1. FIFOPACKETS = ToRead + MEPeventWritten /\ ToRead \in 0 .. MEPEventNumber
    BY <1>1, <1>4, ToReadBound DEF Whole
  <2> QED
    BY <1>2, <2>1 DEF PacketsFull
<1>5. CASE eob_data_send
  <2>1. FIFOPACKETS + Len(due) <= MEPEventNumber
    BY <1>1, <1>5 DEF Ending
  <2> QED
    BY <1>2, <1>3, <2>1 DEF PacketsFull
<1> QED
  BY <1>4, <1>5

\* The clocks of a packet: with each the sender has one less to go.
LEMMA LeftType ==
  ASSUME SenderTypes
  PROVE  /\ Left \in Nat
         /\ FSMSend \in {"PacketHeader", "Event"} => Left > 0
         /\ FSMSend \notin {"PacketHeader", "Event"} => Left = 0
<1>1. MEPEventRead \in Nat /\ word \in Nat /\ EventWords \in Nat /\ Sending(MEPEventRead) \in Nat
  <2>1. MEPEventRead \in Nat
    BY PacketsAssumption DEF SenderTypes
  <2>2. word \in Nat /\ EventWords \in Nat
    BY FarmAssumption, PacketsAssumption DEF SenderTypes
  <2>3. \A n \in Nat : Sending(n) \in Nat
    BY Spans
  <2> QED
    BY <2>1, <2>2, <2>3
<1>2. CASE FSMSend = "PacketHeader"
  BY <1>1, <1>2 DEF Left
<1>3. CASE FSMSend = "Event"
  <2>1. MEPEventRead >= 1 /\ word < EventWords
    BY <1>3 DEF SenderTypes
  <2>2. Sending(MEPEventRead) >= EventWords
    BY <1>1, <2>1, SendingGrows
  <2> QED
    BY <1>1, <1>3, <2>1, <2>2 DEF Left
<1>4. CASE FSMSend \notin {"PacketHeader", "Event"}
  BY <1>4 DEF Left
<1> QED
  BY <1>2, <1>3, <1>4

\* The words written to FIFOPACKETS in the last clock.
Wrote == IF written # None THEN 1 ELSE 0

\* A port that takes every word, and a packet whose events are there.
LEMMA SenderMoves ==
  ASSUME SenderTypes, Flags, MACBusy = 0, SubSendFARM, ~eob_data_send, ~eob_data_send',
         FIFOPACKETS >= ToRead
  PROVE  \/ /\ FSMSend = "idle" /\ MEPeventWritten = MEPEventNumber
            /\ FSMSend' = "PacketHeader" /\ MEPEventRead' = MEPEventNumber
            /\ FIFOPACKETS' = FIFOPACKETS + Wrote'
         \/ /\ FSMSend = "idle" => MEPeventWritten # MEPEventNumber
            /\ \E reads \in {0, 1} :
                  FIFOPACKETS' = FIFOPACKETS - reads + Wrote' /\ ToRead' = ToRead - reads
            /\ Left > 0 => Left' = Left - 1
            /\ Left = 0 => Left' = 0
<1>1. /\ FIFOPACKETS \in Nat /\ MEPEventRead \in Nat /\ word \in Nat
      /\ EventWords \in Nat /\ EventWords >= 1
  BY FarmAssumption, PacketsAssumption DEF SenderTypes
<1>2. Ports = {"takes"}
  BY DEF Ports, MACReady
<1>3. ASSUME Packets(FALSE) PROVE FIFOPACKETS' = FIFOPACKETS + Wrote'
  BY <1>3 DEF Packets, Wrote
<1>4. ASSUME Packets(TRUE), FIFOPACKETS > 0 PROVE FIFOPACKETS' = FIFOPACKETS - 1 + Wrote'
  BY <1>4 DEF Packets, Wrote
<1>5. Left \in Nat
  BY LeftType
<1>6. Wrote' \in Nat
  BY DEF Wrote
<1>7. CASE SendIdle
  <2>1. FIFOPACKETS' = FIFOPACKETS + Wrote' /\ FSMSend = "idle"
    BY <1>3, <1>7 DEF SendIdle
  <2>2. \/ /\ MEPeventWritten = MEPEventNumber
           /\ MEPEventRead' = MEPEventNumber /\ FSMSend' = "PacketHeader"
        \/ /\ MEPeventWritten # MEPEventNumber /\ FSMSend' = FSMSend
    BY <1>7 DEF SendIdle
  <2>3. FSMSend' = FSMSend => ToRead = 0 /\ ToRead' = 0 /\ Left = 0 /\ Left' = 0
    BY <2>1 DEF ToRead, Left
  <2>4. FIFOPACKETS' = FIFOPACKETS - 0 + Wrote'
    BY <1>1, <1>6, <2>1
  <2> QED
    BY <2>1, <2>2, <2>3, <2>4
<1>8. CASE PacketHeader("takes")
  <2>1. FSMSend = "PacketHeader" /\ MEPEventRead >= 1 /\ word = 0
    BY <1>8 DEF PacketHeader, SenderTypes
  <2>2. FIFOPACKETS > 0
    BY <1>1, <2>1 DEF ToRead
  <2>3. /\ FSMSend' = "Event" /\ Packets(TRUE) /\ UNCHANGED <<MEPEventRead, word>>
    BY <1>8, <2>2 DEF PacketHeader
  <2>4. FIFOPACKETS' = FIFOPACKETS - 1 + Wrote'
    BY <1>4, <2>2, <2>3
  <2>5. ToRead = MEPEventRead /\ ToRead' = MEPEventRead - 1
    BY <2>1, <2>3 DEF ToRead
  <2>6. Sending(MEPEventRead) \in Nat
    BY <1>1, Spans
  <2>7. Left = 1 + Sending(MEPEventRead) /\ Left' = Sending(MEPEventRead) - 0
    BY <2>1, <2>3 DEF Left
  <2>8. Left > 0 /\ Left' = Left - 1
    BY <2>6, <2>7
  <2> QED
    BY <2>1, <2>4, <2>5, <2>8
<1>9. CASE SendEvent("takes")
  <2>1. FSMSend = "Event" /\ MEPEventRead >= 1 /\ word < EventWords
    BY <1>9 DEF SendEvent, SenderTypes
  <2>2. /\ ToRead = MEPEventRead - 1
        /\ Left = Sending(MEPEventRead) - word /\ Left > 0 /\ Sending(MEPEventRead) \in Nat
    BY <1>1, <2>1, LeftType, Spans DEF ToRead, Left
  <2>3. CASE /\ word' = word + 1 /\ Packets(FALSE) /\ UNCHANGED <<FSMSend, MEPEventRead>>
    <3>1. FIFOPACKETS' = FIFOPACKETS - 0 + Wrote'
      BY <1>1, <1>3, <1>6, <2>3
    <3>2. ToRead' = MEPEventRead - 1 /\ Left' = Sending(MEPEventRead) - (word + 1)
      BY <2>1, <2>3 DEF ToRead, Left
    <3>3. ToRead' = ToRead - 0 /\ Left' = Left - 1
      BY <1>1, <2>2, <3>2
    <3> QED
      BY <2>1, <2>2, <3>1, <3>3
  <2>4. CASE /\ word = EventWords - 1 /\ word' = 0 /\ MEPEventRead' = MEPEventRead - 1
             /\ FSMSend' = IF MEPEventRead # 1 THEN "Event" ELSE "idle"
             /\ Packets(MEPEventRead # 1)
    <3>1. MEPEventRead - 1 \in Nat /\ MEPEventRead = (MEPEventRead - 1) + 1
      BY <1>1, <2>1
    <3>2. /\ Sending(MEPEventRead - 1) \in Nat
          /\ Sending(MEPEventRead) = Sending(MEPEventRead - 1) + EventWords
      BY <3>1, Spans
    <3>3. CASE MEPEventRead = 1
      <4>1. FSMSend' = "idle" /\ Packets(FALSE)
        BY <2>4, <3>3, Zenon
      <4>2. FIFOPACKETS' = FIFOPACKETS - 0 + Wrote'
        BY <1>1, <1>3, <1>6, <4>1
      <4>3. ToRead' = 0 /\ Left' = 0
        BY <4>1 DEF ToRead, Left
      <4>4. Sending(0) = 0
        BY Spans
      <4>5. Left = 1 /\ ToRead = 0
        BY <1>1, <2>2, <2>4, <3>2, <3>3, <4>4
      <4>6. ToRead' = ToRead - 0 /\ Left' = Left - 1
        BY <4>3, <4>5
      <4> QED
        BY <2>1, <2>2, <4>2, <4>6
    <3>4. CASE MEPEventRead # 1
      <4>1. FSMSend' = "Event" /\ Packets(TRUE)
        <5>1. (MEPEventRead # 1) = TRUE
          BY <3>4
        <5> QED
          BY <2>4, <5>1
      <4>2. FIFOPACKETS > 0
        BY <1>1, <2>1, <2>2, <3>4
      <4>3. FIFOPACKETS' = FIFOPACKETS - 1 + Wrote'
        BY <1>4, <4>1, <4>2
      <4>4. ToRead' = (MEPEventRead - 1) - 1 /\ Left' = Sending(MEPEventRead - 1) - 0
        BY <2>4, <4>1 DEF ToRead, Left
      <4>5. ToRead' = ToRead - 1 /\ Left' = Left - 1
        BY <1>1, <2>2, <2>4, <3>2, <4>4
      <4> QED
        BY <2>1, <2>2, <4>3, <4>5
    <3> QED
      BY <3>3, <3>4
  <2> QED
    BY <1>9, <2>3, <2>4 DEF SendEvent
<1>10. CASE PacketHeaderEOB("takes") \/ SendEOB("takes")
  BY <1>10 DEF Flags, PacketHeaderEOB, SendEOB
<1> QED
  BY <1>2, <1>7, <1>8, <1>9, <1>10 DEF SubSendFARM

\* When a packet is complete the sender is idle.
LEMMA FullFindsIdle ==
  ASSUME FarmTypes, Pace, Due, SenderTypes, InTime, ~eob_data_send,
         MEPeventWritten = MEPEventNumber
  PROVE  FSMSend \notin {"PacketHeader", "Event"}
<1> SUFFICES ASSUME Left > 0 PROVE FALSE
  BY LeftType
<1>1. /\ FSMPackets = "deadtime_0" /\ phase \in 0 .. 4 /\ sinceWord \in 1 .. WordGap
      /\ MEPEventNumber \in Nat
  BY FarmAssumption DEF FarmTypes
<1>2. Clocks \in Nat /\ Left \in Nat
  BY <1>1, Gaps, LeftType DEF Clocks
<1>3. Left + Span(Coming) + Clocks <= Cross + 6 + Sending(MEPEventNumber)
  BY DEF InTime
<1>4. /\ Span(MEPEventNumber) \in Nat /\ Sending(MEPEventNumber) \in Nat
      /\ Sending(MEPEventNumber) + Cross < Span(MEPEventNumber)
      /\ Span(MEPEventNumber + 1) = Span(MEPEventNumber) + 3 * WordGap
  BY <1>1, Spans
<1>5. CASE Pending
  <2>1. Coming = MEPEventNumber + 1
    BY <1>1, <1>5, DueLength DEF Coming
  <2> QED
    BY <1>2, <1>3, <1>4, <2>1, Gaps
<1>6. CASE ~Pending
  <2>1. Coming = MEPEventNumber
    BY <1>1, <1>6, DueLength DEF Coming
  <2>2. sinceWord > 1
    BY <1>1, <1>6 DEF Pace, Pending
  <2>3. Clocks >= 5
    BY <1>1, <2>2 DEF Pace
  <2> QED
    BY <1>2, <1>3, <1>4, <2>1, <2>3, Gaps
<1> QED
  BY <1>5, <1>6

\* What a fast clock does to the counts, out of the reset of the counters.
LEMMA CountsRegular ==
  ASSUME SInv, Regular, FastEdge(PacketsFull), ~(BURST /\ FSMSendDetectors = "S0")
  PROVE  /\ Coming \in Nat /\ Wrote' \in {0, 1} /\ Clocks \in Nat /\ Clocks' = Clocks + 1
         /\ \/ /\ MEPeventWritten # MEPEventNumber
               /\ MEPeventWritten' = MEPeventWritten + Wrote' /\ Coming' = Coming
               /\ Len(due') = Len(due) - Wrote'
            \/ /\ MEPeventWritten = MEPEventNumber /\ FSMPackets = "deadtime_0"
               /\ MEPeventWritten' = 0 /\ Wrote' = 0 /\ due' = due
               /\ MEPeventWritten + Len(due) = Coming /\ Coming' = Len(due)
<1>1. FarmTypes /\ Due
  BY DEF SInv, FInv, Regular
<1>2. /\ MEPeventWritten \in Nat /\ MEPEventNumber \in Nat
      /\ MEPeventWritten = MEPEventNumber => FSMPackets = "deadtime_0"
      /\ phase \in 0 .. 4 /\ sinceWord \in 1 .. WordGap
  BY <1>1, FarmAssumption DEF FarmTypes
<1>3. Len(due) \in {0, 1}
  BY <1>1, DueLength
<1>4. Clocks \in Nat /\ Clocks' = Clocks + 1
  <2>1. phase' = phase + 1 /\ sinceWord' = sinceWord
    BY DEF FastEdge, slowVars
  <2> QED
    BY <1>2, <2>1, Gaps DEF Clocks
<1>5. CASE FSMPackets = "WriteEvent"
  <2>1. written' # None /\ MEPeventWritten' = MEPeventWritten + 1
    BY <1>1, <1>5, NotFull, Counts
  <2>2. Len(due) = 1 /\ Len(due') = 0 /\ Wrote' = 1
    BY <1>1, <1>5, <2>1, DuePaid DEF Wrote
  <2>3. Coming' = MEPeventWritten + 1 + 0 /\ Coming = MEPeventWritten + 1
    BY <2>1, <2>2 DEF Coming
  <2> QED
    BY <1>2, <1>4, <1>5, <2>1, <2>2, <2>3
<1>6. CASE FSMPackets = "deadtime_0" /\ MEPeventWritten = MEPEventNumber
  <2>1. written' = None /\ MEPeventWritten' = 0 /\ due' = due
    BY <1>1, <1>6, Counts, DuePaid
  <2>2. Wrote' = 0 /\ Coming' = 0 + Len(due)
    BY <2>1 DEF Wrote, Coming
  <2> QED
    BY <1>2, <1>3, <1>4, <1>6, <2>1, <2>2 DEF Coming
<1>7. CASE FSMPackets # "WriteEvent" /\ MEPeventWritten # MEPEventNumber
  <2>1. written' = None /\ MEPeventWritten' = MEPeventWritten /\ due' = due
    BY <1>1, <1>7, Counts, DuePaid DEF FarmTypes
  <2>2. Wrote' = 0 /\ Coming' = Coming
    BY <2>1 DEF Wrote, Coming
  <2> QED
    BY <1>2, <1>3, <1>4, <1>7, <2>1, <2>2 DEF Coming
<1> QED
  BY <1>2, <1>5, <1>6, <1>7

\* The count of FIFOPACKETS and the time left, in a fast clock.
LEMMA WholeFast ==
  ASSUME SInv, Regular, Edge125, SenderTypes'
  PROVE  Whole' /\ InTime'
<1>1. /\ FarmTypes /\ Pace /\ Due /\ Ended /\ SenderTypes /\ Flags /\ Whole /\ InTime
      /\ MACBusy = 0 /\ FastEdge(PacketsFull)
  BY DEF SInv, FInv, Regular, Edge125
<1>2. CASE BURST /\ FSMSendDetectors = "S0"
  <2>1. FIFOPACKETS' = 0 /\ FSMSend' = "idle"
    BY <1>2 DEF Edge125, ResetSend
  <2>2. MEPeventWritten' = 0
    BY <1>1, <1>2, Counts DEF Ended
  <2>3. ToRead' = 0 /\ Left' = 0
    BY <2>1 DEF ToRead, Left
  <2> QED
    BY <2>1, <2>2, <2>3 DEF Whole, InTime
<1>3. CASE ~(BURST /\ FSMSendDetectors = "S0") /\ ~eob_data_send'
  <2>1. SubSendFARM
    BY <1>3 DEF Edge125
  <2>2. ~eob_data_send
    BY <1>3, <2>1 DEF SubSendFARM, SendIdle, PacketHeader, PacketHeaderEOB, SendEvent, SendEOB,
                      sendVars
  <2>3. /\ FIFOPACKETS = ToRead + MEPeventWritten /\ ToRead \in Nat /\ Left \in Nat
        /\ MEPeventWritten \in Nat /\ FIFOPACKETS \in Nat /\ MEPEventNumber \in Nat
    BY <1>1, <2>2, ToReadBound, LeftType, FarmAssumption DEF Whole, FarmTypes, SenderTypes
  <2>4. FIFOPACKETS >= ToRead
    BY <2>3
  <2>5. /\ Coming \in Nat /\ Wrote' \in {0, 1} /\ Clocks \in Nat /\ Clocks' = Clocks + 1
        /\ \/ /\ MEPeventWritten # MEPEventNumber
              /\ MEPeventWritten' = MEPeventWritten + Wrote' /\ Coming' = Coming
           \/ /\ MEPeventWritten = MEPEventNumber /\ FSMPackets = "deadtime_0"
              /\ MEPeventWritten' = 0 /\ Wrote' = 0
              /\ Coming' = Len(due)
    BY <1>1, <1>3, CountsRegular
  <2>6. Span(Coming) \in Nat /\ Sending(MEPEventNumber) \in Nat
    BY <2>5, Spans
\* A packet begins.
  <2>7. CASE /\ FSMSend = "idle" /\ MEPeventWritten = MEPEventNumber
             /\ FSMSend' = "PacketHeader" /\ MEPEventRead' = MEPEventNumber
             /\ FIFOPACKETS' = FIFOPACKETS + Wrote'
    <3>1. ToRead = 0 /\ ToRead' = MEPEventNumber /\ Left' = 1 + Sending(MEPEventNumber)
      BY <2>7 DEF ToRead, Left
    <3>2. FIFOPACKETS' = ToRead' + MEPeventWritten'
      BY <2>3, <2>5, <2>7, <3>1
    <3>3. FSMPackets = "deadtime_0" /\ Coming' = Len(due)
      BY <2>5, <2>7
    <3>4. Span(Coming') + Clocks' <= Cross + 5
      <4>1. CASE Pending
        <5>1. Coming' = 1 /\ sinceWord = 1
          BY <1>1, <3>3, <4>1, DueLength DEF Pending
        <5>2. phase = 0 /\ 3 * WordGap <= Cross + 4
          BY <1>1, <3>3, <5>1 DEF Pace, FarmTypes
        <5>3. Span(0) = 0 /\ Span(0 + 1) = Span(0) + 3 * WordGap
          BY Spans
        <5>4. Clocks = 0 /\ Span(Coming') = 3 * WordGap
          BY <5>1, <5>2, <5>3, Gaps DEF Clocks
        <5> QED
          BY <2>5, <5>2, <5>4, Gaps
      <4>2. CASE ~Pending
        <5>1. Coming' = 0
          BY <1>1, <3>3, <4>2, DueLength
        <5>2. Span(Coming') = 0
          BY <5>1, Spans
        <5>3. Clocks <= Cross + 4
          BY <1>1, <3>3 DEF Pace
        <5> QED
          BY <2>5, <5>2, <5>3, Gaps
      <4> QED
        BY <4>1, <4>2
    <3>5. Coming' \in Nat
      BY <1>1, <3>3, DueLength
    <3>6. Span(Coming') \in Nat
      BY <3>5, Spans
    <3>7. Left' + Span(Coming') + Clocks' <= Cross + 6 + Sending(MEPEventNumber)
      BY <2>5, <2>6, <3>1, <3>4, <3>6, Gaps
    <3> QED
      BY <3>2, <3>7 DEF Whole, InTime
  <2>8. CASE /\ FSMSend = "idle" => MEPeventWritten # MEPEventNumber
             /\ \E reads \in {0, 1} :
                   FIFOPACKETS' = FIFOPACKETS - reads + Wrote' /\ ToRead' = ToRead - reads
             /\ Left > 0 => Left' = Left - 1
             /\ Left = 0 => Left' = 0
    <3>1. MEPeventWritten # MEPEventNumber
      <4>1. FSMSend \in {"idle", "PacketHeader", "Event"}
        BY <1>1, <2>2 DEF Flags, SenderTypes
      <4> QED
        BY <1>1, <2>2, <2>8, <4>1, FullFindsIdle
    <3>2. MEPeventWritten' = MEPeventWritten + Wrote' /\ Coming' = Coming
      BY <2>5, <3>1
    <3>3. FIFOPACKETS' = ToRead' + MEPeventWritten'
      BY <2>3, <2>5, <2>8, <3>2
    <3>4. Left' > 0 => Left > 0 /\ Left' = Left - 1
      BY <2>3, <2>8
    <3>5. Left > 0 => Left + Span(Coming) + Clocks <= Cross + 6 + Sending(MEPEventNumber)
      BY <1>1, <2>2 DEF InTime
    <3>6. Left' > 0 => Left' + Span(Coming') + Clocks' <= Cross + 6 + Sending(MEPEventNumber)
      BY <2>3, <2>5, <2>6, <3>2, <3>4, <3>5, Gaps
    <3> QED
      BY <3>3, <3>6 DEF Whole, InTime
  <2> QED
    BY <1>1, <2>1, <2>2, <1>3, <2>4, <2>7, <2>8, SenderMoves
<1>4. CASE eob_data_send'
  BY <1>4 DEF Whole, InTime
<1> QED
  BY <1>2, <1>3, <1>4

\* With nothing due, an idle machine stays idle.
LEMMA StaysIdle ==
  ASSUME FarmTypes, Register, Pace, Due, due = <<>>, NEW full, FastEdge(full),
         FSMPackets = "idle"
  PROVE  FSMPackets' = "idle"
<1> SUFFICES ASSUME ev125 \in Reported PROVE FALSE
  BY FastMoves
<1>1. phase \in 0 .. 4 /\ phase < 4
  BY DEF FarmTypes, FastEdge
<1>2. phase # 0
  BY DEF Pace
<1>3. sinceWord = 1
  BY <1>1, <1>2 DEF Register
<1>4. phase = 1
  BY <1>1, <1>2, <1>3 DEF Pace
<1>5. Pending
  BY <1>3, <1>4 DEF Pending
<1> QED
  BY <1>5 DEF Due

\* No word comes between two bursts.
LEMMA EmptiedFast ==
  ASSUME SInv, Regular, Edge125
  PROVE  Emptied'
<1>1. FarmTypes /\ Ended /\ FastEdge(PacketsFull)
  BY DEF SInv, FInv, Regular, Edge125
<1>2. UNCHANGED <<FSMSendDetectors, BURST, BURST40>>
  BY <1>1, Zenon DEF FastEdge, detVars, ttcVars
<1>3. CASE BURST /\ FSMSendDetectors = "S0"
  <2>1. MEPeventWritten' = 0
    BY <1>1, <1>3, Counts DEF Ended
  <2> QED
    BY <2>1 DEF Emptied
<1>4. CASE ~(BURST /\ FSMSendDetectors = "S0")
  BY <1>2, <1>4 DEF Emptied
<1> QED
  BY <1>3, <1>4

\* The machine stays quiet, in a fast clock.
LEMMA QuietFast ==
  ASSUME SInv, Regular, Edge125
  PROVE  Quiet'
<1>1. FarmTypes /\ Register /\ Pace /\ Due /\ Quiet /\ FastEdge(PacketsFull)
  BY DEF SInv, FInv, Regular, Edge125
<1>2. UNCHANGED <<FSMSendDetectors, settled>>
  BY <1>1 DEF Edge125, FastEdge, detVars
<1>3. CASE settled /\ FSMSendDetectors \in {"S3", "S0_0", "S0"}
  <2>1. due = <<>> /\ FSMPackets \in {"idle", "deadtime_0"}
    BY <1>1, <1>3 DEF Quiet
  <2>2. due' = <<>>
    BY <1>1, <2>1, DuePaid
  <2>3. FSMPackets' = "idle"
    BY <1>1, <2>1, StaysIdle, FastMoves
  <2> QED
    BY <2>2, <2>3 DEF Quiet
<1>4. CASE ~(settled /\ FSMSendDetectors \in {"S3", "S0_0", "S0"})
  BY <1>2, <1>4 DEF Quiet
<1> QED
  BY <1>3, <1>4

\* Reading adds no word to FIFOPACKETS.
LEMMA OneRead ==
  ASSUME NEW n \in Nat, NEW w \in {0, 1}
  PROVE  (IF n > 0 THEN n - 1 ELSE n) + w <= n + w
  OBVIOUS

\* A word written is one fewer due: together they still fit.
LEMMA StillRoom ==
  ASSUME NEW n \in Nat, NEW m \in Nat, NEW limit \in Nat, NEW w \in {0, 1}, NEW d \in {0, 1},
         NEW e, m <= n + w, n + d <= limit, e = d - w \/ (w = 0 /\ e = d)
  PROVE  m + e <= limit
  OBVIOUS

\* Once the end of the burst was noticed, every event is read that was written.
LEMMA EndingFast ==
  ASSUME SInv, Regular, Edge125, SenderTypes'
  PROVE  Ending'
<1>1. /\ FarmTypes /\ Register /\ Pace /\ Due /\ Ended /\ SenderTypes /\ Flags
      /\ Whole /\ Quiet /\ Ending /\ MACBusy = 0 /\ FastEdge(PacketsFull)
  BY DEF SInv, FInv, Regular, Edge125
<1>2. settled' = settled
  BY DEF Edge125
<1>3. /\ MEPeventWritten \in Nat /\ FIFOPACKETS \in Nat /\ MEPEventNumber \in Nat
      /\ MEPeventWritten <= MEPEventNumber /\ MEPEventNumber >= 1
      /\ MEPEventRead \in Nat
  BY <1>1, FarmAssumption DEF FarmTypes, SenderTypes
<1>4. CASE ~eob_data_send'
  BY <1>4 DEF Ending
<1>5. CASE eob_data_send'
  <2>1. ~(BURST /\ FSMSendDetectors = "S0") /\ SubSendFARM
    BY <1>5 DEF Edge125, ResetSend
  <2>2. /\ Wrote' \in {0, 1}
        /\ MEPeventWritten # MEPEventNumber =>
              MEPeventWritten' = MEPeventWritten + Wrote' /\ Len(due') = Len(due) - Wrote'
        /\ MEPeventWritten = MEPEventNumber => Wrote' = 0 /\ due' = due
    BY <1>1, <2>1, CountsRegular
  <2>3. Len(due) \in {0, 1}
    BY <1>1, DueLength
  <2>4. Ports = {"takes"}
    BY <1>1 DEF Ports, MACReady
  <2>5. ASSUME Packets(FALSE) PROVE FIFOPACKETS' = FIFOPACKETS + Wrote'
    BY <2>5 DEF Packets, Wrote
  <2>6. ASSUME Packets(TRUE)
        PROVE  FIFOPACKETS' = (IF FIFOPACKETS > 0 THEN FIFOPACKETS - 1 ELSE FIFOPACKETS) + Wrote'
    BY <2>6 DEF Packets, Wrote
\* The end is noticed.
  <2>7. CASE ~eob_data_send
    <3>1. /\ FSMSend = "idle" /\ MEPeventWritten # MEPEventNumber /\ eob_ev125
          /\ MEPEventRead' = MEPeventWritten /\ FSMSend' = "PacketHeaderEOB"
          /\ Packets(FALSE)
      BY <1>5, <2>1, <2>7 DEF SubSendFARM, SendIdle, PacketHeader, PacketHeaderEOB, SendEvent,
                              SendEOB, sendVars
    <3>2. FIFOPACKETS = MEPeventWritten /\ FIFOPACKETS' = MEPeventWritten + Wrote'
      BY <1>1, <1>3, <2>5, <2>7, <3>1 DEF Whole, ToRead
    <3>3. CASE settled
      <4>1. FSMPackets = "idle" /\ due = <<>>
        BY <1>1, <3>1, <3>3 DEF Quiet, Flags
      <4>2. FSMPackets' = "idle" /\ Wrote' = 0
        BY <1>1, <4>1, StaysIdle, Counts DEF Wrote
      <4>3. MEPeventWritten' = MEPeventWritten
        BY <1>3, <2>2, <3>1, <4>2
      <4>4. FIFOPACKETS' = ToRead'
        BY <1>3, <3>1, <3>2, <4>2 DEF ToRead
      <4> QED
        BY <1>2, <3>1, <3>3, <4>2, <4>3, <4>4 DEF Ending
    <3>4. CASE ~settled
      <4>1. FIFOPACKETS' + Len(due') <= MEPEventNumber
        <5>1. MEPeventWritten + Len(due) <= MEPEventNumber
          <6>1. \A m \in Nat, n \in Nat : m <= n /\ m # n => m + 0 <= n /\ m + 1 <= n
            OBVIOUS
          <6> QED
            BY <1>3, <2>3, <3>1, <6>1
        <5>2. FIFOPACKETS' \in Nat /\ FIFOPACKETS' <= MEPeventWritten + Wrote'
          BY <3>2 DEF SenderTypes
        <5>3. Len(due') = Len(due) - Wrote'
          BY <2>2, <3>1
        <5> QED
          BY <1>3, <2>2, <2>3, <5>1, <5>2, <5>3, StillRoom
      <4> QED
        BY <1>2, <3>4, <4>1 DEF Ending
    <3> QED
      BY <3>3, <3>4
\* It goes on.
  <2>8. CASE eob_data_send /\ ~settled
    <3>1. FIFOPACKETS + Len(due) <= MEPEventNumber
      BY <1>1, <2>8 DEF Ending
    <3>2. \E reads \in {TRUE, FALSE} : Packets(reads)
      BY <2>1 DEF SubSendFARM, SendIdle, PacketHeader, PacketHeaderEOB, SendEvent, SendEOB
    <3>3. FIFOPACKETS' <= FIFOPACKETS + Wrote' /\ FIFOPACKETS' \in Nat
      <4>1. FIFOPACKETS' \in Nat
        BY DEF SenderTypes
      <4>2. CASE Packets(FALSE)
        <5>1. FIFOPACKETS' = FIFOPACKETS + Wrote'
          BY <2>5, <4>2
        <5>2. \A m \in Nat : m <= m
          OBVIOUS
        <5>3. FIFOPACKETS' <= FIFOPACKETS'
          BY <4>1, <5>2
        <5> QED
          BY <4>1, <5>1, <5>3
      <4>3. CASE Packets(TRUE)
        <5>1. FIFOPACKETS' = (IF FIFOPACKETS > 0 THEN FIFOPACKETS - 1 ELSE FIFOPACKETS) + Wrote'
          BY <2>6, <4>3
        <5> QED
          BY <1>3, <2>2, <4>1, <5>1, OneRead
      <4> QED
        BY <3>2, <4>1, <4>2, <4>3
    <3>4. Len(due') = Len(due) - Wrote' \/ (Wrote' = 0 /\ due' = due)
      BY <2>2
    <3>5. FIFOPACKETS' + Len(due') <= MEPEventNumber
      BY <1>3, <2>2, <2>3, <3>1, <3>3, <3>4, StillRoom
    <3> QED
      BY <1>2, <2>8, <3>5 DEF Ending
  <2>9. CASE eob_data_send /\ settled
    <3>1. /\ FSMSend # "PacketHeader" /\ FSMPackets = "idle"
          /\ FIFOPACKETS = ToRead /\ MEPeventWritten # MEPEventNumber
      BY <1>1, <2>9 DEF Ending
    <3>2. due = <<>>
      BY <1>1, <2>9, <3>1 DEF Quiet, Flags
    <3>3. FSMPackets' = "idle" /\ Wrote' = 0
      BY <1>1, <3>1, <3>2, StaysIdle, Counts DEF Wrote
    <3>4. MEPeventWritten' = MEPeventWritten
      BY <1>3, <2>2, <3>1, <3>3
    <3>5. FSMSend' # "PacketHeader" /\ FIFOPACKETS' = ToRead'
      <4>1. CASE SendIdle
        <5>1. FSMSend = "idle" /\ FSMSend' = "idle" /\ Packets(FALSE)
          BY <2>9, <3>1, <4>1 DEF SendIdle
        <5> QED
          BY <1>3, <2>5, <3>1, <3>3, <5>1 DEF ToRead
      <4>2. CASE PacketHeaderEOB("takes") /\ MEPEventRead # 0
        <5>1. FSMSend = "PacketHeaderEOB" /\ MEPEventRead' = MEPEventRead
          BY <4>2 DEF PacketHeaderEOB
        <5>2. FIFOPACKETS = MEPEventRead /\ FIFOPACKETS > 0
          BY <1>3, <3>1, <4>2, <5>1 DEF ToRead
        <5>3. FSMSend' = "Event" /\ Packets(TRUE)
          BY <4>2, <5>2 DEF PacketHeaderEOB
        <5>4. FIFOPACKETS' = MEPEventRead - 1
          BY <1>3, <2>6, <3>3, <5>2, <5>3
        <5> QED
          BY <5>1, <5>3, <5>4 DEF ToRead
      <4>3. CASE PacketHeaderEOB("takes") /\ MEPEventRead = 0
        <5>1. /\ FSMSend = "PacketHeaderEOB" /\ FSMSend' = "EOB"
              /\ Packets(FALSE)
          BY <4>3 DEF PacketHeaderEOB
        <5>2. FIFOPACKETS = 0 /\ FIFOPACKETS' = 0
          BY <2>5, <3>1, <3>3, <4>3, <5>1 DEF ToRead
        <5> QED
          BY <5>1, <5>2 DEF ToRead
      <4>4. CASE SendEvent("takes")
        <5>1. FSMSend = "Event" /\ MEPEventRead >= 1 /\ FIFOPACKETS = MEPEventRead - 1
          BY <1>1, <3>1, <4>4 DEF SendEvent, SenderTypes, ToRead
        <5>2. CASE Packets(FALSE) /\ UNCHANGED <<FSMSend, MEPEventRead>>
          BY <1>3, <2>5, <3>3, <5>1, <5>2 DEF ToRead
        <5>3. CASE /\ MEPEventRead' = MEPEventRead - 1
                   /\ FSMSend' = IF MEPEventRead # 1 THEN "Event" ELSE "PacketHeaderEOB"
                   /\ Packets(MEPEventRead # 1)
          <6>1. CASE MEPEventRead = 1
            <7>1. FSMSend' = "PacketHeaderEOB" /\ Packets(FALSE) /\ MEPEventRead' = 0
              <8>1. (MEPEventRead # 1) = FALSE /\ MEPEventRead - 1 = 0
                BY <6>1
              <8>2. FSMSend' = "PacketHeaderEOB" /\ MEPEventRead' = 0
                BY <5>3, <6>1, <8>1
              <8>3. Packets(FALSE)
                BY <5>3, <8>1
              <8> QED
                BY <8>2, <8>3
            <7> QED
              BY <1>3, <2>5, <3>3, <5>1, <6>1, <7>1 DEF ToRead
          <6>2. CASE MEPEventRead # 1
            <7>1. FSMSend' = "Event" /\ Packets(TRUE)
              <8>1. (MEPEventRead # 1) = TRUE
                BY <6>2
              <8> QED
                BY <5>3, <8>1
            <7>2. FIFOPACKETS > 0 /\ ToRead' = (MEPEventRead - 1) - 1
              BY <1>3, <5>1, <5>3, <6>2, <7>1 DEF ToRead
            <7> QED
              BY <1>3, <2>6, <3>3, <5>1, <7>1, <7>2
          <6> QED
            BY <6>1, <6>2
        <5> QED
          BY <2>9, <4>4, <5>2, <5>3 DEF SendEvent
      <4>5. CASE SendEOB("takes")
        <5>1. FSMSend = "EOB" /\ FSMSend' \in {"EOB", "idle"} /\ Packets(FALSE)
          BY <4>5 DEF SendEOB, sendVars
        <5> QED
          BY <1>3, <2>5, <3>1, <3>3, <5>1 DEF ToRead
      <4>6. CASE PacketHeader("takes")
        BY <3>1, <4>6 DEF PacketHeader
      <4> QED
        BY <2>1, <2>4, <4>1, <4>2, <4>3, <4>4, <4>5, <4>6 DEF SubSendFARM
    <3> QED
      BY <1>2, <2>9, <3>1, <3>3, <3>4, <3>5 DEF Ending
  <2> QED
    BY <2>7, <2>8, <2>9
<1> QED
  BY <1>4, <1>5

\* A slow clock changes nothing of the sender's.
LEMMA SlowUnchanged ==
  ASSUME NEW a, Edge40(a)
  PROVE  /\ UNCHANGED <<FIFOPACKETS, eob_ev125, FSMSend, MEPEventRead, word, eob_data_send, ends>>
         /\ UNCHANGED <<FSMPackets, MEPeventWritten, ev125>>
         /\ UNCHANGED activate /\ (apart' => apart)
         /\ phase \in {3, 4} /\ phase' = 0
  BY Zenon DEF Edge40, SlowEdge, Clock40, altTTC, fastVars, sendVars

\* After a burst no words are announced until the next one begins.
LEMMA SlowSilent ==
  ASSUME FarmTypes, FSMSendDetectors \in {"S3", "S0_0", "S0"},
         FSMSendDetectors' \in {"S3", "S0_0", "S0"}, NEW a, Edge40(a), apart'
  PROVE  ev40' = "none" /\ due' = due /\ settled' = settled
<1>1. /\ SubSendDetectors(a # NoAddress, FarmFull)
      /\ due' = IF ev40' \in Reported THEN Append(due, Event(ev40', a)) ELSE due
      /\ settled' = IF ev40' = "eob" THEN sinceWord >= WordGap ELSE settled
  BY Zenon DEF Edge40, SlowEdge, Clock40
<1>2. ev40' = "none"
  BY <1>1, Words
<1> QED
  BY <1>1, <1>2 DEF Reported

\* A burst starts from an empty packet, in a slow clock.
LEMMA EmptiedSlow ==
  ASSUME SInv, Gate', Regular, NEW a \in Address \cup {NoAddress}, Edge40(a)
  PROVE  Emptied'
<1>1. FarmTypes /\ Gate /\ Emptied
  BY DEF SInv, FInv, Regular
<1>2. /\ phase \in {3, 4} /\ phase' = 0 /\ MEPeventWritten' = MEPeventWritten
      /\ altTTC /\ SubSendDetectors(a # NoAddress, FarmFull)
  BY SlowUnchanged DEF Edge40, SlowEdge, Clock40
<1> SUFFICES ASSUME FSMSendDetectors' = "S0", BURST40' PROVE MEPeventWritten = 0
  BY <1>2 DEF Emptied
<1>3. BURST
  BY <1>2 DEF altTTC
<1>4. FSMSendDetectors \in {"S0_0", "S0"}
  BY <1>1, <1>2, Words DEF FarmTypes, TypeOK
<1>5. FSMSendDetectors = "S0"
  BY <1>1, <1>3, <1>4 DEF Gate
<1> QED
  BY <1>1, <1>2, <1>3, <1>5 DEF Emptied

\* A word that comes is one fewer to come and starts the clocks anew: the sum does not grow.
LEMMA NoLater ==
  ASSUME NEW l \in Nat, NEW s \in Nat, NEW c \in Nat, NEW s2 \in Nat, NEW c2 \in Nat,
         NEW k \in Nat, l + s + c <= k, s2 + c2 <= s + c
  PROVE  l + s2 + c2 <= k
  OBVIOUS

\* The count of FIFOPACKETS and the time left, in a slow clock.
LEMMA WholeSlow ==
  ASSUME SInv, Regular, NEW a, Edge40(a), FarmTypes', apart'
  PROVE  Whole' /\ InTime'
<1>1. FarmTypes /\ Pace /\ Due /\ Whole /\ InTime /\ SenderTypes
  BY DEF SInv, FInv, Regular
<1>2. /\ UNCHANGED <<FIFOPACKETS, FSMSend, MEPEventRead, word, eob_data_send, MEPeventWritten>>
      /\ phase \in {3, 4} /\ phase' = 0
  BY SlowUnchanged
<1>3. Whole'
  BY <1>1, <1>2 DEF Whole, ToRead
<1>4. Left' = Left
  BY <1>2 DEF Left
<1>5. /\ sinceWord' = IF ev40' \in Reported THEN 1 ELSE UpTo(WordGap, sinceWord)
      /\ ev40' \in Reported => sinceWord >= WordGap
      /\ due' = IF ev40' \in Reported THEN Append(due, Event(ev40', a)) ELSE due
  BY Zenon DEF Edge40, SlowEdge
<1>6. /\ sinceWord \in 1 .. WordGap /\ MEPeventWritten \in Nat /\ Left \in Nat
      /\ Len(due) \in {0, 1}
  BY <1>1, DueLength, LeftType, FarmAssumption DEF FarmTypes
<1>7. Coming \in Nat
  BY <1>6 DEF Coming
<1>8. Span(Coming) \in Nat /\ Span(Coming + 1) = Span(Coming) + 3 * WordGap
  BY <1>7, Spans
<1>9. ASSUME Clocks \in Nat, Clocks' \in Nat, Span(Coming') \in Nat,
              Span(Coming') + Clocks' <= Span(Coming) + Clocks
       PROVE  InTime'
  <2> SUFFICES ASSUME ~eob_data_send, Left > 0
               PROVE  Left + Span(Coming') + Clocks' <= Cross + 6 + Sending(MEPEventNumber)
    BY <1>2, <1>4 DEF InTime
  <2>1. Left + Span(Coming) + Clocks <= Cross + 6 + Sending(MEPEventNumber)
    BY <1>1 DEF InTime
  <2>2. Cross + 6 + Sending(MEPEventNumber) \in Nat
    <3>1. Cross \in Nat
      BY Gaps
    <3>2. Sending(MEPEventNumber) \in Nat
      BY Spans
    <3> QED
      BY <3>1, <3>2
  <2> HIDE DEF Clocks, Left, Coming
  <2> QED
    BY <1>6, <1>8, <1>9, <2>1, <2>2, NoLater
<1>10. InTime'
  <2>1. CASE ev40' \in Reported
    <3>1. sinceWord = WordGap /\ sinceWord' = 1
      BY <1>5, <1>6, <2>1, Gaps
    <3>2. FSMPackets \in {"idle", "deadtime_0"} /\ Clocks >= 3 * WordGap
      BY <1>1, <1>2, <3>1, WordFindsIdle
    <3>3. ~Pending
      BY <1>2 DEF Pending
    <3>4. due = <<>>
      BY <1>1, <3>2, <3>3 DEF Due
    <3>5. Len(due) = 0 /\ Len(due') = 1
      BY <1>5, <2>1, <3>4
    <3>6. Coming = MEPeventWritten /\ Coming' = MEPeventWritten + 1
      BY <1>2, <1>6, <3>5 DEF Coming
    <3>7. Clocks' = 0 /\ Clocks \in Nat
      BY <1>2, <3>1, Gaps DEF Clocks
    <3>8. Span(Coming') + Clocks' <= Span(Coming) + Clocks /\ Span(Coming') \in Nat
      BY <1>8, <3>2, <3>6, <3>7, Gaps
    <3>9. Clocks' \in Nat
      BY <3>7
    <3> QED
      BY <1>9, <3>7, <3>8, <3>9
  <2>2. CASE ev40' \notin Reported
    <3>1. Clocks \in Nat /\ Clocks' \in Nat /\ Clocks' <= Clocks
      BY <1>1, <1>2, <1>5, <2>2, NoWordClocks
    <3>2. Coming' = Coming
      BY <1>2, <1>5, <2>2 DEF Coming
    <3>3. Span(Coming') + Clocks' <= Span(Coming) + Clocks /\ Span(Coming') \in Nat
      BY <1>8, <3>1, <3>2
    <3> QED
      BY <1>9, <3>1, <3>3
  <2> QED
    BY <2>1, <2>2
<1> QED
  BY <1>3, <1>10

\* The machine stays quiet, in a slow clock: the reset was long enough.
LEMMA QuietSlow ==
  ASSUME SInv, Regular, NEW a \in Address \cup {NoAddress}, Edge40(a), apart'
  PROVE  Quiet'
<1>1. FarmTypes /\ Register /\ Pace /\ Due /\ Ended /\ Flags /\ Quiet
  BY DEF SInv, FInv, Regular
<1>2. /\ UNCHANGED <<FSMPackets, eob_ev125>> /\ phase \in {3, 4} /\ phase' = 0
      /\ SubSendDetectors(a # NoAddress, FarmFull)
  BY SlowUnchanged DEF Edge40, SlowEdge, Clock40
<1> SUFFICES ASSUME settled', FSMSendDetectors' \in {"S3", "S0_0", "S0"}
             PROVE  /\ due' = <<>>
                    /\ FSMPackets = "idle" \/ (FSMPackets = "deadtime_0" /\ ~eob_ev125)
  BY <1>2 DEF Quiet
<1>3. CASE FSMSendDetectors \in {"S3", "S0_0", "S0"}
  <2>1. due' = due /\ settled
    BY <1>1, <1>3, SlowSilent
  <2>2. due = <<>> /\ FSMPackets = "idle"
    BY <1>1, <1>2, <1>3, <2>1 DEF Quiet
  <2> QED
    BY <2>1, <2>2
\* The burst ends.
<1>4. CASE FSMSendDetectors \in {"S1", "S2"}
  <2>1. ev40' = "eob"
    BY <1>2, <1>4, Words
  <2>2. /\ due' = IF ev40' \in Reported THEN Append(due, Event(ev40', a)) ELSE due
        /\ settled' = IF ev40' = "eob" THEN sinceWord >= WordGap ELSE settled
    BY Zenon DEF Edge40, SlowEdge
  <2>3. sinceWord >= WordGap /\ due' = due
    BY <2>1, <2>2 DEF Reported
  <2>4. sinceWord = WordGap
    BY <1>1, <2>3, Gaps DEF FarmTypes
  <2>5. FSMPackets \in {"idle", "deadtime_0"} /\ ~Pending
    BY <1>1, <1>2, <2>4, WordFindsIdle DEF Pending
  <2>6. ~eob_ev125
    BY <1>1, <1>4 DEF Flags
  <2> QED
    BY <1>1, <2>3, <2>5, <2>6 DEF Due
<1> QED
  BY <1>1, <1>3, <1>4 DEF FarmTypes, TypeOK

\* The end of the burst, in a slow clock: no word comes after it.
LEMMA EndingSlow ==
  ASSUME SInv, Regular, NEW a \in Address \cup {NoAddress}, Edge40(a), apart', Flags'
  PROVE  Ending'
<1>1. FarmTypes /\ Flags /\ Ending
  BY DEF SInv, FInv, Regular
<1>2. UNCHANGED <<FIFOPACKETS, FSMSend, MEPEventRead, eob_data_send, FSMPackets, MEPeventWritten>>
  BY SlowUnchanged
<1>3. CASE eob_data_send
  <2>1. /\ FSMSendDetectors \in {"S3", "S0_0", "S0"}
        /\ FSMSendDetectors' \in {"S3", "S0_0", "S0"}
    BY <1>1, <1>2, <1>3 DEF Flags
  <2>2. due' = due /\ settled' = settled
    BY <1>1, <2>1, SlowSilent
  <2> QED
    BY <1>1, <1>2, <2>2 DEF Ending, ToRead
<1>4. CASE ~eob_data_send
  BY <1>2, <1>4 DEF Ending
<1> QED
  BY <1>3, <1>4

-----------------------------------------------------------------------------
\* The invariant of the sender holds at first ...
LEMMA SInvInit == SendInit => SInv
<1> SUFFICES ASSUME SendInit PROVE SInv
  OBVIOUS
<1>1. FInv
  BY FInvInit DEF SendInit
<1>2. /\ FIFOPACKETS = 0 /\ eob_ev125 = FALSE /\ FSMSend = "idle" /\ MEPEventRead = 0
      /\ word = 0 /\ eob_data_send = FALSE /\ MACBusy = 0 /\ FSMSendDetectors = "S0_0"
      /\ MEPeventWritten = 0 /\ due = <<>> /\ FSMPackets = "idle"
  BY DEF SendInit, FarmInit, Init
<1>3. SenderTypes /\ Flags
  BY <1>2, FarmAssumption, PacketsAssumption DEF SenderTypes, Flags
<1>4. Emptied /\ Whole /\ InTime /\ Quiet /\ Ending
  BY <1>2 DEF Emptied, Whole, ToRead, InTime, Left, Quiet, Ending
<1> QED
  BY <1>1, <1>2, <1>3, <1>4 DEF SInv

\* The port of the farm is free unless it was made busy.
LEMMA PortStep ==
  ASSUME ~activate.farm => MACBusy = 0, altTTC
  PROVE  ~activate'.farm => MACBusy' = 0
  BY DEF altTTC, NextMACBusy, MACReady

\* A step with the sender is a step of the announcements.
LEMMA SendStepFarm == [SendNext]_allVars => [FarmNext]_<<detVars, farmVars>>
<1>1. ASSUME Edge125 PROVE FarmNext
  <2>1. PacketsFull \in BOOLEAN /\ FastEdge(PacketsFull)
    BY <1>1 DEF Edge125, PacketsFull
  <2> QED
    BY <2>1 DEF FarmNext
<1>2. ASSUME NEW a \in Address \cup {NoAddress}, Edge40(a) PROVE FarmNext
  BY <1>2 DEF Edge40, FarmNext
<1>3. UNCHANGED allVars => UNCHANGED <<detVars, farmVars>>
  BY DEF allVars
<1> QED
  BY <1>1, <1>2, <1>3 DEF SendNext

\* ... each step keeps it ...
LEMMA SInvStep == SInv /\ [SendNext]_allVars => SInv'
<1> SUFFICES ASSUME SInv, [SendNext]_allVars PROVE SInv'
  OBVIOUS
<1>1. FInv'
  BY SendStepFarm, FInvStep DEF SInv
<1>2. FarmTypes /\ Gate /\ SenderTypes /\ Flags /\ (~activate.farm => MACBusy = 0)
  BY DEF SInv, FInv
<1>3. FarmTypes' /\ Gate'
  BY <1>1 DEF FInv
<1>4. CASE Edge125
  <2>1. SenderTypes' /\ Flags'
    BY <1>2, <1>4, SenderTypesFast, FlagsFast
  <2>2. UNCHANGED <<activate, MACBusy, apart>>
    BY <1>4 DEF Edge125, FastEdge, detVars, ttcVars, slowVars
  <2>3. Regular => Emptied' /\ Whole' /\ InTime' /\ Quiet' /\ Ending'
    BY <1>4, <2>1, EmptiedFast, WholeFast, QuietFast, EndingFast
  <2>4. Regular' => Regular
    BY <2>2 DEF Regular
  <2> QED
    BY <1>1, <1>2, <2>1, <2>2, <2>3, <2>4 DEF SInv
<1>5. ASSUME NEW a \in Address \cup {NoAddress}, Edge40(a) PROVE SInv'
  <2>1. UNCHANGED <<FIFOPACKETS, FSMSend, MEPEventRead, word, activate>> /\ (apart' => apart)
        /\ altTTC
    BY <1>5, SlowUnchanged DEF Edge40, SlowEdge, Clock40
  <2>2. SenderTypes'
    BY <1>2, <2>1 DEF SenderTypes
  <2>3. Flags'
    BY <1>2, <1>5, FlagsSlow
  <2>4. ~activate'.farm => MACBusy' = 0
    BY <1>2, <2>1, PortStep
  <2>5. Regular' => Regular /\ apart'
    BY <2>1 DEF Regular
  <2>6. Regular' => Emptied' /\ Whole' /\ InTime' /\ Quiet' /\ Ending'
    BY <1>3, <1>5, <2>3, <2>5, EmptiedSlow, WholeSlow, QuietSlow, EndingSlow
  <2> QED
    BY <1>1, <2>2, <2>3, <2>4, <2>6 DEF SInv
<1>6. CASE UNCHANGED allVars
  <2>1. /\ UNCHANGED <<FIFOPACKETS, eob_ev125, FSMSend, MEPEventRead, word, eob_data_send, settled>>
        /\ UNCHANGED <<FSMSendDetectors, BURST, BURST40, phase, activate, MACBusy>>
        /\ UNCHANGED <<MEPeventWritten, due, sinceWord, FSMPackets, apart>>
    BY <1>6 DEF allVars, packetVars, sendVars, detVars, ttcVars, farmVars, slowVars, fastVars
  <2>2. SenderTypes' = SenderTypes /\ Flags' = Flags /\ Emptied' = Emptied /\ Whole' = Whole
    BY <2>1 DEF SenderTypes, Flags, Emptied, Whole, ToRead
  <2>3. InTime' = InTime
    BY <2>1 DEF InTime, Left, Coming, Clocks
  <2>4. Quiet' = Quiet /\ Ending' = Ending /\ Regular' = Regular
    BY <2>1 DEF Quiet, Ending, ToRead, Regular
  <2> QED
    BY <1>1, <2>1, <2>2, <2>3, <2>4 DEF SInv
<1> QED
  BY <1>4, <1>5, <1>6 DEF SendNext

\* ... and so it always holds.
LEMMA SendInvariance == SendSpec => []SInv
  BY SInvInit, SInvStep, PTL DEF SendSpec

\* SubSendFARM leaves the announcements alone: whatever holds of them with any sender
\* holds with it.
THEOREM SenderKeepsFarm == SendSpec => FarmSpec
<1>1. SendInit => FarmInit
  BY DEF SendInit
<1> QED
  BY <1>1, SendStepFarm, PTL DEF SendSpec, FarmSpec

\* If words are far enough apart, whatever the sizes of a packet and an event, the farm
\* is told of every word in the order of the words, each trigger with its own address.
THEOREM FarmFollowsDetectorsAlways == SendSpec => FarmFollowsDetectors
<1> DEFINE A == apart /\ FSMPackets = "WriteEvent" /\ FSMPackets' = "deadtime_0" =>
                   /\ due # <<>>
                   /\ written' = Head(due) \/ (activate.farm /\ written' = None)
<1>1. SInv /\ [SendNext]_allVars => [A]_<<detVars, farmVars>>
  <2> SUFFICES ASSUME SInv, [SendNext]_allVars,
                      apart, FSMPackets = "WriteEvent", FSMPackets' = "deadtime_0"
               PROVE  /\ due # <<>>
                      /\ written' = Head(due) \/ (activate.farm /\ written' = None)
    OBVIOUS
  <2>1. FastEdge(PacketsFull)
    <3>1. ~(\E a \in Address \cup {NoAddress} : Edge40(a))
      BY SlowUnchanged
    <3>2. ~UNCHANGED allVars
      BY DEF allVars, farmVars, fastVars
    <3> QED
      BY <3>1, <3>2 DEF SendNext, Edge125
  <2>2. FarmTypes /\ Due
    BY DEF SInv, FInv
  <2>3. due = <<Event(data_send, q)>>
    BY <2>2, DueLength
  <2>4. WriteEvent(PacketsFull)
    BY <2>1 DEF FastEdge, SubGeneratePackets, Idle, deadtime_1, SetFarmAddress, deadtime_2,
                deadtime_0
  <2>5. \/ ~PacketsFull /\ written' = Event(data_send, q)
        \/ PacketsFull /\ written' = None
    BY <2>4 DEF WriteEvent
  <2>6. PacketsFull => activate.farm
    BY NotFull DEF Regular
  <2> QED
    BY <2>3, <2>5, <2>6
<1> QED
  BY SendInvariance, <1>1, PTL DEF SendSpec, FarmFollowsDetectors

\* While the port to the farm is free, a packet holds the events written since the last
\* one, and no other.
THEOREM PacketsAreWholeAlways == SendSpec => []PacketsAreWhole
<1>1. SInv => PacketsAreWhole
  BY DEF SInv, Whole, PacketsAreWhole
<1> QED
  BY SendInvariance, <1>1, PTL

\* The end of the burst takes with it every event that is left, if it comes no sooner
\* than a word would.
THEOREM EndTakesAllAlways == SendSpec => []EndTakesAll
<1>1. SInv => EndTakesAll
  BY DEF SInv, Ending, EndTakesAll
<1> QED
  BY SendInvariance, <1>1, PTL

-----------------------------------------------------------------------------
(***************************************************************************)
(* The end of the burst.                                                    *)
(***************************************************************************)
\* An event still to come to the packet that is begun, or the last of a full one.
Owed == due # <<>> \/ MEPeventWritten = MEPEventNumber

\* Fast clocks until the end is sent, once the sender has begun with what is left ...
Rest == CASE FSMSend = "PacketHeaderEOB" ->
               (IF MEPEventRead = 0 THEN 0 ELSE 1 + Sending(MEPEventRead)) + 1 + EOBWords
          [] FSMSend = "Event" -> Left + 1 + EOBWords
          [] FSMSend = "EOB" -> EOBWords - word
          [] OTHER -> 0

\* ... and before, when a packet may still be full and all but one of the next be left.
Completed == IF Coming = MEPEventNumber THEN 2 + Sending(MEPEventNumber) ELSE 0
Last == 3 + Sending(MEPEventNumber) + EOBWords
EndLeft == IF eob_data_send THEN Rest ELSE Left + Completed + Last

\* The most of it, in which the sender is idle when the packet is full.
Total == 2 * Sending(MEPEventNumber) + EOBWords + 7

\* Nothing has been sent of the end before the burst ends, nor from the last one.
Unsent ==
    /\ FSMSendDetectors \in {"S1", "S2"} => ends = 0
    /\ FSMSendDetectors = "S0" /\ BURST /\ (phase > 0 \/ BURST40) => ends = 0

\* The sender sees the end of the burst after one fast clock.
Shown ==
    FSMSendDetectors = "S3" =>
       /\ eob_ev125 <=> phase > 0 \/ latencycounter > 0
       /\ eob_data_send => eob_ev125 /\ Clocks >= 5

\* The sender is on the way to the end until it has sent it; then nothing wakes it.
OnTheWay ==
    FSMSendDetectors = "S3" =>
       IF eob_data_send
       THEN \/ FSMSend \in {"PacketHeaderEOB", "Event", "EOB"} /\ ends = 0
            \/ FSMSend = "idle" /\ ends = 1 /\ ~Owed
       ELSE ends = 0

\* Every fast clock of the reset brings it nearer.
Nearer ==
    FSMSendDetectors = "S3" /\ ends = 0 =>
       3 * latencycounter + phase + EndLeft <= Total + (IF eob_ev125 THEN 1 ELSE 0)

\* What it has to read is there.
There == FSMSendDetectors = "S3" /\ eob_data_send => FIFOPACKETS >= ToRead

\* The last event is written before the words of the end are sent.
Written ==
    FSMSendDetectors = "S3" /\ FSMSend = "EOB" =>
       /\ FSMPackets = "deadtime_1" =>
             /\ word + 5 <= Cross
             /\ data_send = "write" => \/ FIFODETECTORFARM[1].age >= Sync
                                       \/ FIFODETECTORFARM[1].age >= word + 5
       /\ FSMPackets = "SetFarmAddress" => word + 5 <= Cross + 1
       /\ FSMPackets = "deadtime_2" => word + 5 <= Cross + 2
       /\ FSMPackets = "WriteEvent" => word + 5 <= Cross + 3

\* After the reset the end was sent, and no packet is begun.
SentOnce ==
    FSMSendDetectors \in {"S0_0", "S0"} /\ ~BURST /\ bursts > 0 =>
       ends = 1 /\ FSMSend = "idle" /\ eob_data_send /\ ~Owed

\* The inductive invariant of the end of the burst, on top of the sender's.
Closing == Unsent /\ Shown /\ OnTheWay /\ Nearer /\ There /\ Written /\ SentOnce

EInv == SInv /\ (FSMSend = "EOB" => word < EOBWords) /\ (Regular => Closing)

\* The times of the end of the burst.
LEMMA EndTimes ==
  /\ EOBWords \in Nat /\ EOBWords >= 1 /\ EOBWords >= Cross
  /\ Sending(MEPEventNumber) \in Nat
  /\ 2 * Sending(MEPEventNumber) + EOBWords + 7 <= 3 * (Fixed_Latency + ResetTime)
  /\ \A n \in 0 .. MEPEventNumber :
        Sending(n) \in Nat /\ Sending(n) <= Sending(MEPEventNumber)
<1>1. MEPEventNumber \in Nat /\ EventWords \in Nat /\ EOBWords \in Nat /\ EOBWords >= 1
  BY FarmAssumption, PacketsAssumption
<1>2. Sending(MEPEventNumber) = MEPEventNumber * EventWords
  BY <1>1 DEF Sending
<1>3. ASSUME NEW n \in 0 .. MEPEventNumber
      PROVE  Sending(n) \in Nat /\ Sending(n) <= Sending(MEPEventNumber)
  <2> DEFINE k == MEPEventNumber - n
  <2>1. n \in Nat /\ k \in Nat /\ MEPEventNumber = n + k
    BY <1>1
  <2> HIDE DEF k
  <2>2. EventWords * (n + k) = EventWords * n + EventWords * k
        /\ EventWords * n \in Nat /\ EventWords * k \in Nat
    BY <1>1, <2>1
  <2>3. EventWords * n <= EventWords * (n + k)
    BY <2>2
  <2> QED
    BY <2>1, <2>2, <2>3 DEF Sending
<1>4. Sending(MEPEventNumber) \in Nat
  BY <1>1, Spans
<1> QED
  BY <1>1, <1>2, <1>3, <1>4, EndAssumption

\* A packet begun has no more than its header and its events to go.
LEMMA LeftBound ==
  ASSUME SenderTypes
  PROVE  Left \in Nat /\ Left <= 1 + Sending(MEPEventNumber)
<1>1. Left \in Nat
  BY LeftType
<1>2. /\ MEPEventRead \in 0 .. MEPEventNumber /\ word \in Nat
      /\ Sending(MEPEventRead) \in Nat /\ Sending(MEPEventRead) <= Sending(MEPEventNumber)
      /\ Sending(MEPEventNumber) \in Nat
  BY EndTimes DEF SenderTypes
<1>3. Left <= 1 + Sending(MEPEventRead)
  BY <1>2 DEF Left
<1> QED
  BY <1>1, <1>2, <1>3

\* During the reset no word is announced any more, and its clocks are counted.
LEMMA InReset ==
  ASSUME FarmTypes, Ended, FSMSendDetectors = "S3"
  PROVE  /\ ~Pending /\ latencycounter \in Nat /\ phase \in Nat
         /\ Clocks \in Nat /\ Clocks >= 3 + phase
         /\ latencycounter > 0 => Clocks >= 6
<1>1. latencycounter \in Nat /\ sinceWord \in 1 .. WordGap /\ phase \in 0 .. 4
  BY Gaps DEF FarmTypes, TypeOK
<1>2. sinceWord >= 2 /\ (latencycounter > 0 => sinceWord >= 3)
  BY <1>1, Gaps DEF Ended
<1> QED
  BY <1>1, <1>2, Gaps DEF Pending, Clocks

\* What the sender has to do when the burst ends.
LEMMA BeginsInTime ==
  ASSUME SInv, Regular, Clocks \in Nat, Clocks >= 3, ~eob_data_send
  PROVE  EndLeft <= Total
<1>1. FarmTypes /\ SenderTypes /\ Due /\ InTime
  BY DEF SInv, FInv, Regular
<1> DEFINE S == Sending(MEPEventNumber)
<1>2. S \in Nat /\ EOBWords \in Nat /\ Left \in Nat /\ Left <= 1 + S
  BY <1>1, EndTimes, LeftBound
<1>3. EndLeft = Left + Completed + (3 + S + EOBWords) /\ Total = 2 * S + EOBWords + 7
  BY DEF EndLeft, Last, Total
<1>4. CASE Coming # MEPEventNumber
  <2>1. Completed = 0
    BY <1>4 DEF Completed
  <2> HIDE DEF S
  <2> QED
    BY <1>2, <1>3, <2>1
<1>5. CASE Coming = MEPEventNumber
  <2>1. Completed = 2 + S
    BY <1>5 DEF Completed
  <2>2. Left <= 2
    <3> SUFFICES ASSUME Left > 0 PROVE Left <= 2
      BY <1>2
    <3>1. Left + Span(MEPEventNumber) + Clocks <= Cross + 6 + S
      BY <1>1, <1>5 DEF InTime
    <3>2. Span(MEPEventNumber) \in Nat /\ S + Cross < Span(MEPEventNumber)
      BY Spans
    <3> HIDE DEF S
    <3> QED
      BY <1>2, <3>1, <3>2, Gaps
  <2> HIDE DEF S
  <2> QED
    BY <1>2, <1>3, <2>1, <2>2
<1> QED
  BY <1>4, <1>5

-----------------------------------------------------------------------------
\* Within the reset the machine writes what is due and then stays idle.
LEMMA NoNewEvent ==
  ASSUME FarmTypes, Register, Pace, Due, ~Pending, NEW full, FastEdge(full)
  PROVE  /\ FSMPackets = "idle" => FSMPackets' = "idle"
         /\ due' # <<>> => FSMPackets \in {"deadtime_1", "SetFarmAddress", "deadtime_2"}
<1>1. FSMPackets = "idle" => FSMPackets' = "idle"
  BY StaysIdle DEF Due
<1>2. FSMPackets \in {"idle", "deadtime_0"} => due' = <<>>
  <2>1. FSMPackets \in {"idle", "deadtime_0"} => due = <<>>
    BY DEF Due
  <2> QED
    BY <2>1, DuePaid
<1>3. FSMPackets = "WriteEvent" => due' = <<>>
  BY DuePaid
<1> QED
  BY <1>1, <1>2, <1>3 DEF FarmTypes

\* Nothing that is not owed comes to be owed.
LEMMA StaysPaid ==
  ASSUME FarmTypes, Due, ~Owed, NEW full, FastEdge(full)
  PROVE  ~Owed'
<1>1. due = <<>> /\ MEPeventWritten # MEPEventNumber /\ MEPEventNumber >= 1
  BY FarmAssumption DEF Owed
<1>2. FSMPackets # "WriteEvent"
  BY <1>1, DueLength
<1>3. due' = <<>>
  BY <1>1, <1>2, DuePaid
<1>4. MEPeventWritten' # MEPEventNumber
  BY <1>1, <1>2, Counts DEF FarmTypes
<1> QED
  BY <1>3, <1>4 DEF Owed

\* A sender that has sent the end stays idle.
LEMMA StaysClosed ==
  ASSUME FarmTypes, Due, SubSendFARM, NEW full, FastEdge(full),
         FSMSend = "idle", eob_data_send, ~Owed
  PROVE  FSMSend' = "idle" /\ eob_data_send' /\ ends' = ends /\ ~Owed'
<1>1. SendIdle
  BY DEF SubSendFARM, PacketHeader, PacketHeaderEOB, SendEvent, SendEOB
<1>2. MEPeventWritten # MEPEventNumber
  BY DEF Owed
<1>3. FSMSend' = "idle" /\ eob_data_send' = eob_data_send /\ ends' = ends
  BY <1>1, <1>2 DEF SendIdle
<1> QED
  BY <1>3, StaysPaid

\* Only the last word of the end is counted.
LEMMA EndsKept ==
  ASSUME SubSendFARM, FSMSend # "EOB"
  PROVE  ends' = ends
  BY DEF SubSendFARM, SendIdle, PacketHeader, PacketHeaderEOB, SendEvent, SendEOB

\* What a fast clock leaves as it is.
LEMMA FastKept ==
  ASSUME FarmTypes, Edge125
  PROVE  /\ UNCHANGED <<FSMSendDetectors, BURST, BURST40, latencycounter, bursts, apart, activate>>
         /\ phase \in 0 .. 3 /\ phase' = phase + 1 /\ phase' > 0
         /\ eob_ev125' = (FSMSendDetectors = "S3")
         /\ FastEdge(PacketsFull)
<1>1. /\ UNCHANGED <<FSMSendDetectors, BURST, BURST40, latencycounter, bursts, apart, activate>>
      /\ phase < 4 /\ phase' = phase + 1
      /\ eob_ev125' = (FSMSendDetectors = "S3") /\ FastEdge(PacketsFull)
  BY Zenon DEF Edge125, FastEdge, detVars, ttcVars, slowVars
<1> QED
  BY <1>1 DEF FarmTypes

\* The sum of what is left, one part of it less.
LEMMA OneLess ==
  ASSUME NEW l \in Nat, NEW m \in Nat, NEW c \in Nat, NEW d \in Nat, NEW k \in Nat,
         NEW n \in {0, 1}, m + d + n <= l + c
  PROVE  m + d + k + n <= l + c + k
  OBVIOUS

\* One part less, and the other not more.
LEMMA FewerLeft ==
  ASSUME NEW l \in Nat, NEW m \in Nat, NEW c \in Nat, NEW d \in Nat, NEW n \in {0, 1},
         d <= c, m + n <= l
  PROVE  m + d + n <= l + c
  OBVIOUS

\* Before the end is begun a fast clock brings it nearer, unless it is not yet seen.
LEMMA NearerBefore ==
  ASSUME SInv, SInv', Regular, Regular', Closing, Edge125,
         FSMSendDetectors = "S3", ~eob_data_send
  PROVE  /\ ends' = 0
         /\ eob_data_send' => FSMSend' = "PacketHeaderEOB" /\ FIFOPACKETS' >= ToRead' /\ eob_ev125
         /\ EndLeft \in Nat /\ EndLeft' \in Nat
         /\ EndLeft' + (IF eob_ev125 THEN 1 ELSE 0) <= EndLeft
<1>1. /\ FarmTypes /\ SenderTypes /\ Due /\ Ended /\ Flags /\ Whole /\ MACBusy = 0
      /\ SenderTypes' /\ FarmTypes'
  BY DEF SInv, FInv, Regular
<1>2. SubSendFARM /\ FastEdge(PacketsFull)
  BY DEF Edge125
<1> DEFINE S == Sending(MEPEventNumber)
<1>3. /\ S \in Nat /\ EOBWords \in Nat /\ Left \in Nat
      /\ MEPEventNumber \in Nat /\ MEPEventNumber >= 1
      /\ MEPeventWritten \in 0 .. MEPEventNumber
  BY <1>1, EndTimes, LeftBound, LeftType, FarmAssumption DEF FarmTypes
<1>4. FIFOPACKETS = ToRead + MEPeventWritten /\ ToRead \in 0 .. MEPEventNumber
  BY <1>1, ToReadBound DEF Whole
<1>5. FSMSend \in {"idle", "PacketHeader", "Event"}
  BY <1>1 DEF Flags, SenderTypes
<1>6. ends' = 0
  BY <1>2, <1>5, EndsKept DEF Closing, OnTheWay
<1>7. EndLeft = Left + Completed + (3 + S + EOBWords) /\ Completed \in {0, 2 + S}
  BY DEF EndLeft, Last, Completed
<1>8. Completed' \in {0, 2 + S} /\ Completed' <= Completed
      /\ (MEPeventWritten = MEPEventNumber => Completed = 2 + S /\ Completed' = 0)
  <2>1. /\ Coming \in Nat
        /\ \/ MEPeventWritten # MEPEventNumber /\ Coming' = Coming
           \/ /\ MEPeventWritten = MEPEventNumber /\ FSMPackets = "deadtime_0"
              /\ Coming' = Len(due) /\ Coming = MEPeventWritten + Len(due)
    BY <1>2, CountsRegular DEF Coming
  <2>2. FSMPackets = "deadtime_0" => Len(due) = 0
    BY <1>1, InReset, DueLength
  <2>3. /\ Completed = IF Coming = MEPEventNumber THEN 2 + S ELSE 0
        /\ Completed' = IF Coming' = MEPEventNumber THEN 2 + S ELSE 0
    BY DEF Completed
  <2> HIDE DEF S
  <2> QED
    BY <1>3, <2>1, <2>2, <2>3
<1>9. CASE eob_data_send'
  <2>1. FSMSend = "idle" /\ eob_ev125 /\ MEPeventWritten # MEPEventNumber
        /\ MEPEventRead' = MEPeventWritten /\ FSMSend' = "PacketHeaderEOB" /\ Packets(FALSE)
    BY <1>2, <1>9 DEF SubSendFARM, SendIdle, PacketHeader, PacketHeaderEOB, SendEvent, SendEOB,
                      sendVars
  <2>2. FIFOPACKETS' >= FIFOPACKETS
    BY <1>1, <2>1 DEF Packets, SenderTypes
  <2>3. ToRead = 0 /\ ToRead' = MEPeventWritten
    BY <2>1 DEF ToRead
  <2>4. FIFOPACKETS' >= ToRead'
    BY <1>3, <1>4, <2>2, <2>3, <1>1 DEF SenderTypes
  <2>5. Rest' = (IF MEPeventWritten = 0 THEN 0 ELSE 1 + Sending(MEPeventWritten)) + 1 + EOBWords
    BY <2>1 DEF Rest, Sending
  <2>6. EndLeft' = Rest' /\ Left \in Nat /\ Completed \in Nat
    BY <1>3, <1>7, <1>9 DEF EndLeft
  <2>7. Sending(MEPeventWritten) \in Nat /\ Sending(MEPeventWritten) <= S
    BY <1>3, EndTimes
  <2> HIDE DEF S
  <2>8. EndLeft' + 1 <= EndLeft /\ EndLeft \in Nat /\ EndLeft' \in Nat
    BY <1>3, <1>7, <2>5, <2>6, <2>7
  <2> QED
    BY <1>3, <1>6, <2>1, <2>4, <2>6, <2>8
<1>10. CASE ~eob_data_send'
  <2>1. EndLeft' = Left' + Completed' + (3 + S + EOBWords)
    BY <1>10 DEF EndLeft, Last, Sending
  <2>2. \/ /\ FSMSend = "idle" /\ MEPeventWritten = MEPEventNumber
           /\ FSMSend' = "PacketHeader" /\ MEPEventRead' = MEPEventNumber
        \/ /\ FSMSend = "idle" => MEPeventWritten # MEPEventNumber
           /\ Left > 0 => Left' = Left - 1
           /\ Left = 0 => Left' = 0
    BY <1>1, <1>2, <1>3, <1>4, <1>10, SenderMoves
  <2> DEFINE k == 3 + S + EOBWords
             n == IF eob_ev125 THEN 1 ELSE 0
  <2>3. /\ k \in Nat /\ n \in {0, 1}
        /\ Completed \in Nat /\ Completed' \in Nat /\ Completed' <= Completed
    BY <1>3, <1>7, <1>8
  <2>4. ASSUME Left' \in Nat, Left' + Completed' + n <= Left + Completed
        PROVE  EndLeft' + n <= EndLeft /\ EndLeft \in Nat /\ EndLeft' \in Nat
    <3> HIDE DEF k, n, S
    <3>1. EndLeft' = Left' + Completed' + k /\ EndLeft = Left + Completed + k
      BY <1>7, <2>1 DEF k
    <3>2. Left' + Completed' + k + n <= Left + Completed + k
      BY <1>3, <2>3, <2>4, OneLess
    <3>3. EndLeft \in Nat
      BY <1>3, <2>3, <3>1
    <3>4. EndLeft' \in Nat
      <4>1. \A l, c, d \in Nat : l + c + d \in Nat
        OBVIOUS
      <4>2. Left' + Completed' + k \in Nat
        BY <2>3, <2>4, <4>1
      <4> QED
        BY <3>1, <4>2
    <3> QED
      BY <3>1, <3>2, <3>3, <3>4
  <2>5. CASE /\ FSMSend = "idle" /\ MEPeventWritten = MEPEventNumber
             /\ FSMSend' = "PacketHeader" /\ MEPEventRead' = MEPEventNumber
    <3>1. Left = 0 /\ Left' = 1 + S
      BY <2>5 DEF Left, Sending
    <3>2. Completed = 2 + S /\ Completed' = 0
      BY <1>8, <2>5
    <3>3. Left' \in Nat /\ Left' + Completed' + n <= Left + Completed
      <4> HIDE DEF S, n
      <4> QED
        BY <1>3, <2>3, <3>1, <3>2
    <3> QED
      BY <1>6, <1>10, <2>4, <3>3
  <2>6. CASE Left > 0 /\ Left' = Left - 1
    <3>1. Left' \in Nat /\ Left' + Completed' + n <= Left + Completed
      <4> HIDE DEF S, n
      <4>1. Left' \in Nat
        BY <1>3, <2>6
      <4>2. Left' + n <= Left
        BY <1>3, <2>3, <2>6
      <4> QED
        BY <1>3, <2>3, <4>1, <4>2, FewerLeft
    <3> QED
      BY <1>6, <1>10, <2>4, <3>1
  <2>7. CASE Left = 0 /\ Left' = 0 /\ (FSMSend = "idle" => MEPeventWritten # MEPEventNumber)
    <3>1. FSMSend = "idle"
      BY <1>1, <1>5, <2>7, LeftType
    <3>2. ~eob_ev125
      BY <1>2, <1>10, <2>7, <3>1 DEF SubSendFARM, SendIdle, PacketHeader, PacketHeaderEOB,
                                     SendEvent, SendEOB
    <3>3. Left' \in Nat /\ Left' + Completed' + n <= Left + Completed
      <4>1. n = 0
        BY <3>2
      <4> HIDE DEF S, n
      <4>2. Left' \in Nat /\ Left \in Nat /\ Left' + n <= Left
        BY <2>7, <4>1
      <4> QED
        BY <2>3, <4>2, FewerLeft
    <3> QED
      BY <1>6, <1>10, <2>4, <3>3
  <2> QED
    BY <1>3, <2>2, <2>5, <2>6, <2>7
<1> QED
  BY <1>9, <1>10

-----------------------------------------------------------------------------
\* A read takes one event, a write adds one.
LEMMA PacketsChange ==
  ASSUME FIFOPACKETS \in Nat
  PROVE  /\ Packets(FALSE) => FIFOPACKETS' \in Nat /\ FIFOPACKETS' >= FIFOPACKETS
         /\ Packets(TRUE) => FIFOPACKETS' \in Nat /\ FIFOPACKETS' >= FIFOPACKETS - 1
<1>1. ASSUME Packets(FALSE) PROVE FIFOPACKETS' \in Nat /\ FIFOPACKETS' >= FIFOPACKETS
  BY <1>1 DEF Packets
<1>2. ASSUME Packets(TRUE) PROVE FIFOPACKETS' \in Nat /\ FIFOPACKETS' >= FIFOPACKETS - 1
  BY <1>2 DEF Packets
<1> QED
  BY <1>1, <1>2

\* The ways of the sender to the end, when no word is held up.
BeginsEvents ==
    /\ FSMSend = "PacketHeaderEOB" /\ MEPEventRead # 0 /\ FSMSend' = "Event"
    /\ UNCHANGED <<MEPEventRead, word, ends>> /\ Packets(TRUE)
BeginsEnd ==
    /\ FSMSend = "PacketHeaderEOB" /\ MEPEventRead = 0 /\ FSMSend' = "EOB"
    /\ UNCHANGED <<MEPEventRead, word, ends>> /\ Packets(FALSE)
WordOfEvent ==
    /\ FSMSend = "Event" /\ word < EventWords - 1 /\ word' = word + 1
    /\ UNCHANGED <<FSMSend, MEPEventRead, ends>> /\ Packets(FALSE)
NextEvent ==
    /\ FSMSend = "Event" /\ word = EventWords - 1 /\ word' = 0
    /\ MEPEventRead' = MEPEventRead - 1 /\ MEPEventRead # 1
    /\ UNCHANGED <<FSMSend, ends>> /\ Packets(TRUE)
LastEvent ==
    /\ FSMSend = "Event" /\ word = EventWords - 1 /\ word' = 0
    /\ MEPEventRead = 1 /\ MEPEventRead' = 0 /\ FSMSend' = "PacketHeaderEOB"
    /\ UNCHANGED ends /\ Packets(FALSE)
WordOfEnd ==
    /\ FSMSend = "EOB" /\ word < EOBWords - 1 /\ word' = word + 1
    /\ UNCHANGED <<FSMSend, MEPEventRead, ends>> /\ Packets(FALSE)
LastOfEnd ==
    /\ FSMSend = "EOB" /\ word = EOBWords - 1 /\ FSMSend' = "idle"
    /\ ends' = UpTo(2, ends) /\ Packets(FALSE)

\* The way to the end, once begun: no word of it is held up.
LEMMA OnTheWayMoves ==
  ASSUME SenderTypes, MACBusy = 0, SubSendFARM, eob_data_send, FIFOPACKETS >= ToRead,
         FSMSend \in {"PacketHeaderEOB", "Event", "EOB"}
  PROVE  /\ eob_data_send'
         /\ \/ BeginsEvents \/ BeginsEnd
            \/ WordOfEvent \/ NextEvent \/ LastEvent
            \/ WordOfEnd \/ LastOfEnd
<1>1. Ports = {"takes"}
  BY DEF Ports, MACReady
<1>2. CASE FSMSend = "PacketHeaderEOB"
  <2>1. PacketHeaderEOB("takes")
    BY <1>1, <1>2 DEF SubSendFARM, SendIdle, PacketHeader, SendEvent, SendEOB
  <2>2. MEPEventRead # 0 => FIFOPACKETS > 0
    <3>1. ToRead = MEPEventRead /\ MEPEventRead \in Nat /\ FIFOPACKETS \in Nat
      BY <1>2 DEF ToRead, SenderTypes
    <3> QED
      BY <3>1
  <2> QED
    <3>1. CASE MEPEventRead # 0
      <4>1. Packets(TRUE)
        <5>1. Packets(FIFOPACKETS > 0 /\ "takes" = "takes") /\ FIFOPACKETS > 0
          BY <2>1, <2>2, <3>1 DEF PacketHeaderEOB
        <5> QED
          BY <5>1 DEF Packets
      <4> QED
        BY <1>2, <2>1, <2>2, <3>1, <4>1 DEF PacketHeaderEOB, BeginsEvents
    <3>2. CASE MEPEventRead = 0
      BY <1>2, <2>1, <3>2 DEF PacketHeaderEOB, BeginsEnd
    <3> QED
      BY <3>1, <3>2
<1>3. CASE FSMSend = "Event"
  <2>1. SendEvent("takes")
    BY <1>1, <1>3 DEF SubSendFARM, SendIdle, PacketHeader, PacketHeaderEOB, SendEOB
  <2>2. eob_data_send' /\ ends' = ends
    BY <2>1 DEF SendEvent, sendVars
  <2>3. CASE word < EventWords - 1 /\ word' = word + 1 /\ Packets(FALSE)
             /\ UNCHANGED <<FSMSend, MEPEventRead>>
    BY <1>3, <2>2, <2>3 DEF WordOfEvent
  <2>4. CASE /\ word = EventWords - 1 /\ word' = 0 /\ MEPEventRead' = MEPEventRead - 1
             /\ FSMSend' = IF MEPEventRead # 1 THEN "Event" ELSE "PacketHeaderEOB"
             /\ Packets(MEPEventRead # 1)
    <3>1. CASE MEPEventRead = 1
      <4>1. Packets(FALSE)
        BY <2>4, <3>1 DEF Packets
      <4>2. FSMSend' = "PacketHeaderEOB" /\ MEPEventRead' = 0
        BY <2>4, <3>1
      <4> QED
        BY <1>3, <2>2, <2>4, <3>1, <4>1, <4>2 DEF LastEvent
    <3>2. CASE MEPEventRead # 1
      <4>1. Packets(TRUE)
        BY <2>4, <3>2 DEF Packets
      <4> QED
        BY <1>3, <2>2, <2>4, <3>2, <4>1 DEF NextEvent
    <3> QED
      BY <3>1, <3>2
  <2> QED
    BY <2>1, <2>3, <2>4 DEF SendEvent
<1>4. CASE FSMSend = "EOB"
  <2>1. SendEOB("takes")
    BY <1>1, <1>4 DEF SubSendFARM, SendIdle, PacketHeader, PacketHeaderEOB, SendEvent
  <2>2. word < EOBWords - 1 => word # EOBWords - 1
    BY PacketsAssumption DEF SenderTypes
  <2> QED
    BY <1>4, <2>1, <2>2 DEF SendEOB, WordOfEnd, LastOfEnd
<1> QED
  BY <1>2, <1>3, <1>4

\* Once the end is begun every fast clock brings it nearer, and the events to be read
\* stay there.
ComesNearer ==
    /\ eob_data_send' /\ FIFOPACKETS' >= ToRead'
    /\ \/ /\ FSMSend' \in {"PacketHeaderEOB", "Event", "EOB"} /\ ends' = 0
          /\ EndLeft \in Nat /\ EndLeft' \in Nat /\ EndLeft' + 1 <= EndLeft
          /\ FSMSend' = "EOB" => /\ word' < EOBWords
                                 /\ \/ FSMSend = "EOB" /\ word' = word + 1
                                    \/ FSMSend # "EOB" /\ word' = 0
       \/ FSMSend = "EOB" /\ word = EOBWords - 1 /\ FSMSend' = "idle" /\ ends' = 1

LEMMA NearerAfter ==
  ASSUME SInv, Regular, There, FSMSend = "EOB" => word < EOBWords, Edge125,
         FSMSendDetectors = "S3", eob_data_send,
         FSMSend \in {"PacketHeaderEOB", "Event", "EOB"}, ends = 0
  PROVE  ComesNearer
<1>1. /\ SenderTypes /\ MACBusy = 0 /\ SubSendFARM /\ FIFOPACKETS >= ToRead
  BY DEF SInv, Regular, There, Edge125
<1>2. /\ FIFOPACKETS \in Nat /\ MEPEventRead \in 0 .. MEPEventNumber /\ word \in Nat
      /\ EventWords \in Nat /\ EventWords >= 1 /\ EOBWords \in Nat /\ EOBWords >= 1
      /\ MEPEventNumber \in Nat
  BY <1>1, FarmAssumption, PacketsAssumption DEF SenderTypes
<1>3. eob_data_send'
  BY <1>1, OnTheWayMoves
<1>4. EndLeft = Rest /\ EndLeft' = Rest'
  BY <1>3 DEF EndLeft
<1> DEFINE P(n) == Sending(n)
<1>5. P(MEPEventRead) \in Nat
  BY <1>2, EndTimes
<1>6. CASE BeginsEvents
  <2>1. ToRead = MEPEventRead /\ ToRead' = MEPEventRead - 1 /\ word = 0
    BY <1>1, <1>6 DEF ToRead, SenderTypes, BeginsEvents
  <2>2. FIFOPACKETS' >= ToRead'
    BY <1>1, <1>2, <1>6, <2>1, PacketsChange DEF BeginsEvents
  <2>3. Rest = 1 + P(MEPEventRead) + 1 + EOBWords /\ Rest' = P(MEPEventRead) + 1 + EOBWords
    <3>1. Left' = P(MEPEventRead) - 0
      BY <1>6, <2>1 DEF Left, Sending, BeginsEvents
    <3> HIDE DEF P
    <3>2. Rest' = Left' + 1 + EOBWords
      BY <1>6 DEF Rest, BeginsEvents
    <3>3. Rest = 1 + P(MEPEventRead) + 1 + EOBWords
      BY <1>6 DEF Rest, P, BeginsEvents
    <3> QED
      BY <1>5, <3>1, <3>2, <3>3
  <2> HIDE DEF P
  <2>4. Rest \in Nat /\ Rest' \in Nat /\ Rest' + 1 <= Rest
    BY <1>2, <1>5, <2>3
  <2> QED
    BY <1>3, <1>4, <1>6, <2>2, <2>4 DEF ComesNearer, BeginsEvents
<1>7. CASE BeginsEnd
  <2>1. ToRead' = 0 /\ word' = 0
    BY <1>1, <1>7 DEF ToRead, SenderTypes, BeginsEnd
  <2>2. FIFOPACKETS' >= ToRead'
    BY <1>2, <1>7, <2>1, PacketsChange DEF BeginsEnd
  <2>3. Rest = 0 + 1 + EOBWords /\ Rest' = EOBWords - 0
    BY <1>7, <2>1 DEF Rest, BeginsEnd
  <2>4. Rest \in Nat /\ Rest' \in Nat /\ Rest' + 1 <= Rest /\ word' < EOBWords
    BY <1>2, <2>1, <2>3
  <2> QED
    BY <1>3, <1>4, <1>7, <2>1, <2>2, <2>4 DEF ComesNearer, BeginsEnd
<1>8. CASE WordOfEvent
  <2>1. ToRead' = ToRead
    BY <1>8 DEF ToRead, WordOfEvent
  <2>2. FIFOPACKETS' >= ToRead'
    <3>1. ToRead \in Nat
      BY <1>1, <1>2, ToReadBound
    <3> QED
      BY <1>1, <1>2, <1>8, <2>1, <3>1, PacketsChange DEF WordOfEvent
  <2>3. Left = P(MEPEventRead) - word /\ Left' = P(MEPEventRead) - (word + 1)
    BY <1>8 DEF Left, Sending, WordOfEvent
  <2>4. Rest = Left + 1 + EOBWords /\ Rest' = Left' + 1 + EOBWords
    BY <1>8 DEF Rest, WordOfEvent
  <2>5. P(MEPEventRead) >= EventWords
    BY <1>1, <1>2, <1>8, SendingGrows DEF SenderTypes, WordOfEvent
  <2> HIDE DEF P
  <2>6. Rest \in Nat /\ Rest' \in Nat /\ Rest' + 1 <= Rest
    BY <1>2, <1>5, <1>8, <2>3, <2>4, <2>5 DEF WordOfEvent
  <2> QED
    BY <1>3, <1>4, <1>8, <2>2, <2>6 DEF ComesNearer, WordOfEvent
<1>9. CASE NextEvent
  <2>1. ToRead = MEPEventRead - 1 /\ ToRead' = MEPEventRead - 2 /\ MEPEventRead >= 2
    BY <1>1, <1>2, <1>9 DEF ToRead, SenderTypes, NextEvent
  <2>2. FIFOPACKETS' >= ToRead'
    BY <1>1, <1>2, <1>9, <2>1, PacketsChange DEF NextEvent
  <2> DEFINE r == MEPEventRead - 1
  <2>3. r \in 1 .. MEPEventNumber /\ MEPEventRead = r + 1 /\ MEPEventRead' = r
    BY <1>2, <1>9, <2>1 DEF NextEvent
  <2> HIDE DEF r
  <2>4. P(r + 1) = P(r) + EventWords /\ P(r) \in Nat /\ P(r) >= EventWords
    BY <1>2, <2>3, Spans, SendingGrows
  <2>5. Left = P(r + 1) - (EventWords - 1) /\ Left' = P(r) - 0
    BY <1>9, <2>3 DEF Left, Sending, NextEvent
  <2>6. Rest = Left + 1 + EOBWords /\ Rest' = Left' + 1 + EOBWords
    BY <1>9 DEF Rest, NextEvent
  <2> HIDE DEF P
  <2>7. Rest \in Nat /\ Rest' \in Nat /\ Rest' + 1 <= Rest
    BY <1>2, <2>4, <2>5, <2>6
  <2> QED
    BY <1>3, <1>4, <1>9, <2>2, <2>7 DEF ComesNearer, NextEvent
<1>10. CASE LastEvent
  <2>1. ToRead' = 0
    BY <1>10 DEF ToRead, LastEvent
  <2>2. FIFOPACKETS' >= ToRead'
    BY <1>2, <1>10, <2>1, PacketsChange DEF LastEvent
  <2>3. Sending(1) = EventWords
    BY <1>2 DEF Sending
  <2>4. Left = EventWords - (EventWords - 1)
    BY <1>10, <2>3 DEF Left, LastEvent
  <2>5. Rest = Left + 1 + EOBWords /\ Rest' = 0 + 1 + EOBWords
    BY <1>10 DEF Rest, LastEvent
  <2>6. Rest \in Nat /\ Rest' \in Nat /\ Rest' + 1 <= Rest
    BY <1>2, <2>4, <2>5
  <2> QED
    BY <1>3, <1>4, <1>10, <2>2, <2>6 DEF ComesNearer, LastEvent
<1>11. CASE WordOfEnd
  <2>1. ToRead' = 0
    BY <1>11 DEF ToRead, WordOfEnd
  <2>2. FIFOPACKETS' >= ToRead'
    BY <1>2, <1>11, <2>1, PacketsChange DEF WordOfEnd
  <2>3. Rest = EOBWords - word /\ Rest' = EOBWords - (word + 1)
    BY <1>11 DEF Rest, WordOfEnd
  <2>4. Rest \in Nat /\ Rest' \in Nat /\ Rest' + 1 <= Rest /\ word' < EOBWords
    BY <1>2, <1>11, <2>3 DEF WordOfEnd
  <2> QED
    BY <1>3, <1>4, <1>11, <2>2, <2>4 DEF ComesNearer, WordOfEnd
<1>12. CASE LastOfEnd
  <2>1. ToRead' = 0
    BY <1>12 DEF ToRead, LastOfEnd
  <2>2. FIFOPACKETS' >= ToRead'
    BY <1>2, <1>12, <2>1, PacketsChange DEF LastOfEnd
  <2>3. ends' = 1
    BY <1>12 DEF UpTo, LastOfEnd
  <2> QED
    BY <1>3, <1>12, <2>2, <2>3 DEF ComesNearer, LastOfEnd
<1> QED
  BY <1>1, <1>6, <1>7, <1>8, <1>9, <1>10, <1>11, <1>12, OnTheWayMoves

-----------------------------------------------------------------------------
\* An address has an age.
LEMMA AgeType ==
  ASSUME FarmTypes, Len(FIFODETECTORFARM) = 1
  PROVE  FIFODETECTORFARM[1].age \in Nat
<1>1. FIFODETECTORFARM \in Seq(Cell)
  BY DEF FarmTypes, Cell
<1>2. FIFODETECTORFARM[1] \in Cell
  BY <1>1
<1>3. Sync \in Nat
  BY Gaps
<1> QED
  BY <1>2, <1>3 DEF Cell

\* While the words of the end are sent, what is still due comes nearer to be written.
LEMMA WrittenFast ==
  ASSUME SInv, SInv', Regular, Closing, Edge125,
         FSMSendDetectors = "S3", eob_data_send, FSMSend' = "EOB", word \in Nat,
         \/ FSMSend = "EOB" /\ word' = word + 1
         \/ FSMSend # "EOB" /\ word' = 0
  PROVE  Written'
<1>1. /\ FarmTypes /\ Register /\ Pace /\ Due /\ Ended
      /\ FarmTypes' /\ Pace' /\ Due' /\ FastEdge(PacketsFull)
  <2>1. apart' = apart /\ FastEdge(PacketsFull)
    BY FastKept DEF SInv, FInv
  <2> QED
    BY <2>1 DEF SInv, FInv, Regular
<1>2. ~Pending
  BY <1>1, InReset
<1>3. Clocks \in Nat /\ Clocks >= 5 /\ Clocks' = Clocks + 1
  BY <1>1, InReset, CountsRegular DEF Closing, Shown, SInv, FInv, Gate
<1>4. Sync \in Nat /\ Cross \in Nat /\ Sync <= Cross
  BY Gaps
<1>5. CASE FSMSend # "EOB" /\ word' = 0
  <2>1. ASSUME FSMPackets' = "deadtime_1", data_send' = "write"
        PROVE  \/ FIFODETECTORFARM'[1].age >= Sync
               \/ FIFODETECTORFARM'[1].age >= word' + 5
    <3>1. /\ Len(FIFODETECTORFARM') = 1
          /\ \/ FIFODETECTORFARM'[1].age >= Sync
             \/ FIFODETECTORFARM'[1].age >= Clocks'
      BY <1>1, <2>1 DEF Due, Waits
    <3>2. FIFODETECTORFARM'[1].age \in Nat
      <4>1. FIFODETECTORFARM' \in Seq(Cell)
        BY <1>1 DEF FarmTypes, Cell
      <4>2. FIFODETECTORFARM'[1] \in Cell
        BY <3>1, <4>1
      <4> QED
        BY <1>4, <4>2 DEF Cell
    <3> HIDE DEF Clocks
    <3> QED
      BY <1>3, <1>4, <1>5, <3>1, <3>2
  <2>2. FSMPackets' = "deadtime_1" => word' + 5 <= Cross
    BY <1>1, <1>3, <1>4, <1>5 DEF Pace
  <2>3. FSMPackets' = "SetFarmAddress" => word' + 5 <= Cross + 1
    BY <1>1, <1>3, <1>4, <1>5 DEF Pace
  <2>4. FSMPackets' = "deadtime_2" => word' + 5 <= Cross + 2
    BY <1>1, <1>3, <1>4, <1>5 DEF Pace
  <2>5. FSMPackets' = "WriteEvent" => word' + 5 <= Cross + 3
    BY <1>1, <1>3, <1>4, <1>5 DEF Pace
  <2> QED
    BY <2>1, <2>2, <2>3, <2>4, <2>5 DEF Written
<1>6. CASE FSMSend = "EOB" /\ word' = word + 1
  <2>1. Written
    BY DEF Closing
  <2>2. FSMPackets = "idle" => FSMPackets' = "idle"
    BY <1>1, <1>2, NoNewEvent
  <2>3. FSMPackets \in Sequence \cup {"idle", "deadtime_0"}
    BY <1>1 DEF FarmTypes
  <2>4. ASSUME FSMPackets' = "deadtime_1"
        PROVE  /\ word' + 5 <= Cross
               /\ \/ FIFODETECTORFARM'[1].age >= Sync
                  \/ FIFODETECTORFARM'[1].age >= word' + 5
    <3>1. /\ FSMPackets = "deadtime_1" /\ data_send = "write"
          /\ FIFODETECTORFARM # <<>> => Head(FIFODETECTORFARM).age < Sync
          /\ FIFODETECTORFARM' = Older(FIFODETECTORFARM)
      BY <1>1, <2>2, <2>3, <2>4, FastMoves DEF Sequence
    <3>2. Len(FIFODETECTORFARM) = 1
      BY <1>1, <3>1 DEF Due, Waits
    <3>3. FIFODETECTORFARM \in Seq(Cell)
      BY <1>1 DEF FarmTypes, Cell
    <3> DEFINE n == FIFODETECTORFARM[1].age
               m == FIFODETECTORFARM'[1].age
    <3>4. n \in Nat /\ n < Sync
      <4>1. n \in Nat
        BY <1>1, <3>2, AgeType
      <4>2. FIFODETECTORFARM # <<>> /\ Head(FIFODETECTORFARM) = FIFODETECTORFARM[1]
        BY <3>2, <3>3
      <4> QED
        BY <3>1, <4>1, <4>2
    <3>5. n >= word + 5
      BY <1>4, <1>6, <2>1, <3>1, <3>4 DEF Written
    <3>6. m >= Sync \/ m >= n + 1
      BY <3>1, <3>2, <3>3, OlderSeq
    <3>7. m \in Nat
      <4>1. Len(FIFODETECTORFARM') = 1 /\ FIFODETECTORFARM' \in Seq(Cell)
        BY <3>1, <3>2, <3>3, OlderSeq
      <4>2. FIFODETECTORFARM'[1] \in Cell
        BY <4>1
      <4> QED
        BY <1>4, <4>2 DEF Cell
    <3> HIDE DEF n, m
    <3>8. word' + 5 <= Cross /\ (m >= Sync \/ m >= word' + 5)
      BY <1>4, <1>6, <3>4, <3>5, <3>6, <3>7
    <3> QED
      BY <3>8 DEF m
  <2>5. FSMPackets' = "SetFarmAddress" => word' + 5 <= Cross + 1
    <3>1. FSMPackets' = "SetFarmAddress" => FSMPackets = "deadtime_1"
      BY <1>1, <2>2, <2>3, FastMoves DEF Sequence
    <3> QED
      BY <1>4, <1>6, <2>1, <3>1 DEF Written
  <2>6. FSMPackets' = "deadtime_2" => word' + 5 <= Cross + 2
    <3>1. FSMPackets' = "deadtime_2" => FSMPackets = "SetFarmAddress"
      BY <1>1, <2>2, <2>3, FastMoves DEF Sequence
    <3> QED
      BY <1>4, <1>6, <2>1, <3>1 DEF Written
  <2>7. FSMPackets' = "WriteEvent" => word' + 5 <= Cross + 3
    <3>1. FSMPackets' = "WriteEvent" => FSMPackets = "deadtime_2"
      BY <1>1, <2>2, <2>3, FastMoves DEF Sequence
    <3> QED
      BY <1>4, <1>6, <2>1, <3>1 DEF Written
  <2> QED
    BY <2>4, <2>5, <2>6, <2>7 DEF Written
<1> QED
  BY <1>5, <1>6

\* With the last word of the end nothing is owed any more.
LEMMA LastPays ==
  ASSUME SInv, Regular, Closing, Edge125, FSMSendDetectors = "S3",
         FSMSend = "EOB", word = EOBWords - 1
  PROVE  ~Owed'
<1>1. /\ FarmTypes /\ Register /\ Pace /\ Due /\ Ended /\ FastEdge(PacketsFull)
      /\ Written /\ Cross \in Nat /\ EOBWords \in Nat /\ EOBWords >= Cross
  BY FastKept, Gaps, EndTimes DEF SInv, FInv, Regular, Closing
<1>2. ~Pending
  BY <1>1, InReset
<1>3. FSMPackets \notin {"deadtime_1", "SetFarmAddress", "deadtime_2", "WriteEvent"}
  <2>1. ASSUME word + 5 <= Cross + 3 PROVE FALSE
    BY <1>1, <2>1
  <2>2. FSMPackets \in {"deadtime_1", "SetFarmAddress", "deadtime_2", "WriteEvent"}
          => word + 5 <= Cross + 3
    BY <1>1 DEF Written
  <2> QED
    BY <2>1, <2>2
<1>4. due' = <<>>
  BY <1>1, <1>2, <1>3, NoNewEvent
<1>5. FSMPackets \in {"idle", "deadtime_0"}
  BY <1>1, <1>3 DEF FarmTypes, Sequence
<1>6. /\ FSMPackets = "idle" => MEPeventWritten # MEPEventNumber
      /\ MEPEventNumber >= 1 /\ MEPEventNumber \in Nat
  BY <1>1, FarmAssumption DEF FarmTypes
<1>7. MEPeventWritten' # MEPEventNumber
  BY <1>1, <1>5, <1>6, Counts
<1> QED
  BY <1>4, <1>7 DEF Owed

-----------------------------------------------------------------------------
\* The words of the end are counted up to the last.
LEMMA EndWordFast ==
  ASSUME SenderTypes, FSMSend = "EOB" => word < EOBWords, Edge125
  PROVE  FSMSend' = "EOB" => word' < EOBWords
<1> SUFFICES ASSUME FSMSend' = "EOB" PROVE word' < EOBWords
  OBVIOUS
<1>1. EOBWords \in Nat /\ EOBWords >= 1 /\ word \in Nat
  BY PacketsAssumption DEF SenderTypes
<1>2. SubSendFARM
  BY DEF Edge125, ResetSend
<1>3. PICK port \in Ports : PacketHeaderEOB(port) \/ SendEOB(port)
  BY <1>2 DEF SubSendFARM, SendIdle, PacketHeader, SendEvent, sendVars
<1>4. CASE PacketHeaderEOB(port)
  BY <1>1, <1>4 DEF PacketHeaderEOB, SenderTypes
<1>5. CASE SendEOB(port)
  <2>1. FSMSend = "EOB" /\ (word' = word \/ (word < EOBWords - 1 /\ word' = word + 1))
    BY <1>5 DEF SendEOB, sendVars
  <2> QED
    BY <1>1, <2>1
<1> QED
  BY <1>3, <1>4, <1>5

\* A fast clock of the reset: the clocks go on, and the way to the end with them.
LEMMA SumAfter ==
  ASSUME NEW c \in Nat, NEW p \in Nat, NEW l \in Nat, NEW m \in Nat, NEW t \in Nat,
         NEW n \in {0, 1}, m + n <= l, c + p + l <= t + n
  PROVE  c + (p + 1) + m <= t + 1
  OBVIOUS

\* What a fast clock of the reset does to the way to the end.
LEMMA ResetFast ==
  ASSUME EInv, SInv', Regular, Regular', Edge125, FSMSendDetectors = "S3"
  PROVE  Shown' /\ OnTheWay' /\ Nearer' /\ There' /\ Written'
<1>1. /\ SInv /\ Closing /\ FarmTypes /\ Gate /\ Due /\ Ended /\ SenderTypes
      /\ (FSMSend = "EOB" => word < EOBWords) /\ SenderTypes' /\ Flags' /\ Pace /\ Register
  BY DEF EInv, SInv, FInv, Regular
<1>2. /\ FSMSendDetectors' = "S3" /\ latencycounter' = latencycounter
      /\ phase' = phase + 1 /\ phase' > 0 /\ eob_ev125' /\ FastEdge(PacketsFull)
      /\ phase \in Nat /\ latencycounter \in Nat
  BY <1>1, FastKept, InReset
<1>3. SubSendFARM
  BY DEF Edge125
<1>4. Clocks \in Nat /\ Clocks' = Clocks + 1
  BY <1>1, <1>2, CountsRegular DEF Gate
<1> DEFINE c == 3 * latencycounter
           n == IF eob_ev125 THEN 1 ELSE 0
<1>5. c \in Nat /\ n \in {0, 1} /\ Total \in Nat
  BY <1>2, EndTimes DEF Total
<1>6. ASSUME ends' = 0,
             ends = 0 /\ EndLeft \in Nat /\ EndLeft' \in Nat /\ EndLeft' + n <= EndLeft
      PROVE  Nearer'
  <2>1. c + phase + EndLeft <= Total + n
    BY <1>1, <1>6 DEF Closing, Nearer
  <2> HIDE DEF n
  <2>2. c + (phase + 1) + EndLeft' <= Total + 1
    BY <1>2, <1>5, <1>6, <2>1, SumAfter
  <2>3. 3 * latencycounter' + phase' + EndLeft' <= Total + 1
    BY <1>2, <2>2
  <2> QED
    BY <1>2, <2>3 DEF Nearer, Total, Sending
\* The end is not begun yet.
<1>7. CASE ~eob_data_send
  <2>1. /\ ends' = 0 /\ ends = 0
        /\ eob_data_send' => FSMSend' = "PacketHeaderEOB" /\ FIFOPACKETS' >= ToRead' /\ eob_ev125
        /\ EndLeft \in Nat /\ EndLeft' \in Nat /\ EndLeft' + n <= EndLeft
    BY <1>1, <1>7, NearerBefore DEF Closing, OnTheWay
  <2>2. Nearer'
    BY <1>6, <2>1
  <2>3. eob_data_send' => Clocks' >= 5
    <3> SUFFICES ASSUME eob_data_send' PROVE Clocks' >= 5
      OBVIOUS
    <3>1. phase > 0 \/ latencycounter > 0
      BY <1>1, <2>1 DEF Closing, Shown
    <3>2. Clocks >= 4
      BY <1>1, <1>2, <3>1, InReset
    <3> QED
      BY <1>4, <3>2
  <2>4. Shown'
    BY <1>2, <2>3 DEF Shown
  <2>5. FSMSend' = "EOB" => eob_data_send'
    BY <1>1 DEF Flags
  <2> QED
    BY <1>2, <2>1, <2>2, <2>4, <2>5 DEF OnTheWay, There, Written
\* The end is on its way.
<1>8. CASE eob_data_send /\ FSMSend \in {"PacketHeaderEOB", "Event", "EOB"} /\ ends = 0
  <2>1. ComesNearer
    BY <1>1, <1>8, NearerAfter DEF Closing
  <2>2. eob_data_send' /\ FIFOPACKETS' >= ToRead' /\ Clocks >= 5 /\ eob_ev125
    BY <1>1, <1>8, <2>1 DEF ComesNearer, Closing, Shown
  <2>3. Shown' /\ There'
    BY <1>2, <1>4, <2>2 DEF Shown, There
  <2>4. CASE /\ FSMSend' \in {"PacketHeaderEOB", "Event", "EOB"} /\ ends' = 0
             /\ EndLeft \in Nat /\ EndLeft' \in Nat /\ EndLeft' + 1 <= EndLeft
             /\ FSMSend' = "EOB" => \/ FSMSend = "EOB" /\ word' = word + 1
                                    \/ FSMSend # "EOB" /\ word' = 0
    <3>1. Nearer'
      BY <1>6, <1>8, <2>2, <2>4
    <3>2. OnTheWay'
      BY <2>2, <2>4 DEF OnTheWay
    <3>3. Written'
      <4>1. CASE FSMSend' = "EOB"
        BY <1>1, <1>8, <2>4, <4>1, WrittenFast DEF SenderTypes
      <4>2. CASE FSMSend' # "EOB"
        BY <4>2 DEF Written
      <4> QED
        BY <4>1, <4>2
    <3> QED
      BY <2>3, <3>1, <3>2, <3>3
  <2>5. CASE FSMSend = "EOB" /\ word = EOBWords - 1 /\ FSMSend' = "idle" /\ ends' = 1
    <3>1. ~Owed'
      BY <1>1, <2>5, LastPays
    <3> QED
      BY <2>2, <2>3, <2>5, <3>1 DEF OnTheWay, Nearer, Written
  <2> QED
    BY <2>1, <2>4, <2>5 DEF ComesNearer
\* The end was sent.
<1>9. CASE eob_data_send /\ FSMSend = "idle" /\ ends = 1 /\ ~Owed
  <2>1. FSMSend' = "idle" /\ eob_data_send' /\ ends' = 1 /\ ~Owed'
    BY <1>1, <1>2, <1>3, <1>9, StaysClosed
  <2>2. Clocks >= 5
    BY <1>1, <1>9 DEF Closing, Shown
  <2>3. Shown'
    BY <1>2, <1>4, <2>2 DEF Shown
  <2>4. There'
    <3>1. ToRead' = 0
      BY <2>1 DEF ToRead
    <3> QED
      BY <1>1, <3>1 DEF There, SenderTypes
  <2> QED
    BY <2>1, <2>3, <2>4 DEF OnTheWay, Nearer, Written
<1> QED
  BY <1>1, <1>7, <1>8, <1>9 DEF Closing, OnTheWay

\* A fast clock keeps the invariant of the end.
LEMMA EndFast ==
  ASSUME EInv, SInv', Edge125
  PROVE  EInv'
<1>1. /\ SInv /\ SenderTypes /\ Flags /\ FarmTypes
      /\ (FSMSend = "EOB" => word < EOBWords) /\ (Regular => Closing)
  BY DEF EInv, SInv, FInv
<1>2. UNCHANGED <<FSMSendDetectors, BURST, BURST40, bursts, apart, activate>> /\ phase' > 0
      /\ FastEdge(PacketsFull)
  BY <1>1, FastKept
<1>3. FSMSend' = "EOB" => word' < EOBWords
  BY <1>1, EndWordFast
<1> SUFFICES ASSUME Regular, Regular' PROVE Closing'
  BY <1>2, <1>3 DEF EInv, Regular
<1>4. Due /\ Closing
  BY <1>1 DEF SInv, FInv, Regular
<1>5. FSMSendDetectors \in {"S0_0", "S0", "S1", "S2", "S3"}
  BY <1>1 DEF FarmTypes, TypeOK
<1>6. CASE FSMSendDetectors = "S3"
  <2>1. Shown' /\ OnTheWay' /\ Nearer' /\ There' /\ Written'
    BY <1>6, ResetFast
  <2>2. Unsent' /\ SentOnce'
    BY <1>2, <1>6 DEF Unsent, SentOnce
  <2> QED
    BY <2>1, <2>2 DEF Closing
<1>7. CASE FSMSendDetectors # "S3"
  <2>1. Shown' /\ OnTheWay' /\ Nearer' /\ There' /\ Written'
    BY <1>2, <1>7 DEF Shown, OnTheWay, Nearer, There, Written
  <2>2. Unsent'
    <3>1. CASE FSMSendDetectors \in {"S1", "S2"}
      <4>1. FSMSend # "EOB" /\ ends = 0
        BY <1>1, <1>4, <3>1 DEF Flags, Closing, Unsent
      <4>2. ends' = 0
        BY <3>1, <4>1, EndsKept DEF Edge125
      <4> QED
        BY <1>2, <3>1, <4>2 DEF Unsent
    <3>2. CASE FSMSendDetectors = "S0" /\ BURST
      BY <1>2, <3>2 DEF Unsent, Edge125, ResetSend
    <3> QED
      BY <1>2, <1>5, <1>7, <3>1, <3>2 DEF Unsent
  <2>3. SentOnce'
    <3> SUFFICES ASSUME FSMSendDetectors \in {"S0_0", "S0"}, ~BURST, bursts > 0
                 PROVE  ends' = 1 /\ FSMSend' = "idle" /\ eob_data_send' /\ ~Owed'
      BY <1>2 DEF SentOnce
    <3>1. ends = 1 /\ FSMSend = "idle" /\ eob_data_send /\ ~Owed
      BY <1>4 DEF Closing, SentOnce
    <3>2. SubSendFARM
      BY DEF Edge125
    <3> QED
      BY <1>1, <1>2, <1>4, <3>1, <3>2, StaysClosed
  <2> QED
    BY <2>1, <2>2, <2>3 DEF Closing
<1> QED
  BY <1>6, <1>7

-----------------------------------------------------------------------------
\* The way to the end is a count of clocks.
LEMMA EndLeftType ==
  ASSUME SenderTypes, FSMSend = "EOB" => word < EOBWords
  PROVE  EndLeft \in Nat
<1> DEFINE S == Sending(MEPEventNumber)
           R == Sending(MEPEventRead)
<1>1. /\ EOBWords \in Nat /\ EOBWords >= 1 /\ word \in Nat /\ Left \in Nat
      /\ S \in Nat /\ R \in Nat
  BY EndTimes, LeftType DEF SenderTypes
<1>2. CASE eob_data_send
  <2>1. EndLeft = Rest
    BY <1>2 DEF EndLeft
  <2>2. CASE FSMSend = "PacketHeaderEOB"
    <3>1. Rest = (IF MEPEventRead = 0 THEN 0 ELSE 1 + R) + 1 + EOBWords
      BY <2>2 DEF Rest
    <3> HIDE DEF R, S
    <3> QED
      BY <1>1, <2>1, <3>1
  <2>3. CASE FSMSend = "Event"
    BY <1>1, <2>1, <2>3 DEF Rest
  <2>4. CASE FSMSend = "EOB"
    BY <1>1, <2>1, <2>4 DEF Rest
  <2>5. CASE FSMSend \notin {"PacketHeaderEOB", "Event", "EOB"}
    BY <2>1, <2>5 DEF Rest
  <2> QED
    BY <2>2, <2>3, <2>4, <2>5
<1>3. CASE ~eob_data_send
  <2>1. EndLeft = Left + Completed + (3 + S + EOBWords) /\ Completed \in {0, 2 + S}
    BY <1>3 DEF EndLeft, Last, Completed
  <2> HIDE DEF R, S
  <2> QED
    BY <1>1, <2>1
<1> QED
  BY <1>2, <1>3

\* The burst ends: what is left to do was counted from the last word.
LEMMA EndBegins ==
  ASSUME EInv, SInv', Regular, Regular', NEW a \in Address \cup {NoAddress}, Edge40(a),
         FSMSendDetectors = "S2", FSMSendDetectors' = "S3"
  PROVE  Closing'
<1>1. /\ SInv /\ Closing /\ FarmTypes /\ Flags /\ Resets /\ Gate'
  BY DEF EInv, SInv, FInv
<1>2. /\ UNCHANGED <<FIFOPACKETS, eob_ev125, FSMSend, MEPEventRead, word, eob_data_send, ends>>
      /\ UNCHANGED MEPeventWritten /\ phase \in {3, 4} /\ phase' = 0
      /\ SubSendDetectors(a # NoAddress, FarmFull)
      /\ due' = IF ev40' \in Reported THEN Append(due, Event(ev40', a)) ELSE due
  BY Zenon, SlowUnchanged DEF Edge40, SlowEdge, Clock40, Regular
<1>3. latencycounter' = 0 /\ due' = due
  BY <1>1, <1>2, Words DEF Resets, Reported
<1>4. ~eob_ev125 /\ ~eob_data_send /\ FSMSend # "EOB" /\ ends = 0
  BY <1>1 DEF Flags, Closing, Unsent
<1>5. Shown' /\ OnTheWay' /\ There' /\ Written' /\ Unsent' /\ SentOnce'
  BY <1>2, <1>3, <1>4 DEF Shown, OnTheWay, There, Written, Unsent, SentOnce
<1>6. EndLeft' = EndLeft
  BY <1>2, <1>3 DEF EndLeft, Rest, Left, Completed, Coming, Last, Sending
<1>7. Clocks \in Nat /\ Clocks >= 3
  <2>1. sinceWord \in Nat /\ sinceWord >= 1
    BY <1>1, Gaps DEF FarmTypes
  <2> QED
    BY <1>2, <2>1 DEF Clocks
<1>8. EndLeft <= Total /\ EndLeft \in Nat /\ Total \in Nat
  BY <1>1, <1>4, <1>7, BeginsInTime, EndLeftType, EndTimes DEF Total, SInv
<1>9. Nearer'
  <2>1. 3 * latencycounter' + phase' + EndLeft' <= Total
    BY <1>2, <1>3, <1>6, <1>8
  <2>2. Total' = Total
    BY DEF Total, Sending
  <2>3. (IF eob_ev125' THEN 1 ELSE 0) = 0
    BY <1>2, <1>4
  <2> QED
    BY <1>8, <2>1, <2>2, <2>3 DEF Nearer
<1> QED
  BY <1>5, <1>9 DEF Closing

\* The reset goes on.
LEMMA ResetSlow ==
  ASSUME EInv, SInv', Regular, Regular', NEW a \in Address \cup {NoAddress}, Edge40(a),
         FSMSendDetectors = "S3", FSMSendDetectors' = "S3"
  PROVE  Closing'
<1>1. /\ SInv /\ Closing /\ FarmTypes /\ Ended /\ SenderTypes
      /\ (FSMSend = "EOB" => word < EOBWords)
  BY DEF EInv, SInv, FInv, Regular
<1>2. /\ UNCHANGED <<FIFOPACKETS, eob_ev125, FSMSend, MEPEventRead, word, eob_data_send, ends>>
      /\ UNCHANGED <<MEPeventWritten, FSMPackets>> /\ phase \in {3, 4} /\ phase' = 0
      /\ SubSendDetectors(a # NoAddress, FarmFull)
  BY SlowUnchanged DEF Edge40, SlowEdge, Clock40
<1>3. ev40' = "none" /\ due' = due
  BY <1>1, SlowSilent DEF Regular
<1>4. latencycounter' = latencycounter + 1 /\ latencycounter \in Nat
  BY <1>1, <1>2, Words, InReset
<1>5. UNCHANGED <<data_send, FIFODETECTORFARM>>
  BY <1>3 DEF Edge40, SlowEdge, fastVars, Cleared
<1>6. sinceWord' = UpTo(WordGap, sinceWord) /\ sinceWord >= 2
  <2>1. sinceWord' = IF ev40' \in Reported THEN 1 ELSE UpTo(WordGap, sinceWord)
    BY DEF Edge40, SlowEdge
  <2>2. sinceWord >= 2
    <3>1. sinceWord = WordGap \/ sinceWord >= latencycounter + 2
      BY <1>1 DEF Ended
    <3>2. sinceWord \in Nat
      BY <1>1, Gaps DEF FarmTypes
    <3> QED
      BY <1>4, <3>1, <3>2, Gaps
  <2> QED
    BY <1>3, <2>1, <2>2 DEF Reported
<1>7. Clocks' >= 5
  <2>1. Clocks' \in Nat /\ Clocks' >= 6
    BY <1>1, <1>2, <1>6, NoWordClocks DEF FarmTypes
  <2> QED
    BY <2>1
<1>8. Shown'
  <2>1. eob_ev125
    BY <1>1, <1>2 DEF Closing, Shown
  <2>2. latencycounter' > 0
    BY <1>4
  <2> QED
    BY <1>2, <1>7, <2>1, <2>2 DEF Shown
<1>9. OnTheWay'
  BY <1>1, <1>2, <1>3 DEF Closing, OnTheWay, Owed
<1>10. There'
  BY <1>1, <1>2 DEF Closing, There, ToRead
<1>11. Written'
  BY <1>1, <1>2, <1>5 DEF Closing, Written
<1>12. Unsent' /\ SentOnce'
  BY DEF Unsent, SentOnce
<1>13. Nearer'
  <2> SUFFICES ASSUME ends = 0 PROVE Nearer'
    BY <1>2 DEF Nearer
  <2>1. eob_ev125 /\ eob_ev125'
    BY <1>1, <1>2 DEF Closing, Shown
  <2>2. 3 * latencycounter + phase + EndLeft <= Total + 1
    BY <1>1, <2>1 DEF Closing, Nearer
  <2>3. EndLeft' = EndLeft
    BY <1>2, <1>3 DEF EndLeft, Rest, Left, Completed, Coming, Last, Sending
  <2>4. EndLeft \in Nat /\ Total \in Nat
    BY <1>1, EndLeftType, EndTimes DEF Total
  <2>5. 3 * latencycounter' + phase' + EndLeft' <= Total + 1
    BY <1>2, <1>4, <2>2, <2>3, <2>4
  <2>6. Total' = Total
    BY DEF Total, Sending
  <2> QED
    BY <2>1, <2>5, <2>6 DEF Nearer
<1> QED
  BY <1>8, <1>9, <1>10, <1>11, <1>12, <1>13 DEF Closing

\* The reset was long enough for the end to be sent.
LEMMA ResetEnds ==
  ASSUME EInv, Regular, Regular', NEW a \in Address \cup {NoAddress}, Edge40(a),
         FSMSendDetectors = "S3", FSMSendDetectors' = "S0_0"
  PROVE  ends' = 1 /\ FSMSend' = "idle" /\ eob_data_send' /\ ~Owed'
<1>1. /\ SInv /\ Closing /\ FarmTypes /\ Ended /\ SenderTypes
      /\ (FSMSend = "EOB" => word < EOBWords)
  BY DEF EInv, SInv, FInv, Regular
<1>2. /\ UNCHANGED <<FSMSend, eob_data_send, ends, MEPeventWritten>>
      /\ phase \in {3, 4} /\ SubSendDetectors(a # NoAddress, FarmFull)
  BY SlowUnchanged DEF Edge40, SlowEdge, Clock40
<1>3. due' = due
  BY <1>1, SlowSilent DEF Regular
<1>4. latencycounter = Fixed_Latency + ResetTime /\ latencycounter \in Nat
  BY <1>1, <1>2, Words, InReset
<1>5. ends # 0
  <2> SUFFICES ASSUME ends = 0 PROVE FALSE
    OBVIOUS
  <2>1. eob_ev125
    BY <1>1, <1>2 DEF Closing, Shown
  <2>2. 3 * latencycounter + phase + EndLeft <= Total + 1
    BY <1>1, <2>1 DEF Closing, Nearer
  <2>3. EndLeft \in Nat /\ Total \in Nat /\ Total <= 3 * latencycounter
    BY <1>1, <1>4, EndLeftType, EndTimes DEF Total
  <2> QED
    BY <1>2, <1>4, <2>2, <2>3
<1> QED
  BY <1>1, <1>2, <1>3, <1>5 DEF Closing, OnTheWay, Owed

\* A slow clock keeps the invariant of the end.
LEMMA EndSlow ==
  ASSUME EInv, SInv', NEW a \in Address \cup {NoAddress}, Edge40(a)
  PROVE  EInv'
<1>1. SInv /\ FarmTypes /\ Gate /\ (FSMSend = "EOB" => word < EOBWords) /\ (Regular => Closing)
      /\ Flags
  BY DEF EInv, SInv, FInv
<1>2. /\ UNCHANGED <<FSMSend, word, ends, eob_data_send, MEPeventWritten, activate>>
      /\ phase \in {3, 4} /\ phase' = 0 /\ (apart' => apart)
      /\ altTTC /\ SubSendDetectors(a # NoAddress, FarmFull)
      /\ bursts' = IF BURST' /\ ~BURST THEN bursts + 1 ELSE bursts
  BY SlowUnchanged DEF Edge40, SlowEdge, Clock40
<1> SUFFICES ASSUME Regular, Regular' PROVE Closing'
  BY <1>1, <1>2 DEF EInv, Regular
<1>3. Closing
  BY <1>1
<1>4. FSMSendDetectors \in {"S0_0", "S0", "S1", "S2", "S3"}
  BY <1>1 DEF FarmTypes, TypeOK
<1>5. CASE FSMSendDetectors' = "S3"
  <2>1. FSMSendDetectors \in {"S2", "S3"}
    BY <1>2, <1>4, <1>5, Words
  <2> QED
    BY <1>5, <2>1, EndBegins, ResetSlow
<1>6. CASE FSMSendDetectors' # "S3"
  <2>1. Shown' /\ OnTheWay' /\ Nearer' /\ There' /\ Written'
    BY <1>6 DEF Shown, OnTheWay, Nearer, There, Written
  <2>2. Unsent'
    <3>1. FSMSendDetectors' \in {"S1", "S2"} => ends = 0
      <4>1. FSMSendDetectors' \in {"S1", "S2"} =>
               \/ FSMSendDetectors \in {"S1", "S2"}
               \/ FSMSendDetectors = "S0" /\ BURST40
        BY <1>2, <1>4, Words
      <4> QED
        BY <1>1, <1>2, <1>3, <4>1 DEF Closing, Unsent, Gate
    <3>2. FSMSendDetectors' = "S0" /\ BURST40' => ends = 0
      <4>1. BURST40' = BURST
        BY <1>2 DEF altTTC
      <4>2. FSMSendDetectors' = "S0" => FSMSendDetectors \in {"S0_0", "S0"}
        BY <1>2, <1>4, Words
      <4> QED
        BY <1>1, <1>2, <1>3, <4>1, <4>2 DEF Closing, Unsent, Gate
    <3> QED
      BY <1>2, <3>1, <3>2 DEF Unsent
  <2>3. SentOnce'
    <3> SUFFICES ASSUME FSMSendDetectors' \in {"S0_0", "S0"}, ~BURST', bursts' > 0
                 PROVE  ends' = 1 /\ FSMSend' = "idle" /\ eob_data_send' /\ ~Owed'
      BY DEF SentOnce
    <3>1. CASE FSMSendDetectors = "S3"
      <4>1. FSMSendDetectors' = "S0_0"
        BY <1>2, <1>6, <3>1, Words
      <4> QED
        BY <3>1, <4>1, ResetEnds
    <3>2. CASE FSMSendDetectors # "S3"
      <4>1. FSMSendDetectors \in {"S0_0", "S0"} /\ FSMSendDetectors' = "S0"
        BY <1>2, <1>4, <3>2, Words
      <4>2. ~BURST /\ bursts > 0
        <5>1. NextBurst
          BY <1>2 DEF altTTC
        <5>2. ~BURST
          BY <1>1, <4>1, <5>1 DEF NextBurst, Gate
        <5> QED
          BY <1>2, <5>2
      <4>3. ends = 1 /\ FSMSend = "idle" /\ eob_data_send /\ ~Owed
        BY <1>3, <4>1, <4>2 DEF Closing, SentOnce
      <4>4. due' = due
        BY <1>1, <4>1, SlowSilent DEF Regular
      <4> QED
        BY <1>2, <4>3, <4>4 DEF Owed
    <3> QED
      BY <3>1, <3>2
  <2> QED
    BY <2>1, <2>2, <2>3 DEF Closing
<1> QED
  BY <1>5, <1>6

-----------------------------------------------------------------------------
\* The invariant of the end holds at first ...
LEMMA EInvInit == SendInit => EInv
<1> SUFFICES ASSUME SendInit PROVE EInv
  OBVIOUS
<1>1. SInv
  BY SInvInit
<1>2. FSMSend = "idle" /\ FSMSendDetectors = "S0_0" /\ bursts = 0
  BY DEF SendInit, FarmInit, Init
<1>3. Closing
  BY <1>2 DEF Closing, Unsent, Shown, OnTheWay, Nearer, There, Written, SentOnce
<1> QED
  BY <1>1, <1>2, <1>3 DEF EInv

\* ... each step keeps it ...
LEMMA EInvStep == EInv /\ [SendNext]_allVars => EInv'
<1> SUFFICES ASSUME EInv, [SendNext]_allVars PROVE EInv'
  OBVIOUS
<1>1. SInv'
  BY SInvStep DEF EInv
<1>2. CASE Edge125
  BY <1>1, <1>2, EndFast
<1>3. ASSUME NEW a \in Address \cup {NoAddress}, Edge40(a) PROVE EInv'
  BY <1>1, <1>3, EndSlow
<1>4. CASE UNCHANGED allVars
  <2>1. /\ UNCHANGED <<FIFOPACKETS, eob_ev125, FSMSend, MEPEventRead, word, eob_data_send, ends>>
        /\ UNCHANGED <<FSMSendDetectors, latencycounter, BURST, BURST40, phase, activate>>
        /\ UNCHANGED <<MEPeventWritten, due, sinceWord, FSMPackets, apart, bursts>>
        /\ UNCHANGED <<data_send, FIFODETECTORFARM>>
    BY <1>4 DEF allVars, packetVars, sendVars, detVars, ttcVars, farmVars, slowVars, fastVars
  <2>2. Regular' = Regular /\ Unsent' = Unsent /\ There' = There /\ Written' = Written
    BY <2>1 DEF Regular, Unsent, There, ToRead, Written
  <2>3. Shown' = Shown
    BY <2>1 DEF Shown, Clocks
  <2>4. OnTheWay' = OnTheWay /\ SentOnce' = SentOnce
    BY <2>1 DEF OnTheWay, SentOnce, Owed
  <2>5. EndLeft' = EndLeft /\ Total' = Total
    BY <2>1 DEF EndLeft, Rest, Left, Completed, Coming, Last, Total, Sending
  <2>6. Nearer' = Nearer
    BY <2>1, <2>5 DEF Nearer
  <2>7. Closing' = Closing
    BY <2>2, <2>3, <2>4, <2>6 DEF Closing
  <2> QED
    BY <1>1, <2>1, <2>2, <2>7 DEF EInv
<1> QED
  BY <1>2, <1>3, <1>4 DEF SendNext

\* ... and so it always holds.
LEMMA EndInvariance == SendSpec => []EInv
  BY EInvInit, EInvStep, PTL DEF SendSpec

\* While the port to the farm is free, once the memories have been reset the farm was
\* sent the end of the burst, exactly once.
THEOREM EndWasSentAlways == SendSpec => []EndWasSent
<1>1. EInv => EndWasSent
  BY DEF EInv, Closing, SentOnce, EndWasSent
<1> QED
  BY EndInvariance, <1>1, PTL

=============================================================================
