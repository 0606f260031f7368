--------------------------- MODULE SendBufferProofs ---------------------------
(***************************************************************************)
(* Theorems about SendBuffer, for a ring of any size, any latency, latency    *)
(* of the NIM requests, lateness of the physics requests and number of fast   *)
(* edges in a slow one that RingAssumption allows, and with no fairness.      *)
(*                                                                          *)
(* All is said in terms of the clocks until a cell is due (Ahead).  Requests  *)
(* says which cells may have requests: not those the pointer has still to     *)
(* pass before the burst, and not those it has passed after it.  Held says    *)
(* that a word stands only in such a cell, and Settling that SubSendBuffer    *)
(* comes to rest at the end of a burst; they give NothingLeft.  Match says    *)
(* that a cell holds the words of all its requests until it is read; with     *)
(* the path of SubSendDetectors (Path) it gives FixedLatency.  Events says    *)
(* where the events of a burst are in SENDRAM, by the addresses given since;  *)
(* it gives OwnEvent.                                                       *)
(***************************************************************************)
EXTENDS SendBuffer, TLAPS

\* A NIM calibration without latency is the only request that does not read its cell.
AlwaysReads == CalibLatency # 0 \/ "nim" \notin Kinds

\* The clocks from the timestamp n to the one in which the cell c is due.
Ahead(c, n) ==
    LET x == c - n + Fixed_Latency + 1
    IN  IF x < 0 THEN x + Cells ELSE IF x < Cells THEN x ELSE x - Cells

\* The request that has been taken for a cell and is not written to it yet.
Requested(c) == IF FSMoutputdata = "SetFarmAddress" /\ tmp.cell = c THEN {tmp.kind} ELSE {}

\* Out of a burst, after the reset of the memories.
Between == FSMSendDetectors \in {"S0_0", "S0"} /\ ~BURST

\* The types, with those of the variables of SendDetectors that matter here.
BufferTypes ==
    /\ BufferTypeOK
    /\ BURST \in BOOLEAN /\ BURST40 \in BOOLEAN
    /\ FSMSendDetectors \in {"S0_0", "S0", "S1", "S2", "S3"}
    /\ latencycounter \in 0 .. Fixed_Latency + ResetTime
    /\ distance \in Nat
    /\ tmp \in [cell : Cell, kind : Kinds \cup {"none"}]
    /\ FSMoutputdata # "Idle" => tmp.kind \in Kinds

\* The states of SubSendDetectors follow the gate of the burst.
Gate ==
    /\ FSMSendDetectors \in {"S3", "S0_0"} => ~BURST /\ ~BURST40
    /\ FSMSendDetectors \in {"S1", "S2"} => (BURST => BURST40)
    /\ FSMSendDetectors = "S0" => (BURST40 => BURST)

\* The clocks at which the states come, and that the pointer is one cell ahead of what
\* is due.
Times ==
    /\ FSMSendDetectors \in {"S0_0", "S0", "S1"} => latencyreadaddressb = 0
    /\ FSMSendDetectors \in {"S0", "S2"} => latencycounter = 0
    /\ FSMSendDetectors = "S0" /\ BURST => now = (IF BURST40 THEN 1 ELSE 0) /\ age <= now
    /\ FSMSendDetectors = "S1" => now = latencycounter + 2 /\ latencycounter <= Fixed_Latency - 3
                                  /\ distance = 0
    /\ FSMSendDetectors = "S0" /\ BURST40 => distance = 0
    /\ FSMSendDetectors \in {"S2", "S3"} => Ahead(latencyreadaddressb, now) = 1
    /\ FSMSendDetectors = "S3" => age >= latencycounter \/ age = Late + 1

\* Requests are of the burst: in its first clocks no cell is asked for that is due before
\* the latency is over, in the reset none that the sweep has passed, and a request in
\* progress is written before its cell is read.
Requests ==
    /\ \A c \in Cell : asked[c] # {} =>
          /\ (FSMSendDetectors = "S0" /\ BURST) \/ FSMSendDetectors = "S1" =>
                Ahead(c, now) + now >= Fixed_Latency + 1
          /\ FSMSendDetectors = "S3" => Ahead(c, now) + latencycounter < Cells
          /\ ~Between
    /\ FSMoutputdata = "SetFarmAddress" =>
          Ahead(tmp.cell, now) >= IF phase = 0 THEN 1 ELSE 2
    /\ FSMoutputdata = "WriteEvent" => Ahead(tmp.cell, now) >= IF phase = 0 THEN 0 ELSE 1

\* A cell holds a word only while it is asked for and not due.
Held == \A c \in Cell :
    /\ LATENCYRAM[c].tw = {} => LATENCYRAM[c] = NoWord
    /\ LATENCYRAM[c] # NoWord => asked[c] # {} /\ Ahead(c, now) >= 1
    /\ Requested(c) \subseteq asked[c]

\* After the end of a burst the last request is taken Late clocks later at most, and the
\* machine is idle three clocks after that, with addressfarm at its beginning.
Settling ==
    /\ FSMSendDetectors = "S3" =>
          /\ phase > 0 \/ latencycounter >= 1 => ~BURST125
          /\ latencycounter > Late =>
                /\ phase > 0 \/ latencycounter >= Late + 2 => FSMoutputdata # "SetFarmAddress"
                /\ latencycounter >= Late + 3 \/ (latencycounter = Late + 2 /\ phase > 0) =>
                      FSMoutputdata = "Idle"
                /\ latencycounter >= Late + 4 \/ (latencycounter = Late + 3 /\ phase > 0) =>
                      addressfarm = 0
    /\ Between => ~BURST125 /\ FSMoutputdata = "Idle" /\ addressfarm = 0

\* The invariant that needs no hypothesis.
LInv == BufferTypes /\ Gate /\ Times /\ Requests /\ Held /\ Settling

\* A cell that is not due holds the words of all its requests, and the word read last those
\* of the cell that is.
Match ==
    /\ \A c \in Cell : Ahead(c, now) >= 1 => LATENCYRAM[c].tw \cup Requested(c) = asked[c]
    /\ FSMoutputdata = "SetFarmAddress" => q_a = LATENCYRAM[tmp.cell]
    /\ FSMSendDetectors = "S2" /\ distance >= 1 => q_b.tw = asked[Due]

\* The invariant.
MInv == LInv /\ (AlwaysReads => Match)

-----------------------------------------------------------------------------
LEMMA Sizes ==
    /\ Fixed_Latency \in Nat /\ Fixed_Latency >= 3 /\ Cells \in Nat
    /\ Fixed_Latency + 1 < Cells /\ ResetTime \in Nat /\ ResetTime >= Cells
    /\ Late \in Nat /\ Late < Fixed_Latency /\ CalibLatency \in Int
    /\ Fixed_Latency + CalibLatency + 1 < Cells /\ 1 - CalibLatency < Fixed_Latency
    /\ SendSize \in Nat /\ SendSize >= 1 /\ BurstLimit \in Nat /\ primitiveDT \in Nat
    /\ FastEdges # {} /\ FastEdges \subseteq Nat \ {0} /\ "none" \notin Kinds
  BY RingAssumption, LatencyAssumption, TimeAssumption

\* Remainders, a turn too low or too high.
LEMMA Wraps ==
  ASSUME NEW size \in Nat, size >= 1, NEW y \in Int, -size <= y, y < 2 * size
  PROVE  y % size = IF y < 0 THEN y + size ELSE IF y < size THEN y ELSE y - size
<1> DEFINE k == y \div size
           r == y % size
<1>1. k \in Int /\ r \in 0 .. size - 1 /\ y = size * k + r
  OBVIOUS
<1> HIDE DEF k, r
<1>2. k >= 2 => size * k >= size * 2
  BY <1>1
<1>3. k <= -2 => size * k <= size * (-2)
  BY <1>1
<1>4. k \in {-1, 0, 1}
  BY <1>1, <1>2, <1>3
<1>5. size * k = IF k = -1 THEN -size ELSE IF k = 0 THEN 0 ELSE size
  BY <1>4
<1>6. r = IF y < 0 THEN y + size ELSE IF y < size THEN y ELSE y - size
  BY <1>1, <1>4, <1>5
<1> QED
  BY <1>6 DEF r

\* The next cell of the ring.
LEMMA NextCell ==
  ASSUME NEW c \in Cell
  PROVE  (c + 1) % Cells = (IF c = Cells - 1 THEN 0 ELSE c + 1) /\ (c + 1) % Cells \in Cell
<1> DEFINE y == c + 1
<1>1. c \in Int /\ 0 <= c /\ c < Cells /\ Cells \in Nat /\ Cells >= 1
  BY Sizes DEF Cell
<1>2. y \in Int /\ -Cells <= y /\ 0 <= y /\ y < 2 * Cells
  BY <1>1
<1>3. y % Cells = IF y < 0 THEN y + Cells ELSE IF y < Cells THEN y ELSE y - Cells
  <2> HIDE DEF y
  <2> QED
    BY <1>1, <1>2, Wraps
<1> QED
  BY <1>1, <1>3 DEF Cell

\* A distance is one of the ring.
LEMMA AheadType ==
  ASSUME NEW c \in Cell, NEW n \in Cell
  PROVE  Ahead(c, n) \in Cell
  BY Sizes DEF Ahead, Cell

\* In a clock every cell comes nearer; the one that was due is the farthest.
LEMMA AheadNext ==
  ASSUME NEW c \in Cell, NEW n \in Cell
  PROVE  Ahead(c, (n + 1) % Cells) = IF Ahead(c, n) = 0 THEN Cells - 1 ELSE Ahead(c, n) - 1
<1> DEFINE m == (n + 1) % Cells
<1>1. m = (IF n = Cells - 1 THEN 0 ELSE n + 1)
  BY NextCell
<1> HIDE DEF m
<1>2. Ahead(c, m) = IF Ahead(c, n) = 0 THEN Cells - 1 ELSE Ahead(c, n) - 1
  BY <1>1, Sizes DEF Ahead, Cell
<1> QED
  BY <1>2 DEF m

\* The read pointer keeps its distance from the clock.
LEMMA AheadBoth ==
  ASSUME NEW c \in Cell, NEW n \in Cell
  PROVE  Ahead((c + 1) % Cells, (n + 1) % Cells) = Ahead(c, n)
<1> DEFINE m == (n + 1) % Cells
           d == (c + 1) % Cells
<1>1. m = (IF n = Cells - 1 THEN 0 ELSE n + 1) /\ d = (IF c = Cells - 1 THEN 0 ELSE c + 1)
  BY NextCell
<1> HIDE DEF m, d
<1>2. Ahead(d, m) = Ahead(c, n)
  BY <1>1, Sizes DEF Ahead, Cell
<1> QED
  BY <1>2 DEF m, d

\* Two cells are not due in the same clock.
LEMMA AheadUnique ==
  ASSUME NEW a \in Cell, NEW b \in Cell, NEW n \in Cell, Ahead(a, n) = Ahead(b, n)
  PROVE  a = b
  BY Sizes DEF Ahead, Cell

\* The cell that is due.
LEMMA DueAhead ==
  ASSUME NEW n \in Cell
  PROVE  /\ (n - (Fixed_Latency + 1)) % Cells \in Cell
         /\ Ahead((n - (Fixed_Latency + 1)) % Cells, n) = 0
<1> DEFINE y == n - (Fixed_Latency + 1)
<1>1. y \in Int /\ -Cells <= y /\ y < 2 * Cells /\ Cells \in Nat /\ Cells >= 1 /\ y < Cells
  BY Sizes DEF Cell
<1> DEFINE m == y % Cells
<1>2. m = IF y < 0 THEN y + Cells ELSE y
  <2> HIDE DEF y
  <2>1. y % Cells = IF y < 0 THEN y + Cells ELSE IF y < Cells THEN y ELSE y - Cells
    BY <1>1, Wraps
  <2> QED
    BY <2>1, <1>1 DEF m
<1> HIDE DEF m
<1>3. m \in Cell /\ Ahead(m, n) = 0
  BY <1>1, <1>2, Sizes DEF Ahead, Cell
<1> QED
  BY <1>3 DEF m, y

\* A cell is at distance zero if it is the one due.
LEMMA DueIs ==
  ASSUME now \in Cell, NEW c \in Cell
  PROVE  Due \in Cell /\ (Ahead(c, now) = 0 <=> c = Due)
<1>1. Due \in Cell /\ Ahead(Due, now) = 0
  BY DueAhead DEF Due
<1> QED
  BY <1>1, AheadUnique

\* The timestamp of d clocks ago is due so much later than those of a latency ago.
LEMMA AheadBack ==
  ASSUME now \in Cell, NEW d \in Int, d <= Fixed_Latency, Fixed_Latency - d + 1 < Cells
  PROVE  /\ (now - d) % Cells \in Cell
         /\ Ahead((now - d) % Cells, now) = Fixed_Latency - d + 1
<1> DEFINE y == now - d
<1>1. y \in Int /\ -Cells <= y /\ y < 2 * Cells /\ Cells \in Nat /\ Cells >= 1
  BY Sizes DEF Cell
<1> DEFINE m == y % Cells
<1>2. m = IF y < 0 THEN y + Cells ELSE IF y < Cells THEN y ELSE y - Cells
  <2> HIDE DEF y
  <2> QED
    BY <1>1, Wraps DEF m
<1>3. (now - d) % Cells = m
  BY DEF m, y
<1> HIDE DEF m
<1>4. m \in Cell /\ Ahead(m, now) = Fixed_Latency - d + 1
  BY <1>1, <1>2, Sizes DEF Ahead, Cell
<1> QED
  BY <1>3, <1>4

-----------------------------------------------------------------------------
(***************************************************************************)
(* Edges of the 40 MHz clock.                                               *)
(***************************************************************************)
\* Where SubSendDetectors goes in a clock.
Path ==
    /\ FSMSendDetectors = "S0_0" => FSMSendDetectors' = "S0" /\ latencycounter' = 0
    /\ FSMSendDetectors = "S0" =>
          \/ /\ BURST40 /\ FSMSendDetectors' = "S1"
             /\ latencycounter' = latencycounter /\ distance' = distance
          \/ ~BURST40 /\ FSMSendDetectors' = "S0" /\ latencycounter' = 0 /\ distance' = 0
    /\ FSMSendDetectors = "S1" =>
          \/ /\ latencycounter < Fixed_Latency - 3 /\ latencycounter' = latencycounter + 1
             /\ FSMSendDetectors' = "S1" /\ distance' = 0
          \/ /\ latencycounter >= Fixed_Latency - 3 /\ latencycounter' = 0
             /\ FSMSendDetectors' = "S2" /\ distance' = distance
    /\ FSMSendDetectors = "S2" =>
          \/ BURST40 /\ FSMSendDetectors' = "S2" /\ latencycounter' = latencycounter
          \/ ~BURST40 /\ FSMSendDetectors' = "S3" /\ latencycounter' = latencycounter
    /\ FSMSendDetectors = "S3" =>
          \/ /\ latencycounter # Fixed_Latency + ResetTime /\ FSMSendDetectors' = "S3"
             /\ latencycounter' = latencycounter + 1
          \/ /\ latencycounter = Fixed_Latency + ResetTime /\ FSMSendDetectors' = "S0_0"
             /\ latencycounter' = 0

\* SubSendDetectors takes its path; it writes a trigger when it may and has one.
LEMMA DetMoves ==
  ASSUME latencycounter \in 0 .. Fixed_Latency + ResetTime, distance \in Nat,
         NEW b \in BOOLEAN, SubSendDetectors(b, FALSE)
  PROVE  /\ Path /\ distance' \in Nat
         /\ ev40' = "write" <=> MaySend /\ b /\ FarEnough
<1> USE Sizes DEF Path, SendsNothing, Sends, Moves, UpTo, Stays
<1>1. CASE S0_0
  BY <1>1 DEF S0_0, MaySend, InS2
<1>2. CASE S0
  BY <1>2 DEF S0, MaySend, InS2
<1>3. CASE S1
  BY <1>3 DEF S1, MaySend, InS2
<1>4. CASE ChokeOn \/ ErrorOn \/ Restart
  <2>1. FSMSendDetectors = "S2" /\ BURST40 /\ Duty # "trigger" /\ ev40' # "write" /\ Moves /\ Stays
    BY <1>4 DEF ChokeOn, ErrorOn, Restart, InS2
  <2> QED
    BY <2>1 DEF MaySend, InS2
<1>5. CASE ChokeOff \/ ErrorOff \/ SafeDistance
  <2>1. FSMSendDetectors = "S2" /\ BURST40 /\ Duty # "trigger" /\ ev40' # "write" /\ Moves /\ Stays
    BY <1>5 DEF ChokeOff, ErrorOff, SafeDistance, InS2
  <2> QED
    BY <2>1 DEF MaySend, InS2
<1>6. CASE Trigger(b, FALSE)
  <2>1. /\ FSMSendDetectors = "S2" /\ BURST40 /\ Stays /\ distance' \in Nat
    BY <1>6 DEF Trigger, InS2
  <2>2. ev40' = "write" <=> MaySend /\ b /\ FarEnough
    BY <1>6 DEF Trigger, Writes
  <2> QED
    BY <2>1, <2>2
<1>7. CASE EndOfBurst
  BY <1>7 DEF EndOfBurst, MaySend, InS2
<1>8. CASE S3
  BY <1>8 DEF S3, MaySend, InS2
<1> QED
  BY <1>1, <1>2, <1>3, <1>4, <1>5, <1>6, <1>7, <1>8 DEF SubSendDetectors

\* In S2 the pointer moves, and with it the distance from the last trigger.
LEMMA DetDistance ==
  ASSUME distance \in Nat, NEW b \in BOOLEAN, SubSendDetectors(b, FALSE),
         FSMSendDetectors = "S2"
  PROVE  distance' >= 1
<1>0. Moves => distance' >= 1
  BY Sizes DEF Moves, UpTo
<1>1. CASE ChokeOn \/ ErrorOn \/ Restart
  BY <1>0, <1>1 DEF ChokeOn, ErrorOn, Restart
<1>2. CASE ChokeOff \/ ErrorOff \/ SafeDistance
  BY <1>0, <1>2 DEF ChokeOff, ErrorOff, SafeDistance
<1>3. CASE Trigger(b, FALSE)
  BY <1>0, <1>3 DEF Trigger
<1>4. CASE EndOfBurst
  BY <1>0, <1>4 DEF EndOfBurst
<1> QED
  BY <1>1, <1>2, <1>3, <1>4 DEF SubSendDetectors, S0_0, S0, S1, S3

\* An edge of the 40 MHz clock keeps the types.
LEMMA SlowTypes ==
  ASSUME BufferTypes, SlowEdge
  PROVE  BufferTypes'
<1> DEFINE b == q_b.tw # {}
<1>1. /\ BufferTypeOK /\ altTTC /\ SubSendDetectors(b, FALSE) /\ b \in BOOLEAN
      /\ distance \in Nat /\ latencycounter \in 0 .. Fixed_Latency + ResetTime
  BY DEF BufferTypes, SlowEdge, Clock40
<1> HIDE DEF b
<1>2. FSMSendDetectors \in {"S0_0", "S0", "S1", "S2", "S3"}
  BY DEF BufferTypes
<1>3. FSMSendDetectors' \in {"S0_0", "S0", "S1", "S2", "S3"} /\ distance' \in Nat
  BY <1>1, <1>2, DetMoves DEF Path
<1>4. latencycounter' \in 0 .. Fixed_Latency + ResetTime
  <2>1. \/ latencycounter' \in {0, latencycounter}
        \/ latencycounter' = latencycounter + 1 /\ latencycounter < Fixed_Latency - 3
        \/ latencycounter' = latencycounter + 1 /\ latencycounter # Fixed_Latency + ResetTime
    BY <1>1, <1>2, DetMoves DEF Path
  <2> QED
    BY <1>1, <2>1, Sizes
<1>5. BURST' \in BOOLEAN /\ BURST40' \in BOOLEAN
  BY <1>1 DEF BufferTypes, altTTC, NextBurst
<1>6. phase' \in Nat /\ \E n \in FastEdges : phase' <= n
  BY <1>1, Sizes DEF BufferTypeOK, SlowEdge
<1>7. bursts' \in 0 .. BurstLimit
  BY <1>1, Sizes DEF BufferTypeOK, SlowEdge
<1>8. now' \in Cell /\ age' \in 0 .. Late + 1
  <2>1. now' \in Cell
    <3>1. 0 \in Cell /\ (now + 1) % Cells \in Cell
      BY <1>1, NextCell, Sizes DEF BufferTypeOK, Cell
    <3> QED
      BY <3>1 DEF SlowEdge, TimeGoesOn
  <2>2. age' \in 0 .. Late + 1
    BY <1>1, Sizes DEF BufferTypeOK, SlowEdge, TimeGoesOn, UpTo
  <2> QED
    BY <2>1, <2>2
<1>9. latencyreadaddressb' \in Cell
  <2>1. latencyreadaddressb \in Cell /\ 0 \in Cell /\ (latencyreadaddressb + 1) % Cells \in Cell
    BY <1>1, NextCell, Sizes DEF BufferTypeOK, Cell
  <2>2. latencyreadaddressb' = NextPointer
    BY DEF SlowEdge
  <2> QED
    BY <1>2, <2>1, <2>2 DEF NextPointer
<1>10. NoWord \in Word
  BY Sizes DEF NoWord, Word
<1>11. LATENCYRAM' \in [Cell -> Word] /\ q_b' \in Word
  BY <1>1, <1>10 DEF BufferTypeOK, SlowEdge
<1>12. asked' \in [Cell -> SUBSET Kinds]
  BY <1>1 DEF BufferTypeOK, SlowEdge
<1>13. UNCHANGED <<SENDRAM, q_a, BURST125, FSMoutputdata, tmp, addressfarm>>
  BY DEF SlowEdge, fastVars
<1>14. BufferTypeOK'
  BY <1>1, <1>6, <1>7, <1>8, <1>9, <1>11, <1>12, <1>13 DEF BufferTypeOK
<1> QED
  BY <1>3, <1>4, <1>5, <1>13, <1>14 DEF BufferTypes

\* The gate goes up in S0 and down in S1 or S2 only.
LEMMA SlowGate ==
  ASSUME BufferTypes, Gate, SlowEdge
  PROVE  Gate'
<1> DEFINE b == q_b.tw # {}
<1>1. /\ altTTC /\ SubSendDetectors(b, FALSE) /\ b \in BOOLEAN
      /\ distance \in Nat /\ latencycounter \in 0 .. Fixed_Latency + ResetTime
      /\ FSMSendDetectors \in {"S0_0", "S0", "S1", "S2", "S3"}
      /\ BURST \in BOOLEAN /\ BURST40 \in BOOLEAN
  BY DEF SlowEdge, Clock40, BufferTypes
<1> HIDE DEF b
<1>2. BURST40' = BURST /\ NextBurst /\ Path
  BY <1>1, DetMoves DEF altTTC
<1> USE DEF Path
<1>3. CASE FSMSendDetectors = "S0_0"
  BY <1>1, <1>2, <1>3 DEF NextBurst, Gate
<1>4. CASE FSMSendDetectors = "S0"
  BY <1>1, <1>2, <1>4 DEF NextBurst, Gate
<1>5. CASE FSMSendDetectors = "S1"
  BY <1>1, <1>2, <1>5 DEF NextBurst, Gate
<1>6. CASE FSMSendDetectors = "S2"
  BY <1>1, <1>2, <1>6 DEF NextBurst, Gate
<1>7. CASE FSMSendDetectors = "S3"
  BY <1>1, <1>2, <1>7 DEF NextBurst, Gate
<1> QED
  BY <1>1, <1>3, <1>4, <1>5, <1>6, <1>7

\* What a slow clock does to the registers, by the state.
LEMMA SlowMoves ==
  ASSUME BufferTypes, Gate, SlowEdge
  PROVE  /\ Path /\ phase \in Nat /\ phase >= 1 /\ phase' = 0
         /\ now \in Cell /\ latencyreadaddressb \in Cell /\ age \in 0 .. Late + 1
         /\ latencycounter \in Nat /\ BURST40' = BURST
         /\ FSMSendDetectors \in {"S0_0", "S0", "S1", "S2", "S3"}
         /\ BURST' # BURST => age' = 0
         /\ BURST' = BURST => age' = UpTo(Late + 1, age)
         /\ FSMSendDetectors \notin {"S0", "S1", "S2"} => BURST' = BURST
         /\ FSMSendDetectors = "S0" => (BURST => BURST')
         /\ FSMSendDetectors \in {"S1", "S2"} => (BURST' => BURST)
         /\ FSMSendDetectors = "S0" /\ ~BURST => now' = 0
         /\ FSMSendDetectors = "S0" => (BURST' /\ ~BURST => ~BURST40)
         /\ BURST \/ FSMSendDetectors # "S0" => now' = (now + 1) % Cells
         /\ UNCHANGED <<q_a, BURST125, FSMoutputdata, tmp, addressfarm, SENDRAM>>
<1>1. altTTC /\ BURST \in BOOLEAN /\ FSMSendDetectors \in {"S0_0", "S0", "S1", "S2", "S3"}
  BY DEF SlowEdge, Clock40, BufferTypes
<1>0. Path
  <2> DEFINE b == q_b.tw # {}
  <2>1. /\ SubSendDetectors(b, FALSE) /\ b \in BOOLEAN /\ distance \in Nat
        /\ latencycounter \in 0 .. Fixed_Latency + ResetTime
    BY DEF SlowEdge, Clock40, BufferTypes
  <2> HIDE DEF b
  <2> QED
    BY <2>1, DetMoves
<1>2. /\ now \in Cell /\ latencyreadaddressb \in Cell /\ age \in 0 .. Late + 1
      /\ latencycounter \in Nat
  BY Sizes DEF BufferTypes, BufferTypeOK
<1>3. phase \in Nat /\ phase >= 1 /\ phase' = 0
  BY Sizes DEF SlowEdge
<1>4. /\ now' = (IF ~BURST /\ FSMSendDetectors = "S0" THEN 0 ELSE (now + 1) % Cells)
      /\ age' = (IF BURST' # BURST THEN 0 ELSE UpTo(Late + 1, age))
  BY DEF SlowEdge, TimeGoesOn
<1>5. UNCHANGED <<q_a, BURST125, FSMoutputdata, tmp, addressfarm, SENDRAM>>
  BY DEF SlowEdge, fastVars
<1>6. BURST40' = BURST /\ NextBurst
  BY <1>1 DEF altTTC
<1>7. /\ FSMSendDetectors \notin {"S0", "S1", "S2"} => BURST' = BURST
      /\ FSMSendDetectors = "S0" => (BURST => BURST') /\ (BURST' /\ ~BURST => ~BURST40)
      /\ FSMSendDetectors \in {"S1", "S2"} => (BURST' => BURST)
  BY <1>1, <1>6 DEF NextBurst
<1> QED
  BY <1>0, <1>1, <1>2, <1>3, <1>4, <1>5, <1>6, <1>7

\* When the latency is over the first cell is due in the next clock.
LEMMA FirstCell ==
  /\ 0 \in Cell /\ 1 \in Cell /\ Fixed_Latency \in Cell
  /\ \A n \in 0 .. Fixed_Latency : n \in Cell /\ (n + 1) % Cells = n + 1
  /\ Ahead(0, Fixed_Latency) = 1
<1>1. /\ 0 \in Cell /\ 1 \in Cell /\ Fixed_Latency \in Cell
      /\ Ahead(0, Fixed_Latency) = 1
  BY Sizes DEF Cell, Ahead
<1>2. ASSUME NEW n \in 0 .. Fixed_Latency PROVE n \in Cell /\ (n + 1) % Cells = n + 1
  <2>1. n \in Cell /\ n # Cells - 1
    BY Sizes DEF Cell
  <2> QED
    BY <2>1, NextCell
<1> QED
  BY <1>1, <1>2

\* The states come at their times: the pointer moves with the timestamp.
LEMMA SlowTimes ==
  ASSUME BufferTypes, Gate, Times, SlowEdge
  PROVE  Times'
<1> DEFINE moved == (latencyreadaddressb + 1) % Cells
<1>1. /\ Path
      /\ distance \in Nat /\ latencycounter \in 0 .. Fixed_Latency + ResetTime
      /\ BURST \in BOOLEAN /\ BURST40 \in BOOLEAN /\ latencyreadaddressb' = NextPointer
  BY SlowMoves DEF SlowEdge, BufferTypes
<1> HIDE DEF moved
<1>2. /\ now \in Cell /\ age \in 0 .. Late + 1 /\ BURST40' = BURST
      /\ latencyreadaddressb \in Cell /\ Late \in Nat
  BY SlowMoves, Sizes
<1>8. /\ FSMSendDetectors \notin {"S0", "S1", "S2"} => BURST' = BURST
      /\ BURST \/ FSMSendDetectors # "S0" => now' = (now + 1) % Cells
  BY SlowMoves
<1>3. CASE FSMSendDetectors = "S0_0"
  <2>1. FSMSendDetectors' = "S0" /\ latencycounter' = 0 /\ ~BURST' /\ ~BURST40'
    <3>1. FSMSendDetectors' = "S0" /\ latencycounter' = 0
      BY <1>1, <1>3 DEF Path
    <3>2. BURST' = BURST /\ BURST40' = BURST
      BY <1>2, <1>3, <1>8
    <3>3. ~BURST
      BY <1>3 DEF Gate
    <3> QED
      BY <3>1, <3>2, <3>3
  <2>2. latencyreadaddressb' = 0
    BY <1>1, <1>3 DEF NextPointer, Times
  <2> QED
    BY <2>1, <2>2 DEF Times
<1>4. CASE FSMSendDetectors = "S0"
  <2>1. latencycounter = 0 /\ latencyreadaddressb = 0
    BY <1>4 DEF Times
  <2>2. latencyreadaddressb' = 0
    BY <1>1, <1>4, <2>1 DEF NextPointer
  <2>3. CASE BURST40
    <3>1. FSMSendDetectors' = "S1" /\ latencycounter' = 0 /\ distance' = 0
      BY <1>1, <1>4, <2>1, <2>3 DEF Path, Times
    <3>2. BURST /\ now = 1
      BY <1>4, <2>3 DEF Gate, Times
    <3>3. now' = 2
      BY <3>2, SlowMoves, FirstCell, Sizes
    <3> QED
      BY <2>2, <3>1, <3>3, Sizes DEF Times
  <2>4. CASE ~BURST40
    <3>1. FSMSendDetectors' = "S0" /\ latencycounter' = 0 /\ distance' = 0
      BY <1>1, <1>4, <2>4 DEF Path
    <3>2. CASE BURST
      <4>1. now = 0 /\ age <= 0
        BY <1>4, <2>4, <3>2 DEF Times
      <4>2. now' = 1
        BY <4>1, <3>2, SlowMoves, FirstCell, Sizes
      <4>3. BURST' = BURST
        BY <1>4, <3>2, SlowMoves DEF BufferTypes
      <4>4. age' <= 1
        BY <1>2, <4>1, <4>3, SlowMoves DEF UpTo
      <4> QED
        BY <1>2, <2>2, <3>1, <3>2, <4>2, <4>4 DEF Times
    <3>3. CASE ~BURST
      <4>1. now' = 0 /\ BURST40' = FALSE
        BY <1>1, <1>2, <1>4, <3>3, SlowMoves
      <4>2. BURST' => age' = 0
        BY <3>3, SlowMoves
      <4> QED
        BY <2>2, <3>1, <4>1, <4>2 DEF Times
    <3> QED
      BY <3>2, <3>3
  <2> QED
    BY <2>3, <2>4
<1>5. CASE FSMSendDetectors = "S1"
  <2>1. /\ latencyreadaddressb = 0 /\ now = latencycounter + 2 /\ distance = 0
        /\ latencycounter <= Fixed_Latency - 3
    BY <1>5 DEF Times
  <2>2. latencyreadaddressb' = 0
    BY <1>1, <1>5, <2>1 DEF NextPointer
  <2>3. now' = latencycounter + 3
    <3>1. now \in 0 .. Fixed_Latency
      BY <1>1, <2>1, Sizes
    <3>2. now' = now + 1
      BY <1>5, <3>1, SlowMoves, FirstCell
    <3> QED
      BY <1>1, <2>1, <3>2
  <2>4. CASE latencycounter < Fixed_Latency - 3
    <3>1. FSMSendDetectors' = "S1" /\ latencycounter' = latencycounter + 1 /\ distance' = 0
      BY <1>1, <1>5, <2>4, Sizes DEF Path
    <3>2. now' = latencycounter' + 2 /\ latencycounter' <= Fixed_Latency - 3
      BY <1>1, <2>3, <2>4, <3>1, Sizes
    <3> QED
      BY <2>2, <3>1, <3>2 DEF Times
  <2>5. CASE latencycounter >= Fixed_Latency - 3
    <3>1. FSMSendDetectors' = "S2" /\ latencycounter' = 0
      BY <1>1, <1>5, <2>5, Sizes DEF Path
    <3>2. now' = Fixed_Latency
      BY <1>1, <2>1, <2>3, <2>5, Sizes
    <3> QED
      BY <2>2, <3>1, <3>2, FirstCell DEF Times
  <2> QED
    BY <1>1, <2>4, <2>5, Sizes
<1>6. CASE FSMSendDetectors = "S2"
  <2>1. latencyreadaddressb' = moved /\ now' = (now + 1) % Cells
    BY <1>1, <1>6, <1>8 DEF NextPointer, moved
  <2>2. Ahead(latencyreadaddressb', now') = 1
    BY <1>2, <1>6, <2>1, AheadBoth DEF Times, moved
  <2>3. FSMSendDetectors' \in {"S2", "S3"} /\ latencycounter' = 0
    BY <1>1, <1>6 DEF Path, Times
  <2>4. age' >= 0
    <3>1. age' \in 0 .. Late + 1
      BY SlowTypes DEF BufferTypes, BufferTypeOK
    <3> QED
      BY <3>1
  <2> QED
    BY <2>2, <2>3, <2>4 DEF Times
<1>7. CASE FSMSendDetectors = "S3"
  <2>1. CASE FSMSendDetectors' = "S3"
    <3>1. latencycounter' = latencycounter + 1
      BY <1>1, <1>7, <2>1 DEF Path
    <3>2. latencyreadaddressb' = moved /\ now' = (now + 1) % Cells
      BY <1>1, <1>7, <1>8, <2>1 DEF NextPointer, moved
    <3>3. Ahead(latencyreadaddressb', now') = 1
      BY <1>2, <1>7, <3>2, AheadBoth DEF Times, moved
    <3>4. age' = UpTo(Late + 1, age)
      BY <1>7, SlowMoves
    <3>5. age' >= latencycounter' \/ age' = Late + 1
      BY <1>1, <1>2, <1>7, <3>1, <3>4 DEF UpTo, Times
    <3> QED
      BY <2>1, <3>3, <3>5 DEF Times
  <2>2. CASE FSMSendDetectors' # "S3"
    <3>1. FSMSendDetectors' = "S0_0"
      BY <1>1, <1>7, <2>2 DEF Path
    <3>2. latencyreadaddressb' = 0
      BY <1>1, <1>7, <2>2 DEF NextPointer
    <3> QED
      BY <1>2, <1>7, <3>1, <3>2, SlowMoves DEF Times, Gate
  <2> QED
    BY <2>1, <2>2
<1> QED
  BY <1>3, <1>4, <1>5, <1>6, <1>7, SlowMoves

\* What a slow clock does to the memory: the cell whose turn it is was due a clock later.
LEMMA SlowMemory ==
  ASSUME BufferTypes, Gate, Times, SlowEdge
  PROVE  /\ LATENCYRAM \in [Cell -> Word] /\ asked \in [Cell -> SUBSET Kinds]
         /\ FSMSendDetectors \in {"S2", "S3"} => \A c \in Cell :
               /\ Ahead(c, now) = 1 => LATENCYRAM'[c] = NoWord
               /\ Ahead(c, now) # 1 => LATENCYRAM'[c] = LATENCYRAM[c]
         /\ FSMSendDetectors \notin {"S2", "S3"} => LATENCYRAM' = LATENCYRAM
         /\ \A c \in Cell : /\ Ahead(c, now) = 0 => asked'[c] = {}
                            /\ Ahead(c, now) # 0 => asked'[c] = asked[c]
         /\ BURST \/ FSMSendDetectors # "S0" => \A c \in Cell :
               /\ Ahead(c, now) \in Cell
               /\ Ahead(c, now') = IF Ahead(c, now) = 0 THEN Cells - 1 ELSE Ahead(c, now) - 1
<1>1. /\ LATENCYRAM \in [Cell -> Word] /\ asked \in [Cell -> SUBSET Kinds]
      /\ now \in Cell /\ latencyreadaddressb \in Cell
  BY DEF BufferTypes, BufferTypeOK
<1>2. /\ LATENCYRAM' = IF wren_b THEN [LATENCYRAM EXCEPT ![latencyreadaddressb] = NoWord]
                       ELSE LATENCYRAM
      /\ asked' = [asked EXCEPT ![Due] = {}]
  BY DEF SlowEdge
<1>3. ASSUME FSMSendDetectors \in {"S2", "S3"}, NEW c \in Cell
      PROVE  /\ Ahead(c, now) = 1 => LATENCYRAM'[c] = NoWord
             /\ Ahead(c, now) # 1 => LATENCYRAM'[c] = LATENCYRAM[c]
  <2>1. Ahead(c, now) = 1 <=> c = latencyreadaddressb
    BY <1>1, <1>3, AheadUnique DEF Times
  <2>2. LATENCYRAM' = [LATENCYRAM EXCEPT ![latencyreadaddressb] = NoWord]
    BY <1>2, <1>3 DEF wren_b
  <2> QED
    BY <1>1, <2>1, <2>2
<1>4. FSMSendDetectors \notin {"S2", "S3"} => LATENCYRAM' = LATENCYRAM
  BY <1>2 DEF wren_b
<1>5. ASSUME NEW c \in Cell
      PROVE  /\ Ahead(c, now) = 0 => asked'[c] = {}
             /\ Ahead(c, now) # 0 => asked'[c] = asked[c]
  <2>1. Ahead(c, now) = 0 <=> c = Due
    BY <1>1, DueIs
  <2> QED
    BY <1>1, <1>2, <2>1
<1>6. ASSUME BURST \/ FSMSendDetectors # "S0", NEW c \in Cell
      PROVE  /\ Ahead(c, now) \in Cell
             /\ Ahead(c, now') = IF Ahead(c, now) = 0 THEN Cells - 1 ELSE Ahead(c, now) - 1
  BY <1>1, <1>6, SlowMoves, AheadType, AheadNext
<1> QED
  BY <1>1, <1>3, <1>4, <1>5, <1>6

\* Every cell comes nearer by one; the history forgets the one that was due.
LEMMA SlowRequests ==
  ASSUME BufferTypes, Gate, Times, Requests, Settling, SlowEdge
  PROVE  Requests'
<1>1. /\ asked \in [Cell -> SUBSET Kinds] /\ now \in Cell /\ Path /\ phase' = 0 /\ phase >= 1
      /\ FSMSendDetectors \in {"S0_0", "S0", "S1", "S2", "S3"} /\ latencycounter \in Nat
      /\ phase \in Nat /\ FSMoutputdata' = FSMoutputdata /\ tmp' = tmp
      /\ BURST \in BOOLEAN
  BY SlowMemory, SlowMoves DEF BufferTypes
<1>2. CASE Between
  <2>1. \A c \in Cell : asked'[c] = {}
    BY <1>1, <1>2, SlowMemory DEF Requests
  <2>2. FSMoutputdata' = "Idle"
    BY <1>1, <1>2 DEF Settling
  <2> QED
    BY <2>1, <2>2 DEF Requests
<1>3. CASE ~Between
  <2>1. BURST \/ FSMSendDetectors \notin {"S0_0", "S0"}
    BY <1>3 DEF Between
  <2>2. \A c \in Cell : /\ Ahead(c, now) \in Nat /\ Ahead(c, now) < Cells
                        /\ Ahead(c, now) # 0 => Ahead(c, now') = Ahead(c, now) - 1
    BY <2>1, SlowMemory, Sizes DEF Cell
  <2>3. FSMoutputdata' = "SetFarmAddress" => Ahead(tmp'.cell, now') >= 1
    <3>1. tmp.cell \in Cell
      BY DEF BufferTypes
    <3>2. FSMoutputdata = "SetFarmAddress" => Ahead(tmp.cell, now) >= 2
      BY <1>1 DEF Requests
    <3> QED
      BY <1>1, <2>2, <3>1, <3>2
  <2>4. FSMoutputdata' = "WriteEvent" => Ahead(tmp'.cell, now') >= 0
    <3>1. tmp.cell \in Cell
      BY DEF BufferTypes
    <3>2. FSMoutputdata = "WriteEvent" => Ahead(tmp.cell, now) >= 1
      BY <1>1 DEF Requests
    <3> QED
      BY <1>1, <2>2, <3>1, <3>2
  <2>5. ASSUME NEW c \in Cell, asked'[c] # {}
        PROVE  /\ (FSMSendDetectors' = "S0" /\ BURST') \/ FSMSendDetectors' = "S1" =>
                     Ahead(c, now') + now' >= Fixed_Latency + 1
               /\ FSMSendDetectors' = "S3" => Ahead(c, now') + latencycounter' < Cells
               /\ ~Between'
    <3>1. asked[c] # {} /\ Ahead(c, now) \in Nat /\ Ahead(c, now) >= 1 /\ Ahead(c, now) < Cells
      BY <2>2, <2>5, SlowMemory
    <3>2. Ahead(c, now') = Ahead(c, now) - 1
      BY <2>2, <3>1
    <3> DEFINE e == Ahead(c, now)
               e2 == Ahead(c, now')
    <3>3. e \in Nat /\ e >= 1 /\ e < Cells /\ e2 = e - 1
      BY <3>1, <3>2
    <3>4. /\ (FSMSendDetectors = "S0" /\ BURST) \/ FSMSendDetectors = "S1" =>
                e + now >= Fixed_Latency + 1
          /\ FSMSendDetectors = "S3" => e + latencycounter < Cells
      BY <3>1 DEF Requests
    <3> HIDE DEF e, e2
    <3> SUFFICES /\ (FSMSendDetectors' = "S0" /\ BURST') \/ FSMSendDetectors' = "S1" =>
                        e2 + now' >= Fixed_Latency + 1
                 /\ FSMSendDetectors' = "S3" => e2 + latencycounter' < Cells
                 /\ ~Between'
      BY DEF e, e2
    <3>5. CASE FSMSendDetectors = "S0"
      <4>1. BURST /\ BURST'
        BY <2>1, <3>5, SlowMoves
      <4>2. now \in {0, 1}
        BY <3>5, <4>1 DEF Times
      <4>3. now' = now + 1
        BY <1>1, <3>5, <4>1, <4>2, SlowMoves, FirstCell, Sizes
      <4>4. FSMSendDetectors' \in {"S0", "S1"}
        BY <1>1, <3>5 DEF Path
      <4>5. e2 + now' >= Fixed_Latency + 1
        BY <1>1, <3>3, <3>4, <3>5, <4>1, <4>2, <4>3, Sizes
      <4> QED
        BY <4>1, <4>4, <4>5 DEF Between
    <3>6. CASE FSMSendDetectors = "S1"
      <4>1. now = latencycounter + 2 /\ latencycounter <= Fixed_Latency - 3
        BY <3>6 DEF Times
      <4>2. now \in 0 .. Fixed_Latency
        BY <1>1, <4>1, Sizes
      <4>3. now' = now + 1
        BY <3>6, <4>2, SlowMoves, FirstCell
      <4>4. FSMSendDetectors' \in {"S1", "S2"}
        BY <1>1, <3>6 DEF Path
      <4>5. e2 + now' >= Fixed_Latency + 1
        BY <3>3, <3>4, <3>6, <4>2, <4>3, Sizes
      <4> QED
        BY <4>4, <4>5 DEF Between
    <3>7. CASE FSMSendDetectors = "S2"
      <4>1. FSMSendDetectors' \in {"S2", "S3"} /\ latencycounter' = 0
        BY <1>1, <3>7 DEF Path, Times
      <4>2. e2 + latencycounter' < Cells
        BY <3>3, <4>1, Sizes
      <4> QED
        BY <4>1, <4>2 DEF Between
    <3>8. CASE FSMSendDetectors = "S3"
      <4>1. latencycounter # Fixed_Latency + ResetTime
        BY <1>1, <3>3, <3>4, <3>8, Sizes
      <4>2. FSMSendDetectors' = "S3" /\ latencycounter' = latencycounter + 1
        BY <1>1, <3>8, <4>1 DEF Path
      <4>3. e2 + latencycounter' < Cells
        BY <1>1, <3>3, <3>4, <3>8, <4>2, Sizes
      <4> QED
        BY <4>2, <4>3 DEF Between
    <3>9. FSMSendDetectors # "S0_0"
      BY <2>1, <1>1 DEF Gate
    <3> QED
      BY <1>1, <3>5, <3>6, <3>7, <3>8, <3>9
  <2> QED
    BY <1>1, <2>3, <2>4, <2>5 DEF Requests
<1> QED
  BY <1>2, <1>3

\* A request that waits is neither due nor being cleared.
LEMMA SlowAway ==
  ASSUME BufferTypes, Gate, Times, Requests, Settling, Held, SlowEdge
  PROVE  /\ FSMoutputdata = "SetFarmAddress" =>
               tmp.cell \in Cell /\ Ahead(tmp.cell, now) \in Nat /\ Ahead(tmp.cell, now) >= 2
         /\ \A c \in Cell : Requested(c)' = Requested(c)
         /\ \A c \in Cell : Ahead(c, now) \in {0, 1} => Requested(c) = {}
         /\ \A c \in Cell : Ahead(c, now) \in Nat /\ Ahead(c, now) < Cells
<1>1. \A c \in Cell : Ahead(c, now) \in Nat /\ Ahead(c, now) < Cells
  <2>1. now \in Cell
    BY SlowMoves
  <2>2. \A c \in Cell : Ahead(c, now) \in Cell
    BY <2>1, AheadType
  <2> QED
    BY <2>2, Sizes DEF Cell
<1>2. tmp.cell \in Cell
  BY DEF BufferTypes
<1>3. FSMoutputdata = "SetFarmAddress" => Ahead(tmp.cell, now) >= 2
  BY SlowMoves DEF Requests
<1>4. \A c \in Cell : Requested(c)' = Requested(c)
  BY SlowMoves DEF Requested
<1>5. \A c \in Cell : Ahead(c, now) \in {0, 1} => Requested(c) = {}
  BY <1>2, <1>3 DEF Requested
<1> QED
  BY <1>1, <1>2, <1>3, <1>4, <1>5

\* The cell that is cleared is the next one due, a clock before it is forgotten.
LEMMA SlowHeld ==
  ASSUME BufferTypes, Gate, Times, Requests, Settling, Held, SlowEdge
  PROVE  Held'
<1>1. /\ asked \in [Cell -> SUBSET Kinds] /\ LATENCYRAM \in [Cell -> Word]
      /\ BURST \in BOOLEAN /\ FSMSendDetectors \in {"S0_0", "S0", "S1", "S2", "S3"}
  BY SlowMemory DEF BufferTypes
<1> SUFFICES ASSUME NEW c \in Cell
             PROVE  /\ LATENCYRAM'[c].tw = {} => LATENCYRAM'[c] = NoWord
                    /\ LATENCYRAM'[c] # NoWord => asked'[c] # {} /\ Ahead(c, now') >= 1
                    /\ Requested(c)' \subseteq asked'[c]
  BY DEF Held, Requested
<1> DEFINE e == Ahead(c, now)
<1>2. /\ e \in Nat /\ Requested(c)' = Requested(c) /\ (e \in {0, 1} => Requested(c) = {})
  BY SlowAway
<1>3. /\ LATENCYRAM[c].tw = {} => LATENCYRAM[c] = NoWord
      /\ LATENCYRAM[c] # NoWord => asked[c] # {} /\ e >= 1
      /\ Requested(c) \subseteq asked[c]
  BY DEF Held
<1>4. LATENCYRAM'[c] \in {NoWord, LATENCYRAM[c]}
  BY SlowMemory, <1>1
<1>5. LATENCYRAM'[c].tw = {} => LATENCYRAM'[c] = NoWord
  BY <1>3, <1>4
<1>6. Requested(c)' \subseteq asked'[c]
  <2>1. CASE e = 0
    BY <1>2, <2>1
  <2>2. CASE e # 0
    BY <1>2, <1>3, <2>2, SlowMemory
  <2> QED
    BY <2>1, <2>2
<1>7. ASSUME LATENCYRAM'[c] # NoWord
      PROVE  asked'[c] # {} /\ Ahead(c, now') >= 1
  <2>1. LATENCYRAM[c] # NoWord /\ asked[c] # {} /\ e >= 1
    BY <1>3, <1>4, <1>7
  <2>2. asked'[c] # {}
    BY <1>2, <2>1, SlowMemory
  <2>3. BURST \/ FSMSendDetectors \notin {"S0_0", "S0"}
    BY <2>1 DEF Requests, Between
  <2>4. e >= 2
    <3>1. CASE FSMSendDetectors \in {"S2", "S3"}
      <4>1. e # 1
        BY <1>7, <3>1, SlowMemory
      <4> QED
        BY <1>2, <2>1, <4>1
    <3>2. CASE FSMSendDetectors = "S0"
      <4>1. now \in {0, 1} /\ e + now >= Fixed_Latency + 1
        BY <2>1, <2>3, <3>2 DEF Requests, Times
      <4> QED
        BY <1>2, <4>1, Sizes
    <3>3. CASE FSMSendDetectors = "S1"
      <4>1. /\ e + now >= Fixed_Latency + 1 /\ latencycounter \in Nat
            /\ now = latencycounter + 2 /\ latencycounter <= Fixed_Latency - 3
        BY <2>1, <3>3, SlowMoves DEF Requests, Times
      <4> QED
        BY <1>2, <4>1, Sizes
    <3>4. FSMSendDetectors # "S0_0"
      BY <2>3 DEF Gate
    <3> QED
      BY <1>1, <3>1, <3>2, <3>3, <3>4
  <2>5. Ahead(c, now') = e - 1
    BY <1>2, <2>1, <2>3, SlowMemory
  <2> QED
    BY <1>2, <2>2, <2>4, <2>5
<1> QED
  BY <1>5, <1>6, <1>7

\* The reset counts on; what settled stays so until the next burst.
LEMMA SlowSettling ==
  ASSUME BufferTypes, Gate, Times, Settling, SlowEdge
  PROVE  Settling'
<1>1. /\ Path /\ phase' = 0 /\ phase >= 1 /\ phase \in Nat /\ latencycounter \in Nat
      /\ FSMSendDetectors \in {"S0_0", "S0", "S1", "S2", "S3"}
      /\ FSMoutputdata' = FSMoutputdata /\ BURST125' = BURST125 /\ addressfarm' = addressfarm
      /\ FSMSendDetectors \notin {"S0", "S1", "S2"} => BURST' = BURST
      /\ FSMSendDetectors = "S0" => (BURST => BURST')
      /\ BURST125 \in BOOLEAN
  BY SlowMoves DEF BufferTypes, BufferTypeOK
<1>2. CASE FSMSendDetectors = "S3"
  <2>1. ~BURST125
    BY <1>1, <1>2 DEF Settling
  <2>2. CASE FSMSendDetectors' = "S3"
    <3>1. latencycounter' = latencycounter + 1
      BY <1>1, <1>2, <2>2 DEF Path
    <3>2. latencycounter' >= Late + 2 => FSMoutputdata # "SetFarmAddress"
      BY <1>1, <1>2, <3>1, Sizes DEF Settling
    <3>3. latencycounter' >= Late + 3 => FSMoutputdata = "Idle"
      BY <1>1, <1>2, <3>1, Sizes DEF Settling
    <3>4. latencycounter' >= Late + 4 => addressfarm = 0
      BY <1>1, <1>2, <3>1, Sizes DEF Settling
    <3> QED
      BY <1>1, <2>1, <2>2, <3>2, <3>3, <3>4 DEF Settling, Between
  <2>3. CASE FSMSendDetectors' # "S3"
    <3>1. FSMSendDetectors' = "S0_0" /\ latencycounter = Fixed_Latency + ResetTime
      BY <1>1, <1>2, <2>3 DEF Path
    <3>2. latencycounter >= Late + 4
      BY <3>1, Sizes
    <3>3. FSMoutputdata = "Idle" /\ addressfarm = 0
      BY <1>1, <1>2, <3>2, Sizes DEF Settling
    <3> QED
      BY <1>1, <2>1, <3>1, <3>3 DEF Settling, Between
  <2> QED
    BY <2>2, <2>3
<1>3. CASE FSMSendDetectors \in {"S0_0", "S0"}
  <2>1. FSMSendDetectors' # "S3"
    BY <1>1, <1>3 DEF Path
  <2>2. Between' => Between
    BY <1>1, <1>3 DEF Between
  <2> QED
    BY <1>1, <2>1, <2>2 DEF Settling
<1>4. CASE FSMSendDetectors \in {"S1", "S2"}
  <2>1. /\ FSMSendDetectors' \in {"S1", "S2", "S3"}
        /\ FSMSendDetectors' = "S3" => latencycounter' = 0
    BY <1>1, <1>4 DEF Path, Times
  <2> QED
    BY <1>1, <2>1, Sizes DEF Settling, Between
<1> QED
  BY <1>1, <1>2, <1>3, <1>4

\* The word read is that of the cell that will be due, complete as no request is near.
LEMMA SlowMatch ==
  ASSUME LInv, Match, SlowEdge
  PROVE  Match'
<1>1. BufferTypes /\ Gate /\ Times /\ Requests /\ Settling /\ Held
  BY DEF LInv
<1>2. /\ asked \in [Cell -> SUBSET Kinds] /\ LATENCYRAM \in [Cell -> Word] /\ now \in Cell
      /\ Path /\ FSMSendDetectors \in {"S0_0", "S0", "S1", "S2", "S3"} /\ BURST \in BOOLEAN
      /\ FSMoutputdata' = FSMoutputdata /\ tmp' = tmp /\ q_a' = q_a
      /\ latencyreadaddressb \in Cell /\ now' \in Cell
  BY <1>1, SlowMemory, SlowMoves, SlowTypes DEF BufferTypes, BufferTypeOK
<1>3. \A c \in Cell : /\ Ahead(c, now) \in Nat /\ Requested(c)' = Requested(c)
                      /\ Ahead(c, now) \in {0, 1} => Requested(c) = {}
  BY <1>1, SlowAway
<1>4. ASSUME NEW c \in Cell, Ahead(c, now') >= 1
      PROVE  LATENCYRAM'[c].tw \cup Requested(c)' = asked'[c]
  <2>1. CASE Between
    <3>1. asked[c] = {} /\ LATENCYRAM[c] = NoWord /\ FSMoutputdata = "Idle"
      BY <1>1, <2>1 DEF Requests, Held, Settling
    <3>2. LATENCYRAM' = LATENCYRAM /\ asked'[c] = {}
      BY <1>1, <1>3, <2>1, <3>1, SlowMemory DEF Between
    <3>3. Requested(c) = {}
      BY <3>1 DEF Requested
    <3> QED
      BY <1>3, <3>1, <3>2, <3>3 DEF NoWord
  <2>2. CASE ~Between /\ Ahead(c, now) = 0
    <3>1. LATENCYRAM[c] = NoWord
      BY <1>1, <2>2 DEF Held
    <3>2. LATENCYRAM'[c] = NoWord /\ asked'[c] = {}
      BY <1>1, <2>2, <3>1, SlowMemory
    <3> QED
      BY <1>3, <2>2, <3>2 DEF NoWord
  <2>3. CASE ~Between /\ Ahead(c, now) # 0
    <3>1. Ahead(c, now') = Ahead(c, now) - 1
      BY <1>1, <1>2, <2>3, SlowMemory DEF Between
    <3>2. Ahead(c, now) >= 2
      BY <1>3, <1>4, <3>1
    <3>3. LATENCYRAM'[c] = LATENCYRAM[c] /\ asked'[c] = asked[c]
      BY <1>1, <1>3, <3>2, SlowMemory
    <3> QED
      BY <1>3, <3>2, <3>3 DEF Match
  <2> QED
    BY <2>1, <2>2, <2>3
<1>5. ASSUME FSMoutputdata' = "SetFarmAddress"
      PROVE  q_a' = LATENCYRAM'[tmp'.cell]
  <2>1. tmp.cell \in Cell /\ Ahead(tmp.cell, now) \in Nat /\ Ahead(tmp.cell, now) >= 2
    BY <1>1, <1>2, <1>5, SlowAway
  <2>2. LATENCYRAM'[tmp.cell] = LATENCYRAM[tmp.cell]
    BY <1>1, <2>1, SlowMemory
  <2> QED
    BY <1>2, <1>5, <2>2 DEF Match
<1>6. ASSUME FSMSendDetectors' = "S2", distance' >= 1
      PROVE  q_b'.tw = asked'[Due']
  <2>1. FSMSendDetectors = "S2"
    <3>1. FSMSendDetectors = "S1" => distance' = 0
      BY <1>1, <1>2, <1>6 DEF Path, Times
    <3> QED
      BY <1>2, <1>6, <3>1 DEF Path
  <2>2. Ahead(latencyreadaddressb, now) = 1
    BY <1>1, <2>1 DEF Times
  <2>3. Ahead(latencyreadaddressb, now') = 0
    BY <1>1, <1>2, <2>1, <2>2, SlowMemory
  <2>4. Due' = latencyreadaddressb
    <3>1. Due' \in Cell /\ Ahead(Due', now') = 0
      BY <1>2, DueAhead DEF Due
    <3> QED
      BY <1>2, <2>3, <3>1, AheadUnique
  <2>5. q_b' = LATENCYRAM[latencyreadaddressb]
    BY <2>1 DEF SlowEdge, rden_b
  <2>6. asked'[latencyreadaddressb] = asked[latencyreadaddressb]
    BY <1>1, <1>2, <2>2, SlowMemory
  <2>7. Requested(latencyreadaddressb) = {}
    BY <1>2, <1>3, <2>2
  <2>8. LATENCYRAM[latencyreadaddressb].tw = asked[latencyreadaddressb]
    BY <1>2, <2>2, <2>7 DEF Match
  <2> QED
    BY <2>4, <2>5, <2>6, <2>8
<1> QED
  BY <1>4, <1>5, <1>6 DEF Match, Requested

-----------------------------------------------------------------------------
(***************************************************************************)
(* Edges of the 125 MHz clock.                                              *)
(***************************************************************************)
\* A request for the cell c, whose timestamp was d clocks ago.
Taken(kind, c, d) ==
    /\ c \in Cell /\ d \in Int /\ d <= Late /\ MayAsk(d, c)
    /\ Ahead(c, now) = Fixed_Latency - d + 1 /\ Ahead(c, now) \in Nat /\ Ahead(c, now) >= 2
    /\ FSMoutputdata = "Idle" /\ FSMoutputdata' = "SetFarmAddress"
    /\ tmp' = [cell |-> c, kind |-> kind]
    /\ asked' = [asked EXCEPT ![c] = @ \cup {kind}]
    /\ q_a' \in {q_a, LATENCYRAM[c]} /\ (AlwaysReads => q_a' = LATENCYRAM[c])
    /\ Reset /\ UNCHANGED <<LATENCYRAM, SENDRAM>>

\* What Accept takes, by its cell and its age.
LEMMA AcceptTakes ==
  ASSUME BufferTypes, NEW kind \in Kinds, NEW d \in Lag(kind), Accept(kind, d)
  PROVE  \E c \in Cell, d2 \in Int : Taken(kind, c, d2)
<1> DEFINE shift == IF kind = "nim" THEN CalibLatency ELSE 0
           d2 == d - shift
           c == (now - d + shift) % Cells
<1>1. d \in Nat /\ (kind = "physics" => d <= Late) /\ (kind # "physics" => d <= 1)
  BY Sizes DEF Lag
<1>2. shift \in Int /\ d2 \in Int /\ d2 <= Fixed_Latency - 1 /\ Fixed_Latency - d2 + 1 < Cells
  BY <1>1, Sizes
<1>3. now \in Cell /\ now \in Int
  BY Sizes DEF BufferTypes, BufferTypeOK, Cell
<1>4. now - d + shift = now - d2
  BY <1>1, <1>2, <1>3
<1>5. c = (now - d2) % Cells
  BY <1>4
<1>6. /\ FSMoutputdata = "Idle" /\ FSMoutputdata' = "SetFarmAddress"
      /\ MayAsk(d2, c)
      /\ tmp' = [cell |-> c, kind |-> kind]
      /\ q_a' = (IF kind = "nim" /\ CalibLatency = 0 THEN q_a ELSE LATENCYRAM[c])
      /\ asked' = [asked EXCEPT ![c] = @ \cup {kind}]
      /\ Reset /\ UNCHANGED <<LATENCYRAM, SENDRAM>>
  BY DEF Accept
<1> HIDE DEF shift, d2, c
<1>7. d2 <= Fixed_Latency
  BY <1>2, Sizes
<1>8. c \in Cell /\ Ahead(c, now) = Fixed_Latency - d2 + 1
  BY <1>2, <1>3, <1>5, <1>7, AheadBack
<1>9. Ahead(c, now) \in Nat /\ Ahead(c, now) >= 2
  BY <1>2, <1>8, Sizes
<1>10. d2 <= Late
  BY <1>6 DEF MayAsk
<1>11. q_a' \in {q_a, LATENCYRAM[c]} /\ (AlwaysReads => q_a' = LATENCYRAM[c])
  BY <1>6 DEF AlwaysReads
<1>12. Taken(kind, c, d2)
  BY <1>2, <1>6, <1>8, <1>9, <1>10, <1>11 DEF Taken
<1> QED
  BY <1>2, <1>8, <1>12

\* The four things SubSendBuffer does in a clock.
LEMMA FastCases ==
  ASSUME BufferTypes, FastEdge
  PROVE  \/ \E kind \in Kinds, c \in Cell, d \in Int : Taken(kind, c, d)
         \/ Idle \/ SetFarmAddress \/ WriteEvent
<1>1. SubSendBuffer
  BY DEF FastEdge
<1>2. ASSUME NEW kind \in Kinds, NEW d \in Lag(kind), Accept(kind, d)
      PROVE  \E c \in Cell, d2 \in Int : Taken(kind, c, d2)
  BY <1>2, AcceptTakes
<1> QED
  BY <1>1, <1>2 DEF SubSendBuffer

\* What a fast clock leaves alone.
LEMMA FastKeeps ==
  ASSUME BufferTypes, FastEdge
  PROVE  /\ UNCHANGED <<FSMSendDetectors, BURST, BURST40, latencycounter, distance, bursts,
                        now, age, latencyreadaddressb, q_b>>
         /\ phase' = phase + 1 /\ phase \in Nat /\ phase' \in Nat /\ phase' >= 1
         /\ BURST125' = BURST
         /\ BURST \in BOOLEAN /\ BURST125 \in BOOLEAN /\ now \in Cell
         /\ FSMSendDetectors \in {"S0_0", "S0", "S1", "S2", "S3"}
         /\ latencycounter \in Nat /\ age \in Nat
         /\ FSMoutputdata \in {"Idle", "SetFarmAddress", "WriteEvent"}
         /\ tmp.cell \in Cell /\ tmp.kind \in Kinds \cup {"none"}
         /\ FSMoutputdata # "Idle" => tmp.kind \in Kinds
         /\ asked \in [Cell -> SUBSET Kinds] /\ LATENCYRAM \in [Cell -> Word]
         /\ addressfarm \in 0 .. 2 * SendSize - 1
  BY Sizes DEF BufferTypes, BufferTypeOK, FastEdge, detVars, slowVars, ttcVars

\* An edge of the 125 MHz clock keeps the types.
LEMMA FastTypes ==
  ASSUME BufferTypes, FastEdge
  PROVE  BufferTypes'
<1>1. /\ BufferTypeOK
      /\ \E n \in FastEdges : phase < n
      /\ phase' = phase + 1 /\ BURST125' = BURST
      /\ UNCHANGED <<FSMSendDetectors, BURST, BURST40, latencycounter, distance, bursts,
                     now, age, latencyreadaddressb, q_b>>
  BY FastKeeps DEF BufferTypes, FastEdge
<1>2. phase' \in Nat /\ \E n \in FastEdges : phase' <= n
  <2>1. PICK n \in FastEdges : phase < n
    BY <1>1
  <2>2. n \in Nat /\ phase \in Nat
    BY <1>1, Sizes DEF BufferTypeOK
  <2>3. phase' \in Nat /\ phase' <= n
    BY <1>1, <2>1, <2>2
  <2> QED
    BY <2>3
<1>3. BURST125' \in BOOLEAN
  BY <1>1 DEF BufferTypes
<1>4. SendSize \in Nat /\ SendSize >= 1 /\ addressfarm \in 0 .. 2 * SendSize - 1
  BY <1>1, Sizes DEF BufferTypeOK
<1>5. Reset => addressfarm' \in 0 .. 2 * SendSize - 1
  BY <1>4 DEF Reset
<1>6. NoRequest \in [cell : Cell, kind : Kinds \cup {"none"}]
  BY FirstCell DEF NoRequest
<1> SUFFICES /\ LATENCYRAM' \in [Cell -> Word]
             /\ SENDRAM' \in [0 .. SendSize - 1 -> Event \cup {NoEvent}]
             /\ q_a' \in Word
             /\ FSMoutputdata' \in {"Idle", "SetFarmAddress", "WriteEvent"}
             /\ tmp' = NoRequest <=> FSMoutputdata' = "Idle"
             /\ addressfarm' \in 0 .. 2 * SendSize - 1
             /\ asked' \in [Cell -> SUBSET Kinds]
             /\ tmp' \in [cell : Cell, kind : Kinds \cup {"none"}]
             /\ FSMoutputdata' # "Idle" => tmp'.kind \in Kinds
  BY <1>1, <1>2, <1>3 DEF BufferTypes, BufferTypeOK
<1>7. CASE \E kind \in Kinds, c \in Cell, d \in Int : Taken(kind, c, d)
  <2>1. PICK kind \in Kinds, c \in Cell, d \in Int : Taken(kind, c, d)
    BY <1>7
  <2>2. /\ tmp' = [cell |-> c, kind |-> kind] /\ FSMoutputdata' = "SetFarmAddress"
        /\ asked' = [asked EXCEPT ![c] = @ \cup {kind}]
        /\ q_a' \in {q_a, LATENCYRAM[c]} /\ Reset /\ UNCHANGED <<LATENCYRAM, SENDRAM>>
    BY <2>1 DEF Taken
  <2>3. q_a' \in Word
    BY <1>1, <2>2 DEF BufferTypeOK
  <2>4. asked' \in [Cell -> SUBSET Kinds]
    BY <1>1, <2>2 DEF BufferTypeOK
  <2>5. tmp' # NoRequest /\ tmp' \in [cell : Cell, kind : Kinds \cup {"none"}]
        /\ tmp'.kind \in Kinds
    BY <2>2, Sizes DEF NoRequest
  <2> QED
    BY <1>1, <1>5, <2>2, <2>3, <2>4, <2>5 DEF BufferTypeOK
<1>8. CASE Idle
  BY <1>1, <1>5, <1>8 DEF Idle, memoryVars, BufferTypes, BufferTypeOK
<1>9. CASE SetFarmAddress
  <2>1. tmp.kind \in Kinds /\ tmp.cell \in Cell
    BY <1>9 DEF SetFarmAddress, BufferTypes
  <2> DEFINE new == IF q_a # NoWord THEN [tw |-> q_a.tw \cup {tmp.kind}, address |-> q_a.address]
                    ELSE [tw |-> {tmp.kind}, address |-> addressfarm]
  <2>2. new \in Word
    <3>1. q_a \in Word
      BY <1>1 DEF BufferTypeOK
    <3> QED
      BY <1>4, <2>1, <3>1 DEF Word
  <2>3. LATENCYRAM' = [LATENCYRAM EXCEPT ![tmp.cell] = new]
    BY <1>9 DEF SetFarmAddress
  <2> HIDE DEF new
  <2>4. LATENCYRAM' \in [Cell -> Word]
    BY <1>1, <2>2, <2>3 DEF BufferTypeOK
  <2>5. tmp' # NoRequest /\ tmp' = tmp
    BY <1>1, <1>9 DEF SetFarmAddress, BufferTypeOK
  <2> QED
    BY <1>1, <1>5, <1>9, <2>1, <2>4, <2>5 DEF SetFarmAddress, BufferTypes, BufferTypeOK
<1>10. CASE WriteEvent
  <2>1. tmp.kind \in Kinds /\ tmp.cell \in Cell /\ q_a \in Word
    BY <1>1, <1>10 DEF WriteEvent, BufferTypes, BufferTypeOK
  <2>2. FSMoutputdata' = "Idle" /\ tmp' = NoRequest /\ UNCHANGED <<LATENCYRAM, asked, q_a>>
    BY <1>10 DEF WriteEvent
  <2>3. addressfarm' \in 0 .. 2 * SendSize - 1
    <3> DEFINE turn == 2 * SendSize
    <3>1. turn \in Nat /\ turn >= 1
      BY <1>4
    <3>2. addressfarm' \in {addressfarm, (addressfarm + 1) % turn}
      BY <1>10 DEF WriteEvent
    <3> HIDE DEF turn
    <3>3. (addressfarm + 1) % turn \in 0 .. turn - 1
      BY <1>4, <3>1
    <3> QED
      BY <1>4, <3>2, <3>3 DEF turn
  <2>4. SENDRAM' \in [0 .. SendSize - 1 -> Event \cup {NoEvent}]
    <3>1. SENDRAM \in [0 .. SendSize - 1 -> Event \cup {NoEvent}]
      BY <1>1 DEF BufferTypeOK
    <3>2. NewEvent \in Event
      BY <2>1 DEF Event, NewEvent
    <3>3. NoEvent \in Event
      BY FirstCell DEF NoEvent, Event
    <3>4. \A e \in Event : Joined(e) \in Event
      BY <2>1 DEF Event, Joined, NewEvent
    <3>5. CASE q_a # NoWord
      <4> DEFINE a == q_a.address % SendSize
      <4>1. SENDRAM' = [SENDRAM EXCEPT ![a] = Joined(SENDRAM[a])]
        BY <1>10, <3>5 DEF WriteEvent
      <4> HIDE DEF a
      <4>2. a \in 0 .. SendSize - 1 => SENDRAM[a] \in Event
        BY <3>1, <3>3
      <4>3. a \notin 0 .. SendSize - 1 => SENDRAM' = SENDRAM
        BY <3>1, <4>1
      <4> QED
        BY <3>1, <3>4, <4>1, <4>2, <4>3
    <3>6. CASE q_a = NoWord
      <4>1. SENDRAM' = [SENDRAM EXCEPT ![addressfarm % SendSize] = NewEvent]
        BY <1>10, <3>6 DEF WriteEvent
      <4> QED
        BY <3>1, <3>2, <4>1
    <3> QED
      BY <3>5, <3>6
  <2> QED
    BY <1>1, <2>2, <2>3, <2>4, <1>6 DEF BufferTypeOK
<1> QED
  BY <1>7, <1>8, <1>9, <1>10, FastCases

\* It leaves the gate and the times alone.
LEMMA FastGateTimes ==
  ASSUME BufferTypes, Gate, Times, FastEdge
  PROVE  Gate' /\ Times'
  BY FastKeeps DEF Gate, Times

\* A request is of the burst, and not of one that has been reset.
LEMMA FastRequests ==
  ASSUME BufferTypes, Gate, Times, Requests, FastEdge
  PROVE  Requests'
<1>1. /\ UNCHANGED <<FSMSendDetectors, BURST, BURST40, latencycounter, now, age>>
      /\ phase' \in Nat /\ phase' >= 1 /\ asked \in [Cell -> SUBSET Kinds]
      /\ latencycounter \in Nat /\ age \in Nat /\ now \in Nat /\ BURST \in BOOLEAN
      /\ phase \in Nat
  BY FastKeeps, Sizes DEF Cell
<1>2. CASE \E kind \in Kinds, c \in Cell, d \in Int : Taken(kind, c, d)
  <2>1. PICK kind \in Kinds, c \in Cell, d \in Int : Taken(kind, c, d)
    BY <1>2
  <2>2. /\ tmp' = [cell |-> c, kind |-> kind] /\ FSMoutputdata' = "SetFarmAddress"
        /\ asked' = [asked EXCEPT ![c] = @ \cup {kind}] /\ MayAsk(d, c) /\ d <= Late
        /\ Ahead(c, now) = Fixed_Latency - d + 1 /\ Ahead(c, now) \in Nat /\ Ahead(c, now) >= 2
    BY <2>1 DEF Taken
  <2>3. /\ BURST => d <= age
        /\ ~BURST => d > age /\ FSMSendDetectors \notin {"S0_0", "S0"}
        /\ FSMSendDetectors = "S1" => d <= now
    BY <2>2 DEF MayAsk
  <2>4. FSMSendDetectors = "S0" /\ BURST => d <= now
    BY <1>1, <2>3 DEF Times
  <2>5. (FSMSendDetectors = "S0" /\ BURST) \/ FSMSendDetectors = "S1" =>
           Ahead(c, now) + now >= Fixed_Latency + 1
    BY <1>1, <2>2, <2>3, <2>4, Sizes
  <2>6. FSMSendDetectors = "S3" => Ahead(c, now) + latencycounter < Cells
    <3> SUFFICES ASSUME FSMSendDetectors = "S3" PROVE Ahead(c, now) + latencycounter < Cells
      OBVIOUS
    <3>1. d > age /\ (age >= latencycounter \/ age = Late + 1)
      BY <2>3 DEF Gate, Times
    <3> QED
      BY <1>1, <2>2, <3>1, Sizes
  <2>7. ~Between
    BY <2>3 DEF Between
  <2>8. \A x \in Cell : asked'[x] # {} => asked[x] # {} \/ x = c
    BY <1>1, <2>2
  <2>9. ASSUME NEW x \in Cell, asked'[x] # {}
        PROVE  /\ (FSMSendDetectors = "S0" /\ BURST) \/ FSMSendDetectors = "S1" =>
                     Ahead(x, now) + now >= Fixed_Latency + 1
               /\ FSMSendDetectors = "S3" => Ahead(x, now) + latencycounter < Cells
               /\ ~Between
    BY <2>5, <2>6, <2>7, <2>8, <2>9 DEF Requests
  <2>10. Ahead(tmp'.cell, now) >= 2 /\ FSMoutputdata' # "WriteEvent" /\ phase' # 0
    BY <1>1, <2>2
  <2> QED
    BY <1>1, <2>9, <2>10 DEF Requests, Between
<1>3. CASE Idle
  BY <1>1, <1>3 DEF Idle, memoryVars, Requests, Between
<1>4. CASE SetFarmAddress
  <2>1. /\ FSMoutputdata = "SetFarmAddress" /\ FSMoutputdata' = "WriteEvent"
        /\ asked' = asked /\ tmp' = tmp
    BY <1>4 DEF SetFarmAddress
  <2>2. Ahead(tmp.cell, now) >= 1
    <3>1. Ahead(tmp.cell, now) \in Nat
      BY AheadType, FastKeeps, Sizes DEF Cell
    <3> QED
      BY <2>1, <3>1, <1>1 DEF Requests
  <2> QED
    BY <1>1, <2>1, <2>2 DEF Requests, Between
<1>5. CASE WriteEvent
  BY <1>1, <1>5 DEF WriteEvent, Requests, Between
<1> QED
  BY <1>2, <1>3, <1>4, <1>5, FastCases

\* A word is written to the cell of a request, before that is due.
LEMMA FastHeld ==
  ASSUME BufferTypes, Requests, Held, FastEdge
  PROVE  Held'
<1>1. /\ now' = now /\ asked \in [Cell -> SUBSET Kinds] /\ LATENCYRAM \in [Cell -> Word]
      /\ tmp.cell \in Cell
  BY FastKeeps
<1>2. CASE \E kind \in Kinds, c \in Cell, d \in Int : Taken(kind, c, d)
  <2>1. PICK kind \in Kinds, c \in Cell, d \in Int : Taken(kind, c, d)
    BY <1>2
  <2>2. /\ tmp' = [cell |-> c, kind |-> kind] /\ LATENCYRAM' = LATENCYRAM
        /\ asked' = [asked EXCEPT ![c] = @ \cup {kind}]
    BY <2>1 DEF Taken
  <2>3. \A x \in Cell : asked[x] \subseteq asked'[x]
    BY <1>1, <2>2
  <2>4. kind \in asked'[c]
    BY <1>1, <2>2
  <2>5. \A x \in Cell : Requested(x)' \subseteq asked'[x]
    BY <2>2, <2>4 DEF Requested
  <2> QED
    BY <1>1, <2>2, <2>3, <2>5 DEF Held
<1>3. CASE Idle
  BY <1>1, <1>3 DEF Idle, memoryVars, Held, Requested
<1>4. CASE SetFarmAddress
  <2>1. /\ FSMoutputdata = "SetFarmAddress" /\ FSMoutputdata' = "WriteEvent"
        /\ asked' = asked /\ tmp' = tmp
    BY <1>4 DEF SetFarmAddress
  <2>2. PICK w \in Word : LATENCYRAM' = [LATENCYRAM EXCEPT ![tmp.cell] = w] /\ tmp.kind \in w.tw
    <3> DEFINE new == IF q_a # NoWord
                      THEN [tw |-> q_a.tw \cup {tmp.kind}, address |-> q_a.address]
                      ELSE [tw |-> {tmp.kind}, address |-> addressfarm]
    <3>1. LATENCYRAM' = [LATENCYRAM EXCEPT ![tmp.cell] = new]
      BY <1>4 DEF SetFarmAddress
    <3>2. q_a \in Word /\ tmp.kind \in Kinds /\ addressfarm \in 0 .. 2 * SendSize - 1
      BY <2>1 DEF BufferTypes, BufferTypeOK
    <3>3. new \in Word /\ tmp.kind \in new.tw
      <4>1. CASE q_a # NoWord
        BY <3>2, <4>1 DEF Word
      <4>2. CASE q_a = NoWord
        BY <3>2, <4>2 DEF Word
      <4> QED
        BY <4>1, <4>2
    <3> HIDE DEF new
    <3> QED
      BY <3>1, <3>3
  <2>3. tmp.kind \in asked[tmp.cell] /\ Ahead(tmp.cell, now) >= 1
    <3>1. Ahead(tmp.cell, now) \in Nat
      BY AheadType, FastKeeps, Sizes DEF Cell
    <3>2. tmp.kind \in asked[tmp.cell]
      BY <1>1, <2>1 DEF Held, Requested
    <3> QED
      BY <2>1, <3>1, <3>2 DEF Requests
  <2>4. \A x \in Cell : Requested(x)' = {}
    BY <2>1 DEF Requested
  <2>5. LATENCYRAM'[tmp.cell].tw # {} /\ LATENCYRAM'[tmp.cell] # NoWord
    BY <1>1, <2>2 DEF NoWord
  <2>6. \A x \in Cell : x # tmp.cell => LATENCYRAM'[x] = LATENCYRAM[x]
    BY <1>1, <2>2
  <2> QED
    BY <1>1, <2>1, <2>3, <2>4, <2>5, <2>6 DEF Held
<1>5. CASE WriteEvent
  BY <1>1, <1>5 DEF WriteEvent, Held, Requested
<1> QED
  BY <1>2, <1>3, <1>4, <1>5, FastCases

\* At the end of a burst requests are taken no longer and the machine comes to rest.
LEMMA FastSettling ==
  ASSUME BufferTypes, Gate, Times, Settling, FastEdge
  PROVE  Settling'
<1>1. /\ UNCHANGED <<FSMSendDetectors, BURST, latencycounter>> /\ BURST125' = BURST
      /\ phase \in Nat /\ phase' >= 1 /\ phase' \in Nat /\ latencycounter \in Nat /\ age \in Nat
      /\ FSMoutputdata \in {"Idle", "SetFarmAddress", "WriteEvent"}
  BY FastKeeps
\* What is not taken goes on, and addressfarm is reset out of the burst.
<1>2. ASSUME ~(\E kind \in Kinds, c \in Cell, d \in Int : Taken(kind, c, d))
      PROVE  /\ FSMoutputdata' # "SetFarmAddress"
             /\ FSMoutputdata # "SetFarmAddress" => FSMoutputdata' = "Idle"
             /\ FSMoutputdata = "Idle" /\ ~BURST125 => addressfarm' = 0
  BY <1>1, <1>2, FastCases DEF Idle, SetFarmAddress, WriteEvent, Reset
<1>3. ASSUME (FSMSendDetectors = "S3" /\ latencycounter > Late) \/ Between
      PROVE  ~(\E kind \in Kinds, c \in Cell, d \in Int : Taken(kind, c, d))
  <2> SUFFICES ASSUME NEW kind \in Kinds, NEW c \in Cell, NEW d \in Int, Taken(kind, c, d)
               PROVE  FALSE
    OBVIOUS
  <2>1. d <= Late /\ MayAsk(d, c)
    BY DEF Taken
  <2>2. ~BURST => d > age /\ FSMSendDetectors \notin {"S0_0", "S0"}
    BY <2>1 DEF MayAsk
  <2>3. CASE Between
    BY <2>2, <2>3 DEF Between
  <2>4. CASE FSMSendDetectors = "S3" /\ latencycounter > Late
    <3>1. d > age /\ (age >= latencycounter \/ age = Late + 1)
      BY <2>2, <2>4 DEF Gate, Times
    <3> QED
      BY <1>1, <2>1, <2>4, <3>1, Sizes
  <2> QED
    BY <1>3, <2>3, <2>4
<1>4. CASE FSMSendDetectors = "S3"
  <2>1. ~BURST125'
    BY <1>1, <1>4 DEF Gate
  <2>2. ASSUME latencycounter > Late PROVE FSMoutputdata' # "SetFarmAddress"
    BY <1>2, <1>3, <1>4, <2>2
  <2>3. ASSUME latencycounter >= Late + 2 PROVE FSMoutputdata' = "Idle"
    <3>1. latencycounter > Late
      BY <1>1, <2>3, Sizes
    <3>2. FSMoutputdata # "SetFarmAddress"
      BY <1>4, <2>3, <3>1 DEF Settling
    <3> QED
      BY <1>2, <1>3, <1>4, <3>1, <3>2
  <2>4. ASSUME latencycounter >= Late + 3 PROVE addressfarm' = 0
    <3>1. latencycounter > Late /\ latencycounter >= 1
      BY <1>1, <2>4, Sizes
    <3>2. FSMoutputdata = "Idle" /\ ~BURST125
      BY <1>4, <2>4, <3>1 DEF Settling
    <3> QED
      BY <1>2, <1>3, <1>4, <3>1, <3>2
  <2>5. ~Between'
    BY <1>1, <1>4 DEF Between
  <2> QED
    BY <1>1, <2>1, <2>2, <2>3, <2>4, <2>5, Sizes DEF Settling
<1>5. CASE Between
  <2>1. FSMoutputdata = "Idle" /\ ~BURST125
    BY <1>5 DEF Settling
  <2>2. FSMoutputdata' = "Idle" /\ addressfarm' = 0
    BY <1>2, <1>3, <1>5, <2>1
  <2>3. ~BURST125' /\ FSMSendDetectors' # "S3"
    BY <1>1, <1>5 DEF Between
  <2> QED
    BY <2>2, <2>3 DEF Settling
<1>6. CASE FSMSendDetectors # "S3" /\ ~Between
  BY <1>1, <1>6 DEF Settling, Between
<1> QED
  BY <1>4, <1>5, <1>6

\* A request joins the word of its cell, because what was read is that word.
LEMMA FastMatch ==
  ASSUME LInv, Match, AlwaysReads, FastEdge
  PROVE  Match'
<1>1. /\ BufferTypes /\ Requests /\ Held
      /\ now' = now /\ q_b' = q_b /\ FSMSendDetectors' = FSMSendDetectors /\ distance' = distance
      /\ now \in Cell /\ asked \in [Cell -> SUBSET Kinds] /\ LATENCYRAM \in [Cell -> Word]
      /\ tmp.cell \in Cell
  BY FastKeeps DEF LInv
<1>2. Due' = Due /\ Due \in Cell /\ Ahead(Due, now) = 0
  BY <1>1, DueAhead DEF Due
<1>3. CASE \E kind \in Kinds, c \in Cell, d \in Int : Taken(kind, c, d)
  <2>1. PICK kind \in Kinds, c \in Cell, d \in Int : Taken(kind, c, d)
    BY <1>3
  <2>2. /\ tmp' = [cell |-> c, kind |-> kind] /\ LATENCYRAM' = LATENCYRAM
        /\ asked' = [asked EXCEPT ![c] = @ \cup {kind}] /\ Ahead(c, now) >= 2
        /\ FSMoutputdata = "Idle" /\ FSMoutputdata' = "SetFarmAddress" /\ q_a' = LATENCYRAM[c]
    BY <2>1 DEF Taken
  <2>3. \A x \in Cell : Requested(x) = {} /\ Requested(x)' = IF x = c THEN {kind} ELSE {}
    BY <2>2 DEF Requested
  <2>4. \A x \in Cell : asked'[x] = IF x = c THEN asked[x] \cup {kind} ELSE asked[x]
    BY <1>1, <2>2
  <2>5. \A x \in Cell : Ahead(x, now) >= 1 => LATENCYRAM[x].tw = asked[x]
    BY <2>3 DEF Match
  <2>6. \A x \in Cell : Ahead(x, now) >= 1 => LATENCYRAM'[x].tw \cup Requested(x)' = asked'[x]
    BY <2>2, <2>3, <2>4, <2>5
  <2>7. asked'[Due] = asked[Due]
    BY <1>2, <2>2, <2>4
  <2> QED
    BY <1>1, <1>2, <2>2, <2>6, <2>7 DEF Match, Requested
<1>4. CASE Idle
  BY <1>1, <1>2, <1>4 DEF Idle, memoryVars, Match, Requested
<1>5. CASE SetFarmAddress
  <2>1. /\ FSMoutputdata = "SetFarmAddress" /\ FSMoutputdata' = "WriteEvent"
        /\ asked' = asked /\ tmp' = tmp /\ q_a = LATENCYRAM[tmp.cell]
    BY <1>5 DEF SetFarmAddress, Match
  <2>2. LATENCYRAM' = [LATENCYRAM EXCEPT ![tmp.cell] =
            IF q_a # NoWord THEN [tw |-> q_a.tw \cup {tmp.kind}, address |-> q_a.address]
            ELSE [tw |-> {tmp.kind}, address |-> addressfarm]]
    BY <1>5 DEF SetFarmAddress
  <2>3. LATENCYRAM'[tmp.cell].tw = LATENCYRAM[tmp.cell].tw \cup {tmp.kind}
    BY <1>1, <2>1, <2>2 DEF NoWord
  <2>4. \A x \in Cell : x # tmp.cell => LATENCYRAM'[x] = LATENCYRAM[x]
    BY <1>1, <2>2
  <2>5. \A x \in Cell : /\ Requested(x)' = {}
                        /\ Requested(x) = IF x = tmp.cell THEN {tmp.kind} ELSE {}
    BY <2>1 DEF Requested
  <2>6. \A x \in Cell : Ahead(x, now) >= 1 => LATENCYRAM'[x].tw \cup Requested(x)' = asked'[x]
    BY <1>1, <2>1, <2>3, <2>4, <2>5 DEF Match
  <2> QED
    BY <1>1, <1>2, <2>1, <2>6 DEF Match, Requested
<1>6. CASE WriteEvent
  BY <1>1, <1>2, <1>6 DEF WriteEvent, Match, Requested
<1> QED
  BY <1>1, <1>3, <1>4, <1>5, <1>6, FastCases

-----------------------------------------------------------------------------
(***************************************************************************)
(* The invariant and what follows from it without the events.               *)
(***************************************************************************)
\* The invariant in the initial states.
LEMMA BufferStarts ==
  ASSUME BufferInit
  PROVE  MInv
<1>1. /\ FSMSendDetectors = "S0_0" /\ latencycounter = 0 /\ distance = 0
      /\ BURST = FALSE /\ BURST40 = FALSE
      /\ phase = 0 /\ bursts = 0 /\ now = 0 /\ age = 0 /\ latencyreadaddressb = 0
      /\ q_a = NoWord /\ q_b = NoWord /\ BURST125 = FALSE /\ FSMoutputdata = "Idle"
      /\ tmp = NoRequest /\ addressfarm = 0
      /\ LATENCYRAM = [c \in Cell |-> NoWord]
      /\ SENDRAM = [a \in 0 .. SendSize - 1 |-> NoEvent]
      /\ asked = [c \in Cell |-> {}]
  BY DEF BufferInit, Init
<1>2. 0 \in Cell /\ NoWord \in Word
  BY FirstCell, Sizes DEF NoWord, Word
<1>3. BufferTypes
  <2>1. LATENCYRAM \in [Cell -> Word] /\ asked \in [Cell -> SUBSET Kinds]
        /\ SENDRAM \in [0 .. SendSize - 1 -> Event \cup {NoEvent}]
    BY <1>1, <1>2
  <2>2. \E n \in FastEdges : phase <= n
    <3>1. PICK n \in FastEdges : n \in Nat
      BY Sizes
    <3> QED
      BY <1>1, <3>1
  <2> QED
    <3>1. BufferTypeOK
      <4>1. bursts \in 0 .. BurstLimit /\ age \in 0 .. Late + 1 /\ phase \in Nat
            /\ addressfarm \in 0 .. 2 * SendSize - 1
        BY <1>1, Sizes
      <4> QED
        BY <1>1, <1>2, <2>1, <2>2, <4>1 DEF BufferTypeOK
    <3>2. latencycounter \in 0 .. Fixed_Latency + ResetTime /\ distance \in Nat
      BY <1>1, Sizes
    <3> QED
      BY <1>1, <1>2, <3>1, <3>2 DEF BufferTypes, NoRequest
<1>4. Gate
  BY <1>1 DEF Gate
<1>5. Times
  BY <1>1 DEF Times
<1>6. Requests
  BY <1>1 DEF Requests
<1>7. Held
  BY <1>1 DEF Held, Requested, NoWord
<1>8. Settling
  BY <1>1 DEF Settling
<1>9. Match
  BY <1>1 DEF Match, Requested, NoWord
<1> QED
  BY <1>3, <1>4, <1>5, <1>6, <1>7, <1>8, <1>9 DEF MInv, LInv

\* An edge of the 40 MHz clock keeps it.
LEMMA SlowKeeps ==
  ASSUME MInv, SlowEdge
  PROVE  MInv'
<1>1. LInv'
  BY SlowTypes, SlowGate, SlowTimes, SlowRequests, SlowHeld, SlowSettling DEF MInv, LInv
<1>2. AlwaysReads => Match'
  BY SlowMatch DEF MInv
<1> QED
  BY <1>1, <1>2 DEF MInv, AlwaysReads

\* An edge of the 125 MHz clock keeps it.
LEMMA FastKeepsInv ==
  ASSUME MInv, FastEdge
  PROVE  MInv'
<1>1. LInv'
  BY FastTypes, FastGateTimes, FastRequests, FastHeld, FastSettling DEF MInv, LInv
<1>2. AlwaysReads => Match'
  BY FastMatch DEF MInv
<1> QED
  BY <1>1, <1>2 DEF MInv, AlwaysReads

\* So does a step that changes nothing.
LEMMA BufferStutters ==
  ASSUME MInv, UNCHANGED bufferVars
  PROVE  MInv'
<1>1. /\ UNCHANGED <<FSMSendDetectors, BURST, BURST40, latencycounter, distance>>
      /\ UNCHANGED <<phase, bursts, now, age, latencyreadaddressb, q_b>>
      /\ UNCHANGED <<LATENCYRAM, SENDRAM, asked>>
      /\ UNCHANGED <<q_a, BURST125, FSMoutputdata, tmp, addressfarm>>
  BY DEF bufferVars, detVars, ttcVars, memoryVars, slowVars, fastVars
<1>2. BufferTypes' <=> BufferTypes
  BY <1>1 DEF BufferTypes, BufferTypeOK
<1>3. (Gate' <=> Gate) /\ (Times' <=> Times)
  BY <1>1 DEF Gate, Times
<1>4. Requests' <=> Requests
  BY <1>1 DEF Requests, Between
<1>5. Held' <=> Held
  BY <1>1 DEF Held, Requested
<1>6. Settling' <=> Settling
  BY <1>1 DEF Settling, Between
<1>7. Match' <=> Match
  BY <1>1 DEF Match, Requested, Due
<1> QED
  BY <1>2, <1>3, <1>4, <1>5, <1>6, <1>7 DEF MInv, LInv, AlwaysReads

\* It always holds.
LEMMA BufferInvariant == BufferSpec => []MInv
<1>1. MInv /\ [BufferNext]_bufferVars => MInv'
  BY SlowKeeps, FastKeepsInv, BufferStutters DEF BufferNext
<1> QED
  BY BufferStarts, <1>1, PTL DEF BufferSpec

\* Type correctness of SubSendBuffer, its memories and the pointer of the other port.
THEOREM BufferTypeCorrect == BufferSpec => []BufferTypeOK
<1>1. MInv => BufferTypeOK
  BY DEF MInv, LInv, BufferTypes
<1> QED
  BY <1>1, BufferInvariant, PTL

\* When a new burst may begin, nothing of the old one is left: no request waits, the machine
\* is idle, every cell of LATENCYRAM is empty.  The sweep of SubSendDetectors
\* has gone round the ring after the last request.
THEOREM NothingLeftAlways == BufferSpec => []NothingLeft
<1>1. ASSUME MInv
      PROVE  NothingLeft
  <2> SUFFICES ASSUME FSMSendDetectors = "S0", ~BURST
               PROVE  /\ Pending = {} /\ FSMoutputdata = "Idle" /\ addressfarm = 0
                      /\ LATENCYRAM = [c \in Cell |-> NoWord]
    BY DEF NothingLeft
  <2>1. BufferTypes /\ Requests /\ Held /\ Settling /\ Between
    BY <1>1 DEF MInv, LInv, Between
  <2>2. \A c \in Cell : asked[c] = {}
    BY <2>1 DEF Requests
  <2>3. \A c \in Cell : LATENCYRAM[c] = NoWord
    BY <2>1, <2>2 DEF Held
  <2>4. LATENCYRAM \in [Cell -> Word]
    BY <2>1 DEF BufferTypes, BufferTypeOK
  <2>5. FSMoutputdata = "Idle" /\ addressfarm = 0
    BY <2>1 DEF Settling
  <2> QED
    BY <2>2, <2>3, <2>4, <2>5 DEF Pending
<1> QED
  BY <1>1, BufferInvariant, PTL

\* A word leaves in the clock its timestamp and the latency say and in no other, with the
\* words of all the requests for that timestamp, provided that every request reads its
\* cell.  A NIM calibration with calib_latency 0 does not, and joins what was read last.
THEOREM FixedLatencyAlways == AlwaysReads => (BufferSpec => FixedLatency)
<1> SUFFICES ASSUME AlwaysReads
             PROVE  BufferSpec => FixedLatency
  OBVIOUS
<1> DEFINE Fixed == phase' = 0 =>
              /\ ev40' = "write" => asked[Due] # {} /\ q_b.tw = asked[Due]
              /\ asked[Due] # {} /\ MaySend /\ FarEnough => ev40' = "write"
<1>1. ASSUME MInv, SlowEdge
      PROVE  Fixed
  <2>1. LInv /\ Match /\ BufferTypes
    BY <1>1 DEF MInv, LInv
  <2>2. /\ latencycounter \in 0 .. Fixed_Latency + ResetTime /\ distance \in Nat
        /\ SubSendDetectors(q_b.tw # {}, FALSE)
    BY <1>1, <2>1 DEF BufferTypes, SlowEdge, Clock40
  <2>3. ev40' = "write" <=> MaySend /\ q_b.tw # {} /\ FarEnough
    BY <2>2, DetMoves
  <2>4. MaySend /\ FarEnough => FSMSendDetectors = "S2" /\ distance >= 1
    BY <2>2, Sizes DEF MaySend, InS2, FarEnough
  <2>5. MaySend /\ FarEnough => q_b.tw = asked[Due]
    BY <2>1, <2>4 DEF Match
  <2> QED
    BY <2>3, <2>5
<1>2. ASSUME MInv, FastEdge
      PROVE  Fixed
  <2>1. phase' >= 1 /\ phase' \in Nat
    BY <1>2, FastKeeps DEF MInv, LInv
  <2> QED
    BY <2>1
<1>3. MInv /\ [BufferNext]_bufferVars => [Fixed]_bufferVars
  BY <1>1, <1>2 DEF BufferNext
<1> QED
  BY <1>3, BufferInvariant, PTL DEF BufferSpec, FixedLatency

-----------------------------------------------------------------------------
(***************************************************************************)
(* The events.                                                              *)
(***************************************************************************)
\* How many addresses were given since a, and the cell of SENDRAM it stands for.
Back(a) == IF a <= addressfarm THEN addressfarm - a ELSE addressfarm - a + 2 * SendSize
Slot(a) == IF a < SendSize THEN a ELSE a - SendSize

\* The event of a cell is being begun, a request joins it, it is in SENDRAM.
Begun(c) == FSMoutputdata # "Idle" /\ tmp.cell = c /\ q_a = NoWord
Joining(c) == IF FSMoutputdata # "Idle" /\ tmp.cell = c THEN {tmp.kind} ELSE {}
Stored(c) == asked[c] # {} /\ ~Begun(c)

\* An event is that of a cell, but for a request in progress.
Own(c, event) ==
    /\ event.timestamp = c /\ event.tw \cup Joining(c) = asked[c]
    /\ event.data \in event.tw
    /\ "physics" \in event.tw => event.data = "physics"

\* The events that wait are SendSize addresses back at most, each where its word says.
Stay == \A c \in Cell : Stored(c) =>
    Back(Address(c)) \in 1 .. SendSize /\ Own(c, SENDRAM[Slot(Address(c))])

\* No two of them have the same address.
Apart == \A c, d \in Cell :
    Stored(c) /\ Stored(d) /\ c # d => Address(c) # Address(d)

\* The request in progress: an event that it begins is one too many for SendSize addresses,
\* so that all others are nearer.
Writing ==
    /\ FSMoutputdata # "Idle" => tmp.kind \in asked[tmp.cell]
    /\ FSMoutputdata # "Idle" /\ q_a = NoWord =>
          /\ asked[tmp.cell] = {tmp.kind}
          /\ \A c \in Cell : Stored(c) => Back(Address(c)) < SendSize
    /\ FSMoutputdata = "WriteEvent" =>
          Address(tmp.cell) = IF q_a # NoWord THEN q_a.address ELSE addressfarm

\* The first clocks of a burst, before BURST125 and before a cell has been read.
Started ==
    /\ ~BURST125 => FSMoutputdata = "Idle" /\ addressfarm = 0 /\ \A c \in Cell : asked[c] = {}
    /\ FSMSendDetectors = "S2" /\ distance = 0 => asked[Due] = {}

\* The invariant of the events.
Events == BURST => Stay /\ Apart /\ Writing /\ Started

\* Addresses of the ring of 2 * SendSize: an address is a distance back, two of them that
\* are less than SendSize apart have different cells, and a new one puts all others back.
LEMMA Addresses ==
  ASSUME addressfarm \in 0 .. 2 * SendSize - 1,
         NEW a \in 0 .. 2 * SendSize - 1, NEW b \in 0 .. 2 * SendSize - 1
  PROVE  /\ Back(a) \in 0 .. 2 * SendSize - 1 /\ (Back(a) = 0 <=> a = addressfarm)
         /\ Slot(a) \in 0 .. SendSize - 1
         /\ Back(a) - Back(b) < SendSize /\ Back(b) - Back(a) < SendSize /\ Slot(a) = Slot(b)
               => a = b
  BY Sizes DEF Back, Slot

\* The cell of an address.
LEMMA SlotIs ==
  ASSUME NEW a \in 0 .. 2 * SendSize - 1
  PROVE  a % SendSize = Slot(a)
<1>1. /\ SendSize \in Nat /\ SendSize >= 1
      /\ a \in Int /\ -SendSize <= a /\ a < 2 * SendSize /\ a >= 0
  BY Sizes
<1>2. a % SendSize = IF a < 0 THEN a + SendSize ELSE IF a < SendSize THEN a ELSE a - SendSize
  BY <1>1, Wraps
<1> QED
  BY <1>1, <1>2 DEF Slot

\* What the environment promises of the addresses that are taken.
LEMMA RecentIs ==
  ASSUME addressfarm \in 0 .. 2 * SendSize - 1, NEW a \in 0 .. 2 * SendSize - 1
  PROVE  Recent(a) <=> Back(a) < SendSize
<1> DEFINE size == 2 * SendSize
           y == addressfarm - a
<1>1. /\ size \in Nat /\ size >= 1 /\ y \in Int /\ -size <= y /\ y < size /\ y < 2 * size
      /\ (y < 0 <=> ~(a <= addressfarm))
  BY Sizes
<1>2. Back(a) = IF y < 0 THEN y + size ELSE y
  BY <1>1 DEF Back
<1>3. Recent(a) <=> y % size < SendSize
  BY DEF Recent
<1> HIDE DEF size, y
<1>4. y % size = IF y < 0 THEN y + size ELSE y
  BY <1>1, Wraps
<1> QED
  BY <1>2, <1>3, <1>4

\* addressfarm goes round.
LEMMA NextAddress ==
  ASSUME NEW a \in 0 .. 2 * SendSize - 1
  PROVE  (a + 1) % (2 * SendSize) = IF a + 1 < 2 * SendSize THEN a + 1 ELSE 0
<1> DEFINE size == 2 * SendSize
           y == a + 1
<1>1. size \in Nat /\ size >= 1 /\ a \in Int /\ 0 <= a /\ a < size
  BY Sizes
<1>2. y \in Int /\ -size <= y /\ 0 <= y /\ y < 2 * size /\ y <= size
  BY <1>1
<1>3. y % size = IF y < 0 THEN y + size ELSE IF y < size THEN y ELSE y - size
  <2> HIDE DEF y, size
  <2> QED
    BY <1>1, <1>2, Wraps
<1>4. y % size = IF y < size THEN y ELSE 0
  <2> HIDE DEF y, size
  <2>1. ~(y < size) => y = size
    BY <1>1, <1>2
  <2> QED
    BY <1>1, <1>2, <1>3, <2>1
<1> QED
  BY <1>4

\* A new address puts the others one further back.
LEMMA BackNext ==
  ASSUME addressfarm \in 0 .. 2 * SendSize - 1, NEW a \in 0 .. 2 * SendSize - 1,
         addressfarm' = (addressfarm + 1) % (2 * SendSize)
  PROVE  /\ addressfarm' \in 0 .. 2 * SendSize - 1
         /\ a = addressfarm => Back(a)' = 1
         /\ Back(a) < SendSize => Back(a)' = Back(a) + 1
<1>1. addressfarm' = IF addressfarm + 1 < 2 * SendSize THEN addressfarm + 1 ELSE 0
  BY NextAddress
<1>2. addressfarm' \in 0 .. 2 * SendSize - 1
  BY <1>1, Sizes
<1> QED
  BY <1>1, <1>2, Sizes DEF Back

\* A request of the burst that is due next is one of the state S2.
LEMMA DueInS2 ==
  ASSUME LInv, BURST, NEW c \in Cell, asked[c] # {}, Ahead(c, now) \in {0, 1}
  PROVE  FSMSendDetectors = "S2"
<1>1. BufferTypes /\ Gate /\ Times /\ Requests
  BY DEF LInv
<1>2. /\ FSMSendDetectors \in {"S0_0", "S0", "S1", "S2", "S3"} /\ now \in Nat
      /\ latencycounter \in Nat
  BY <1>1, Sizes DEF BufferTypes, BufferTypeOK, Cell
<1>3. FSMSendDetectors \notin {"S3", "S0_0"}
  BY <1>1 DEF Gate
<1>4. FSMSendDetectors \in {"S0", "S1"} => now <= Fixed_Latency - 1
  BY <1>1, <1>2, Sizes DEF Times
<1>5. FSMSendDetectors \in {"S0", "S1"} => Ahead(c, now) + now >= Fixed_Latency + 1
  BY <1>1 DEF Requests
<1> QED
  BY <1>2, <1>3, <1>4, <1>5, Sizes

\* A slow clock leaves an event its address: it is in the cell, or has been read from it.
LEMMA SlowAddresses ==
  ASSUME LInv, BURST, SlowEdge, NEW c \in Cell, asked'[c] # {}
  PROVE  asked'[c] = asked[c] /\ Address(c)' = Address(c)
<1>1. BufferTypes /\ Gate /\ Times /\ Requests /\ Settling /\ Held
  BY DEF LInv
<1>2. /\ now \in Cell /\ now' \in Cell /\ latencyreadaddressb \in Cell
      /\ Ahead(c, now) \in Nat
  BY <1>1, SlowMoves, SlowTypes, SlowAway DEF BufferTypes, BufferTypeOK
<1>3. Ahead(c, now) # 0 /\ asked'[c] = asked[c]
  BY <1>1, SlowMemory
<1>4. c # Due
  BY <1>2, <1>3, DueIs
<1>5. Due' \in Cell /\ Ahead(Due', now') = 0
  BY <1>2, DueAhead DEF Due
<1>6. Ahead(c, now') = Ahead(c, now) - 1
  BY <1>1, <1>3, SlowMemory
<1>7. CASE Ahead(c, now) = 1
  <2>1. FSMSendDetectors = "S2"
    BY <1>3, <1>7, DueInS2
  <2>2. c = latencyreadaddressb
    BY <1>1, <1>2, <1>7, <2>1, AheadUnique DEF Times
  <2>3. q_b' = LATENCYRAM[c]
    BY <2>1, <2>2 DEF SlowEdge, rden_b
  <2>4. Due' = c
    BY <1>2, <1>5, <1>6, <1>7, AheadUnique
  <2> QED
    BY <1>3, <1>4, <2>3, <2>4 DEF Address
<1>8. CASE Ahead(c, now) >= 2
  <2>1. c # Due'
    BY <1>2, <1>5, <1>6, <1>8
  <2>2. LATENCYRAM'[c] = LATENCYRAM[c]
    BY <1>1, <1>2, <1>8, SlowMemory
  <2> QED
    BY <1>3, <1>4, <2>1, <2>2 DEF Address
<1> QED
  BY <1>2, <1>3, <1>7, <1>8

\* The request in progress is not the one that goes out.
LEMMA SlowWaits ==
  ASSUME LInv, SlowEdge, FSMoutputdata # "Idle"
  PROVE  tmp.cell \in Cell /\ Ahead(tmp.cell, now) \in Nat /\ Ahead(tmp.cell, now) >= 1
<1>1. BufferTypes /\ Gate /\ Times /\ Requests /\ Settling /\ Held
  BY DEF LInv
<1>2. tmp.cell \in Cell /\ FSMoutputdata \in {"Idle", "SetFarmAddress", "WriteEvent"}
  BY <1>1 DEF BufferTypes, BufferTypeOK
<1>3. Ahead(tmp.cell, now) \in Nat /\ phase \in Nat /\ phase >= 1
  BY <1>1, <1>2, SlowAway, SlowMoves
<1> QED
  BY <1>1, <1>2, <1>3 DEF Requests

\* A slow clock keeps the events.
LEMMA SlowEvents ==
  ASSUME LInv, Events, SlowEdge
  PROVE  Events'
<1>1. BufferTypes /\ Gate /\ Times /\ Requests /\ Settling /\ Held
  BY DEF LInv
<1>2. /\ UNCHANGED <<q_a, BURST125, FSMoutputdata, tmp, addressfarm, SENDRAM>>
      /\ asked \in [Cell -> SUBSET Kinds] /\ asked' \in [Cell -> SUBSET Kinds]
      /\ now \in Cell /\ now' \in Cell
  BY <1>1, SlowMoves, SlowTypes DEF BufferTypes, BufferTypeOK
<1>3. ASSUME BURST'
      PROVE  Between \/ BURST
  BY <1>1, <1>3, SlowMoves DEF Between, Gate
<1>4. \A c \in Cell : asked'[c] = {} \/ asked'[c] = asked[c]
  <2>1. \A c \in Cell : Ahead(c, now) = 0 \/ Ahead(c, now) # 0
    OBVIOUS
  <2> QED
    BY <1>1, <2>1, SlowMemory
<1>5. CASE Between
  <2>1. FSMoutputdata = "Idle" /\ addressfarm = 0 /\ ~BURST125 /\ \A c \in Cell : asked[c] = {}
    BY <1>1, <1>5 DEF Settling, Requests
  <2>2. \A c \in Cell : asked'[c] = {}
    BY <1>4, <2>1
  <2>3. Due' \in Cell
    BY <1>2, DueAhead DEF Due
  <2> QED
    BY <1>2, <2>1, <2>2, <2>3 DEF Events, Stay, Apart, Writing, Started, Stored
<1>6. CASE BURST
  <2>1. Stay /\ Apart /\ Writing /\ Started
    BY <1>6 DEF Events
  <2>2. \A c \in Cell : asked'[c] # {} => asked'[c] = asked[c] /\ Address(c)' = Address(c)
    BY <1>6, SlowAddresses
  <2>3. \A c \in Cell : (Begun(c)' <=> Begun(c)) /\ Joining(c)' = Joining(c)
    BY <1>2 DEF Begun, Joining
  <2>4. \A c \in Cell : Stored(c)' => /\ Stored(c) /\ asked'[c] = asked[c]
                                      /\ Address(c)' = Address(c)
    BY <2>2, <2>3 DEF Stored
  <2>5. Stay'
    <3> SUFFICES ASSUME NEW c \in Cell, Stored(c)'
                 PROVE  /\ Back(Address(c))' \in 1 .. SendSize
                        /\ Own(c, SENDRAM[Slot(Address(c))])'
      BY DEF Stay
    <3>1. /\ Stored(c) /\ asked'[c] = asked[c] /\ Address(c)' = Address(c)
          /\ Joining(c)' = Joining(c)
      BY <2>3, <2>4
    <3>2. Back(Address(c)) \in 1 .. SendSize /\ Own(c, SENDRAM[Slot(Address(c))])
      BY <2>1, <3>1 DEF Stay
    <3>3. Back(Address(c))' \in 1 .. SendSize
      BY <1>2, <3>1, <3>2 DEF Back
    <3>4. Slot(Address(c))' = Slot(Address(c))
      BY <3>1 DEF Slot
    <3>5. Own(c, SENDRAM[Slot(Address(c))])'
      BY <1>2, <3>1, <3>2, <3>4 DEF Own
    <3> QED
      BY <3>3, <3>5
  <2>6. Apart'
    BY <2>1, <2>4 DEF Apart
  <2>7. Writing'
    <3>1. ASSUME FSMoutputdata # "Idle"
          PROVE  /\ tmp.cell \in Cell /\ asked'[tmp.cell] = asked[tmp.cell]
                 /\ tmp.kind \in asked[tmp.cell]
      <4>1. tmp.cell \in Cell /\ Ahead(tmp.cell, now) \in Nat /\ Ahead(tmp.cell, now) >= 1
        BY <3>1, SlowWaits
      <4> QED
        BY <1>1, <2>1, <3>1, <4>1, SlowMemory DEF Writing
    <3>2. FSMoutputdata = "WriteEvent" => Address(tmp.cell)' = Address(tmp.cell)
      <4>1. FSMoutputdata = "WriteEvent" => tmp' = tmp /\ asked'[tmp.cell] # {}
        BY <1>2, <3>1
      <4> QED
        BY <1>2, <2>2, <3>1, <4>1
    <3>3. \A c \in Cell : Stored(c)' => Back(Address(c))' = Back(Address(c))
      BY <1>2, <2>4 DEF Back
    <3> QED
      BY <1>2, <2>1, <2>4, <3>1, <3>2, <3>3 DEF Writing
  <2>8. Started'
    <3>1. ASSUME FSMSendDetectors' = "S2", distance' = 0
          PROVE  asked'[Due'] = {}
      <4>1. FSMSendDetectors # "S2"
        <5> DEFINE b == q_b.tw # {}
        <5>1. SubSendDetectors(b, FALSE) /\ b \in BOOLEAN /\ distance \in Nat
          BY <1>1 DEF SlowEdge, Clock40, BufferTypes
        <5> HIDE DEF b
        <5>2. FSMSendDetectors = "S2" => distance' >= 1
          BY <5>1, DetDistance
        <5> QED
          BY <3>1, <5>2
      <4>2. PICK c \in Cell : c = Due' /\ Ahead(c, now') = 0
        BY <1>2, DueAhead DEF Due
      <4>3. /\ Ahead(c, now) \in Cell
            /\ Ahead(c, now') = IF Ahead(c, now) = 0 THEN Cells - 1 ELSE Ahead(c, now) - 1
        BY <1>1, <1>6, SlowMemory
      <4>4. Ahead(c, now) \in {0, 1}
        BY <4>2, <4>3, Sizes DEF Cell
      <4>5. asked[c] = {}
        BY <1>6, <4>1, <4>4, DueInS2
      <4> QED
        BY <1>4, <4>2, <4>5
    <3> QED
      BY <1>2, <1>4, <2>1, <3>1 DEF Started
  <2> QED
    BY <2>5, <2>6, <2>7, <2>8 DEF Events
<1> QED
  BY <1>3, <1>5, <1>6 DEF Events

\* The types of the addresses.
LEMMA AddressType ==
  ASSUME BufferTypes, NEW c \in Cell
  PROVE  Address(c) \in 0 .. 2 * SendSize - 1 /\ q_a.address \in 0 .. 2 * SendSize - 1
         /\ addressfarm \in 0 .. 2 * SendSize - 1
<1>1. /\ q_a \in Word /\ q_b \in Word /\ LATENCYRAM[c] \in Word
      /\ addressfarm \in 0 .. 2 * SendSize - 1
  BY DEF BufferTypes, BufferTypeOK
<1> QED
  BY <1>1 DEF Address, Word

\* In a burst an edge of the 125 MHz clock that resets addressfarm finds it at its beginning.
LEMMA FastBurst ==
  ASSUME BufferTypes, BURST, Started, FastEdge
  PROVE  /\ BURST' /\ BURST125' /\ (Reset => addressfarm' = addressfarm)
         /\ now' = now /\ q_b' = q_b /\ Due' = Due
         /\ FSMSendDetectors' = FSMSendDetectors /\ distance' = distance
         /\ now \in Cell /\ Due \in Cell /\ Ahead(Due, now) = 0
         /\ asked \in [Cell -> SUBSET Kinds] /\ LATENCYRAM \in [Cell -> Word]
         /\ SENDRAM \in [0 .. SendSize - 1 -> Event \cup {NoEvent}]
         /\ tmp.cell \in Cell
<1>1. /\ BURST' /\ BURST125' /\ now' = now /\ q_b' = q_b
      /\ FSMSendDetectors' = FSMSendDetectors /\ distance' = distance
      /\ now \in Cell /\ asked \in [Cell -> SUBSET Kinds] /\ LATENCYRAM \in [Cell -> Word]
      /\ tmp.cell \in Cell
  BY FastKeeps
<1>2. Due' = Due /\ Due \in Cell /\ Ahead(Due, now) = 0
  BY <1>1, DueAhead DEF Due
<1>3. Reset => addressfarm' = addressfarm
  BY DEF Reset, Started
<1>4. SENDRAM \in [0 .. SendSize - 1 -> Event \cup {NoEvent}]
  BY DEF BufferTypes, BufferTypeOK
<1> QED
  BY <1>1, <1>2, <1>3, <1>4

\* A request that is taken: it joins the event of its cell, or begins one when no event is
\* as far back as SendSize.
LEMMA TakenEvents ==
  ASSUME LInv, Match, AlwaysReads, BURST, Stay, Apart, Writing, Started, FastEdge,
         NEW kind \in Kinds, NEW c \in Cell, NEW d \in Int, Taken(kind, c, d)
  PROVE  Stay' /\ Apart' /\ Writing' /\ Started'
<1>1. BufferTypes /\ Held
  BY DEF LInv
<1>2. /\ tmp' = [cell |-> c, kind |-> kind] /\ LATENCYRAM' = LATENCYRAM /\ SENDRAM' = SENDRAM
      /\ asked' = [asked EXCEPT ![c] = @ \cup {kind}]
      /\ Ahead(c, now) \in Nat /\ Ahead(c, now) >= 2 /\ FSMoutputdata = "Idle"
      /\ FSMoutputdata' = "SetFarmAddress" /\ q_a' = LATENCYRAM[c]
      /\ MayAsk(d, c) /\ Reset
  BY DEF Taken
<1>3. /\ addressfarm' = addressfarm /\ BURST125' /\ q_b' = q_b /\ Due' = Due
      /\ FSMSendDetectors' = FSMSendDetectors /\ distance' = distance
      /\ Due \in Cell /\ c # Due /\ asked \in [Cell -> SUBSET Kinds]
  BY <1>1, <1>2, FastBurst
<1>4. \A x \in Cell : /\ asked'[x] = (IF x = c THEN asked[x] \cup {kind} ELSE asked[x])
                      /\ Address(x)' = Address(x)
  BY <1>2, <1>3 DEF Address
<1>5. q_a' = NoWord <=> asked[c] = {}
  <2>1. Requested(c) = {}
    BY <1>2 DEF Requested
  <2>2. LATENCYRAM[c].tw \cup Requested(c) = asked[c]
    BY <1>2 DEF Match
  <2>3. LATENCYRAM[c].tw = asked[c]
    BY <2>1, <2>2
  <2> QED
    BY <1>1, <1>2, <2>3 DEF Held, NoWord
<1>6. \A x \in Cell : /\ Stored(x)' <=> Stored(x)
                      /\ Stored(x) <=> asked[x] # {}
                      /\ Joining(x) = {} /\ Joining(x)' = IF x = c THEN {kind} ELSE {}
  BY <1>2, <1>4, <1>5 DEF Stored, Begun, Joining
<1>7. Stay'
  <2> SUFFICES ASSUME NEW x \in Cell, Stored(x)'
               PROVE  /\ Back(Address(x))' \in 1 .. SendSize
                      /\ Own(x, SENDRAM[Slot(Address(x))])'
    BY DEF Stay
  <2>1. Stored(x) /\ Address(x)' = Address(x)
    BY <1>4, <1>6
  <2>2. Back(Address(x)) \in 1 .. SendSize /\ Own(x, SENDRAM[Slot(Address(x))])
    BY <2>1 DEF Stay
  <2>3. Back(Address(x))' \in 1 .. SendSize
    BY <1>3, <2>1, <2>2 DEF Back
  <2>4. Slot(Address(x))' = Slot(Address(x))
    BY <2>1 DEF Slot
  <2>5. Own(x, SENDRAM[Slot(Address(x))])'
    BY <1>2, <1>4, <1>6, <2>2, <2>4 DEF Own
  <2> QED
    BY <2>3, <2>5
<1>8. Apart'
  BY <1>4, <1>6 DEF Apart
<1>9. Writing'
  <2>1. kind \in asked'[c] /\ (q_a' = NoWord => asked'[c] = {kind})
    BY <1>4, <1>5
  <2>2. ASSUME q_a' = NoWord, NEW x \in Cell, Stored(x)'
        PROVE  Back(Address(x))' < SendSize
    <3>1. x \in Pending /\ Recent(Address(x))
      BY <1>2, <1>5, <1>6, <2>2 DEF MayAsk, Pending
    <3>2. Back(Address(x)) < SendSize
      BY <1>1, <3>1, AddressType, RecentIs
    <3> QED
      BY <1>3, <1>4, <3>2 DEF Back
  <2> QED
    BY <1>2, <2>1, <2>2 DEF Writing
<1>10. Started'
  BY <1>2, <1>3, <1>4 DEF Started
<1> QED
  BY <1>7, <1>8, <1>9, <1>10

\* A machine that is idle changes nothing.
LEMMA IdleEvents ==
  ASSUME LInv, BURST, Stay, Apart, Writing, Started, FastEdge, Idle
  PROVE  Stay' /\ Apart' /\ Writing' /\ Started'
<1>1. UNCHANGED <<LATENCYRAM, SENDRAM, asked, q_a, FSMoutputdata, tmp>> /\ Reset
  BY DEF Idle, memoryVars
<1>2. /\ addressfarm' = addressfarm /\ BURST125' /\ q_b' = q_b /\ Due' = Due
      /\ FSMSendDetectors' = FSMSendDetectors /\ distance' = distance
  BY <1>1, FastBurst DEF LInv
<1>3. \A x \in Cell : /\ Stored(x)' <=> Stored(x)
                      /\ Joining(x)' = Joining(x) /\ Address(x)' = Address(x)
                      /\ Back(Address(x))' = Back(Address(x))
                      /\ Slot(Address(x))' = Slot(Address(x))
  BY <1>1, <1>2 DEF Stored, Begun, Joining, Address, Back, Slot
<1>4. \A x \in Cell : Own(x, SENDRAM[Slot(Address(x))])' <=> Own(x, SENDRAM[Slot(Address(x))])
  BY <1>1, <1>3 DEF Own
<1>5. Stay'
  BY <1>3, <1>4 DEF Stay
<1>6. Apart'
  BY <1>3 DEF Apart
<1>7. Writing'
  BY <1>1, <1>2, <1>3 DEF Writing, Address
<1>8. Started'
  BY <1>1, <1>2 DEF Started
<1> QED
  BY <1>5, <1>6, <1>7, <1>8

\* The word of a new event has the address that the event will get; one that joins keeps
\* the address it has.
LEMMA SetEvents ==
  ASSUME LInv, Match, BURST, Stay, Apart, Writing, Started, FastEdge, SetFarmAddress
  PROVE  Stay' /\ Apart' /\ Writing' /\ Started'
<1>1. BufferTypes /\ Requests
  BY DEF LInv
<1>0. PICK t \in Cell : t = tmp.cell
  BY <1>1 DEF BufferTypes
<1>2. /\ UNCHANGED <<SENDRAM, asked, q_a, tmp>> /\ Reset
      /\ FSMoutputdata = "SetFarmAddress" /\ FSMoutputdata' = "WriteEvent"
      /\ LATENCYRAM' = [LATENCYRAM EXCEPT ![t] =
            IF q_a # NoWord THEN [tw |-> q_a.tw \cup {tmp.kind}, address |-> q_a.address]
            ELSE [tw |-> {tmp.kind}, address |-> addressfarm]]
  BY <1>0 DEF SetFarmAddress
<1>3. /\ addressfarm' = addressfarm /\ BURST125' /\ q_b' = q_b /\ Due' = Due
      /\ FSMSendDetectors' = FSMSendDetectors /\ distance' = distance
      /\ LATENCYRAM \in [Cell -> Word]
  BY <1>1, <1>2, FastBurst
<1>4. t # Due
  <2>1. Ahead(t, now) \in Nat /\ phase \in Nat /\ Ahead(Due, now) = 0
    <3>1. now \in Cell /\ Ahead(Due, now) = 0 /\ phase \in Nat
      BY <1>1, FastBurst, FastKeeps
    <3>2. Ahead(t, now) \in Cell
      BY <3>1, AheadType
    <3> QED
      BY <3>1, <3>2, Sizes DEF Cell
  <2>2. Ahead(t, now) >= 1
    BY <1>0, <1>1, <1>2, <2>1 DEF Requests
  <2> QED
    BY <2>1, <2>2
<1>5. q_a = LATENCYRAM[t]
  BY <1>0, <1>2 DEF Match
<1>6. LATENCYRAM'[t].address = IF q_a # NoWord THEN q_a.address ELSE addressfarm
  BY <1>2, <1>3
<1>7. \A x \in Cell : x # t => LATENCYRAM'[x] = LATENCYRAM[x]
  BY <1>2, <1>3
<1>8. \A x \in Cell : x # t => Address(x)' = Address(x)
  BY <1>3, <1>7 DEF Address
<1>9. /\ Address(t)' = IF q_a # NoWord THEN q_a.address ELSE addressfarm
      /\ q_a # NoWord => Address(t)' = Address(t)
  BY <1>3, <1>4, <1>5, <1>6 DEF Address
<1>10. \A x \in Cell : /\ Stored(x)' <=> Stored(x)
                       /\ Stored(x) => x # t \/ q_a # NoWord
                       /\ Joining(x)' = Joining(x)
  BY <1>0, <1>2 DEF Stored, Begun, Joining
<1>11. \A x \in Cell : Stored(x) => /\ Address(x)' = Address(x)
                                    /\ Back(Address(x))' = Back(Address(x))
                                    /\ Slot(Address(x))' = Slot(Address(x))
  <2>1. \A x \in Cell : Stored(x) => Address(x)' = Address(x)
    BY <1>8, <1>9, <1>10
  <2> QED
    BY <1>3, <2>1 DEF Back, Slot
<1>12. Stay'
  <2> SUFFICES ASSUME NEW x \in Cell, Stored(x)'
               PROVE  /\ Back(Address(x))' \in 1 .. SendSize
                      /\ Own(x, SENDRAM[Slot(Address(x))])'
    BY DEF Stay
  <2>1. Back(Address(x)) \in 1 .. SendSize /\ Own(x, SENDRAM[Slot(Address(x))])
    BY <1>10 DEF Stay
  <2>2. Slot(Address(x))' = Slot(Address(x)) /\ Joining(x)' = Joining(x)
    BY <1>10, <1>11
  <2>3. Own(x, SENDRAM[Slot(Address(x))])'
    BY <1>2, <2>1, <2>2 DEF Own
  <2> QED
    BY <1>10, <1>11, <2>1, <2>3
<1>13. Apart'
  BY <1>10, <1>11 DEF Apart
<1>14. Writing'
  <2>1. Address(tmp.cell)' = IF q_a' # NoWord THEN q_a'.address ELSE addressfarm'
    BY <1>0, <1>2, <1>3, <1>9 
  <2>2. \A x \in Cell : Stored(x)' => Back(Address(x))' = Back(Address(x))
    BY <1>10, <1>11
  <2> QED
    BY <1>2, <1>3, <1>10, <2>1, <2>2 DEF Writing
<1>15. Started'
  BY <1>2, <1>3 DEF Started
<1> QED
  BY <1>12, <1>13, <1>14, <1>15

\* An event that is begun: the others are one address further back, each in its own cell.
LEMMA BeginEvents ==
  ASSUME LInv, BURST, Stay, Apart, Writing, Started, FastEdge, WriteEvent, q_a = NoWord
  PROVE  Stay' /\ Apart' /\ Writing' /\ Started'
<1>1. BufferTypes
  BY DEF LInv
<1>0. PICK t \in Cell : t = tmp.cell
  BY <1>1 DEF BufferTypes
<1>2. /\ UNCHANGED <<LATENCYRAM, asked, q_a>>
      /\ FSMoutputdata = "WriteEvent" /\ FSMoutputdata' = "Idle"
      /\ SENDRAM' = [SENDRAM EXCEPT ![addressfarm % SendSize] = NewEvent]
      /\ addressfarm' = (addressfarm + 1) % (2 * SendSize)
  BY DEF WriteEvent
<1>3. /\ BURST125' /\ q_b' = q_b /\ Due' = Due
      /\ FSMSendDetectors' = FSMSendDetectors /\ distance' = distance
      /\ SENDRAM \in [0 .. SendSize - 1 -> Event \cup {NoEvent}]
  BY <1>1, FastBurst
<1>4. /\ addressfarm \in 0 .. 2 * SendSize - 1
      /\ \A x \in Cell : Address(x) \in 0 .. 2 * SendSize - 1
  BY <1>1, <1>3, AddressType
<1>5. SENDRAM' = [SENDRAM EXCEPT ![Slot(addressfarm)] = NewEvent]
  BY <1>2, <1>4, SlotIs
<1>6. asked[t] = {tmp.kind} /\ Address(t) = addressfarm
  BY <1>0, <1>2 DEF Writing
<1>7. NewEvent = [tw |-> {tmp.kind}, timestamp |-> t, data |-> tmp.kind]
  BY <1>0 DEF NewEvent
<1>8. \A x \in Cell : /\ Address(x)' = Address(x) /\ Joining(x)' = {}
                      /\ Joining(x) = IF x = t THEN {tmp.kind} ELSE {}
                      /\ Stored(x)' <=> asked[x] # {}
                      /\ Stored(x) <=> asked[x] # {} /\ x # t
  BY <1>0, <1>2, <1>3 DEF Address, Stored, Begun, Joining
<1>9. \A x \in Cell : Stored(x) => Back(Address(x)) \in 1 .. SendSize - 1
  BY <1>2, Sizes DEF Stay, Writing
<1>10. Stay'
  <2> SUFFICES ASSUME NEW x \in Cell, Stored(x)'
               PROVE  /\ Back(Address(x))' \in 1 .. SendSize
                      /\ Own(x, SENDRAM[Slot(Address(x))])'
    BY DEF Stay
  <2>1. PICK a \in 0 .. 2 * SendSize - 1 : a = Address(x)
    BY <1>4
  <2>2. Address(x)' = a /\ Slot(Address(x))' = Slot(a) /\ Back(Address(x))' = Back(a)'
    BY <1>8, <2>1 DEF Slot, Back
  <2>3. CASE x = t
    <3>1. Back(a)' = 1 /\ a = addressfarm
      BY <1>2, <1>4, <1>6, <2>1, <2>3, BackNext
    <3>2. SENDRAM'[Slot(a)] = NewEvent
      BY <1>3, <1>4, <1>5, <3>1, Addresses
    <3>3. Own(x, SENDRAM[Slot(Address(x))])'
      BY <1>2, <1>6, <1>7, <1>8, <2>2, <2>3, <3>2 DEF Own
    <3> QED
      BY <2>2, <3>1, <3>3, Sizes
  <2>4. CASE x # t
    <3>1. Stored(x) /\ asked[x] # {}
      BY <1>8, <2>4
    <3>2. Back(a) \in 1 .. SendSize - 1 /\ Own(x, SENDRAM[Slot(a)])
      BY <1>9, <2>1, <3>1 DEF Stay
    <3>3. Back(a)' = Back(a) + 1
      BY <1>2, <1>4, <3>2, BackNext, Sizes
    <3>4. Slot(a) # Slot(addressfarm)
      <4>1. Back(addressfarm) = 0 /\ Back(a) # 0
        BY <1>4, <3>2, Sizes DEF Back
      <4>2. /\ Back(a) - Back(addressfarm) < SendSize /\ Back(addressfarm) - Back(a) < SendSize
            /\ a # addressfarm
        BY <3>2, <4>1, Sizes
      <4>3. addressfarm \in 0 .. 2 * SendSize - 1
        BY <1>4
      <4> QED
        BY <4>2, <4>3, Addresses
    <3>5. SENDRAM'[Slot(a)] = SENDRAM[Slot(a)]
      BY <1>3, <1>4, <1>5, <3>4, Addresses
    <3>6. Own(x, SENDRAM[Slot(Address(x))])'
      BY <1>2, <1>8, <2>2, <2>4, <3>2, <3>5 DEF Own
    <3> QED
      BY <2>2, <3>2, <3>3, <3>6, Sizes
  <2> QED
    BY <2>3, <2>4
<1>11. Apart'
  <2> SUFFICES ASSUME NEW x \in Cell, NEW y \in Cell, Stored(x)', Stored(y)', x # y
               PROVE  Address(x) # Address(y)
    BY <1>8 DEF Apart
  <2>1. \A z \in Cell : Stored(z) => Address(z) # addressfarm
    <3> SUFFICES ASSUME NEW z \in Cell, Stored(z), Address(z) = addressfarm PROVE FALSE
      OBVIOUS
    <3>1. Back(Address(z)) = 0
      BY <1>4 DEF Back
    <3> QED
      BY <1>9, <3>1, Sizes
  <2>2. (x = t \/ Stored(x)) /\ (y = t \/ Stored(y))
    BY <1>8
  <2> QED
    BY <1>6, <2>1, <2>2 DEF Apart
<1>12. Writing'
  BY <1>2 DEF Writing
<1>13. Started'
  BY <1>2, <1>3 DEF Started
<1> QED
  BY <1>10, <1>11, <1>12, <1>13

\* An event that is joined: the others have cells of their own.
LEMMA JoinEvents ==
  ASSUME LInv, BURST, Stay, Apart, Writing, Started, FastEdge, WriteEvent, q_a # NoWord
  PROVE  Stay' /\ Apart' /\ Writing' /\ Started'
<1>1. BufferTypes
  BY DEF LInv
<1>0. PICK t \in Cell : t = tmp.cell
  BY <1>1 DEF BufferTypes
<1>2. /\ UNCHANGED <<LATENCYRAM, asked, q_a>> /\ addressfarm' = addressfarm
      /\ FSMoutputdata = "WriteEvent" /\ FSMoutputdata' = "Idle"
  BY DEF WriteEvent
<1>3. /\ BURST125' /\ q_b' = q_b /\ Due' = Due
      /\ FSMSendDetectors' = FSMSendDetectors /\ distance' = distance
      /\ SENDRAM \in [0 .. SendSize - 1 -> Event \cup {NoEvent}]
  BY <1>1, FastBurst
<1>4. /\ addressfarm \in 0 .. 2 * SendSize - 1 /\ q_a.address \in 0 .. 2 * SendSize - 1
      /\ \A x \in Cell : Address(x) \in 0 .. 2 * SendSize - 1
  BY <1>1, <1>3, AddressType
<1>5. SENDRAM' = [SENDRAM EXCEPT ![Slot(q_a.address)] = Joined(SENDRAM[Slot(q_a.address)])]
  <2>1. q_a.address % SendSize = Slot(q_a.address)
    BY <1>4, SlotIs
  <2>2. SENDRAM' = [SENDRAM EXCEPT ![q_a.address % SendSize] = Joined(@)]
    BY DEF WriteEvent
  <2> QED
    BY <2>1, <2>2
<1>6. tmp.kind \in asked[t] /\ Address(t) = q_a.address
  BY <1>0, <1>2 DEF Writing
<1>7. \A x \in Cell : /\ Address(x)' = Address(x) /\ Joining(x)' = {}
                      /\ Joining(x) = IF x = t THEN {tmp.kind} ELSE {}
                      /\ Stored(x)' <=> Stored(x)
  BY <1>0, <1>2, <1>3 DEF Address, Stored, Begun, Joining
<1>8. Stored(t)
  BY <1>0, <1>2, <1>6 DEF Stored, Begun
<1>9. Stay'
  <2> SUFFICES ASSUME NEW x \in Cell, Stored(x)'
               PROVE  /\ Back(Address(x))' \in 1 .. SendSize
                      /\ Own(x, SENDRAM[Slot(Address(x))])'
    BY DEF Stay
  <2>1. PICK a \in 0 .. 2 * SendSize - 1 : a = Address(x)
    BY <1>4
  <2>2. /\ Address(x)' = a /\ Slot(Address(x))' = Slot(a)
        /\ Back(Address(x))' = Back(a) /\ Stored(x)
    BY <1>2, <1>7, <2>1 DEF Slot, Back
  <2>3. Back(a) \in 1 .. SendSize /\ Own(x, SENDRAM[Slot(a)])
    BY <2>1, <2>2 DEF Stay
  <2>4. CASE x = t
    <3>1. SENDRAM'[Slot(a)] = Joined(SENDRAM[Slot(a)])
      BY <1>3, <1>4, <1>5, <1>6, <2>1, <2>4, Addresses
    <3> DEFINE e == SENDRAM[Slot(a)]
               j == Joined(e)
    <3>2. e \in Event \cup {NoEvent} /\ e.timestamp = x /\ e.tw \cup {tmp.kind} = asked[x]
          /\ e.data \in e.tw /\ ("physics" \in e.tw => e.data = "physics")
      BY <1>3, <1>4, <1>7, <2>3, <2>4, Addresses DEF Own
    <3>3. e = [tw |-> e.tw, timestamp |-> e.timestamp, data |-> e.data]
      BY <3>2 DEF Event, NoEvent
    <3>4. /\ j.timestamp = x /\ j.tw = e.tw \cup {tmp.kind}
          /\ j.data = IF tmp.kind = "physics" THEN "physics" ELSE e.data
      <4> HIDE DEF e
      <4>1. CASE tmp.kind = "physics"
        BY <1>0, <2>4, <4>1 DEF Joined, NewEvent
      <4>2. CASE tmp.kind # "physics"
        BY <3>2, <3>3, <4>2 DEF Joined
      <4> QED
        BY <4>1, <4>2
    <3> HIDE DEF e, j
    <3>5. j.timestamp = x /\ j.tw \cup {} = asked[x] /\ j.data \in j.tw
          /\ ("physics" \in j.tw => j.data = "physics")
      BY <3>2, <3>4
    <3>6. Own(x, SENDRAM[Slot(Address(x))])'
      BY <1>2, <1>7, <2>2, <3>1, <3>5 DEF Own, j, e
    <3> QED
      BY <2>2, <2>3, <3>6
  <2>5. CASE x # t
    <3>1. Slot(a) # Slot(q_a.address)
      <4>1. Back(q_a.address) \in 1 .. SendSize /\ a # q_a.address
        BY <1>0, <1>3, <1>6, <1>8, <2>1, <2>2, <2>5 DEF Stay, Apart
      <4>2. Back(a) - Back(q_a.address) < SendSize /\ Back(q_a.address) - Back(a) < SendSize
        BY <2>3, <4>1, Sizes
      <4>3. addressfarm \in 0 .. 2 * SendSize - 1 /\ q_a.address \in 0 .. 2 * SendSize - 1
        BY <1>4
      <4> QED
        BY <4>1, <4>2, <4>3, Addresses
    <3>2. SENDRAM'[Slot(a)] = SENDRAM[Slot(a)]
      BY <1>3, <1>4, <1>5, <3>1, Addresses
    <3>3. Own(x, SENDRAM[Slot(Address(x))])'
      BY <1>2, <1>7, <2>2, <2>3, <2>5, <3>2 DEF Own
    <3> QED
      BY <2>2, <2>3, <3>3
  <2> QED
    BY <2>4, <2>5
<1>10. Apart'
  BY <1>7 DEF Apart
<1>11. Writing'
  BY <1>2 DEF Writing
<1>12. Started'
  BY <1>2, <1>3 DEF Started
<1> QED
  BY <1>9, <1>10, <1>11, <1>12

\* So does an edge of the 125 MHz clock.
LEMMA FastEvents ==
  ASSUME LInv, Match, AlwaysReads, Events, FastEdge
  PROVE  Events'
<1> SUFFICES ASSUME BURST'
             PROVE  Stay' /\ Apart' /\ Writing' /\ Started'
  BY DEF Events
<1>1. BufferTypes
  BY DEF LInv
<1>2. BURST
  BY <1>1, FastKeeps
<1>3. Stay /\ Apart /\ Writing /\ Started
  BY <1>2 DEF Events
<1>4. ASSUME NEW kind \in Kinds, NEW c \in Cell, NEW d \in Int, Taken(kind, c, d)
      PROVE  Stay' /\ Apart' /\ Writing' /\ Started'
  BY <1>2, <1>3, <1>4, TakenEvents
<1>5. CASE Idle
  BY <1>2, <1>3, <1>5, IdleEvents
<1>6. CASE SetFarmAddress
  BY <1>2, <1>3, <1>6, SetEvents
<1>7. CASE WriteEvent
  BY <1>2, <1>3, <1>7, BeginEvents, JoinEvents
<1> QED
  BY <1>1, <1>4, <1>5, <1>6, <1>7, FastCases

\* The invariant, with the events.
EInv == MInv /\ (AlwaysReads => Events)

\* It always holds.
LEMMA EventsInvariant == BufferSpec => []EInv
<1>1. BufferInit => Events
  BY DEF BufferInit, Init, Events
<1>2. MInv /\ Events /\ AlwaysReads /\ [BufferNext]_bufferVars => Events'
  <2> SUFFICES ASSUME MInv, Events, AlwaysReads, [BufferNext]_bufferVars
               PROVE  Events'
    OBVIOUS
  <2>1. LInv /\ Match
    BY DEF MInv
  <2>2. CASE SlowEdge
    BY <2>1, <2>2, SlowEvents
  <2>3. CASE FastEdge
    BY <2>1, <2>3, FastEvents
  <2>4. CASE UNCHANGED bufferVars
    <3>1. /\ UNCHANGED <<FSMSendDetectors, BURST, distance, now, q_b, LATENCYRAM, SENDRAM, asked>>
          /\ UNCHANGED <<q_a, BURST125, FSMoutputdata, tmp, addressfarm>>
      BY <2>4 DEF bufferVars, detVars, ttcVars, memoryVars, slowVars, fastVars
    <3>2. Due' = Due
      BY <3>1 DEF Due
    <3>3. \A c \in Cell : /\ Stored(c)' <=> Stored(c)
                          /\ Joining(c)' = Joining(c) /\ Address(c)' = Address(c)
                          /\ Back(Address(c))' = Back(Address(c))
                          /\ Slot(Address(c))' = Slot(Address(c))
      BY <3>1, <3>2 DEF Stored, Begun, Joining, Address, Back, Slot
    <3>4. \A c \in Cell :
             Own(c, SENDRAM[Slot(Address(c))])' <=> Own(c, SENDRAM[Slot(Address(c))])
      BY <3>1, <3>3 DEF Own
    <3>5. Stay' <=> Stay
      BY <3>3, <3>4 DEF Stay
    <3>6. Apart' <=> Apart
      BY <3>3 DEF Apart
    <3>7. Writing' <=> Writing
      BY <3>1, <3>2, <3>3 DEF Writing, Address
    <3>8. Started' <=> Started
      BY <3>1, <3>2 DEF Started
    <3> QED
      BY <3>1, <3>5, <3>6, <3>7, <3>8 DEF Events
  <2> QED
    BY <2>2, <2>3, <2>4 DEF BufferNext
<1>3. BufferInit /\ MInv => EInv
  BY <1>1 DEF EInv
<1>4. EInv /\ MInv' /\ [BufferNext]_bufferVars => EInv'
  BY <1>2 DEF EInv, AlwaysReads
<1> QED
  BY <1>3, <1>4, BufferInvariant, PTL DEF BufferSpec

\* The event of a trigger is its own: its cell of SENDRAM has the timestamp, the words of all
\* sources that asked for it, and the data of the physics trigger if there was one.  Requests
\* read their cells, and while an event waits fewer than SendSize others begin (MayAsk).
THEOREM OwnEventAlways == AlwaysReads => (BufferSpec => OwnEvent)
<1> SUFFICES ASSUME AlwaysReads
             PROVE  BufferSpec => OwnEvent
  OBVIOUS
<1> DEFINE Sent == phase' = 0 /\ ev40' = "write" /\ BURST =>
                      LET event == SENDRAM[q_b.address % SendSize]
                      IN  /\ event.timestamp = Due /\ event.tw = asked[Due]
                          /\ event.data \in asked[Due]
                          /\ "physics" \in asked[Due] => event.data = "physics"
           Fixed == phase' = 0 =>
              /\ ev40' = "write" => asked[Due] # {} /\ q_b.tw = asked[Due]
              /\ asked[Due] # {} /\ MaySend /\ FarEnough => ev40' = "write"
<1>1. ASSUME EInv, SlowEdge, [Fixed]_bufferVars
      PROVE  Sent
  <2> SUFFICES ASSUME phase' = 0, ev40' = "write", BURST
               PROVE  LET event == SENDRAM[q_b.address % SendSize]
                      IN  /\ event.timestamp = Due /\ event.tw = asked[Due]
                          /\ event.data \in asked[Due]
                          /\ "physics" \in asked[Due] => event.data = "physics"
    OBVIOUS
  <2>1. LInv /\ BufferTypes /\ Gate /\ now \in Cell /\ Stay
    BY <1>1 DEF EInv, MInv, LInv, Events, BufferTypes, BufferTypeOK
  <2>2. phase # 0
    BY <1>1, <2>1, SlowMoves
  <2>3. asked[Due] # {}
    BY <1>1, <2>2 DEF bufferVars
  <2>4. Due \in Cell /\ Ahead(Due, now) = 0
    BY <2>1, DueAhead DEF Due
  <2>5. ~(FSMoutputdata # "Idle" /\ tmp.cell = Due)
    BY <1>1, <2>1, <2>4, SlowWaits
  <2>6. Stored(Due) /\ Joining(Due) = {} /\ Address(Due) = q_b.address
    BY <2>3, <2>5 DEF Stored, Begun, Joining, Address
  <2>7. q_b.address % SendSize = Slot(q_b.address)
    BY <2>1, <2>4, <2>6, AddressType, SlotIs
  <2>8. Own(Due, SENDRAM[Slot(q_b.address)])
    BY <2>1, <2>4, <2>6 DEF Stay
  <2> QED
    BY <2>6, <2>7, <2>8 DEF Own
<1>2. ASSUME EInv, FastEdge
      PROVE  Sent
  <2>1. phase' >= 1 /\ phase' \in Nat
    BY <1>2, FastKeeps DEF EInv, MInv, LInv
  <2> QED
    BY <2>1
<1>3. EInv /\ [BufferNext]_bufferVars /\ [Fixed]_bufferVars => [Sent]_bufferVars
  BY <1>1, <1>2 DEF BufferNext
<1>4. BufferSpec => [][Fixed]_bufferVars
  BY FixedLatencyAlways DEF FixedLatency
<1> QED
  BY <1>3, <1>4, EventsInvariant, PTL DEF BufferSpec, OwnEvent
=============================================================================
