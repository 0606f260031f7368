--------------------------- MODULE SendDetectors ----------------------------
(***************************************************************************)
(* The words that the L0TP sends to the detectors (SubSendDetectors in      *)
(* ethlink.vhd) and the choke and error requests that stop and resume them   *)
(* (altTTC.vhd).  One step is one period of the 40 MHz clock.                *)
(*                                                                          *)
(* In a burst the machine reads one cell of LATENCYRAM per clock; a cell     *)
(* with a trigger word is sent to the detectors unless they are stopped.     *)
(* What the cell holds is a parameter of the step (q_b), so that modules     *)
(* that model the memory can supply it; so is FIFODETECTORFARM's wrfull.     *)
(*                                                                          *)
(* activate_SOBEOBtrigger is 1 and activate_synch is 0, as in data taking.   *)
(***************************************************************************)
EXTENDS Integers, FiniteSets

CONSTANTS
    Settings,        \* choices of the user and of the environment, see Setting
    Fixed_Latency,   \* clocks from a timestamp to its trigger word
    primitiveDT,     \* clocks that two triggers keep, less one
    ResetTime,       \* clocks to reset the memories after a burst, 40000 in the firmware
    MACTime          \* clocks to empty the farm's port, over 100: four frames of 672 ns

\* choke, error: the requests are activated; farm: the port to the farm may fill up.
Setting == [choke : BOOLEAN, error : BOOLEAN, farm : BOOLEAN]

ASSUME SettingsAssumption == Settings \subseteq Setting
ASSUME LatencyAssumption == Fixed_Latency \in Nat /\ Fixed_Latency >= 3
ASSUME TimeAssumption == primitiveDT \in Nat /\ ResetTime \in Nat
                         /\ MACTime \in Nat /\ MACTime >= 5

VARIABLES
    activate,          \* activateCHOKE and activateERROR, and the environment, fixed
    BURST,             \* burst gate of altTTC
    FSMChoke, FSMERROR,
    MACBusy,           \* clocks for which the farm's port is at least still full
    BURST40, CHOKE_ON, ERROR_ON,     \* registers; CHOKE_OFF, ERROR_OFF: complements
    FSMSendDetectors,
    latencycounter,
    sentCHOKE_ON, sentERROR_ON,      \* the _OFF flags are always their complements
    RESTART, delayafterchoke,
    CHOKE_ON_Delay, ERROR_ON_Delay,
    safedistance,
    distance,          \* latencyreadaddressb - oldlatencyreadaddressb, up to primitiveDT + 2
    LTU,               \* code on the lines to the detectors
    ev40,              \* kind of event announced to the farm
    clk40,             \* parity of the clock: every clock is a step
    \* history
    stopped,           \* requests for which the detectors were told to stop
    sinceTrigger, sinceResume     \* clocks since the last such word, up to Long

ttcVars == <<activate, BURST, FSMChoke, FSMERROR, MACBusy, BURST40,
             CHOKE_ON, ERROR_ON>>
requestVars == <<sentCHOKE_ON, sentERROR_ON, RESTART, delayafterchoke,
                 CHOKE_ON_Delay, ERROR_ON_Delay, safedistance>>
outputVars == <<LTU, ev40, stopped, sinceTrigger, sinceResume>>
detVars == <<clk40, ttcVars, FSMSendDetectors, latencycounter, requestVars, distance,
             outputVars>>

Choking == {"Chokestate", "Dead_time0", "Dead_time1", "Dead_time2", "Dead_time3"}
\* The longest distance that is asked for.
Long == IF primitiveDT < 3 THEN 4 ELSE primitiveDT + 1

Erring == {"ERRORstate", "Dead_time0", "Dead_time1"}

Init ==
    /\ activate \in Settings
    /\ BURST = FALSE
    /\ FSMChoke = "Idle" /\ FSMERROR = "Idle"
    /\ MACBusy = 0
    /\ BURST40 = FALSE /\ CHOKE_ON = FALSE /\ ERROR_ON = FALSE
    /\ FSMSendDetectors = "S0_0"
    /\ latencycounter = 0
    /\ sentCHOKE_ON = FALSE /\ sentERROR_ON = FALSE
    /\ RESTART = FALSE /\ delayafterchoke = 0
    /\ CHOKE_ON_Delay = 0 /\ ERROR_ON_Delay = 0
    /\ safedistance = 3
    /\ distance = 0
    /\ clk40 = 0
    /\ LTU = "none" /\ ev40 = "none"
    /\ stopped = {} /\ sinceTrigger = Long /\ sinceResume = Long

-----------------------------------------------------------------------------
(***************************************************************************)
(* altTTC: c and e say whether some detector, or the user, asks for a choke *)
(* or an error in this clock (masks applied).                               *)
(***************************************************************************)
NextChoke(c) ==
    CASE ~activate.choke -> "Idle"
      [] activate.choke /\ c -> "Chokestate"
      [] activate.choke /\ ~c ->
            CASE FSMChoke \in {"Idle", "Idle2"} -> "Idle2"
              [] FSMChoke = "Chokestate" -> "Dead_time0"
              [] FSMChoke = "Dead_time0" -> "Dead_time1"
              [] FSMChoke = "Dead_time1" -> "Dead_time2"
              [] FSMChoke = "Dead_time2" -> "Dead_time3"
              [] FSMChoke = "Dead_time3" -> "Idle"

\* The dead times of an error run out whatever the detectors say.
NextERROR(e) ==
    CASE FSMERROR = "Dead_time0" -> "Dead_time1"
      [] FSMERROR = "Dead_time1" -> "Idle"
      [] FSMERROR = "Idle" -> IF activate.error /\ e THEN "ERRORstate" ELSE "Idle"
      [] FSMERROR = "ERRORstate" ->
            IF ~activate.error THEN "Idle" ELSE IF e THEN "ERRORstate" ELSE "Dead_time0"

\* A burst begins when the memories have been reset; it ends at any clock.
NextBurst ==
    \/ UNCHANGED BURST
    \/ BURST /\ BURST40 /\ FSMSendDetectors \in {"S1", "S2"} /\ BURST' = FALSE
    \/ ~BURST /\ ~BURST40 /\ FSMSendDetectors = "S0" /\ BURST' = TRUE

\* The L0TP chokes itself while more than three frames wait for the farm, until all
\* of them are sent.
MACReady == MACBusy = 0

NextMACBusy ==
    \/ MACReady /\ UNCHANGED MACBusy
    \/ MACReady /\ activate.farm /\ BURST40 /\ MACBusy' = MACTime
    \/ MACBusy = 1 /\ MACBusy' \in {0, 1}
    \/ MACBusy > 1 /\ MACBusy' = MACBusy - 1

altTTC ==
    /\ UNCHANGED activate
    /\ \E c, e \in BOOLEAN : /\ (c => activate.choke) /\ (e => activate.error)
                             /\ FSMChoke' = NextChoke(c) /\ FSMERROR' = NextERROR(e)
    /\ NextBurst
    /\ NextMACBusy
    /\ BURST40' = BURST
    /\ CHOKE_ON' = (FSMChoke \in Choking \/ ~MACReady)
    /\ ERROR_ON' = (FSMERROR \in Erring)

-----------------------------------------------------------------------------
(***************************************************************************)
(* SubSendDetectors.                                                        *)
(***************************************************************************)
UpTo(limit, n) == IF n < limit THEN n + 1 ELSE n

\* The word sent in this clock, its announcement to the farm and the history.
Sends(code, event) ==
    /\ LTU' = code /\ ev40' = event
    /\ stopped' = CASE event = "chokeOn" -> stopped \cup {"CHOKE"}
                    [] event = "chokeOff" -> stopped \ {"CHOKE"}
                    [] event = "errorOn" -> stopped \cup {"ERROR"}
                    [] event = "errorOff" -> stopped \ {"ERROR"}
                    [] event \in {"sob", "eob"} -> {}
                    [] OTHER -> stopped
    /\ sinceTrigger' = IF event = "write" THEN 1 ELSE UpTo(Long, sinceTrigger)
    /\ sinceResume' = IF event \in {"chokeOff", "errorOff"} THEN 1 ELSE UpTo(Long, sinceResume)

SendsNothing == Sends("none", "none")

S0_0 ==
    /\ FSMSendDetectors = "S0_0" /\ FSMSendDetectors' = "S0"
    /\ latencycounter' = 0
    /\ SendsNothing
    /\ UNCHANGED <<requestVars, distance>>

\* Wait for a burst; its start is sent at once.
S0 ==
    /\ FSMSendDetectors = "S0"
    /\ sentCHOKE_ON' = FALSE /\ sentERROR_ON' = FALSE
    /\ \/ BURST40 /\ FSMSendDetectors' = "S1" /\ Sends("SOB", "sob")
          /\ UNCHANGED <<latencycounter, distance>>
       \/ ~BURST40 /\ UNCHANGED FSMSendDetectors /\ SendsNothing
          /\ latencycounter' = 0 /\ distance' = 0
    /\ UNCHANGED <<RESTART, delayafterchoke, CHOKE_ON_Delay, ERROR_ON_Delay, safedistance>>

\* The latency.
S1 ==
    /\ FSMSendDetectors = "S1"
    /\ \/ latencycounter < Fixed_Latency - 3 /\ latencycounter' = latencycounter + 1
          /\ distance' = 0 /\ UNCHANGED FSMSendDetectors
       \/ latencycounter >= Fixed_Latency - 3 /\ latencycounter' = 0
          /\ FSMSendDetectors' = "S2" /\ UNCHANGED distance
    /\ SendsNothing
    /\ UNCHANGED requestVars

\* What SubSendDetectors does in a clock of the burst, by priority.
Duty ==
    IF CHOKE_ON /\ ~sentCHOKE_ON THEN "choke on"
    ELSE IF ERROR_ON /\ ~sentERROR_ON THEN "error on"
    ELSE IF /\ (~CHOKE_ON /\ sentCHOKE_ON) \/ (~ERROR_ON /\ sentERROR_ON)
            /\ ~RESTART
         THEN "restart"
    ELSE IF ~CHOKE_ON /\ sentCHOKE_ON THEN "choke off"
    ELSE IF ~ERROR_ON /\ sentERROR_ON THEN "error off"
    ELSE IF ~sentCHOKE_ON /\ ~sentERROR_ON /\ safedistance # 3 /\ RESTART THEN "safe distance"
    ELSE "trigger"

InS2(duty) == FSMSendDetectors = "S2" /\ BURST40 /\ Duty = duty

\* The pointer moves in every clock.
Moves == distance' = UpTo(primitiveDT + 2, distance)

Stays == UNCHANGED <<FSMSendDetectors, latencycounter>>

\* A request to stop waits for three clocks and is sent in the fourth.
ChokeOn ==
    /\ InS2("choke on")
    /\ RESTART' = FALSE
    /\ \/ CHOKE_ON_Delay = 3 /\ Sends("CHOKE_ON", "chokeOn")
          /\ sentCHOKE_ON' = TRUE /\ CHOKE_ON_Delay' = 0
          /\ delayafterchoke' = 0 /\ safedistance' = 0
       \/ CHOKE_ON_Delay # 3 /\ SendsNothing
          /\ CHOKE_ON_Delay' = (CHOKE_ON_Delay + 1) % 8
          /\ UNCHANGED <<sentCHOKE_ON, delayafterchoke, safedistance>>
    /\ Moves /\ Stays
    /\ UNCHANGED <<sentERROR_ON, ERROR_ON_Delay>>

ErrorOn ==
    /\ InS2("error on")
    /\ RESTART' = FALSE
    /\ \/ ERROR_ON_Delay = 3 /\ Sends("ERROR_ON", "errorOn")
          /\ sentERROR_ON' = TRUE /\ ERROR_ON_Delay' = 0
          /\ delayafterchoke' = 0 /\ safedistance' = 0
       \/ ERROR_ON_Delay # 3 /\ SendsNothing
          /\ ERROR_ON_Delay' = (ERROR_ON_Delay + 1) % 8
          /\ UNCHANGED <<sentERROR_ON, delayafterchoke, safedistance>>
    /\ Moves /\ Stays
    /\ UNCHANGED <<sentCHOKE_ON, CHOKE_ON_Delay>>

\* The end of a request is delayed by the latency.
Restart ==
    /\ InS2("restart")
    /\ RESTART' = (delayafterchoke = Fixed_Latency)
    /\ delayafterchoke' = IF delayafterchoke = Fixed_Latency THEN 0 ELSE delayafterchoke + 1
    /\ SendsNothing /\ Moves /\ Stays
    /\ UNCHANGED <<sentCHOKE_ON, sentERROR_ON, CHOKE_ON_Delay, ERROR_ON_Delay, safedistance>>

ChokeOffForgets ==
    /\ InS2("choke off")
    /\ Sends("CHOKE_OFF", "chokeOff")
    /\ sentCHOKE_ON' = FALSE /\ sentERROR_ON' = FALSE
    /\ Moves /\ Stays
    /\ UNCHANGED <<RESTART, delayafterchoke, CHOKE_ON_Delay, ERROR_ON_Delay, safedistance>>
ChokeOffRestarts ==
    /\ InS2("choke off")
    /\ Sends("CHOKE_OFF", "chokeOff")
    /\ sentCHOKE_ON' = FALSE /\ RESTART' = FALSE
    /\ Moves /\ Stays
    /\ UNCHANGED <<sentERROR_ON, delayafterchoke, CHOKE_ON_Delay, ERROR_ON_Delay, safedistance>>
ChokeOff ==
    /\ InS2("choke off")
    /\ Sends("CHOKE_OFF", "chokeOff")
    /\ sentCHOKE_ON' = FALSE
    /\ Moves /\ Stays
    /\ UNCHANGED <<sentERROR_ON, RESTART, delayafterchoke, CHOKE_ON_Delay, ERROR_ON_Delay,
                   safedistance>>

\* On the lines to the detectors the end of an error has the code of the end of a
\* choke; the farm's event has a code of its own.
ErrorOff ==
    /\ InS2("error off")
    /\ Sends("CHOKE_OFF", "errorOff")
    /\ sentERROR_ON' = FALSE
    /\ Moves /\ Stays
    /\ UNCHANGED <<sentCHOKE_ON, RESTART, delayafterchoke, CHOKE_ON_Delay, ERROR_ON_Delay,
                   safedistance>>

SafeDistance ==
    /\ InS2("safe distance")
    /\ safedistance' = safedistance + 1
    /\ SendsNothing /\ Moves /\ Stays
    /\ UNCHANGED <<sentCHOKE_ON, sentERROR_ON, RESTART, delayafterchoke, CHOKE_ON_Delay,
                   ERROR_ON_Delay>>

\* q_b: the cell read in the clock before has a trigger word; full: FIFODETECTORFARM.
MaySend ==
    /\ InS2("trigger")
    /\ ~CHOKE_ON /\ ~ERROR_ON /\ ~sentCHOKE_ON /\ ~sentERROR_ON /\ safedistance = 3

FarEnoughAlways == TRUE
FarEnough == distance > primitiveDT + 1

Writes(q_b, full) == MaySend /\ q_b /\ FarEnough /\ ~full

Trigger(q_b, full) ==
    /\ InS2("trigger")
    /\ \/ Writes(q_b, full) /\ Sends("trigger", "write")
       \/ ~Writes(q_b, full) /\ SendsNothing
    /\ IF MaySend /\ q_b /\ FarEnough THEN distance' = 2 ELSE Moves
    /\ Stays
    /\ UNCHANGED requestVars

EndOfBurst ==
    /\ FSMSendDetectors = "S2" /\ ~BURST40
    /\ FSMSendDetectors' = "S3"
    /\ Sends("EOB", "eob")
    /\ Moves
    /\ UNCHANGED <<latencycounter, requestVars>>

\* Reset of the memories.
S3 ==
    /\ FSMSendDetectors = "S3"
    /\ sentCHOKE_ON' = FALSE /\ sentERROR_ON' = FALSE
    /\ \/ latencycounter # Fixed_Latency + ResetTime /\ latencycounter' = latencycounter + 1
          /\ Moves
          /\ UNCHANGED <<FSMSendDetectors, delayafterchoke, RESTART, safedistance>>
       \/ latencycounter = Fixed_Latency + ResetTime /\ latencycounter' = 0
          /\ FSMSendDetectors' = "S0_0"
          /\ delayafterchoke' = 0 /\ RESTART' = FALSE /\ safedistance' = 3
          /\ distance' = 0
    /\ SendsNothing
    /\ UNCHANGED <<CHOKE_ON_Delay, ERROR_ON_Delay>>

SubSendDetectors(q_b, full) ==
    \/ S0_0 \/ S0 \/ S1
    \/ ChokeOn \/ ErrorOn \/ Restart \/ ChokeOff \/ ErrorOff \/ SafeDistance
    \/ Trigger(q_b, full)
    \/ EndOfBurst \/ S3

Clock40(q_b, full) == altTTC /\ SubSendDetectors(q_b, full)

Next == clk40' = 1 - clk40 /\ \E q_b, full \in BOOLEAN : Clock40(q_b, full)

Spec == Init /\ [][Next]_detVars /\ WF_detVars(Next)

-----------------------------------------------------------------------------
TypeOK ==
    /\ activate \in Settings
    /\ clk40 \in {0, 1}
    /\ BURST \in BOOLEAN /\ MACBusy \in 0 .. MACTime
    /\ FSMChoke \in Choking \cup {"Idle", "Idle2"} /\ FSMERROR \in Erring \cup {"Idle"}
    /\ BURST40 \in BOOLEAN /\ CHOKE_ON \in BOOLEAN /\ ERROR_ON \in BOOLEAN
    /\ sentCHOKE_ON \in BOOLEAN /\ sentERROR_ON \in BOOLEAN /\ RESTART \in BOOLEAN
    /\ FSMSendDetectors \in {"S0_0", "S0", "S1", "S2", "S3"}
    /\ latencycounter \in 0 .. Fixed_Latency + ResetTime
    /\ delayafterchoke \in 0 .. Fixed_Latency
    /\ CHOKE_ON_Delay \in 0 .. 3 /\ ERROR_ON_Delay \in 0 .. 3 /\ safedistance \in 0 .. 3
    /\ distance \in 0 .. primitiveDT + 2
    /\ stopped \subseteq {"CHOKE", "ERROR"}
    /\ sinceTrigger \in 1 .. Long /\ sinceResume \in 1 .. Long

\* The detectors are told to stop and to resume in turn, for each kind of request,
\* and no trigger is sent to them in between (altTTC: "to stop/re-enable the data
\* taking during the burst").
StopAndResume ==
    [][/\ ev40' = "chokeOn" => "CHOKE" \notin stopped
       /\ ev40' = "chokeOff" => "CHOKE" \in stopped
       /\ ev40' = "errorOn" => "ERROR" \notin stopped
       /\ ev40' = "errorOff" => "ERROR" \in stopped
       /\ ev40' = "write" => stopped = {}]_detVars

\* Two triggers are more than primitiveDT clocks apart, and the first trigger after
\* the detectors were told to resume comes at least four clocks later.
TriggersKeepDistance ==
    [][ev40' = "write" => sinceTrigger > primitiveDT /\ sinceResume >= 4]_detVars

Running == FSMSendDetectors = "S2" /\ BURST40

\* The requests to stop are over and the detectors resumed: a trigger in the next
\* cell would be sent.
Ready == MaySend

\* When no more requests come, data taking is re-enabled, unless the burst ends.
\* With chokes alone it always is.
ResumesAfterChoke ==
    ~activate.error => (Running ~> (Ready \/ CHOKE_ON \/ ~Running))

\* The same whatever the requests.
Resumes == Running ~> (Ready \/ CHOKE_ON \/ ERROR_ON \/ ~Running)

=============================================================================
