# The NA62 L0 trigger processor in TLA+

This directory models the firmware of the level-0 trigger processor (L0TP) of the NA62
experiment. Seven detectors send, every 6.4 us and over Ethernet, packets of *primitives* (times
at which they saw something). The L0TP realigns the packets, merges them in time, decides which
times are triggers, sends a trigger word to all detectors at a fixed latency after the time it
is for, and tells a PC farm of every word it sent. Detectors may ask it to stop (choke) or report
an error. Data are taken in bursts of a few seconds; between bursts everything is reset.

The firmware is VHDL written as two-process designs: `ro` are the registers before a clock edge,
`r` after it, and the last assignment of a cycle wins. There are two clocks, 125 MHz for reception,
triggers and the farm and 40 MHz for the detectors. Concurrency is of three kinds:

- machines of one design unit move in the same clock, from the same old values;
- the same machine exists once per detector, and the copies share registers;
- the two clocks exchange data through registers, dual-clock FIFOs and dual-port memories.

The MAC library that the firmware uses holds a soft processor (Nios II) with a monitor program in
C, by which an operator reads and writes the MAC's registers over serial lines or Ethernet.

The source has no tests; the promises below are those of its comments, of the headers of its
files, and of what the experiment needs from it.

## Inventory

| part | source | state | operations |
|---|---|---|---|
| Receivers, four procedures for two formats and two kinds of ports | `ethlink.vhd` 1641-2716 | a machine per detector port, header flags | take a frame byte by byte, write header, primitives and end-of-packet words to `FIFODELAY` |
| Realignment, `SubReadFIFODelay` | `ethlink.vhd` 2720-3029 | a machine per detector, one `start_latency` for all, `fifodelay`, `MTPNUMREF`, error word | skip packets as the user says, open a window together, hand over its primitives, close it together |
| Packet counting, `SubPrimitiveInPacket` | `Trigger.vhd` 896-950 | a machine, two FIFOs of numbers | on `packet_received` store the number of primitives of a window |
| Merge, `SubReceive` and `SubReadFifo` | `Trigger.vhd` 757-851, 952-1265 | `REFERENCEFIFO`, `CONTROLFIFO`, `MERGEDFIFO`, counters, almost-full flag | merge the primitives of two detectors in order of time, window by window |
| Trigger slots, write side of `alignRAM` and `SubReadRam` | `Trigger.vhd` 1271-1810 | `alignRAM` per detector, `oldaddress` | for each merged time read the slots around it of all detectors |
| Decision, `SubTrigger` and LUT | `Trigger.vhd` 1875-2032, `TriggerLUT.vhd`, `alttriggerLUT.vhd` | downscaling counters, last trigger | masks, downscaling, one trigger per timestamp |
| Calibration requests, `SubReceive` and `SubCalibration` | `Trigger.vhd` 820-875, 1817-1873 | `FIFOCALIB` and a machine per detector | hand over a detector's own calibration request |
| Other sources of triggers | `pulser.vhd`, `generator.vhd`, `NIMInterface.vhd`, `RandomIntensity.vhd`, `src/random` | counters, generators | periodic, random and external requests |
| Latency, `SubSendBuffer` | `ethlink.vhd` 3033-3598 | `LATENCYRAM` (a cell per timestamp), `SENDRAM` (an event per trigger), `addressfarm` | write a request to the cell of its timestamp, join requests of one timestamp |
| Words to the detectors, `SubSendDETECTORS` | `ethlink.vhd` 4253-4567 | read pointer, flags and counters of stop and resume | send SOB, triggers, choke and error words, EOB; reset the memories |
| Choke, error, burst, `altTTC` | `altTTC.vhd` | burst gate, two machines | gather the requests of the detectors |
| Announcements to the farm, `SubGeneratePackets` | `ethlink.vhd` 3603-4250 | a machine, `FIFODETECTORFARM`, `FIFOPACKETS`, events of the packet | turn every word sent into an event |
| Packets to the farm, `SubSendFARM` | `ethlink.vhd` 4571-5875 | a machine | send a packet of events when it is full, or at the end of the burst |
| Mirror, `SubMirror` | `ethlink.vhd` 6061-6269 | a machine | send received primitives to a monitoring port |
| Bursts, `SubMain`, `SubReset`, `ResetCounters` | both | registered burst gate | begin registers and FIFOs anew |
| Timestamps, `CounterTstmp` | `CounterTstmp.vhd` | counter | the 40 MHz timestamp of the burst |
| Monitor program | `src/mac/sopc/software/source` (C) | `rxbuffer` and line buffers, stream, parser, frames | take lines from ten streams, execute a command, answer its sender |
| USB, top level, MAC, memories, soft CPU | `USBInterface2.0.vhd`, `top.vhd`, `src/mac`, ... | | settings, wiring, libraries, generated code |

How they interact:

    detectors -> MAC -> receivers -> FIFODELAY -> realignment -> Trigger: packet counting
                                                              -> Trigger: merge -> slots -> decision
    decision, calibration, NIM, periodic, random -> SubSendBuffer -> LATENCYRAM, SENDRAM
    LATENCYRAM -> SubSendDETECTORS -> detectors            (choke, error: altTTC ->)
                        |  announcements, FIFODETECTORFARM
                        v
                 SubGeneratePackets (+ SENDRAM) -> FIFOPACKETS -> SubSendFARM -> MAC -> farm
    serial lines, Ethernet -> monitor program -> registers of the MAC

What makes each part correct, and what is hard about it:

- *Receivers*: a packet becomes one header, its primitives, one end, whatever its length; frames
  may end at any byte.
- *Realignment*: the seven machines open and close every window in the same clock although each
  comes back at a time of its own and all of them count one shared register; the windows hold
  packets of the same time; nobody waits for ever for another detector.
- *Packet counting*: `packet_received` can stay for several clocks or come back; a window is
  counted once and with its own numbers.
- *Merge*: two FIFOs whose outputs are a clock behind the read requests; every primitive once, in
  order of time, windows kept apart, no overflow behind a flag that reacts late.
- *Latency*: sources of different delays write the same cell, while the other port reads and clears;
  every request leaves at the fixed latency, joined with those of its timestamp, with its event.
- *Words to the detectors*: requests to stop come, vanish and overlap at any clock and share
  counters; the detectors are told to stop and resume in turn, get no trigger while stopped,
  keep their dead time, and data taking goes on afterwards.
- *Announcements*: an announcement is not queued, its address is; both cross the clocks on their own.
- *Packets to the farm*: nothing in `FIFOPACKETS` says where a packet ends; sender and writer agree by
  a counter that has its full value for one clock. Every packet holds its own events, and the end of
  the burst reaches the farm after all of them.
- *Slots and decision*: slots are read while primitives are written, over a memory whose cells live
  for many turns and, in part, for two bursts; a trigger joins the primitives beside its reference
  time and no others; one trigger per timestamp, in order.
- *Calibration*: nothing clears `FIFOCALIB` and it is drained at half the clock; a request must be
  handed over at once and be a request.
- *Monitor*: one parser for ten streams, a receiver of one character that is polled from every loop, output
  that must not block; a line is executed as it was typed and its answer goes to whoever typed it.

## Modules

Lines without a file are of `ethlink.vhd`; the C files are in `src/mac/sopc/software/source`.

| module | models | source |
|---|---|---|
| `PacketWriter` | what a receiver promises (abstract) | 1814-1879 |
| `Receiver` | the receivers, byte by byte, both formats and kinds of port, with `activate_primitives`; refines `PacketWriter` | 1641-2716 |
| `DelayAlign` | realignment; a receiver is the writer of `PacketWriter` with a FIFO that may be full | 2720-3029, 5909-6054 |
| `PacketCount` | `DelayAlign` composed with packet counting, on the same clock | `Trigger.vhd` 896-950 |
| `MergeFifo` | merge | `Trigger.vhd` 757-1265 |
| `TriggerSlots` | the slot memories, their reads around each merged time, LUT and decision | `Trigger.vhd` 757-893, 1271-2032, `alttriggerLUT.vhd` |
| `Calibration` | calibration requests of a detector | `Trigger.vhd` 622-640, 820-875, 1817-1873 |
| `SendDetectors` | words to the detectors, with choke, error and burst of altTTC | 4253-4567, `altTTC.vhd` |
| `SendBuffer` | `SendDetectors` composed with `SubSendBuffer` over the two memories | 3033-3598 |
| `GeneratePackets` | `SendDetectors` composed with `SubGeneratePackets` over the clock crossing | 3603-4250 |
| `SendFarm` | `GeneratePackets` composed with `SubSendFARM` over `FIFOPACKETS` | 4571-5875 |
| `LineStream` | what a stream promises to the monitor's main loop: whole lines (abstract) | `monitor.c` |
| `Console` | the serial lines, from the device registers to the line buffers and back; each line refines `LineStream` | `monitor.c`, `alt_getch_*.c`, `alt_putstr_*.c`, `altera_avalon_*.c` |
| `Monitor` | main loop, parser, commands and Ethernet streams | `monitor.c` |
| `Positions` | sequences cut at numbered places: the lines of `Console`, the words of `Monitor` | |
| `ReceiverProofs`, `PacketCountProofs` (with `DelayAlign`), `MergeFifoProofs`, `TriggerSlotsProofs`, `SendBufferProofs`, `FarmProofs` (with `SendDetectors`), `CalibrationProofs`, `ConsoleProofs` (with `Monitor`) | theorems | |

`MC*` modules and their `.cfg` files are the instances for TLC. Operators whose name is that of an
operation with a suffix (`WriteEventFirst`, `EndedNoZero`, ...) are mutated forms of the
operation that follows: plausible mistakes, each of which the property it was written for rejects.
No specification uses them.

**State and actions.** A variable has the name of the register, FIFO or memory it models. In
`DelayAlign` and `PacketCount` a step is one 125 MHz clock in which every machine of every detector
moves, as the VHDL does; the next value of a shared register is an operator of its own
(`NextLatency`, `NextMTPNUMREF`, ...) because several copies of the machine assign it and the last
one wins. In `MergeFifo` and `Receiver` steps are those of one machine, interleaved with its
environment. In `SendDetectors` a step is one 40 MHz clock of `altTTC` and `SubSendDETECTORS`
together; every branch of state `S2` is an action, and `Duty` is the priority of the branches. In
`SendBuffer`, `GeneratePackets` and `SendFarm` a step is an edge of either clock: between two slow edges
there are three or four fast ones (125 : 40). In `TriggerSlots` and `Calibration` a step is a 125 MHz clock.
In `Console` it is one access to a device (the program is polled; nothing interrupts it), in
`Monitor` one iteration of the main loop: a character, its echo and, at the end of a line, the command
with all its output. `Console` justifies that grain: whatever happens in the loops that wait, a stream
delivers whole lines. The flags that come in pairs (`sentCHOKE_ON`,
`sentCHOKE_OFF`) are one variable, as they are always each other's complement.

**Data.** Times, identifiers and fine times of primitives are left out or cut to what is compared.
A trigger word is the set of sources that asked for it, an event the set of its sources, its
timestamp and the source whose data it has. Frames are sequences of words and the bytes left
over. A `FIFODELAY` word is header, primitive or end of packet. Whether a primitive is late is a
choice of the environment. In `TriggerSlots` a time is a number of fine steps, its slot, address and tag are
computed from it as the code cuts its bits: the address is the slot modulo the memory, the tag the timestamp over
`PerTag` (2^11), whatever `bit_finetime` is, so that a turn of the memory has `Cells / (PerTimestamp * PerTag)` tags, one for
`bit_finetime` 3, two, four or eight below. A cell of zeros is one of the memory after the sweep. In
`SendFarm` the words of an event are counted, not named. In `Monitor` letters stand for both
cases, an answer for its address and the fact that it has characters, and the bus for the
sequence of accesses.

**Environment.** Detectors send well-formed packets (except in `Receiver`, where frames may be cut
at any byte, and `activate_primitives`, a setting that the end of the extraction clears (`top.vhd` 891), may change at any
byte; elsewhere it is on); the MAC hands them over at any speed; requests to stop come and go at any clock; a
burst ends at any clock after the latency has begun and a new one does not begin before the
memories are reset (the accelerator's pause is seconds, the reset a millisecond). In `TriggerSlots` the
primitives of a window come before its merge, as `PacketCount` shows, at any clock of it, in any order, those of several
detectors also in one clock and two of a detector also in one slot, of which the last survives (header of `Trigger.vhd`, 22-24).
Primitives with bit 15 (`CalibTimes`) are not written to `alignRAM`, yet those of the reference and the control detector are reference times (794-816).
Merged times come in order, as `MergeFifo` shows, each as often as it was received; the control trigger is active
(`activatecontroltrigger`); a window ends (`MayClose`) only when what waits in `MERGEDFIFO` is recent enough for its primitives not to
have been written over; and a burst ends at any clock, the next one begins (`Gate`) when the sweep is over and the reader idle, as bursts are seconds apart. In `Calibration` a detector's primitives are at
least two clocks apart (`SubReadFIFODelay` needs two states for each) and none comes in the first clocks
of a burst (the latency of 200 clocks). Characters are typed and frames arrive at any moment.

## Runs

| run | instance | shows |
|---|---|---|
| `align` | two detectors, one with a packet to skip, which may have one packet less than it needs, one primitive at most, packets in time or at any time, FIFOs of nine words, latency 2, two bursts | `Aligned`: nobody is more than two clocks behind, so no reader misses a window; `OpenTogether`; `WindowCloses`: nobody waits for ever in `waitoutput`; `CountedOnce`, `NumberMatches`, `QuietWhenCounting` for the Trigger module; `Realigned`: the packets of a window are those the user asked for |
| `merge` | two windows, up to two primitives of each detector in two slices, FIFOs of three words | `ExactlyOnce`, `WindowComplete`, `InTimeOrder`, `SameSliceOnce`, `ChokeProtects`, `MergeReturns` |
| `receiver` | two frames, up to three words and any rest, both formats and kinds of port; with a full FIFO, a failing port, or primitives deactivated at any byte | `IsPacketWriter` (refinement); `FramesApart`: one end per frame, never two, one header before its primitives; `FrameReleased` |
| `slots` | memory of eight cells of two fine steps and two tags, two primitives of each detector at any clock, also in one slot, one of the reference perhaps a calibration, two bursts | `Coincidences`: a trigger has exactly the primitives beside its reference time that have its tag; `TriggersAdvance`: one per timestamp, in order; `EachRequestOnce` |
| `calibration` | FIFO of eight words, lag 5, primitives two clocks apart or more, three bursts with calibration on or off | `Prompt`: no request waits behind another and none of an earlier burst is left; `NeverRefused` |
| `calib_kind` | the same | finds a physics primitive that is issued as a calibration trigger |
| `detectors` | every sequence of requests of detectors and farm port, latency 4, dead time 1 | `StopAndResume`, `TriggersKeepDistance`, `ResumesAfterChoke` |
| `resumes` | choke and error | finds that an error request which vanishes in the safe distance stops triggers for the rest of the burst |
| `latency` | ring of six cells, two events, physics requests up to two clocks late and NIM requests one clock ahead | `FixedLatency`, `OwnEvent`, `NothingLeft` |
| `farm` | two bursts, addresses that take up to five fast clocks to cross, words three slow clocks apart or closer, packets of two events in a `FIFOPACKETS` of four, six fast clocks per event, a reset as long as the end of a burst takes at most, a port that may be full | `FarmFollowsDetectors`, `BurstComplete`, `PacketsAreWhole`, `EndTakesAll`, `EndWasSent` |
| `console` | `rxbuffer` of three cells, line buffers of two, both lines, a transmitter that is ready or not | `RingConsistent`; `DeliversLines` (both lines refine `LineStream`); `PutReturns`, `LineServed` |
| `monitor` | two serial lines, two Ethernet ports, right and wrong lines of every command, registers of sixteen values | `LineMeaning`: what is executed is what the line says; `NothingLeft`: no port keeps characters for the next frame; `AnswersSender` |

**Bounds and why they are enough.**

- *Realignment*: the readers only interact through `AllSkipped`, `AllEnded`, `start_latency` and
  the opening of a window, which are symmetric in the detectors but for the one that opens; two
  detectors, one of each kind, show every interaction. With `Latency` 2, the smallest for which the
  theorem holds, there is no slack (the firmware has 200). What grows with the number of detectors
  is proved. FIFOs of nine words hold three packets of this instance; six are enough, and with five
  `WindowCloses` is violated, which is what the assumption on the size of `FIFODELAY` means.
- *Merge*: two times in a window make every comparison (less, equal, greater); two primitives and
  two windows make every way of one source ending before the other and of the next window's
  primitives being there already. A window has at most ten times (`Slices`), so that a time is ten times its
  window and a digit. The level 0 and three words of `MERGEDFIFO` are the least
  room the proof asks for.
- *Receiver*: two frames show what one leaves for the next. A full FIFO and primitives that are deactivated
  are modes of their own: both only make that a word is not written.
- *Slots*: eight cells of two fine steps hold two tags of four slots; slots 0 to 8 reach the boundary between the
  tags, the end of the memory and its second turn. The second detector's times are at both sides of a slot's edge, in slots before, in and
  after that of a reference time, two of them in one slot; a cut of three steps takes some of both neighbours. The time 8 of the
  reference may also be a calibration. Two masks and the control mask make
  every combination of accepted, vetoed and downscaled. `PerTag = 4`, a tag that covers the memory as with `bit_finetime` 3, has as
  many states and holds as well; the proof is for any.
- *Calibration*: eight words are the least for a lag of five; three bursts let what the first one left
  survive an idle second one. The proof is for any values.
- *Detectors*: `Fixed_Latency`, `primitiveDT`, `ResetTime` only lengthen waits. All of them are as
  short as the code allows, so that counters of different requests meet; the proof is for any values.
- *Farm*: `WordGap` 3 is what the dead time and the delays of stop words give in practice; `Sync` 5
  is longer than the crossing of the FIFO; two bursts show what is left of the first one. `EventWords` 6 is
  the longest event for which words three slow clocks apart (nine fast ones) leave the sender idle
  when the next packet is complete: with 7, `PaceAssumption` is false, and without it `PacketsAreWhole`
  is violated. `EOBWords` 5 and `ResetTime` 8 are the least that `EndAssumption` allows then: the end takes as long to send as an address to
  cross, and the reset is just as long as what may have to be sent in it (36 fast clocks). `FIFOPACKETS` of four holds the two packets the proof asks for; in the runs where words
  are closer it is found full, and `ETHLINKERROR` set.
- *Latency*: the ring must be longer than the latency and what is ahead of it, and six cells are
  the shortest for latency 3; the pointer goes round it once in the burst and once in the reset.
  Two cells of `SENDRAM` make addresses come round. Three fast edges per slow one make the busiest
  machine (a request takes three).
- *Monitor*: lines of two characters in buffers of two reach the sacrificed last cell; three cells of `rxbuffer`
  wrap and overflow within two lines; one failed write reaches the time-out. Lines and frames of the
  `monitor` run hold every command with right, missing and wrong arguments, frames cut in a line,
  with several lines and with a character 0.

`CHECK_DEADLOCK FALSE` is there where the behaviour ends with a bound: all frames have been
received, or the bound on bursts makes the clocks stop. `SendBuffer` may ask for a bound of one
burst because `NothingLeft` says that the state before the next one is the initial one.

**Fairness.** `PacketCount`: the clock ticks for ever (`TimeGoesOn`: a parity bit, made to change again and again,
makes a clock in which nothing else changes a step) and a frame which the MAC began to hand
over comes to its end (`HandedOver`); the MAC stores a frame whole before it offers it. `SendDetectors`:
the clock ticks; nothing is assumed of requests, so `ResumesAfterChoke` has to allow for a new one.
`MergeFifo` and `Receiver`: the machine moves when it can, which in hardware is every clock; nothing is
assumed of the environment. `Console` and `Monitor`: the program goes on (the processor runs nothing else);
nothing is assumed of who types, nor of a transmitter, which is why output needs its time-out.
`LineServed` says that a line is served or the other stream never pauses, since the loop leaves a
stream only when it has nothing to say.

## Proofs

All theorems are for any values of the constants that satisfy the named assumptions.

- `ReceiverProofs`: `TypeCorrect`, `FramesApartAlways`, `ImplementsPacketWriter`, for both formats, frames of any
  words that end at any byte, any number of them. `StateInv` says that the two flags of the header count
  the words handled (`Handled`, from the byte position), `SinceInv` that the words since the last end of packet
  are the header and the primitives among the words handled (`PrimSet`). A frame that ends therefore ends
  with `frame.n` primitives if it is a proper one: `Simulates` names, for each word written, the step of
  `PacketWriter` it is. `Rest` and `RestAppend` are the facts about sequences it needs.
- `PacketCountProofs`, first half, about `DelayAlign`: `TypeCorrect`, `AlignedAlways`, `OpenTogetherAlways`, for any finite set of
  detectors, any packets to skip, any latency of at least two clocks, any FIFO size, any number of
  packets and bursts. `Aligned` is itself inductive with `TypeOK`: `Distance` bounds the clocks in
  which a reader is back in `waitdata`, it only grows in a step that opens a window (for all) and
  shrinks while `start_latency` counts, so that it is zero for all when the counter expires.
  `ReaderAligned` is the step of one reader, by the state it is in.
- `PacketCountProofs`, second half: `CountedOnceAlways`, `QuietWhenCountingAlways`, for the same constants. It rests on
  `Aligned` and adds to it: `Owed`, a window that opened is owed its number until `packet_received` is
  taken; `Gate`, nothing of a burst that ended reaches the next one; `Phase`, what holds between a window
  that closes and the next that opens. The heart of it is `Closed`: from the first clock in which a reader
  waits again until all do, `Distance` falls by one each clock (`DistanceFalls`), so that the two clocks in which the counting machine is blind are just enough.
  `RealignedAlways` and `NumberMatchesAlways` follow what is in the FIFOs, with packets in time. `Continues` says
  that some words take a packet from one point to another, word by word, so that what a reader has taken, the words
  in its `FIFODELAY` and the point at which the writer is always make whole packets (`Stream`), and a packet is read when
  its end is (`PacketsReadStep`). `Ahead` adds where each reader is: how many packets it has skipped, been
  through and begun, and that the packet of a window is there for every detector when the window
  opens, because the detector that opens it is the last to send (`FramesFirst`). `Settled` is for the numbers: all
  received primitives of a window are in `MTPNUMREF` when all readers have ended, and in `MTPNUMREF_in` when
  they are stored; `QuietWhenCounting` keeps the next window out of it.
- `MergeFifoProofs`: `ChokeProtectsAlways`, `ExactlyOnceAlways`, `WindowCompleteAlways`, `InTimeOrderAlways`,
  `SameSliceOnceAlways`, for any FIFO sizes and levels, any number of primitives and windows, one detector or two.
  For the first one the inductive invariant `Room` says that with the flag
  down at most one word stands above its level, with the flag up at most two; three words of
  room are needed, not two, because the flag is sampled in a clock in which a word may be written.
  The others rest on `MInv`, which speaks of a `Queue` for each source: the word at the output of its FIFO, if it has been read and
  not selected (`Held`), before those in the FIFO; a read does not change it (`ReadOrdered`), nor
  does a window that begins (`WaitOrdered`). `Queued`: it holds the primitives received and not selected, in order of time;
  `Counts`: there are numbers `E`, how many primitives came before each window, that the numbers stored
  and the times both tell; a source that is finished therefore has only primitives of later windows, which is why a word of the
  other one may be taken without comparing (`SelectOrdered`). `Merged` and `Joined` are the properties themselves, with
  what they say of words still to come. `TakenOf` is all that is used of the comparison.
- `TriggerSlotsProofs`: `TriggersAdvanceAlways`, `EachRequestOnceAlways`, `CoincidencesAlways`, for any masks, downscalings, cuts, sizes of
  memory and FIFO, any primitives at any time. `SubTrigger` compares a timestamp with that of the last trigger only, which is enough because
  reference times go through `MERGEDFIFO`, the reader and the LUT in the order of slots (`SlotsInOrder`), so that no
  trigger is later than what has still to be decided (`TriggersBehind`); timestamps grow with slots (`TimestampGrows`). `OneAnswer`: the
  LUT answers when the reader has begun anew, hence not twice in a row, and `control_signal` is down by then.
  `CoincidencesAlways` rests on `CollectionInv`, which TLC checked on the instance of `slots` first. Its parts: `Swept`, a burst
  begins with a memory that is empty but for the last cell of each detector and an idle reader; `Memory`, during a burst each detector's cells
  give the latest primitive of their address (`Holds`; one for each slot in `got`), and otherwise nothing, or, in the last cell, what an earlier burst left; nothing received reaches round the memory to a
  slot that is merged, waits or is read (`Fits`, which `MayClose` keeps: it is the condition under which the promise is made); `Reader`, the registers in each state: the cell that was read gives its slot (`Gives`, `Has`), whether or not the clock's own writes were seen, for each detector
  for itself (`CellOfSlot`, `ReadStep`), the registers have what was read a clock earlier (`Holding`), and the LUT `Collects` the slots of two clocks
  earlier, `Stray` cells apart. The leading detector's primitive, if there is one, is of a window that is over, so that no later one
  replaces it (`ReferredStays`). Two facts about numbers carry it: of the
  cells read for N, N-1 and N+1, one with the tag of N is of that slot, unless it is at the other end of the memory (`SameTag`,
  `Neighbours`), which leaves cell 0 read for N+1, as nothing reaches round to N-1, and the difference that the LUT computes modulo the range of `timetocompare` is the true one, because that range is more than twice two slots (`DistanceOK`);
  hence `Compared >= 4` (2^11 in the code), and `PerTag * PerTimestamp <= Cells` (equal for `bit_finetime` 3) and `PerWindow <= Cells` (a window, 6.4 us, fits into the memory) in
  `SizeAssumption`. The cut itself may be any: primitives of slots N-1 to N+1 are never so far apart that the sign bit is met.
- `FarmProofs`, first part, about `SendDetectors`: `TypeCorrect`, `StopAndResumeAlways`, `TriggersKeepDistanceAlways`, for any
  settings, latency, dead time and reset time. The properties are not inductive, as they speak of
  words sent long ago. `IInv` adds: `Told`, the flags say what the detectors were told; `Behind`, the
  pointer is no further from the last trigger than the clock; `Safe`, the safe distance is reset
  with every stop and counts from the last resume; `Resets`, the reset between bursts takes longer
  than the safe distance, so that a new burst need not wait.
- `FarmProofs`, the rest: `BurstCompleteAlways`, `SenderKeepsFarm`, `FarmFollowsDetectorsAlways`, `PacketsAreWholeAlways`,
  `EndTakesAllAlways`, `EndWasSentAlways`, for any size of packet and event, time to cross, latency and reset. All of them speak of runs in which
  words are `WordGap` apart, and `WordGap` is any number that satisfies `GapAssumption` (a word is written before the next
  one, and the reset outlasts the last) and `PaceAssumption` (a packet is sent while the next one fills); these
  are conditions of the promise, not facts about the code, which sends words as close as it likes. With the
  firmware's twelve words per event `WordGap` is five slow clocks, 125 ns.
  `FInv` is about the announcements. The clocks since the last word (`Clocks`) bound the state of the machine (`Pace`):
  `deadtime_0` is over before the next word can be seen, which is why a machine that looks only when it is idle
  misses none. `Due` says what the state has to do with the FIFO between the clocks: at most one word is due, its address is
  the only one in `FIFODETECTORFARM` and has waited as long as the word (`Waits`), so that it is there when
  `SetFarmAddress` reads it. `SInv` is about the packets. `Whole` (`PacketsAreWhole` itself) is disturbed only by a packet that is full while
  the last one is still being sent; `InTime` excludes it with a sum, the clocks the sender has left, the clocks in which
  the next packet's words came and the clocks since the last, which no step increases: a word that comes moves `WordGap` clocks from the
  third term to the second, and every other clock moves one from the first to the third. `Quiet` and `Ending` do the same for the end of the burst.
  `EInv` is about the reset (`Closing`). `EndLeft` counts the fast clocks that the sender needs until the last word of the end of the burst, at most: the packet it is sending,
  one more that the last event may complete, the events left, the end. Each fast clock makes it one less, once `eob_ev125` is seen
  (`Nearer`), and the clocks of the reset are more by `EndAssumption`, which the firmware meets amply (40000 slow clocks against a few
  thousand fast ones). That the end is sent only once needs the other half of the assumption: an event that is still on its way when
  the end is begun is written before its last of about 250 words (`Written`), so that nothing is owed (`Owed`) that could complete a packet and wake the sender after it.
  `SenderKeepsFarm` is a refinement: `SendFarm`'s steps are those of `GeneratePackets` with the full flag that `FIFOPACKETS` has.
- `SendBufferProofs`: `BufferTypeCorrect`, `NothingLeftAlways`, `FixedLatencyAlways`, `OwnEventAlways`, for any ring, latency, lateness of physics
  requests, `calib_latency` of either sign, sizes of both memories, reset time and numbers of fast edges in a slow one that
  `RingAssumption` allows. Everything is said by distance: `Ahead(c, now)`, the clocks until the cell `c` is due, which
  a slow edge makes less by one and turns from zero to the whole ring (`AheadNext`); the pointer is always one cell ahead of what
  is due (`Times`). `Requests`: while the latency has not passed, no cell is asked for that is due before it
  has; during the reset none that the sweep has passed; a request in progress is written before its cell is read. `Held`: a cell
  holds a word only while it is asked for. `Settling`: the last request is taken `Late` clocks after the end of the burst at most, and the
  machine is at rest three clocks later. As the reset goes round the ring, nothing is left. `Match`, a cell that is
  not due holds the words of all its requests, is what `FixedLatency` needs, and needs a hypothesis, `AlwaysReads`: a NIM
  calibration with `calib_latency` 0 does not read its cell, and the property is false then (see below). `OwnEvent` needs it too.
  `Events` is its invariant: every event that waits has an address of its own (`Apart`) which is `SendSize` back from `addressfarm` at most
  (`Stay`, `Back`), so that no two are in one cell of `SENDRAM`, although the word of an event is at one time in `LATENCYRAM`, at another only
  in the output of its port b (`SlowAddresses`). An event that is begun needs `SendSize` addresses for itself and the others, which is the promise in
  `MayAsk`, an assumption about the rate of triggers that nothing in the code checks.
  The proof found that the model accepted timestamps from before a burst which is shorter than `Late`; `MayAsk`
  now says that timestamps are those of the burst.
- `CalibrationProofs`: `TypeCorrect`, `PromptAlways`, `NeverRefusedAlways`, for any FIFO, lag, distance of
  primitives and length of the quiet time that satisfy `SizeAssumption`, any number of bursts. `IInv` has two
  halves. While a burst is quiet (`Draining`), what is left of earlier ones falls by a word in two
  clocks (`Empties`: words left and clocks to go), so that it is gone before the quiet time ends; this is where
  `Quiet > 2 * Size + Lag + 1` is needed. From then on (`Steady`) every word of `FIFOCALIB` is of this
  burst (`Fresh`), is read as soon as it is seen (`InTime`) and is two clocks apart from the next
  (`Apart`), which bounds the number of words by the lag (`Room`, `FewWords`), hence a FIFO that is never full.
- `ConsoleProofs`: `TypeCorrect`, `RingConsistentAlways`, for any sizes of the buffers, any time-out, any answers
  of the program and any characters on the lines. `RingInv` says that `wrptr`, which only a poll moves, is always
  `rxbuflen` cells behind `rdptr`; it makes the occupied cells a matter of `rdptr` and the length alone.
  `LineInv` ties `rdindex`, `buflen` and the characters of a line buffer, and `LoopInv` says that the loop of
  `rs232_uart_getch` has a character for each of its turns, although it polls between them.
  `DeliversLinesAlways` is the refinement: every step of the program is, for each of the two lines, a step of
  `LineStream` or none (`StreamSteps`). The lines that wait are read off the state: what is unread is the line buffer, if it is not ready,
  before what waits in the device, and it is cut into lines at its ends (`CompleteLines`). The k-th line lies
  between the ends k - 1 and k, and the k-th end is the one with k ends up to it (`Nth`, with `Rank`, its inverse), so that
  nothing has to be said by induction over characters: a character that arrives adds an end after all others or
  none; one that is moved to the line buffer changes nothing (`Unread` is the same); an end that is stored makes the
  buffer's line the first complete line, cut to the buffer as the code cuts it (`EndedIsCut`). `StreamInv` is what this
  needs beyond `IInv`: a buffer that is not ready holds no end of a line, and `flagfull` is set only in a full buffer that is not
  ready (`UnfinishedInv`), and `rs232_uart_getch` gives up only with a buffer that is not ready (`NoneInv`).
  A line that comes into `rxbuffer` is given to `LineStream` when its end arrives there, not when it is stored, so that
  polls from the output loops are steps like any other.
- `ConsoleProofs`, second half, about `Monitor`: `NothingLeftAlways`, `AnswersSenderAlways`, `LineMeaningAlways`, for any number of ports,
  any sources, any lines and frames of any characters, any width of the registers. `NothingLeft` is
  inductive once the line so far is known to be a sequence (`OutputInv`): an answer ends with `output_send` in
  every branch of `cmdexec` (`EveryAnswerSends`). For `LineMeaning` the invariant is `MeaningInv`: the state of the parser
  is that of the `Words` of the characters since it restarted (`Parsed`), after a blank (`Outside`) or in a word (`Inside`).
  What the parser keeps from earlier lines (`cmd0`, `arg`, `dat`) is not mentioned in a state in which it is not
  yet written, except that `narg`, `dat` and `argflag` are those of this line from state 3 on; that is what a missing reset would break.
  Words are stated by the positions where they start and stop, so that one more character leaves them as they are, begins one
  (`NewWord`) or makes the last one longer (`MoreWord`); for each there is a lemma per state of the parser. At most `MaxArg` arguments are kept, but the
  words go on, and a wrong character in one too many is an error as well.
  The number that a word writes is defined by recursion on its characters. Instead of an induction, `MeaningInv` carries the function of
  the numbers of its parts (`HasValue`), which a digit extends, and `PartValuesUnique` says that there is only one.
  It uses `HexAssumption`: no blank is a hexadecimal character.
  At the end of a line `Decoded` then agrees with `Meaning`, command by command. `HasValue` and `LineSeq` quantify over
  everything, which TLC cannot do; it checks `LineMeaning` and `NothingLeft` themselves.

Every invariant, step property and refinement of the runs is proved, except those of the two runs that find them violated.
Only model-checked is liveness: `WindowCloses`, `MergeReturns`, `FrameReleased`, `ResumesAfterChoke`, `PutReturns`,
`LineServed`. The installed provers have no rules for `ENABLED`, which fairness is made of. The type
invariants of `SendDetectors` and `Calibration` are proved and have no run; those
of the other modules are stated with them and hold in their instances. Nor can the provers do induction over sequences, as the
induction theorems of the library take an operator; where the proofs above speak of sequences of any length, they use
positions, cardinalities or a function carried in the invariant instead.

## Where code and comments differ

The runs with expected violations show, with a trace:

1. `resumes`: an error request of up to three clocks in the safe distance after a resume clears
   `RESTART`; no branch sets it again and triggers stop until the end of the burst.
2. `calib_kind`: after reading a request the calibration machine assigns the *input* register `primitiveID`
   (`Trigger.vhd` 1869) instead of its output `primitiveID_c`; a physics primitive of the next clock is taken
   for a calibration. `primitiveID_c` is never assigned, so that `ethlink.vhd` 3315 sends 0 for it.

A change of one constant, or one more line in a `.cfg`, makes TLC show these:

- `NumberMatches` without its premise `inTime`: a detector without a packet in a window hands over the
  number of its previous packet (`ethlink.vhd` 3018), against "the number of primitive contained in
  the packet" (`Trigger.vhd` 40-42);
- `CalibLatency = 0` in `MCSendBuffer.cfg`: a NIM request does not read `LATENCYRAM` and acts on the output
  of an earlier read, against the comment at 3391-3396 (`FixedLatency`);
- `FifoSize = 5` in `MCPacketCount.cfg`: the end-of-packet word is written to a full `FIFODELAY` and lost (1873),
  and the window never closes (`WindowCloses`);
- `EventWords = 7` in `MCSendFarm.cfg`, without `PaceAssumption`: a packet that is complete while the sender is busy is not begun, and
  all later ones hold older events (4245, 4610; `PacketsAreWhole`);
- `EndTakesAll` without its premise `settled`: an event still on its way when the end of the burst is noticed is
  sent in no packet;
- `Coincidences` without its exemption `Stray`: the sweep after a burst does not write the last cell (2018), and, with
  `PerTag = 4`, after the last cell the code reads cell 0 with the tag of the reference time (`Trigger.vhd` 1701), against
  the comment at 1328-1331;
- `Coincidences` without its premise that the leading detector has a primitive in the slot: a primitive of the reference with bit 15
  set is a reference time (796) but not in `alignRAM` (816), and the others are compared with time 0, the start of a slot or
  another slot's primitive;
- `Coincidences` with neighbours of any tag (`Coincident` without its first conjunct): the tag compared is `timestamp(29..11)` whatever
  `bit_finetime` is (833, 1397, 1555, 1701), so for `bit_finetime` below 3 the neighbours across each multiple of
  2^(11 + `bit_finetime`) slots, within the memory, are missed; for 3 only those across the end of the memory;
- `HeaderFirst` of `Receiver` without its premise that primitives stay active: deactivated at the end of a frame and active again
  in the next, a receiver runs the two together (`ethlink.vhd` 1872, 2379).

Met while modelling, and part of the models, but without a run of their own:

- several boards late in one window: only the last one's bit is set in `ETHLINKERROR` (3004-3015);
- the almost-full flag of `MERGEDFIFO` has two levels in the comments (`Trigger.vhd` 1058-1061) and one
  in effect, as both other branches clear it;
- in `S3` the cells of `SENDRAM` are to be cleared (4540-4542), but `SubGeneratePackets`, called later,
  sets the write enable of that port to 0 (3615), so they are not; no event is read that was not written;
- the word to the detectors for the end of an error has the code of the end of a choke, while the farm
  has a code of its own for it;
- two words to the detectors in fewer than three slow clocks (an end of choke and an end of error in
  adjacent clocks) may lose the second event, `apart` in `GeneratePackets`;
- in the first `primitiveDT + 1` clocks of the read pointer no trigger is sent, as the distance is counted
  from address 0;
- `addressfarm` begins again at the end of a burst (3174), one clock before the last trigger may be sent,
  whose event is then open to a late request; `OwnEvent` excludes that clock;
- a request to stop that vanished leaves its clocks in `CHOKE_ON_Delay`, so the next stop word follows a
  trigger sooner than "Wait 3 timestamp" (4370-4373);
- with primitives inactive nothing is written at the end of a frame, except by `SubReceiveRGMII64bit` (2667-2671) and for frames that end
  within a word (1733); `SubReceive32bit` stays in `S3_4` with the second word of a header (1818-1836) and takes its last byte
  for the identifier of a primitive in the next clock, which it writes if primitives are active again by then;
- a read port that becomes not ready between two words leaves a packet without end (1881), and a header
  that was not complete survives into the next frame (1704);
- `PacketHeader` drops a packet to the farm whose port is full (4651);
- a backlog in `MERGEDFIFO` longer than a turn of the memory reads slots that were written over
  (`Trigger.vhd` 1317), a reference time whose slot is the one read last is skipped, also the first of a burst
  in slot 0 (1349), and a primitive that finds `REFERENCEFIFO` full is lost (798);
- a physics trigger later than the latency is written behind the read pointer and goes out after the pointer has
  gone round (`ethlink.vhd` 2966);
- the LUT joins the identifiers of the slots it collects by OR (`alttriggerLUT.vhd` 280);
- numbers of primitives are counted modulo 256 (2969);
- calibration requests of several detectors in one clock get timestamp 0 (3351), and requests left in
  `FIFOCALIB` go out in a later burst (`Trigger.vhd` 2047-2090 does not clear it);
- a control request in the clock in which the burst ends stays up until the next one (2016);
- in the monitor a line whose command has one character repeats the last command (`cmdexec` tells
  `sts` 0 and 101 apart only), and `eth_srcaddr` is shared by all ports (`monitor.c` 334): it is right
  because a frame is answered before another is opened.

## Plan

Modelled so far: the way of a primitive's packet into the trigger logic, through merge, slots and
decision, and of a trigger out of it to detectors and farm, calibration requests, and the monitor. Next:

1. `TriggerSystem`, an end-to-end abstraction: timestamps asked for, words sent, events told; `SendBuffer`
   and `GeneratePackets` as its refinements, and `TriggerSlots` with `SendBuffer` for the requests that
   outlive a burst (2016) or meet in one clock (3351).
2. `SubSynch` and `SubMirror`, if somebody uses those modes.

## Not modelled

- The MAC library ("considered a black box" in the header of `ethlink.vhd`), the vendor's and generated code.
  The C files of the repository are of two kinds: the monitor program with the small drivers it is linked
  with, which `Console` and `Monitor` model, and the vendor's board support package (HAL, headers, fast
  drivers, profiler), of which the program links next to nothing. The program proper is VHDL; a
  count of C lines says little about how much of it is modelled.
- The USB interface: its registers are the constants.
- Monitoring counters, layout of packets to the farm, the wording of the monitor's answers.
- `SubSynch`, a commissioning mode without latency; `SubMirror`, a debug output; clock dividers; generators of periodic
  and random requests, whose times are data to the rest.
- The play-back variant of the design, an older copy of it.
