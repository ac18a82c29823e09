-------------------------- MODULE Rs485LinkProofs --------------------------
(***************************************************************************)
(* Proofs about the RS-485 link, for every timing, every set of devices    *)
(* and every number of noise bytes that the assumptions of Rs485Link allow.*)
(***************************************************************************)
EXTENDS Rs485Link, PollScheduleProofs

\* Only TIMER6's handler touches the schedule, and it makes a step of it.
LEMMA LinkStepIsPollStep == [LinkNext]_linkVars => [PollNext]_pollVars
  <1> SUFFICES ASSUME [LinkNext]_linkVars PROVE [PollNext]_pollVars
    OBVIOUS
  <1>1. CASE Qwerty_all_Device
    BY <1>1 DEF Qwerty_all_Device, QueryBKD, QueryBKHO_A, QueryOutServo, PollNext
  <1>2. CASE Advance
    BY <1>2 DEF Advance
  <1>3. ASSUME NEW p \in Ports, EndRx(p) \/ TxEnd(p) \/ USART_IRQHandler(p)
        PROVE  UNCHANGED pollVars
    BY <1>3 DEF EndRx, TxEnd, USART_IRQHandler
  <1>4. CASE Chatter \/ Glitch \/ SwitchBuffer
    BY <1>4 DEF Chatter, Glitch, SwitchBuffer
  <1>5. CASE UNCHANGED linkVars
    BY <1>5 DEF linkVars
  <1> QED BY <1>1, <1>2, <1>3, <1>4, <1>5 DEF LinkNext, Handlers

\* The link implements the schedule: late, damaged and missing answers, noise and
\* the frames on USART0 never change the order in which devices are polled.
THEOREM LinkImplementsPoll == LinkSpec => PollSpec
  <1>1. LinkInit => PollInit
    BY DEF LinkInit
  <1> QED BY <1>1, LinkStepIsPollStep, PTL DEF LinkSpec, PollSpec

\* So the link inherits the invariant of the schedule.
LEMMA LinkPollInv == LinkSpec => []PollInv
  BY LinkImplementsPoll, PollInvariant, PTL

-----------------------------------------------------------------------------
\* The ports, their silence timers and the sizes.
LEMMA PortFacts ==
    /\ "USART0" \in Ports /\ "USART5" \in Ports
    /\ \A p \in Ports : GAP[p] \in Nat /\ GAP[p] > 1
    /\ GAP["USART5"] = GAP_USART5
    /\ RxTimer["USART5"] = "TIMER4" /\ RxTimer["USART0"] = "TIMER2"
    /\ TxDma["USART5"] = "DMA1_CH6" /\ TxDma["USART0"] = "DMA1_CH7"
    /\ Ports \subseteq IRQ
    /\ \A p \in Ports : RxTimer[p] \in IRQ /\ TxDma[p] \in IRQ
  BY LinkAssumption DEF Ports, GAP, RxTimer, TxDma, IRQ

\* Noise and the quiet line have the types of bytes and of lines.
LEMMA ByteTypes ==
    /\ NoFrame \in Frames
    /\ Noise \in Bytes
    /\ Quiet \in [frame : Frames, wait : Nat, sent : Nat]
  BY AddressPlan, SMT DEF NoFrame, Noise, Quiet, Frames, Bytes

\* The devices that a poll or a reply may concern have health bits.
LEMMA HealthBits ==
    ASSUME PollTypeOK
    PROVE  /\ current_BKD < IN_TOTAL_BKD =>
                  AdrBKD(current_device_in_BKDx, current_BKD) \in Devices
           /\ BKHO_A \subseteq Devices
           /\ \A m : Check_message_UART(m) \subseteq Devices
  <1>1. current_BKD < IN_TOTAL_BKD =>
            AdrBKD(current_device_in_BKDx, current_BKD) \in Devices
    <2> SUFFICES ASSUME current_BKD < IN_TOTAL_BKD
                 PROVE  AdrBKD(current_device_in_BKDx, current_BKD) \in Devices
      OBVIOUS
    <2>1. current_BKD \in Blocks
      BY AddressPlan, SMT DEF PollTypeOK, Slots, Blocks
    <2>2. current_device_in_BKDx \in 1 .. DEVICE_IN_BKD
      BY DEF PollTypeOK
    <2> QED BY <2>1, <2>2, BlockRange, AddressPlan, SMT DEF Devices
  <1>2. BKHO_A \subseteq Devices
    BY AddressPlan, SMT DEF BKHO_A, Devices
  <1>3. ASSUME NEW m PROVE Check_message_UART(m) \subseteq Devices
    BY <1>1, <1>2 DEF Check_message_UART, Check_message_BKD, Check_message_BKHO_A
  <1> QED BY <1>1, <1>2, <1>3

\* LinkInit => LinkTypeOK.
LEMMA LinkInitType == LinkInit => LinkTypeOK
  <1> SUFFICES ASSUME LinkInit PROVE LinkTypeOK
    OBVIOUS
  <1>1. PollTypeOK
    BY PollInitInv DEF LinkInit, PollInv
  <1>2. clk \in 0 .. SLOT - 1
    BY LinkAssumption, LatencyBudget, SMT DEF LinkInit
  <1>3. dma \in [Ports -> 0 .. TX_SIZE]
    BY LinkAssumption, SMT DEF LinkInit
  <1>4. rx \in [Ports -> Seq(Bytes)] /\ rdr \in [Ports -> Bytes]
    BY ByteTypes DEF LinkInit
  <1>5. timer \in [Ports -> Nat] /\ \A p \in Ports : timer[p] <= GAP[p]
    <2>1. PICK t \in 0 .. GAP_USART5 :
              timer = [p \in Ports |-> IF p = "USART5" THEN t ELSE GAP[p]]
      BY DEF LinkInit
    <2>2. t \in Nat /\ t <= GAP["USART5"]
      BY PortFacts, LinkAssumption, SMT
    <2> QED BY <2>1, <2>2, PortFacts, SMT
  <1>6. bus \in [Ports -> [frame : Frames, wait : Nat, sent : Nat]]
    BY ByteTypes DEF LinkInit
  <1>7. glitches \in Nat /\ noisy \in BOOLEAN
    BY DEF LinkInit
  <1>8. m0addr \in Slots
    BY AddressPlan, SMT DEF LinkInit, Slots
  <1>9. pend \subseteq IRQ
    BY DEF LinkInit, IRQ
  <1> QED
    BY <1>1, <1>2, <1>3, <1>4, <1>5, <1>6, <1>7, <1>8, <1>9 DEF LinkInit, LinkTypeOK

\* The line one byte time later is a line.
LEMMA LineAfterType ==
    ASSUME NEW line \in [frame : Frames, wait : Nat, sent : Nat]
    PROVE  LineAfter(line) \in [frame : Frames, wait : Nat, sent : Nat]
  <1>1. CASE Silent(line)
    BY <1>1 DEF LineAfter
  <1>2. CASE ~Silent(line) /\ line.wait > 0
    BY <1>2, SMT DEF LineAfter
  <1>3. CASE ~Silent(line) /\ ~(line.wait > 0)
    BY <1>3, SMT DEF LineAfter
  <1> QED BY <1>1, <1>2, <1>3

\* The passing of time keeps the types.
LEMMA AdvanceType == LinkTypeOK /\ Advance => LinkTypeOK'
  <1> SUFFICES ASSUME LinkTypeOK, Advance PROVE LinkTypeOK'
    OBVIOUS
  <1>1. PollTypeOK'
    BY DEF LinkTypeOK, Advance, pollVars, PollTypeOK
  <1>2. clk' \in 0 .. SLOT - 1
    BY LinkAssumption, SMT DEF LinkTypeOK, Advance
  <1>3. dma' \in [Ports -> 0 .. TX_SIZE]
    BY LinkAssumption, SMT DEF LinkTypeOK, Advance
  <1>4. timer' \in [Ports -> Nat] /\ \A p \in Ports : timer'[p] <= GAP[p]
    <2>1. timer \in [Ports -> Nat] /\ \A p \in Ports : timer[p] <= GAP[p]
      BY DEF LinkTypeOK
    <2>2. timer' = [p \in Ports |-> IF timer[p] > 0 THEN timer[p] - 1 ELSE 0]
      BY DEF Advance
    <2>3. ASSUME NEW p \in Ports PROVE timer'[p] \in Nat /\ timer'[p] <= GAP[p]
      BY <2>1, <2>2, PortFacts, SMT
    <2> QED BY <2>2, <2>3
  <1>5. bus' \in [Ports -> [frame : Frames, wait : Nat, sent : Nat]]
    BY LineAfterType DEF LinkTypeOK, Advance
  <1>6. rdr' \in [Ports -> Bytes]
    <2> SUFFICES ASSUME NEW p \in Ports
                 PROVE  [frame |-> bus[p].frame, i |-> bus[p].sent + 1] \in Bytes
      BY DEF LinkTypeOK, Advance
    <2> QED BY SMT DEF LinkTypeOK, Bytes
  <1>7. pend' \subseteq IRQ
    <2>1. "TIMER6" \in IRQ
      BY DEF IRQ
    <2> QED BY <2>1, PortFacts DEF Advance
  <1> QED
    BY <1>1, <1>2, <1>3, <1>4, <1>5, <1>6, <1>7 DEF LinkTypeOK, Advance

\* The poll keeps the types.
LEMMA QwertyType == LinkTypeOK /\ PollInv /\ Qwerty_all_Device => LinkTypeOK'
  <1> SUFFICES ASSUME LinkTypeOK, PollInv, Qwerty_all_Device PROVE LinkTypeOK'
    OBVIOUS
  <1>1. PollTypeOK'
    <2>1. PollNext
      BY DEF Qwerty_all_Device, QueryBKD, QueryBKHO_A, QueryOutServo, PollNext
    <2> QED BY <2>1, PollNextInv DEF PollInv
  <1>2. pend' \subseteq IRQ
    BY DEF LinkTypeOK, Qwerty_all_Device, Serve
  <1>3. dma' \in [Ports -> 0 .. TX_SIZE] /\ m0addr' \in Slots
    <2>1. TX_SIZE \in 0 .. TX_SIZE
      BY LinkAssumption, SMT
    <2>2. current_BKD' \in Slots
      BY <1>1 DEF PollTypeOK
    <2> QED BY <2>1, <2>2 DEF LinkTypeOK, Qwerty_all_Device, StartTransmit
  <1>4. transmit' \in [Ports -> BOOLEAN] /\ dir' \in [Ports -> {"tx", "rx"}]
    BY Zenon DEF LinkTypeOK, Qwerty_all_Device, StartTransmit
  <1>5. health' \in [{0, 1} -> SUBSET Devices]
    BY DEF LinkTypeOK, Qwerty_all_Device, QueryBKD, QueryBKHO_A, QueryOutServo, ClearHealth
  <1>6. glitches' \in Nat
    BY PortFacts DEF LinkTypeOK, Qwerty_all_Device
  <1> QED
    BY <1>1, <1>2, <1>3, <1>4, <1>5, <1>6 DEF LinkTypeOK, Qwerty_all_Device, rxVars

\* The end of a transmission keeps the types.
LEMMA TxEndType == ASSUME NEW p \in Ports PROVE LinkTypeOK /\ TxEnd(p) => LinkTypeOK'
  <1> SUFFICES ASSUME LinkTypeOK, TxEnd(p) PROVE LinkTypeOK'
    OBVIOUS
  <1>1. PollTypeOK'
    BY DEF LinkTypeOK, TxEnd, pollVars, PollTypeOK
  <1>2. pend' \subseteq IRQ
    BY DEF LinkTypeOK, TxEnd, Serve
  <1>3. transmit' \in [Ports -> BOOLEAN] /\ dir' \in [Ports -> {"tx", "rx"}]
    BY Zenon DEF LinkTypeOK, TxEnd
  <1>4. bus' \in [Ports -> [frame : Frames, wait : Nat, sent : Nat]]
    <2>1. CASE UNCHANGED bus
      BY <2>1 DEF LinkTypeOK
    <2>2. CASE bus' = [bus EXCEPT !["USART5"] = Quiet]
      BY <2>2, ByteTypes DEF LinkTypeOK
    <2>3. ASSUME Heard \in Responders,
                 NEW n \in ReplyLengths, NEW ok \in BOOLEAN, NEW w \in 0 .. MaxLatency,
                 bus' = [bus EXCEPT !["USART5"] =
                            [frame |-> [from |-> Heard, n |-> n, ok |-> ok],
                             wait |-> w, sent |-> 0]]
          PROVE  bus' \in [Ports -> [frame : Frames, wait : Nat, sent : Nat]]
      <3>1. Heard \in 0 .. AND_ADR_OUT_SERVO /\ n \in Nat /\ w \in Nat
        BY <2>3, LinkAssumption, AddressPlan, SMT DEF Devices
      <3>2. [from |-> Heard, n |-> n, ok |-> ok] \in Frames
        BY <3>1 DEF Frames
      <3> QED BY <2>3, <3>1, <3>2 DEF LinkTypeOK
    <2> QED BY <2>1, <2>2, <2>3 DEF TxEnd, Answer
  <1> QED
    BY <1>1, <1>2, <1>3, <1>4 DEF LinkTypeOK, TxEnd, rxVars

\* A received byte keeps the types.
LEMMA UsartType == ASSUME NEW p \in Ports
                   PROVE  LinkTypeOK /\ USART_IRQHandler(p) => LinkTypeOK'
  <1> SUFFICES ASSUME LinkTypeOK, USART_IRQHandler(p) PROVE LinkTypeOK'
    OBVIOUS
  <1>1. PollTypeOK'
    BY DEF LinkTypeOK, USART_IRQHandler, pollVars, PollTypeOK
  <1>2. pend' \subseteq IRQ
    BY DEF LinkTypeOK, USART_IRQHandler, Serve
  <1>3. Stored(p) \in Seq(Bytes)
    BY DEF LinkTypeOK, Stored
  <1>4. rx' \in [Ports -> Seq(Bytes)]
    <2>1. rx \in [Ports -> Seq(Bytes)] /\ <<>> \in Seq(Bytes)
      BY DEF LinkTypeOK
    <2>2. rx' = [rx EXCEPT ![p] = Stored(p)] \/ rx' = [rx EXCEPT ![p] = <<>>]
      BY DEF USART_IRQHandler, StoreWhileTransmitting, StoreAndRestart, StoreAndDrop
    <2> QED BY <1>3, <2>1, <2>2
  <1>5. timer' \in [Ports -> Nat] /\ \A q \in Ports : timer'[q] <= GAP[q]
    <2>1. timer \in [Ports -> Nat] /\ \A q \in Ports : timer[q] <= GAP[q]
      BY DEF LinkTypeOK
    <2>2. \/ timer' = timer
          \/ timer' = [timer EXCEPT ![p] = 0]
          \/ timer' = [timer EXCEPT ![p] = GAP[p]]
      BY DEF USART_IRQHandler, StoreWhileTransmitting, StoreAndRestart, StoreAndDrop
    <2>3. GAP[p] \in Nat /\ 0 <= GAP[p] /\ GAP[p] <= GAP[p]
      BY PortFacts, SMT
    <2> QED BY <2>1, <2>2, <2>3
  <1>6. timerEn' \in [Ports -> BOOLEAN]
    BY Zenon
       DEF LinkTypeOK, USART_IRQHandler, StoreWhileTransmitting, StoreAndRestart, StoreAndDrop
  <1> QED
    BY <1>1, <1>2, <1>4, <1>5, <1>6 DEF LinkTypeOK, USART_IRQHandler

\* The end of a reception keeps the types.
LEMMA EndRxType == ASSUME NEW p \in Ports PROVE LinkTypeOK /\ EndRx(p) => LinkTypeOK'
  <1> SUFFICES ASSUME LinkTypeOK, EndRx(p) PROVE LinkTypeOK'
    OBVIOUS
  <1>1. PollTypeOK'
    BY DEF LinkTypeOK, EndRx, pollVars, PollTypeOK
  <1>2. pend' \subseteq IRQ
    BY DEF LinkTypeOK, EndRx, Serve
  <1>3. health' \in [{0, 1} -> SUBSET Devices]
    <2>1. Check_message_UART(rx[p]) \subseteq Devices
      BY HealthBits DEF LinkTypeOK
    <2> QED BY <2>1 DEF LinkTypeOK, EndRx
  <1>4. rx' \in [Ports -> Seq(Bytes)]
    BY DEF LinkTypeOK, EndRx
  <1>5. timer' \in [Ports -> Nat] /\ \A q \in Ports : timer'[q] <= GAP[q]
    <2>1. timer \in [Ports -> Nat] /\ \A q \in Ports : timer[q] <= GAP[q]
      BY DEF LinkTypeOK
    <2>2. timer' = [timer EXCEPT ![p] = 0]
      BY DEF EndRx
    <2>3. 0 <= GAP[p]
      BY PortFacts, SMT
    <2> QED BY <2>1, <2>2, <2>3
  <1>6. timerEn' \in [Ports -> BOOLEAN]
    BY Zenon DEF LinkTypeOK, EndRx
  <1> QED
    BY <1>1, <1>2, <1>3, <1>4, <1>5, <1>6 DEF LinkTypeOK, EndRx

\* What comes in unasked, and the switch of buffers, keep the types.
LEMMA OtherTypes == LinkTypeOK /\ (Chatter \/ Glitch \/ SwitchBuffer) => LinkTypeOK'
  <1> SUFFICES ASSUME LinkTypeOK, Chatter \/ Glitch \/ SwitchBuffer PROVE LinkTypeOK'
    OBVIOUS
  <1>1. PollTypeOK'
    BY DEF LinkTypeOK, Chatter, Glitch, SwitchBuffer, pollVars, PollTypeOK
  <1>2. CASE Chatter
    <2> SUFFICES bus' \in [Ports -> [frame : Frames, wait : Nat, sent : Nat]]
      BY <1>1, <1>2 DEF LinkTypeOK, Chatter, rxVars
    <2> PICK n \in ChatterLengths :
               bus' = [bus EXCEPT !["USART0"] =
                         [frame |-> [from |-> 0, n |-> n, ok |-> TRUE],
                          wait |-> GAP_USART5, sent |-> 0]]
      BY <1>2 DEF Chatter
    <2>1. [from |-> 0, n |-> n, ok |-> TRUE] \in Frames
      BY LinkAssumption, AddressPlan, SMT DEF Frames
    <2> QED BY <2>1, LinkAssumption DEF LinkTypeOK
  <1>3. CASE Glitch
    <2>1. rdr' \in [Ports -> Bytes]
      BY <1>3, ByteTypes DEF LinkTypeOK, Glitch
    <2>2. glitches' \in Nat /\ noisy' \in BOOLEAN
      BY <1>3, SMT DEF LinkTypeOK, Glitch
    <2>3. pend' \subseteq IRQ
      BY <1>3 DEF Glitch, IRQ
    <2> QED BY <1>1, <1>3, <2>1, <2>2, <2>3 DEF LinkTypeOK, Glitch, rxVars
  <1>4. CASE SwitchBuffer
    BY <1>1, <1>4 DEF LinkTypeOK, SwitchBuffer, hwVars, rxVars
  <1> QED BY <1>2, <1>3, <1>4

\* Every step of the link keeps its types.
LEMMA LinkNextType == LinkTypeOK /\ PollInv /\ [LinkNext]_linkVars => LinkTypeOK'
  <1>1. LinkTypeOK /\ UNCHANGED linkVars => LinkTypeOK'
    BY DEF LinkTypeOK, PollTypeOK, linkVars, pollVars, hwVars, rxVars
  <1> QED
    BY <1>1, AdvanceType, QwertyType, TxEndType, UsartType, EndRxType, OtherTypes
       DEF LinkNext, Handlers

\* The state of the link has its types in every reachable state: the receive
\* timers, the DMA counts, the buffers and the health bits of uart.c stay in range.
THEOREM LinkTypeCorrect == LinkSpec => []LinkTypeOK
  BY LinkInitType, LinkNextType, LinkPollInv, PTL DEF LinkSpec

-----------------------------------------------------------------------------
\* The numbers that the deadlines of a slot are about.
LEMMA Numbers ==
    ASSUME LinkTypeOK
    PROVE  /\ TX_SIZE \in Nat /\ TX_SIZE >= 1 /\ MaxLatency \in Nat /\ REPLY_SIZE \in Nat
           /\ REPLY_SIZE >= 1 /\ GAP_USART5 \in Nat /\ GAP_USART5 >= 2
           /\ SLOT \in Nat /\ Answered + GAP_USART5 <= SLOT
           /\ Answered = TX_SIZE + MaxLatency + REPLY_SIZE
           /\ clk \in Nat /\ clk < SLOT /\ Elapsed \in Nat /\ Elapsed <= SLOT
           /\ dma["USART5"] \in Nat /\ timer["USART5"] \in Nat
           /\ bus["USART5"].wait \in Nat /\ bus["USART5"].sent \in Nat
           /\ bus["USART5"].frame.n \in Nat
  <1>1. "USART5" \in Ports
    BY PortFacts
  <1>2. dma["USART5"] \in Nat /\ timer["USART5"] \in Nat
    BY <1>1, LinkAssumption, SMT DEF LinkTypeOK
  <1>3. /\ bus["USART5"].wait \in Nat /\ bus["USART5"].sent \in Nat
        /\ bus["USART5"].frame.n \in Nat
    BY <1>1 DEF LinkTypeOK, Frames
  <1>4. clk \in Nat /\ clk < SLOT /\ SLOT \in Nat
    BY LinkAssumption, SMT DEF LinkTypeOK
  <1> QED
    BY <1>2, <1>3, <1>4, LinkAssumption, LatencyBudget, SMT DEF Elapsed, Answered

\* Of the interrupts that fall together, TIMER4's handler runs before TIMER6's
\* and before USART5's.
LEMMA Priorities ==
    ASSUME NEW q \in {"TIMER6", "USART5"}, Serve(q)
    PROVE  "TIMER4" \notin pend
  <1>1. Rank("TIMER4") < Rank(q)
    BY SMT DEF Rank, SubPriority, Number
  <1>2. Rank("TIMER4") \in Nat /\ Rank(q) \in Nat
    BY SMT DEF Rank, SubPriority, Number
  <1> QED BY <1>1, <1>2, SMT DEF Serve

\* When the next poll is due, the previous one is over.
LEMMA EndOfSlot ==
    ASSUME LinkInv, "TIMER6" \in pend, Polled # 0
    PROVE  /\ dma["USART5"] = 0 /\ timer["USART5"] = 0
           /\ "DMA1_CH6" \notin pend /\ "USART5" \notin pend
           /\ Silent(bus["USART5"])
           /\ dir["USART5"] = "rx"
  <1>1. LinkTypeOK /\ Deadlines /\ Turns
    BY DEF LinkInv
  <1>2. Elapsed = SLOT
    BY DEF Elapsed
  <1>3. /\ dma["USART5"] = 0 /\ timer["USART5"] = 0
        /\ "DMA1_CH6" \notin pend /\ "USART5" \notin pend
    BY <1>1, <1>2, Numbers, SMT DEF Deadlines
  <1>4. Silent(bus["USART5"])
    BY <1>1, <1>2, Numbers, SMT DEF Deadlines
  <1>5. dir["USART5"] # "tx"
    BY <1>1, <1>3, Numbers, SMT DEF Turns
  <1> QED
    BY <1>1, <1>3, <1>4, <1>5, PortFacts DEF LinkTypeOK

\* LinkInit => LinkInv.
LEMMA LinkInitInv == LinkInit => LinkInv
  <1> SUFFICES ASSUME LinkInit PROVE LinkInv
    OBVIOUS
  <1>0. LinkTypeOK
    BY LinkInitType
  <1>1. /\ pend = {"TIMER6"} /\ clk = 0 /\ dma["USART5"] \in 1 .. TX_SIZE
        /\ timer["USART5"] \in 0 .. GAP_USART5 /\ bus["USART5"] = Quiet
        /\ dir["USART0"] = "rx" /\ dir["USART5"] = "rx"
        /\ transmit["USART5"] = FALSE /\ timerEn["USART5"] = FALSE
        /\ rx["USART5"] = <<>>
    BY PortFacts DEF LinkInit
  <1>2. Silent(bus["USART5"])
    BY <1>1 DEF Silent, Quiet, NoFrame
  <1>3. Polled = 0 /\ current_BKD = 0 /\ m0addr = 0 /\ \A t \in Slots : message_adr[t] = 0
    BY AddressPlan, SMT DEF LinkInit, PollInit, Polled, Slots
  <1>4. Deadlines
    BY <1>0, <1>1, <1>2, <1>3, Numbers, SMT DEF Deadlines, Elapsed
  <1>5. Turns
    BY <1>1 DEF Turns
  <1>6. Reception
    BY <1>1, SMT DEF Reception, OnlyNoise
  <1>7. StartUp
    BY <1>1, <1>3, SMT DEF StartUp
  <1> QED BY <1>0, <1>4, <1>5, <1>6, <1>7 DEF LinkInv

\* A step that leaves USART5, its DMA channel and its timer alone keeps what the
\* invariant says of them.
LEMMA OtherPort ==
    ASSUME LinkInv, UNCHANGED <<pollVars, clk, dir, transmit>>,
           dma'["USART5"] = dma["USART5"], bus'["USART5"] = bus["USART5"],
           timer'["USART5"] = timer["USART5"], timerEn'["USART5"] = timerEn["USART5"],
           rx'["USART5"] = rx["USART5"], rdr'["USART5"] = rdr["USART5"],
           \A q \in {"TIMER4", "TIMER6", "DMA1_CH6", "USART5"} : q \in pend' <=> q \in pend
    PROVE  Deadlines' /\ Turns' /\ Reception'
  <1>1. Elapsed' = Elapsed
    BY DEF Elapsed, Polled, pollVars
  <1>2. Deadlines'
    BY <1>1 DEF LinkInv, Deadlines, Silent, Answered
  <1>3. Turns'
    BY DEF LinkInv, Turns, Silent
  <1>4. Reception'
    BY DEF LinkInv, Reception, OnlyNoise
  <1> QED BY <1>2, <1>3, <1>4

\* A counter modulo n.
LEMMA Wrap ==
    ASSUME NEW n \in Nat, NEW x \in Nat, x < n
    PROVE  (x + 1) % n = IF x + 1 = n THEN 0 ELSE x + 1
  <1>1. CASE x + 1 = n
    BY <1>1, SMT
  <1>2. CASE x + 1 < n
    BY <1>2, SMT
  <1> QED BY <1>1, <1>2, SMT

\* What the passing of one byte time does to USART5, its line and its interrupts.
LEMMA AdvanceEffect ==
    ASSUME LinkInv, Advance
    PROVE  /\ dma'["USART5"] = IF dma["USART5"] > 0 THEN dma["USART5"] - 1 ELSE 0
           /\ timer'["USART5"] = IF timer["USART5"] > 0 THEN timer["USART5"] - 1 ELSE 0
           /\ dir' = dir /\ transmit' = transmit /\ timerEn' = timerEn /\ rx' = rx
           /\ "TIMER6" \in pend' <=> clk' = 0
           /\ "DMA1_CH6" \in pend' <=> dma["USART5"] = 1
           /\ "TIMER4" \in pend' <=> timer["USART5"] = 1
           /\ "USART5" \in pend' <=> Speaks(bus["USART5"]) /\ dir["USART5"] = "rx"
           /\ Silent(bus["USART5"]) => bus'["USART5"] = bus["USART5"]
           /\ ~Silent(bus["USART5"]) =>
                  /\ bus'["USART5"].frame = bus["USART5"].frame
                  /\ \/ /\ bus["USART5"].wait > 0
                        /\ bus'["USART5"].wait = bus["USART5"].wait - 1
                        /\ bus'["USART5"].sent = bus["USART5"].sent
                     \/ /\ bus["USART5"].wait = 0 /\ bus'["USART5"].wait = 0
                        /\ bus'["USART5"].sent = bus["USART5"].sent + 1
  <1> DEFINE line == bus["USART5"]
  <1>0. LinkTypeOK
    BY DEF LinkInv
  <1>1. /\ dma'["USART5"] = IF dma["USART5"] > 0 THEN dma["USART5"] - 1 ELSE 0
        /\ timer'["USART5"] = IF timer["USART5"] > 0 THEN timer["USART5"] - 1 ELSE 0
        /\ bus'["USART5"] = LineAfter(line)
        /\ dir' = dir /\ transmit' = transmit /\ timerEn' = timerEn /\ rx' = rx
    BY PortFacts DEF Advance
  <1>2. /\ "TIMER6" \in pend' <=> clk' = 0
        /\ "DMA1_CH6" \in pend' <=> dma["USART5"] = 1
        /\ "TIMER4" \in pend' <=> timer["USART5"] = 1
        /\ "USART5" \in pend' <=> Speaks(line) /\ dir["USART5"] = "rx"
    <2>1. ASSUME NEW q
          PROVE  q \in pend' <=>
                     \/ q = "TIMER6" /\ clk' = 0
                     \/ \E p \in Ports : dma[p] = 1 /\ q = TxDma[p]
                     \/ \E p \in Ports : timer[p] = 1 /\ q = RxTimer[p]
                     \/ q \in Ports /\ Speaks(bus[q]) /\ dir[q] = "rx"
      <3> DEFINE Poll == {r \in {"TIMER6"} : clk' = 0}
                 Sent == {TxDma[p] : p \in {r \in Ports : dma[r] = 1}}
                 Ends == {RxTimer[p] : p \in {r \in Ports : timer[r] = 1}}
                 Byte == {p \in Ports : Speaks(bus[p]) /\ dir[p] = "rx"}
      <3>1. pend' = Poll \cup Sent \cup Ends \cup Byte
        BY DEF Advance
      <3>2. q \in Poll <=> q = "TIMER6" /\ clk' = 0
        OBVIOUS
      <3>3. q \in Sent <=> \E p \in Ports : dma[p] = 1 /\ q = TxDma[p]
        OBVIOUS
      <3>4. q \in Ends <=> \E p \in Ports : timer[p] = 1 /\ q = RxTimer[p]
        OBVIOUS
      <3>5. q \in Byte <=> q \in Ports /\ Speaks(bus[q]) /\ dir[q] = "rx"
        OBVIOUS
      <3> HIDE DEF Poll, Sent, Ends, Byte
      <3> QED BY <3>1, <3>2, <3>3, <3>4, <3>5, Zenon
    <2>2. /\ \A p \in Ports : p \notin {"TIMER6", "DMA1_CH6", "TIMER4"}
          /\ \A p \in Ports : TxDma[p] = "DMA1_CH6" => p = "USART5"
          /\ \A p \in Ports : RxTimer[p] = "TIMER4" => p = "USART5"
          /\ \A p \in Ports : TxDma[p] \notin {"TIMER6", "TIMER4", "USART5"}
          /\ \A p \in Ports : RxTimer[p] \notin {"TIMER6", "DMA1_CH6", "USART5"}
      BY DEF TxDma, RxTimer, Ports
    <2>3. "TIMER6" \in pend' <=> clk' = 0
      BY <2>1, <2>2
    <2>4. "DMA1_CH6" \in pend' <=> dma["USART5"] = 1
      BY <2>1, <2>2, PortFacts
    <2>5. "TIMER4" \in pend' <=> timer["USART5"] = 1
      BY <2>1, <2>2, PortFacts
    <2>6. "USART5" \in pend' <=> Speaks(line) /\ dir["USART5"] = "rx"
      BY <2>1, <2>2, PortFacts
    <2> QED BY <2>3, <2>4, <2>5, <2>6
  <1>3. /\ Silent(line) => bus'["USART5"] = line
        /\ ~Silent(line) =>
               /\ bus'["USART5"].frame = line.frame
               /\ \/ /\ line.wait > 0 /\ bus'["USART5"].wait = line.wait - 1
                     /\ bus'["USART5"].sent = line.sent
                  \/ /\ line.wait = 0 /\ bus'["USART5"].wait = 0
                     /\ bus'["USART5"].sent = line.sent + 1
    <2>1. line \in [frame : Frames, wait : Nat, sent : Nat]
      BY <1>0, PortFacts DEF LinkTypeOK
    <2> QED BY <1>1, <2>1, SMT DEF LineAfter
  <1> QED BY <1>1, <1>2, <1>3

\* Time passes: every deadline comes one byte time nearer, and so does what it is
\* the deadline of.
LEMMA AdvanceInv == LinkInv /\ Advance => Deadlines' /\ Turns' /\ Reception'
  <1> SUFFICES ASSUME LinkInv, Advance PROVE Deadlines' /\ Turns' /\ Reception'
    OBVIOUS
  <1> DEFINE line == bus["USART5"]
  <1>0. LinkTypeOK /\ Deadlines /\ Turns /\ Reception /\ pend = {}
    BY DEF LinkInv, Advance
  <1>1. LinkTypeOK'
    BY <1>0, AdvanceType
  <1>2. /\ dma'["USART5"] = IF dma["USART5"] > 0 THEN dma["USART5"] - 1 ELSE 0
        /\ timer'["USART5"] = IF timer["USART5"] > 0 THEN timer["USART5"] - 1 ELSE 0
        /\ dir' = dir /\ transmit' = transmit /\ timerEn' = timerEn /\ rx' = rx
    BY AdvanceEffect
  <1>3. /\ "TIMER6" \in pend' <=> clk' = 0
        /\ "DMA1_CH6" \in pend' <=> dma["USART5"] = 1
        /\ "TIMER4" \in pend' <=> timer["USART5"] = 1
        /\ "USART5" \in pend' <=> Speaks(line) /\ dir["USART5"] = "rx"
    BY AdvanceEffect
  <1>4. Elapsed = clk /\ Elapsed' = Elapsed + 1
    <2>0. Polled' = Polled /\ Polled # 0
      BY <1>0 DEF LinkInv, StartUp, Advance, Polled, pollVars
    <2>1. Elapsed = clk
      BY <1>0 DEF Elapsed
    <2>2. clk' = IF clk + 1 = SLOT THEN 0 ELSE clk + 1
      BY <1>0, Numbers, Wrap DEF Advance
    <2> QED BY <1>0, <1>3, <2>0, <2>1, <2>2, Numbers, SMT DEF Elapsed
  <1>5. /\ Silent(line) => bus'["USART5"] = line
        /\ ~Silent(line) =>
               /\ bus'["USART5"].frame.n = line.frame.n
               /\ \/ /\ line.wait > 0 /\ bus'["USART5"].wait = line.wait - 1
                     /\ bus'["USART5"].sent = line.sent
                  \/ /\ line.wait = 0 /\ bus'["USART5"].wait = 0
                     /\ bus'["USART5"].sent = line.sent + 1
    BY AdvanceEffect
  <1>6. Deadlines'
    <2>1. "TIMER6" \in pend' => clk' = 0
      BY <1>3
    <2>2. dma'["USART5"] > 0 => Elapsed' + dma'["USART5"] <= TX_SIZE
      BY <1>0, <1>2, <1>4, Numbers, SMT DEF Deadlines
    <2>3. "DMA1_CH6" \in pend' => Elapsed' <= TX_SIZE
      BY <1>0, <1>3, <1>4, Numbers, SMT DEF Deadlines
    <2>4. ~Silent(bus["USART5"])' =>
              /\ bus'["USART5"].sent < bus'["USART5"].frame.n
              /\ Elapsed' + bus'["USART5"].wait + bus'["USART5"].frame.n
                          - bus'["USART5"].sent <= Answered
      <3> SUFFICES ASSUME bus'["USART5"].sent # bus'["USART5"].frame.n
                   PROVE  /\ bus'["USART5"].sent < bus'["USART5"].frame.n
                          /\ Elapsed' + bus'["USART5"].wait + bus'["USART5"].frame.n
                                 - bus'["USART5"].sent <= Answered
        BY DEF Silent
      <3>1. ~Silent(line)
        BY <1>5 DEF Silent
      <3> QED BY <1>0, <1>4, <1>5, <3>1, Numbers, SMT DEF Deadlines
    <2>5. "USART5" \in pend' => Elapsed' <= Answered
      <3> SUFFICES ASSUME Speaks(line) PROVE Elapsed' <= Answered
        BY <1>3
      <3>1. ~Silent(line)
        BY DEF Speaks
      <3> QED BY <1>0, <1>4, <3>1, Numbers, SMT DEF Deadlines
    <2>6. timer'["USART5"] > 0 => Elapsed' + timer'["USART5"] <= Answered + GAP_USART5
      BY <1>0, <1>2, <1>4, Numbers, SMT DEF Deadlines
    <2> QED BY <2>1, <2>2, <2>3, <2>4, <2>5, <2>6 DEF Deadlines, Answered
  <1>7. Turns'
    <2>1. dir["USART5"] = "tx" => (dma'["USART5"] > 0 \/ "DMA1_CH6" \in pend')
      BY <1>0, <1>2, <1>3, Numbers, SMT DEF Turns
    <2>2. dir["USART5"] = "tx" => Silent(bus["USART5"])'
      BY <1>0, <1>5 DEF Turns, Silent
    <2> QED BY <1>0, <1>2, <2>1, <2>2 DEF Turns
  <1>8. Reception'
    <2>1. timer["USART5"] > 0 => timer'["USART5"] > 0 \/ "TIMER4" \in pend'
      BY <1>0, <1>2, <1>3, Numbers, SMT
    <2>2. transmit["USART5"] => "USART5" \notin pend'
      BY <1>0, <1>3 DEF Turns
    <2> QED BY <1>0, <1>2, <2>1, <2>2 DEF Reception, OnlyNoise
  <1> QED BY <1>6, <1>7, <1>8

\* Every poll has an address.
LEMMA PollHasAddress ==
    ASSUME PollInv, PollNext PROVE Polled' # 0
  <1>1. PollTypeOK /\ PollTypeOK'
    BY PollNextInv DEF PollInv
  <1>2. /\ current_BKD' \in Slots /\ message_adr \in [Slots -> 0 .. AND_ADR_OUT_SERVO]
        /\ current_device_in_BKDx' \in 1 .. DEVICE_IN_BKD
        /\ current_device_in_BKHO_A' \in 1 .. AND_ADR_BKHO_A
        /\ current_device_in_OUT_SERVO' \in Devices
    BY <1>1 DEF PollTypeOK
  <1>3. CASE PollBKD
    <2> DEFINE d == current_device_in_BKDx'
               b == current_BKD'
    <2>1. b \in Blocks
      BY <1>2, <1>3, AddressPlan, SMT DEF PollBKD, Slots, Blocks
    <2>2. AdrBKD(d, b) \in Nat /\ AdrBKD(d, b) > 0 /\ AdrBKD(d, b) < 256
      BY <1>2, <2>1, BlockRange, AddressPlan, SMT
    <2>3. AdrBKD(d, b) % 256 = AdrBKD(d, b)
      BY <2>2, SMT
    <2>4. message_adr'[b] = AdrBKD(d, b) % 256
      BY <1>2, <1>3 DEF PollBKD
    <2> QED BY <2>2, <2>3, <2>4, SMT DEF Polled
  <1>4. CASE PollBKHO_A
    BY <1>2, <1>4, SMT DEF PollBKHO_A, Polled
  <1>5. CASE PollOutServo
    BY <1>2, <1>5, SMT DEF PollOutServo, Polled, Devices
  <1> QED BY <1>3, <1>4, <1>5 DEF PollNext

\* What a poll finds: start-up's transmission, or a slot that is over.
LEMMA PollFinds ==
    ASSUME LinkInv, Qwerty_all_Device
    PROVE  /\ "DMA1_CH6" \notin pend /\ "USART5" \notin pend /\ "TIMER4" \notin pend
           /\ Silent(bus["USART5"]) /\ OnlyNoise /\ clk = 0 /\ Elapsed' = 0
           /\ Polled # 0 => dma["USART5"] = 0 /\ timer["USART5"] = 0
           /\ Polled = 0 => dma["USART5"] > 0
  <1>0. /\ LinkTypeOK /\ Deadlines /\ Reception /\ StartUp
        /\ "TIMER6" \in pend /\ "TIMER4" \notin pend
    BY Priorities DEF LinkInv, Qwerty_all_Device, Serve
  <1>1. clk = 0 /\ clk' = clk /\ pend' = pend \ {"TIMER6"}
    BY <1>0 DEF Deadlines, Qwerty_all_Device, Serve
  <1>2. Elapsed' = 0
    BY <1>1 DEF Elapsed
  <1>3. CASE Polled = 0
    <2>1. /\ pend = {"TIMER6"} /\ dma["USART5"] > 0 /\ rx["USART5"] = <<>>
          /\ bus["USART5"] = Quiet
      BY <1>0, <1>3 DEF StartUp
    <2>2. OnlyNoise
      BY <2>1, SMT DEF OnlyNoise
    <2>3. Silent(bus["USART5"])
      BY <2>1 DEF Silent, Quiet, NoFrame
    <2> QED BY <1>1, <1>2, <1>3, <2>1, <2>2, <2>3
  <1>4. CASE Polled # 0
    <2>1. /\ dma["USART5"] = 0 /\ timer["USART5"] = 0 /\ "DMA1_CH6" \notin pend
          /\ "USART5" \notin pend /\ Silent(bus["USART5"])
      BY <1>0, <1>4, EndOfSlot
    <2>2. OnlyNoise
      BY <1>0, <2>1, SMT DEF Reception, OnlyNoise
    <2> QED BY <1>0, <1>1, <1>2, <1>4, <2>1, <2>2
  <1> QED BY <1>3, <1>4

\* The poll: the slot before it is over, and a new one begins; at start-up it begins
\* with what the DMA has still to send.
LEMMA QwertyInv == LinkInv /\ Qwerty_all_Device => Deadlines' /\ Turns' /\ Reception'
  <1> SUFFICES ASSUME LinkInv, Qwerty_all_Device PROVE Deadlines' /\ Turns' /\ Reception'
    OBVIOUS
  <1>0. LinkTypeOK /\ Deadlines /\ Turns /\ Reception /\ "TIMER6" \in pend
    BY DEF LinkInv, Qwerty_all_Device, Serve
  <1>1. /\ "DMA1_CH6" \notin pend /\ "USART5" \notin pend
        /\ Silent(bus["USART5"]) /\ OnlyNoise /\ Elapsed' = 0
    BY PollFinds
  <1>2. /\ dir'["USART5"] = "tx" /\ dir'["USART0"] = "rx" /\ transmit'["USART5"] = TRUE
    BY <1>0, PortFacts DEF Qwerty_all_Device, StartTransmit, LinkTypeOK, Turns
  <1>3. /\ pend' = pend \ {"TIMER6"} /\ clk' = clk
        /\ rx' = rx /\ timer' = timer /\ timerEn' = timerEn /\ bus' = bus
    BY DEF Qwerty_all_Device, Serve, rxVars
  <1>4. dma'["USART5"] > 0 /\ dma'["USART5"] <= TX_SIZE
    <2>1. dma["USART5"] \in 0 .. TX_SIZE /\ TX_SIZE \in Nat /\ TX_SIZE > 0
      BY <1>0, PortFacts, LinkAssumption, SMT DEF LinkTypeOK
    <2>2. CASE dma["USART5"] > 0
      BY <2>1, <2>2, SMT DEF Qwerty_all_Device, StartTransmit
    <2>3. CASE ~(dma["USART5"] > 0)
      <3>1. dma'["USART5"] = TX_SIZE
        BY <1>0, <2>3, PortFacts DEF Qwerty_all_Device, StartTransmit, LinkTypeOK
      <3> QED BY <2>1, <3>1, SMT
    <2> QED BY <2>2, <2>3
  <1>5. timer["USART5"] <= GAP_USART5
    BY <1>0, PortFacts DEF LinkTypeOK
  <1>6. dma'["USART5"] \in Nat
    BY <1>0, <1>4, PortFacts, LinkAssumption, SMT
       DEF Qwerty_all_Device, StartTransmit, LinkTypeOK
  <1>7. Deadlines'
    BY <1>0, <1>1, <1>2, <1>3, <1>4, <1>5, <1>6, Numbers, SMT DEF Deadlines, Silent, Answered
  <1>8. Turns'
    BY <1>0, <1>1, <1>2, <1>3, <1>4 DEF Turns, Silent
  <1>9. Reception'
    <2>1. OnlyNoise'
      BY <1>1, <1>3 DEF OnlyNoise
    <2>2. ~\E i \in 1 .. Len(rx'["USART5"]) : rx'["USART5"][i] # Noise
      BY <2>1 DEF OnlyNoise
    <2> QED BY <1>0, <1>1, <1>3, <2>1, <2>2 DEF Reception
  <1> QED BY <1>7, <1>8, <1>9

\* The end of a transmission: the answer begins early enough.
LEMMA TxEndInv == ASSUME NEW p \in Ports
                  PROVE  LinkInv /\ TxEnd(p) => Deadlines' /\ Turns' /\ Reception'
  <1> SUFFICES ASSUME LinkInv, TxEnd(p) PROVE Deadlines' /\ Turns' /\ Reception'
    OBVIOUS
  <1>0. LinkTypeOK /\ Deadlines /\ Turns /\ Reception
    BY DEF LinkInv
  <1>1. CASE p = "USART0"
    <2>1. pend' = pend \ {"DMA1_CH7"}
      BY <1>1, PortFacts DEF TxEnd, Serve
    <2>2. dir' = [dir EXCEPT !["USART0"] = "rx"] /\ dir["USART0"] = "rx"
      BY <1>0, <1>1 DEF TxEnd, Turns
    <2>3. dir' = dir
      BY <1>0, <2>2 DEF LinkTypeOK
    <2>4. /\ bus' = bus /\ clk' = clk /\ dma' = dma /\ rdr' = rdr /\ rx' = rx
          /\ timer' = timer /\ timerEn' = timerEn
          /\ transmit'["USART5"] = transmit["USART5"] /\ Polled' = Polled
      BY <1>0, <1>1, <2>2, PortFacts DEF TxEnd, rxVars, LinkTypeOK, Polled, pollVars
    <2>5. Elapsed' = Elapsed
      BY <2>1, <2>4 DEF Elapsed
    <2> QED
      BY <1>0, <2>1, <2>3, <2>4, <2>5
         DEF Deadlines, Turns, Reception, OnlyNoise, Silent, Answered
  <1>2. CASE p = "USART5"
    <2>1. "DMA1_CH6" \in pend /\ pend' = pend \ {"DMA1_CH6"}
      BY <1>2, PortFacts DEF TxEnd, Serve
    <2>2. /\ clk' = clk /\ dma' = dma /\ rdr' = rdr /\ rx' = rx
          /\ timer' = timer /\ timerEn' = timerEn
          /\ transmit'["USART5"] = FALSE
          /\ dir'["USART5"] = "rx" /\ dir'["USART0"] = "rx" /\ Polled' = Polled
      BY <1>0, <1>2, PortFacts DEF TxEnd, rxVars, LinkTypeOK, Turns, Polled, pollVars
    <2>3. Elapsed' = Elapsed /\ Elapsed <= TX_SIZE
      BY <1>0, <2>1, <2>2 DEF Elapsed, Deadlines
    <2>4. ~Silent(bus["USART5"])' =>
              /\ bus'["USART5"].sent < bus'["USART5"].frame.n
              /\ Elapsed' + bus'["USART5"].wait + bus'["USART5"].frame.n
                          - bus'["USART5"].sent <= Answered
      <3>1. CASE bus' = bus
        BY <1>0, <2>3, <3>1 DEF Deadlines, Silent
      <3>2. CASE bus' = [bus EXCEPT !["USART5"] = Quiet]
        BY <1>0, <3>2, PortFacts DEF LinkTypeOK, Silent, Quiet, NoFrame
      <3>3. ASSUME NEW n \in ReplyLengths, NEW ok \in BOOLEAN, NEW w \in 0 .. MaxLatency,
                   bus' = [bus EXCEPT !["USART5"] =
                              [frame |-> [from |-> Heard, n |-> n, ok |-> ok],
                               wait |-> w, sent |-> 0]]
            PROVE  /\ bus'["USART5"].sent < bus'["USART5"].frame.n
                   /\ Elapsed' + bus'["USART5"].wait + bus'["USART5"].frame.n
                               - bus'["USART5"].sent <= Answered
        <4>1. /\ bus'["USART5"].sent = 0 /\ bus'["USART5"].wait = w
              /\ bus'["USART5"].frame.n = n
          BY <1>0, <3>3, PortFacts DEF LinkTypeOK
        <4>2. n \in 1 .. REPLY_SIZE
          BY LinkAssumption
        <4> QED BY <1>0, <2>3, <4>1, <4>2, Numbers, SMT
      <3> QED BY <1>2, <3>1, <3>2, <3>3 DEF TxEnd, Answer
    <2>5. Deadlines'
      BY <1>0, <2>1, <2>2, <2>3, <2>4 DEF Deadlines, Answered
    <2>6. Turns'
      BY <1>0, <2>2 DEF Turns
    <2>7. Reception'
      BY <1>0, <2>1, <2>2 DEF Reception, OnlyNoise
    <2> QED BY <2>5, <2>6, <2>7
  <1> QED BY <1>1, <1>2 DEF Ports

\* A received byte: the timer that will see the end of the answer starts again
\* before its deadline.
LEMMA UsartInv == ASSUME NEW p \in Ports
                  PROVE  LinkInv /\ USART_IRQHandler(p) => Deadlines' /\ Turns' /\ Reception'
  <1> SUFFICES ASSUME LinkInv, USART_IRQHandler(p) PROVE Deadlines' /\ Turns' /\ Reception'
    OBVIOUS
  <1>0. LinkTypeOK /\ Deadlines /\ Turns /\ Reception
    BY DEF LinkInv
  <1>1. /\ pend' = pend \ {p} /\ p \in pend
        /\ clk' = clk /\ dma' = dma /\ dir' = dir /\ rdr' = rdr /\ bus' = bus
        /\ transmit' = transmit /\ UNCHANGED pollVars /\ Polled' = Polled
    BY DEF USART_IRQHandler, Serve, Polled, pollVars
  <1>2. CASE p = "USART0"
    <2>1. /\ rx'["USART5"] = rx["USART5"] /\ timer'["USART5"] = timer["USART5"]
          /\ timerEn'["USART5"] = timerEn["USART5"]
      BY <1>0, <1>2, PortFacts
         DEF USART_IRQHandler, StoreWhileTransmitting, StoreAndRestart, StoreAndDrop, LinkTypeOK
    <2> QED BY <1>1, <1>2, <2>1, OtherPort
  <1>3. CASE p = "USART5"
    <2>1. "TIMER4" \notin pend
      BY <1>3, Priorities DEF USART_IRQHandler
    <2>2. Elapsed' = Elapsed /\ Elapsed <= Answered
      BY <1>0, <1>1, <1>3 DEF Elapsed, Deadlines
    <2>3. \/ /\ transmit["USART5"]
             /\ rx'["USART5"] = Stored("USART5")
             /\ timer' = timer /\ timerEn' = timerEn
          \/ /\ ~transmit["USART5"]
             /\ timer'["USART5"] = GAP_USART5
             /\ Len(rx'["USART5"]) < RX_BUFFER_SIZE
          \/ /\ ~transmit["USART5"]
             /\ rx'["USART5"] = <<>>
             /\ timer' = timer /\ timerEn' = timerEn
      <3>1. CASE StoreWhileTransmitting(p)
        BY <1>0, <1>3, <3>1, PortFacts DEF StoreWhileTransmitting, LinkTypeOK
      <3>2. CASE StoreAndRestart(p)
        <4>1. ~(timerEn["USART5"] /\ timer["USART5"] = 0)
          BY <1>0, <2>1, Numbers, SMT DEF Reception
        <4> QED BY <1>0, <1>3, <3>2, <4>1, PortFacts DEF StoreAndRestart, LinkTypeOK
      <3>3. CASE StoreAndDrop(p)
        BY <1>0, <1>3, <3>3, PortFacts DEF StoreAndDrop, LinkTypeOK
      <3> QED BY <3>1, <3>2, <3>3 DEF USART_IRQHandler
    <2>4. timer'["USART5"] > 0 => Elapsed' + timer'["USART5"] <= Answered + GAP_USART5
      BY <1>0, <2>2, <2>3, Numbers, SMT DEF Deadlines
    <2>5. Deadlines'
      BY <1>0, <1>1, <1>3, <2>2, <2>4 DEF Deadlines, Silent, Answered
    <2>6. Turns'
      BY <1>0, <1>1, <1>3 DEF Turns, Silent
    <2>7. Reception'
      <3>1. CASE /\ ~transmit["USART5"] /\ timer'["USART5"] = GAP_USART5
                 /\ Len(rx'["USART5"]) < RX_BUFFER_SIZE
        <4>1. timer'["USART5"] > 0
          BY <1>0, <3>1, Numbers, SMT
        <4>2. Len(rx'["USART5"]) \in Nat /\ RX_BUFFER_SIZE \in Nat
          <5>1. LinkTypeOK'
            BY UsartType, Zenon DEF LinkInv
          <5>2. rx' \in [Ports -> Seq(Bytes)]
            BY <5>1, Zenon DEF LinkTypeOK
          <5>3. rx'["USART5"] \in Seq(Bytes)
            BY <5>2, PortFacts
          <5>4. Len(rx'["USART5"]) \in Nat
            BY <5>3
          <5>5. RX_BUFFER_SIZE \in Nat
            BY LinkAssumption
          <5> QED BY <5>4, <5>5
        <4>3. ~(Len(rx'["USART5"]) >= RX_BUFFER_SIZE)
          BY <3>1, <4>2, SMT
        <4> QED BY <1>1, <1>3, <3>1, <4>1, <4>3 DEF Reception
      <3>2. CASE transmit["USART5"] /\ rx'["USART5"] = Stored("USART5")
                 /\ timer' = timer /\ timerEn' = timerEn
        <4>1. rdr["USART5"] = Noise
          BY <1>0, <1>1, <1>3, <3>2 DEF Reception
        <4>2. rx["USART5"] \in Seq(Bytes)
          BY <1>0, PortFacts DEF LinkTypeOK
        <4>3. (\E i \in 1 .. Len(rx'["USART5"]) : rx'["USART5"][i] # Noise) =>
                  (\E i \in 1 .. Len(rx["USART5"]) : rx["USART5"][i] # Noise)
          BY <3>2, <4>1, <4>2, SMT DEF Stored
        <4>4. OnlyNoise'
          BY <1>0, <3>2, <4>3 DEF Reception, OnlyNoise
        <4> QED BY <1>0, <1>1, <1>3, <3>2, <4>3, <4>4 DEF Reception
      <3>3. CASE rx'["USART5"] = <<>> /\ timer' = timer /\ timerEn' = timerEn
        <4>1. ~\E i \in 1 .. Len(rx'["USART5"]) : rx'["USART5"][i] # Noise
          BY <3>3, SMT
        <4> QED BY <1>0, <1>1, <1>3, <3>3, <4>1 DEF Reception, OnlyNoise
      <3> QED BY <2>3, <3>1, <3>2, <3>3
    <2> QED BY <2>5, <2>6, <2>7
  <1> QED BY <1>2, <1>3 DEF Ports

\* The end of a reception: the buffer is empty and the timer stops.
LEMMA EndRxInv == ASSUME NEW p \in Ports
                  PROVE  LinkInv /\ EndRx(p) => Deadlines' /\ Turns' /\ Reception'
  <1> SUFFICES ASSUME LinkInv, EndRx(p) PROVE Deadlines' /\ Turns' /\ Reception'
    OBVIOUS
  <1>0. LinkTypeOK /\ Deadlines /\ Turns /\ Reception
    BY DEF LinkInv
  <1>1. /\ pend' = pend \ {RxTimer[p]}
        /\ clk' = clk /\ dma' = dma /\ dir' = dir /\ rdr' = rdr /\ bus' = bus
        /\ transmit' = transmit /\ UNCHANGED pollVars /\ Polled' = Polled
    BY DEF EndRx, Serve, Polled, pollVars
  <1>2. CASE p = "USART0"
    <2>1. /\ rx'["USART5"] = rx["USART5"] /\ timer'["USART5"] = timer["USART5"]
          /\ timerEn'["USART5"] = timerEn["USART5"]
      BY <1>0, <1>2, PortFacts DEF EndRx, LinkTypeOK
    <2>2. pend' = pend \ {"TIMER2"}
      BY <1>1, <1>2, PortFacts
    <2> QED BY <1>1, <2>1, <2>2, OtherPort
  <1>3. CASE p = "USART5"
    <2>1. /\ rx'["USART5"] = <<>> /\ timer'["USART5"] = 0
          /\ timerEn'["USART5"] = FALSE
      BY <1>0, <1>3, PortFacts DEF EndRx, LinkTypeOK
    <2>2. pend' = pend \ {"TIMER4"}
      BY <1>1, <1>3, PortFacts
    <2>3. Elapsed' = Elapsed
      BY <1>1, <2>2 DEF Elapsed
    <2>4. Deadlines'
      BY <1>0, <1>1, <2>1, <2>2, <2>3, SMT DEF Deadlines, Silent, Answered
    <2>5. Turns'
      BY <1>0, <1>1, <2>2 DEF Turns, Silent
    <2>6. Reception'
      <3>1. ~\E i \in 1 .. Len(rx'["USART5"]) : rx'["USART5"][i] # Noise
        BY <2>1, SMT
      <3> QED BY <1>0, <1>1, <2>1, <2>2, <3>1 DEF Reception, OnlyNoise
    <2> QED BY <2>4, <2>5, <2>6
  <1> QED BY <1>2, <1>3 DEF Ports

\* Noise comes in only while a request is being sent.
LEMMA GlitchInv == LinkInv /\ Glitch => Deadlines' /\ Turns' /\ Reception'
  <1> SUFFICES ASSUME LinkInv, Glitch PROVE Deadlines' /\ Turns' /\ Reception'
    OBVIOUS
  <1>0. LinkTypeOK /\ Deadlines /\ Turns /\ Reception /\ pend = {} /\ pend' = {"USART5"}
    BY DEF LinkInv, Glitch
  <1>1. /\ clk' = clk /\ dma' = dma /\ dir' = dir /\ bus' = bus /\ transmit' = transmit
        /\ rx' = rx /\ timer' = timer /\ timerEn' = timerEn
        /\ rdr'["USART5"] = Noise /\ Polled' = Polled
    BY <1>0, PortFacts DEF Glitch, rxVars, LinkTypeOK, Polled, pollVars
  <1>2. Elapsed' = Elapsed
    BY <1>0, <1>1 DEF Elapsed
  <1>3. dma["USART5"] > 0
    BY <1>0 DEF Glitch, Turns
  <1>4. Elapsed' <= Answered
    BY <1>0, <1>2, <1>3, Numbers, SMT DEF Deadlines
  <1>5. Deadlines'
    BY <1>0, <1>1, <1>2, <1>4 DEF Deadlines, Silent, Answered
  <1>6. Turns'
    BY <1>0, <1>1 DEF Turns, Silent
  <1>7. Reception'
    BY <1>0, <1>1 DEF Reception, OnlyNoise
  <1> QED BY <1>5, <1>6, <1>7

\* The first poll leaves the channel on row 0, into which it writes no address.
LEMMA FirstPollUnheard ==
    ASSUME LinkInv, PollInv, Qwerty_all_Device, Polled = 0 PROVE Heard' = 0
  <1>0. LinkTypeOK /\ StartUp
    BY DEF LinkInv
  <1>1. PollNext
    BY DEF Qwerty_all_Device, QueryBKD, QueryBKHO_A, QueryOutServo, PollNext
  <1>2. /\ dma["USART5"] > 0 /\ m0addr = 0 /\ current_BKD = 0
        /\ \A s \in Slots : message_adr[s] = 0
    BY <1>0 DEF StartUp
  <1>3. m0addr' = 0
    BY <1>2 DEF Qwerty_all_Device, StartTransmit
  <1>4. 0 \in Slots /\ current_BKD' # 0
    <2>1. current_BKD' = Step(0, IN_TOTAL_BKD + 1, 0)
      BY <1>1, <1>2 DEF PollNext, PollBKD, PollBKHO_A, PollOutServo, NextSlot
    <2> QED BY <2>1, AddressPlan, SizesAssumption, SMT DEF Step, Inc8, Slots
  <1>5. message_adr'[0] = message_adr[0]
    BY <1>0, <1>1, <1>4
       DEF PollNext, PollBKD, PollBKHO_A, PollOutServo, LinkTypeOK, PollTypeOK
  <1> QED BY <1>2, <1>3, <1>4, <1>5 DEF Heard

\* Nothing but the first poll ends the start-up, and the devices hear no request until
\* the second.
LEMMA StartUpNext ==
    ASSUME LinkInv, PollInv, [LinkNext]_linkVars PROVE StartUp'
  <1>0. LinkTypeOK /\ StartUp
    BY DEF LinkInv
  <1>1. CASE Qwerty_all_Device
    <2>1. Polled' # 0
      <3>1. PollNext
        BY <1>1 DEF Qwerty_all_Device, QueryBKD, QueryBKHO_A, QueryOutServo, PollNext
      <3> QED BY <3>1, PollHasAddress
    <2>2. CASE Polled # 0
      <3>1. ~(dma["USART5"] > 0)
        BY <1>1, <2>2, PollFinds, SMT
      <3>2. m0addr' = current_BKD'
        BY <1>1, <3>1 DEF Qwerty_all_Device, StartTransmit
      <3> QED BY <2>1, <3>2 DEF StartUp
    <2>3. CASE Polled = 0
      BY <1>1, <2>1, <2>3, FirstPollUnheard DEF StartUp
    <2> QED BY <2>2, <2>3
  <1>2. CASE UNCHANGED linkVars
    BY <1>0, <1>2 DEF StartUp, Polled, Heard, linkVars, pollVars, hwVars, rxVars
  <1>3. CASE UNCHANGED <<pollVars, m0addr>> /\ pend # {"TIMER6"}
    <2>1. Polled # 0 /\ Polled' = Polled /\ Heard' = Heard
      BY <1>0, <1>3 DEF StartUp, Polled, Heard, pollVars
    <2> QED BY <1>0, <1>3, <2>1 DEF StartUp, pollVars
  <1>4. ASSUME NEW p \in Ports, EndRx(p) \/ TxEnd(p) \/ USART_IRQHandler(p)
        PROVE  UNCHANGED <<pollVars, m0addr>> /\ pend # {"TIMER6"}
    <2>1. "TIMER6" \notin {RxTimer[p], TxDma[p], p}
      BY DEF RxTimer, TxDma, Ports
    <2> QED BY <1>4, <2>1 DEF EndRx, TxEnd, USART_IRQHandler, Serve
  <1>5. Advance \/ Chatter \/ Glitch \/ SwitchBuffer =>
            UNCHANGED <<pollVars, m0addr>> /\ pend # {"TIMER6"}
    BY DEF Advance, Chatter, Glitch, SwitchBuffer, hwVars
  <1> QED BY <1>1, <1>2, <1>3, <1>4, <1>5 DEF LinkNext, Handlers

\* Every step of the link keeps its inductive invariant.
LEMMA LinkNextInv == LinkInv /\ PollInv /\ [LinkNext]_linkVars => LinkInv'
  <1> SUFFICES ASSUME LinkInv, PollInv, [LinkNext]_linkVars PROVE LinkInv'
    OBVIOUS
  <1>0. LinkTypeOK'
    BY LinkNextType DEF LinkInv
  <1> SUFFICES Deadlines' /\ Turns' /\ Reception'
    BY <1>0, StartUpNext DEF LinkInv
  <1>1. CASE Chatter
    <2>1. bus'["USART5"] = bus["USART5"]
      BY <1>1, PortFacts DEF Chatter, LinkInv, LinkTypeOK
    <2> QED BY <1>1, <2>1, OtherPort DEF Chatter, rxVars
  <1>2. CASE SwitchBuffer \/ UNCHANGED linkVars
    BY <1>2, OtherPort DEF SwitchBuffer, linkVars, hwVars, rxVars
  <1> QED
    BY <1>1, <1>2, AdvanceInv, QwertyInv, TxEndInv, UsartInv, EndRxInv, GlitchInv
       DEF LinkNext, Handlers

\* In every state the deadlines, the turns of the line and the reception are as
\* the inductive invariant says.
THEOREM LinkInvariant == LinkSpec => []LinkInv
  BY LinkInitInv, LinkNextInv, LinkPollInv, PTL DEF LinkSpec

\* When TIMER6 starts a poll after the first, the previous one is over on every level,
\* although the first one came while the DMA of start-up was still sending.
THEOREM SlotsAreClean == LinkSpec => []SlotClean
  <1>1. LinkInv => SlotClean
    <2> SUFFICES ASSUME LinkInv, "TIMER6" \in pend, "TIMER4" \notin pend, Polled # 0
                 PROVE  /\ dir["USART5"] = "rx" /\ dma["USART5"] = 0
                        /\ Silent(bus["USART5"]) /\ "USART5" \notin pend
                        /\ timer["USART5"] = 0
                        /\ \A i \in 1 .. Len(rx["USART5"]) : rx["USART5"][i] = Noise
      BY DEF SlotClean
    <2>1. \A i \in 1 .. Len(rx["USART5"]) : rx["USART5"][i] = Noise
      BY EndOfSlot, SMT DEF LinkInv, Reception
    <2> QED BY <2>1, EndOfSlot
  <1> QED BY <1>1, LinkInvariant, PTL

\* The board never drives the line while a device answers.
THEOREM LineIsHalfDuplex == LinkSpec => []HalfDuplex
  <1>1. LinkInv => HalfDuplex
    BY DEF LinkInv, Turns, HalfDuplex
  <1> QED BY <1>1, LinkInvariant, PTL

-----------------------------------------------------------------------------
\* A health bit that a message on USART5 sets belongs to the device that sent it.
LEMMA Attribution ==
    ASSUME LinkInv, PollInv, FromPolled, NEW d \in Check_message_UART(rx["USART5"])
    PROVE  /\ d = Polled /\ Polled \in Responders
           /\ rx["USART5"] # <<>>
           /\ rx["USART5"][1].frame = [from |-> d, n |-> REPLY_SIZE, ok |-> TRUE]
  <1> DEFINE r == rx["USART5"]
  <1>0. LinkTypeOK /\ PollTypeOK /\ RoundConsistent /\ GroupRows
    BY DEF LinkInv, PollInv
  <1>1. r \in Seq(Bytes)
    BY <1>0, PortFacts DEF LinkTypeOK
  <1>2. Len(r) > 1 /\ CrcOK(r) /\ Len(r) = REPLY_SIZE
    BY DEF Check_message_UART, Check_message_BKD, Check_message_BKHO_A
  <1>3. r # <<>> /\ 1 \in 1 .. Len(r) /\ r[1] \in Bytes
    BY <1>1, <1>2, SMT
  <1>4. r[1].frame \in Frames /\ r[1].frame.ok = TRUE /\ r[1].frame.n = REPLY_SIZE
    BY <1>2, <1>3 DEF CrcOK, Bytes, Frames
  <1>5. r[1] # Noise
    BY <1>4 DEF Noise, NoFrame
  <1>6. r[1].frame.from = Polled /\ Polled \in Responders
    BY <1>3, <1>5 DEF FromPolled, OfPolled
  <1>7. Polled # 0
    BY <1>6, LinkAssumption, SMT DEF Devices
  <1>8. d = Polled
    <2>1. CASE current_BKD # IN_TOTAL_BKD
      <3>1. current_BKD < IN_TOTAL_BKD /\ d = AdrBKD(current_device_in_BKDx, current_BKD)
        BY <2>1 DEF Check_message_UART, Check_message_BKD
      <3>2. current_BKD \in Blocks /\ current_BKD <= current_BKD
        BY <1>0, <3>1, AddressPlan, SMT DEF PollTypeOK, Slots, Blocks
      <3>3. message_adr[current_BKD] \in {0, AdrBKD(current_device_in_BKDx, current_BKD)}
        BY <1>0, <3>2 DEF RoundConsistent
      <3> QED BY <1>7, <3>1, <3>3 DEF Polled
    <2>2. CASE current_BKD = IN_TOTAL_BKD
      <3>1. d = current_device_in_BKHO_A
        BY <2>2 DEF Check_message_UART, Check_message_BKHO_A
      <3> QED BY <1>0, <1>7, <2>2, <3>1 DEF Polled, GroupRows, SlotBKHO
    <2> QED BY <2>1, <2>2
  <1>9. r[1].frame = [from |-> d, n |-> REPLY_SIZE, ok |-> TRUE]
    BY <1>4, <1>6, <1>8 DEF Frames
  <1> QED BY <1>3, <1>6, <1>8, <1>9

\* When nobody speaks on USART0, bytes come from the polled device from the start.
LEMMA FromPolledInit == LinkInit => FromPolled
  BY PortFacts, SMT DEF LinkInit, FromPolled, Silent, Quiet, NoFrame

\* A step that leaves the lines, the buffers and the schedule alone, and does not
\* bring a byte, leaves the origin of the bytes alone.
LEMMA SameOrigin ==
    ASSUME FromPolled, UNCHANGED <<pollVars, bus, rdr>>,
           rx'["USART0"] = <<>>,
           rx'["USART5"] = <<>> \/ rx'["USART5"] = rx["USART5"],
           \A q \in {"USART0", "USART5"} : q \in pend' => q \in pend
    PROVE  FromPolled'
  <1>1. Polled' = Polled
    BY DEF Polled, pollVars
  <1>2. \A i \in 1 .. Len(rx'["USART5"]) : OfPolled(rx["USART5"][i])'
    <2> SUFFICES ASSUME NEW i \in 1 .. Len(rx'["USART5"])
                 PROVE  \/ rx'["USART5"][i] = Noise
                        \/ rx'["USART5"][i].frame.from = Polled /\ Polled \in Responders
      BY <1>1 DEF OfPolled
    <2>1. CASE rx'["USART5"] = <<>>
      BY <2>1, SMT
    <2>2. CASE rx'["USART5"] = rx["USART5"]
      BY <2>2 DEF FromPolled, OfPolled
    <2> QED BY <2>1, <2>2
  <1> QED BY <1>1, <1>2 DEF FromPolled, OfPolled, Silent, Quiet

\* Every step keeps what is known of the origin of bytes.
LEMMA FromPolledNext ==
    ASSUME ChatterLengths = {}, LinkInv, PollInv, FromPolled, [LinkNext]_linkVars
    PROVE  FromPolled'
  <1>0. LinkTypeOK /\ Reception
    BY DEF LinkInv
  <1>1. CASE Advance
    <2> DEFINE line == bus["USART5"]
    <2>1. UNCHANGED <<pollVars, rx>> /\ Polled' = Polled
      BY <1>1 DEF Advance, Polled, pollVars
    <2>2. bus'["USART0"] = Quiet /\ "USART0" \notin pend'
      <3>1. Silent(bus["USART0"]) /\ ~Speaks(bus["USART0"])
        BY DEF FromPolled, Silent, Speaks, Quiet, NoFrame
      <3>2. bus'["USART0"] = Quiet
        BY <1>1, <3>1, PortFacts DEF Advance, LineAfter, FromPolled
      <3>3. "USART0" \notin pend'
        BY <1>1, <3>1 DEF Advance, TxDma, RxTimer, Ports
      <3> QED BY <3>2, <3>3
    <2>3. bus'["USART5"].frame = line.frame /\ (Silent(line) => bus'["USART5"] = line)
      <3>1. line \in [frame : Frames, wait : Nat, sent : Nat]
        BY <1>0, PortFacts DEF LinkTypeOK
      <3>2. bus'["USART5"] = LineAfter(line)
        BY <1>1, PortFacts DEF Advance
      <3> QED BY <3>1, <3>2 DEF LineAfter
    <2>4. ~Silent(bus["USART5"])' => bus'["USART5"].frame.from = Polled /\ Polled \in Responders
      BY <2>3 DEF FromPolled, Silent
    <2>5. "USART5" \in pend' => OfPolled(rdr["USART5"])'
      <3> SUFFICES ASSUME "USART5" \in pend' PROVE OfPolled(rdr["USART5"])'
        OBVIOUS
      <3>1. Speaks(line) /\ dir["USART5"] = "rx"
        BY <1>1 DEF Advance, TxDma, RxTimer, Ports
      <3>2. rdr'["USART5"] = [frame |-> line.frame, i |-> line.sent + 1]
        BY <1>1, <3>1, PortFacts DEF Advance
      <3> QED BY <2>1, <3>1, <3>2 DEF Speaks, FromPolled, OfPolled
    <2> QED BY <2>1, <2>2, <2>3, <2>4, <2>5 DEF FromPolled, OfPolled, Quiet
  <1>2. CASE Qwerty_all_Device
    <2>1. pend' = pend \ {"TIMER6"}
      BY <1>2 DEF Qwerty_all_Device, Serve
    <2>2. "USART5" \notin pend /\ Silent(bus["USART5"])
      BY <1>2, PollFinds
    <2>3. \A i \in 1 .. Len(rx["USART5"]) : rx["USART5"][i] = Noise
      BY <1>2, PollFinds DEF OnlyNoise
    <2>4. bus' = bus /\ rx' = rx
      BY <1>2 DEF Qwerty_all_Device, rxVars
    <2> QED BY <2>1, <2>2, <2>3, <2>4 DEF FromPolled, OfPolled, Silent, Quiet
  <1>3. ASSUME NEW p \in Ports, TxEnd(p) PROVE FromPolled'
    <2>1. UNCHANGED <<pollVars, rx, rdr>> /\ Polled' = Polled /\ pend' \subseteq pend
      BY <1>3 DEF TxEnd, Serve, rxVars, Polled, pollVars
    <2>2. CASE bus' = bus
      BY <2>1, <2>2, SameOrigin DEF FromPolled
    <2>3. CASE bus' = [bus EXCEPT !["USART5"] = Quiet]
      <3>1. bus'["USART5"] = Quiet /\ bus'["USART0"] = Quiet
        BY <1>0, <2>3, PortFacts DEF LinkTypeOK, FromPolled
      <3>2. Silent(bus["USART5"])'
        BY <3>1 DEF Silent, Quiet, NoFrame
      <3> QED BY <2>1, <3>1, <3>2 DEF FromPolled, OfPolled, Quiet
    <2>4. ASSUME Heard \in Responders, NEW n, NEW ok, NEW w,
                 bus' = [bus EXCEPT !["USART5"] =
                            [frame |-> [from |-> Heard, n |-> n, ok |-> ok],
                             wait |-> w, sent |-> 0]]
          PROVE  FromPolled'
      <3>0. Heard = Polled
        <4>1. Heard # 0
          BY <2>4, LinkAssumption, SMT DEF Devices
        <4> QED BY <4>1 DEF LinkInv, StartUp, Heard, Polled
      <3>1. bus'["USART5"].frame.from = Polled /\ bus'["USART0"] = Quiet
        BY <1>0, <2>4, <3>0, PortFacts DEF LinkTypeOK, FromPolled
      <3> QED BY <2>1, <2>4, <3>0, <3>1 DEF FromPolled, OfPolled, Quiet
    <2> QED BY <1>3, <2>2, <2>3, <2>4 DEF TxEnd, Answer
  <1>4. ASSUME NEW p \in Ports, USART_IRQHandler(p) PROVE FromPolled'
    <2>1. p = "USART5" /\ p \in pend
      BY <1>4 DEF USART_IRQHandler, Serve, FromPolled, Ports
    <2>2. UNCHANGED <<pollVars, bus, rdr>> /\ Polled' = Polled /\ pend' = pend \ {"USART5"}
      BY <1>4, <2>1 DEF USART_IRQHandler, Serve, Polled, pollVars
    <2>3. /\ rx'["USART5"] \in {Stored("USART5"), <<>>}
          /\ rx'["USART0"] = rx["USART0"]
      BY <1>0, <1>4, <2>1, PortFacts
         DEF USART_IRQHandler, StoreWhileTransmitting, StoreAndRestart, StoreAndDrop, LinkTypeOK
    <2>4. rx["USART5"] \in Seq(Bytes) /\ OfPolled(rdr["USART5"])
      BY <1>0, <2>1, PortFacts DEF LinkTypeOK, FromPolled
    <2>5. \A i \in 1 .. Len(rx'["USART5"]) : OfPolled(rx'["USART5"][i])
      <3>1. CASE rx'["USART5"] = <<>>
        BY <3>1, SMT
      <3>2. CASE rx'["USART5"] = Append(rx["USART5"], rdr["USART5"])
        <4> SUFFICES ASSUME NEW i \in 1 .. Len(rx["USART5"]) + 1
                     PROVE  OfPolled(Append(rx["USART5"], rdr["USART5"])[i])
          BY <2>4, <3>2, SMT
        <4>1. CASE i = Len(rx["USART5"]) + 1
          BY <2>4, <4>1
        <4>2. CASE i \in 1 .. Len(rx["USART5"])
          <5>1. Append(rx["USART5"], rdr["USART5"])[i] = rx["USART5"][i]
            BY <2>4, <4>2
          <5> QED BY <4>2, <5>1 DEF FromPolled
        <4> QED BY <2>4, <4>1, <4>2, SMT
      <3> QED BY <2>3, <3>1, <3>2 DEF Stored
    <2> QED BY <2>2, <2>3, <2>5 DEF FromPolled, OfPolled, Silent, Quiet
  <1>5. ASSUME NEW p \in Ports, EndRx(p) PROVE FromPolled'
    <2>1. UNCHANGED <<pollVars, bus, rdr>> /\ pend' \subseteq pend
      BY <1>5 DEF EndRx, Serve
    <2>2. /\ rx'["USART0"] = <<>>
          /\ rx'["USART5"] = <<>> \/ rx'["USART5"] = rx["USART5"]
      BY <1>0, <1>5, PortFacts DEF EndRx, LinkTypeOK, FromPolled, Ports
    <2> QED BY <2>1, <2>2, SameOrigin
  <1>6. CASE Glitch
    <2>1. /\ UNCHANGED <<pollVars, bus, rx>> /\ Polled' = Polled /\ pend' = {"USART5"}
          /\ rdr'["USART5"] = Noise
      BY <1>0, <1>6, PortFacts DEF Glitch, rxVars, LinkTypeOK, Polled, pollVars
    <2> QED BY <2>1 DEF FromPolled, OfPolled, Silent, Quiet
  <1>7. CASE SwitchBuffer \/ UNCHANGED linkVars
    BY <1>7, SameOrigin DEF SwitchBuffer, linkVars, hwVars, rxVars, FromPolled
  <1>8. ~Chatter
    BY DEF Chatter
  <1> QED
    BY <1>1, <1>2, <1>3, <1>4, <1>5, <1>6, <1>7, <1>8 DEF LinkNext, Handlers

\* A health bit that a step sets is that of the device whose answer is checked.
LEMMA HealthStep ==
    ASSUME LinkInv, PollInv, FromPolled, [LinkNext]_linkVars,
           NEW b \in {0, 1}, NEW d \in health'[b], d \notin health[b]
    PROVE  /\ d \in Responders
           /\ rx["USART5"] # <<>>
           /\ rx["USART5"][1].frame = [from |-> d, n |-> REPLY_SIZE, ok |-> TRUE]
  <1>0. health \in [{0, 1} -> SUBSET Devices] /\ current_tick_tx_eth \in {0, 1}
    BY DEF LinkInv, LinkTypeOK
  <1>1. ~Qwerty_all_Device
    BY <1>0 DEF Qwerty_all_Device, QueryBKD, QueryBKHO_A, QueryOutServo, ClearHealth
  <1>2. ~(Advance \/ Chatter \/ Glitch \/ SwitchBuffer \/ UNCHANGED linkVars)
    BY DEF Advance, Chatter, Glitch, SwitchBuffer, linkVars
  <1>3. ASSUME NEW p \in Ports, TxEnd(p) \/ USART_IRQHandler(p) PROVE FALSE
    BY <1>3 DEF TxEnd, USART_IRQHandler
  <1>4. PICK p \in Ports : EndRx(p)
    BY <1>1, <1>2, <1>3 DEF LinkNext, Handlers
  <1>5. d \in Check_message_UART(rx[p])
    BY <1>0, <1>4 DEF EndRx
  <1>6. p = "USART5"
    <2> SUFFICES ASSUME p = "USART0" PROVE FALSE
      BY DEF Ports
    <2>1. rx[p] = <<>> /\ ~(Len(<<>>) > 1)
      BY SMT DEF FromPolled
    <2> QED BY <1>5, <2>1 DEF Check_message_UART
  <1> QED BY <1>5, <1>6, Attribution

\* When nobody speaks on USART0, every byte comes from the polled device.
LEMMA OriginInvariant ==
    ASSUME ChatterLengths = {} PROVE LinkSpec => []FromPolled
  <1>1. LinkInv /\ PollInv /\ FromPolled /\ [LinkNext]_linkVars => FromPolled'
    BY FromPolledNext
  <1> QED
    BY <1>1, FromPolledInit, LinkInvariant, LinkPollInv, PTL DEF LinkSpec

\* When nobody speaks on USART0, a health bit is set only by the undamaged answer
\* of the device it belongs to.
THEOREM RepliesAreAttributed ==
    ASSUME ChatterLengths = {} PROVE LinkSpec => AttributedReply
  <1>1. LinkInv /\ PollInv /\ FromPolled /\ [LinkNext]_linkVars => [CreditsSender]_linkVars
    BY HealthStep DEF CreditsSender
  <1> QED
    BY <1>1, OriginInvariant, LinkInvariant, LinkPollInv, PTL DEF LinkSpec, AttributedReply

\* When nobody speaks on USART0, no device that is not there is reported alive.
THEOREM NoGhosts ==
    ASSUME ChatterLengths = {} PROVE LinkSpec => []NoGhostHealth
  <1>1. LinkInit => NoGhostHealth
    BY DEF LinkInit, NoGhostHealth
  <1>2. LinkInv /\ PollInv /\ FromPolled /\ NoGhostHealth /\ [LinkNext]_linkVars
            => NoGhostHealth'
    BY HealthStep DEF NoGhostHealth
  <1> QED
    BY <1>1, <1>2, OriginInvariant, LinkInvariant, LinkPollInv, PTL DEF LinkSpec
=============================================================================
