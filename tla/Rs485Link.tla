----------------------------- MODULE Rs485Link -----------------------------
(***************************************************************************)
(* The RS-485 side of the YLS board (src/src/uart.c): TIMER6 starts a poll *)
(* every slot, DMA sends the request, its completion turns the line round, *)
(* the polled device answers, USART5 stores the bytes, TIMER4 sees the     *)
(* line fall silent and has the frame checked.  The same handlers serve    *)
(* USART0, which the board never transmits on but whose receiver is on.    *)
(*                                                                         *)
(* Time is discrete; its unit is the time of one byte on the line (2 us at *)
(* 5 Mbaud).  Handlers take no time: all of them have preemption priority  *)
(* 0, so none interrupts another, and time moves on only when none is      *)
(* pending.  The wait loop in USART5_RX, which lets the last byte leave    *)
(* the shift register, is part of the TX_SIZE byte times of a request.     *)
(*                                                                         *)
(* A byte on the line is the i-th of a frame; the check sum is ideal: it   *)
(* holds for a whole undamaged frame and for nothing else.                 *)
(***************************************************************************)
EXTENDS PollSchedule, Sequences

CONSTANTS
    TX_SIZE,         \* USART_BUFFER_TX_SIZE_YLS, bytes of a request (20)
    REPLY_SIZE,      \* USART_BUFFER_TX_SIZE_YKP and the others, all equal (32)
    RX_BUFFER_SIZE,  \* USART_RX_BUFFER_SIZE (200)
    SLOT,            \* TIMER6 period in byte times (126 us: 63)
    GAP_USART5,      \* TIMER4 period (2.4 us) rounded up to byte times (2)
    GAP_USART0,      \* TIMER2 period (reset values, 655 us) in byte times (328)
    Responders,      \* the devices that are fitted and may answer
    ReplyLengths,    \* lengths of the frames a device may send
    MaxLatency,      \* longest pause of a device before its answer
    ChatterLengths,  \* lengths of frames that may come in unasked on USART0
    MaxGlitches      \* bound: noise bytes waiting in USART5's buffer at a time

ASSUME LinkAssumption ==
    /\ TX_SIZE \in Nat \ {0} /\ REPLY_SIZE \in Nat /\ REPLY_SIZE > 1
    /\ RX_BUFFER_SIZE \in Nat /\ REPLY_SIZE < RX_BUFFER_SIZE /\ RX_BUFFER_SIZE < 256
    /\ SLOT \in Nat /\ GAP_USART5 \in Nat \ {0, 1} /\ GAP_USART0 \in Nat \ {0, 1}
    /\ Responders \subseteq Devices
    /\ ReplyLengths \subseteq 1 .. REPLY_SIZE /\ ChatterLengths \subseteq Nat \ {0}
    /\ MaxLatency \in Nat /\ MaxGlitches \in Nat

\* Request, pause, answer and end-of-frame detection fit in a slot.  With the
\* numbers of the source this leaves a device 9 byte times (18 us) to react.
ASSUME LatencyBudget == TX_SIZE + MaxLatency + REPLY_SIZE + GAP_USART5 <= SLOT

Ports == {"USART0", "USART5"}
GAP   == [p \in Ports |-> IF p = "USART0" THEN GAP_USART0 ELSE GAP_USART5]

VARIABLES
    clk,         \* TIMER6's counter
    pend,        \* interrupts whose flag is set
    dma,         \* bytes the transmit DMA channel of a port has yet to send
    m0addr,      \* the row that USART5's channel reads (its DMA_CHM0ADDR)
    transmit,    \* usart0_transmit, usart5_transmit
    dir,         \* the direction pin of the transceiver: "tx" or "rx"
    rx,          \* usartN_buffer_rx [0 .. usartN_counter - 1]
    timer,       \* byte times until the rx timer's update; 0: not running
    timerEn,     \* timer2En, timer4En
    rdr,         \* the byte in the receive data register
    bus,         \* the frame on the port's line
    glitches,    \* noise bytes that this slot's answer may have before it
    noisy,       \* a noise byte has come in during this byte time
    health,      \* the bits of health_abonent set in YLSToYVPack[0] and [1]
    current_tick_tx_eth

hwVars   == <<clk, pend, dma, m0addr, dir, rdr, bus, glitches, noisy>>
rxVars   == <<rx, timer, timerEn>>
linkVars == <<pollVars, hwVars, rxVars, transmit, health, current_tick_tx_eth>>

-----------------------------------------------------------------------------
\* Frames, bytes, the line.

NoFrame == [from |-> 0, n |-> 0, ok |-> FALSE]
Noise   == [frame |-> NoFrame, i |-> 0]
Quiet   == [frame |-> NoFrame, wait |-> 0, sent |-> 0]

Silent(line) == line.sent = line.frame.n

\* The line one byte time later, and the byte that comes off it.
LineAfter(line) ==
    IF Silent(line) THEN line
    ELSE IF line.wait > 0 THEN [line EXCEPT !.wait = @ - 1]
    ELSE [line EXCEPT !.sent = @ + 1]

Speaks(line) == ~Silent(line) /\ line.wait = 0

\* Crc8 over the message equals its last byte: a whole, undamaged frame.
CrcOK(message) ==
    /\ message[1].frame.ok
    /\ message[1].frame.n = Len(message)
    /\ \A i \in 1 .. Len(message) :
           message[i] = [frame |-> message[1].frame, i |-> i]

-----------------------------------------------------------------------------
\* Interrupts.  nvic_irq_enable splits the priority into two preemption and two
\* subpriority bits, so the subpriorities 4 and 6 that the board asks for become
\* 0 and 2.  Of several pending interrupts the NVIC serves the one with the
\* lowest subpriority, and of those the one with the lowest number.

RxTimer == [p \in Ports |-> IF p = "USART0" THEN "TIMER2" ELSE "TIMER4"]
TxDma   == [p \in Ports |-> IF p = "USART0" THEN "DMA1_CH7" ELSE "DMA1_CH6"]
IRQ     == {"TIMER2", "TIMER4", "TIMER6", "DMA1_CH6", "DMA1_CH7", "USART0", "USART5"}

Number(q) ==
    CASE q = "TIMER2"   -> 29
      [] q = "USART0"   -> 37
      [] q = "TIMER4"   -> 50
      [] q = "TIMER6"   -> 55
      [] q = "DMA1_CH6" -> 69
      [] q = "DMA1_CH7" -> 70
      [] q = "USART5"   -> 71

\* Mutant of SubPriority: the numbers as the calls of nvic_irq_enable give them.
SubPriorityUnmasked(q) ==
    CASE q \in {"TIMER2", "TIMER4"}     -> 4
      [] q = "TIMER6"                   -> 2
      [] q \in {"DMA1_CH6", "DMA1_CH7"} -> 6
      [] q \in {"USART0", "USART5"}     -> 3

SubPriority(q) ==
    CASE q \in {"TIMER2", "TIMER4"}               -> 4 % 4
      [] q = "TIMER6"                             -> 2 % 4
      [] q \in {"DMA1_CH6", "DMA1_CH7"}           -> 6 % 4
      [] q \in {"USART0", "USART5"}               -> 3 % 4

Rank(q) == 100 * SubPriority(q) + Number(q)

\* The handler of q is entered, and clears its flag.
Serve(q) ==
    /\ q \in pend
    /\ \A j \in pend : Rank(q) <= Rank(j)
    /\ pend' = pend \ {q}

-----------------------------------------------------------------------------
\* The state in which Timer6_config enables the interrupt.  timer_init has set the
\* update flag (UPG), so TIMER6's handler runs at once, before timer_enable starts
\* the counter.  Both DMA channels were enabled by ConfigUsartDMA_Tx and are still
\* sending the zeroed row 0 into a transceiver that is set to receive.  TIMER2 is
\* running; TIMER4, whose handler has run once for the same reason, is running or has
\* expired a second time.
LinkInit ==
    /\ PollInit
    /\ clk = 0
    /\ pend = {"TIMER6"}
    /\ dma \in [Ports -> 1 .. TX_SIZE]
    /\ m0addr = 0
    /\ transmit = [p \in Ports |-> FALSE]
    /\ dir = [p \in Ports |-> "rx"]
    /\ rx = [p \in Ports |-> <<>>]
    /\ timer \in {[p \in Ports |-> IF p = "USART5" THEN t ELSE GAP[p]] : t \in 0 .. GAP_USART5}
    /\ timerEn = [p \in Ports |-> FALSE]
    /\ rdr = [p \in Ports |-> Noise]
    /\ bus = [p \in Ports |-> Quiet]
    /\ glitches = 0 /\ noisy = FALSE
    /\ health = [b \in {0, 1} |-> {}]
    /\ current_tick_tx_eth = 0

\* One byte time passes in the hardware.
Advance ==
    /\ pend = {}
    /\ clk' = (clk + 1) % SLOT
    /\ dma' = [p \in Ports |-> IF dma[p] > 0 THEN dma[p] - 1 ELSE 0]
    /\ timer' = [p \in Ports |-> IF timer[p] > 0 THEN timer[p] - 1 ELSE 0]
    /\ bus' = [p \in Ports |-> LineAfter(bus[p])]
    /\ rdr' = [p \in Ports |->
                  IF Speaks(bus[p]) /\ dir[p] = "rx"
                  THEN [frame |-> bus[p].frame, i |-> bus[p].sent + 1]
                  ELSE rdr[p]]
    /\ pend' = {q \in {"TIMER6"} : clk' = 0}
               \cup {TxDma[p] : p \in {q \in Ports : dma[q] = 1}}
               \cup {RxTimer[p] : p \in {q \in Ports : timer[q] = 1}}
               \cup {p \in Ports : Speaks(bus[p]) /\ dir[p] = "rx"}
    /\ noisy' = FALSE
    /\ UNCHANGED <<pollVars, m0addr, dir, rx, timerEn, transmit, glitches, health,
                   current_tick_tx_eth>>

\* The health bits of the devices are numbered by address.
ClearHealth(bits) ==
    health' = [health EXCEPT ![current_tick_tx_eth] = @ \ bits]

\* The end of Qwerty_all_Device: the row is sent on USART5.  A channel that is still
\* enabled keeps its address and its count (the dma_channel_disable before the two
\* writes is commented out), which is so at the first poll.
StartTransmit ==
    /\ transmit' = [transmit EXCEPT !["USART5"] = TRUE]
    /\ dir' = [dir EXCEPT !["USART5"] = "tx"]
    /\ IF dma["USART5"] > 0
       THEN UNCHANGED <<dma, m0addr>>
       ELSE dma' = [dma EXCEPT !["USART5"] = TX_SIZE] /\ m0addr' = current_BKD'

QueryBKD ==
    /\ PollBKD
    /\ ClearHealth({AdrBKD(current_device_in_BKDx', current_BKD')})

QueryBKHO_A ==
    /\ PollBKHO_A
    /\ ClearHealth({current_device_in_BKHO_A'} \cap BKHO_A)

QueryOutServo ==
    /\ PollOutServo
    /\ ClearHealth({current_device_in_OUT_SERVO'} \cap OUT_SERVO)

\* TIMER6_IRQHandler.
Qwerty_all_Device ==
    /\ Serve("TIMER6")
    /\ QueryBKD \/ QueryBKHO_A \/ QueryOutServo
    /\ StartTransmit
    /\ glitches' = Len(rx["USART5"])
    /\ UNCHANGED <<clk, rdr, bus, noisy, rxVars, current_tick_tx_eth>>

\* The address byte of the request that the devices hear.
Heard == message_adr[m0addr]

\* What the device makes of the request: it answers with some frame after some pause,
\* or not at all.
Answer ==
    \/ bus' = [bus EXCEPT !["USART5"] = Quiet]
    \/ /\ Heard \in Responders
       /\ \E n \in ReplyLengths, ok \in BOOLEAN, w \in 0 .. MaxLatency :
              bus' = [bus EXCEPT !["USART5"] =
                         [frame |-> [from |-> Heard, n |-> n, ok |-> ok],
                          wait |-> w, sent |-> 0]]

\* Mutant of TxEnd: USART5_RX is left out, and the line is not turned round.
TxEndNoTurn(p) ==
    /\ Serve(TxDma[p])
    /\ transmit' = [transmit EXCEPT ![p] = FALSE]
    /\ IF dir[p] = "tx" THEN Answer ELSE UNCHANGED bus
    /\ UNCHANGED <<pollVars, clk, dma, m0addr, dir, rdr, glitches, noisy, rxVars,
                   health, current_tick_tx_eth>>

\* DMA1_Channel6_IRQHandler and DMA1_Channel7_IRQHandler: the request is out.
\* Devices have heard it if the transceiver drove the line.
TxEnd(p) ==
    /\ Serve(TxDma[p])
    /\ dir' = [dir EXCEPT ![p] = "rx"]
    /\ transmit' = [transmit EXCEPT ![p] = FALSE]
    /\ IF dir[p] = "tx" THEN Answer ELSE UNCHANGED bus
    /\ UNCHANGED <<pollVars, clk, dma, m0addr, rdr, glitches, noisy, rxVars, health,
                   current_tick_tx_eth>>

\* Bytes that come in without the board having asked: another talker on
\* USART0's line, whose frames are at least GAP_USART5 byte times apart; noise on
\* USART5's input, which has no pull resistor and which the transceiver does not
\* drive while it transmits, a byte in a byte time at most.  Nothing clears the noise
\* but the end of an answer: beside silent devices it piles up slot after slot.
Chatter ==
    /\ pend = {}
    /\ Silent(bus["USART0"])
    /\ \E n \in ChatterLengths :
           bus' = [bus EXCEPT !["USART0"] =
                      [frame |-> [from |-> 0, n |-> n, ok |-> TRUE],
                       wait |-> GAP_USART5, sent |-> 0]]
    /\ UNCHANGED <<pollVars, clk, pend, dma, m0addr, dir, rdr, glitches, noisy, rxVars,
                   transmit, health, current_tick_tx_eth>>

Glitch ==
    /\ pend = {}
    /\ dir["USART5"] = "tx"
    /\ ~noisy /\ glitches < MaxGlitches
    /\ noisy' = TRUE
    /\ glitches' = glitches + 1
    /\ rdr' = [rdr EXCEPT !["USART5"] = Noise]
    /\ pend' = {"USART5"}
    /\ UNCHANGED <<pollVars, clk, dma, m0addr, dir, bus, rxVars, transmit, health,
                   current_tick_tx_eth>>

-----------------------------------------------------------------------------
\* USART0_IRQHandler and USART5_IRQHandler.

\* The byte is stored and the uint8_t counter moves on.
Stored(p) == IF Len(rx[p]) = 255 THEN <<>> ELSE Append(rx[p], rdr[p])

\* While the port transmits the byte is kept and nothing else is done.
StoreWhileTransmitting(p) ==
    /\ transmit[p]
    /\ rx' = [rx EXCEPT ![p] = Stored(p)]
    /\ UNCHANGED <<timer, timerEn>>

\* Mutants of StoreAndRestart: the timer is started by the first byte only; the
\* full buffer is noticed one byte late.
StoreAndStartOnce(p) ==
    /\ ~transmit[p]
    /\ Len(Stored(p)) < RX_BUFFER_SIZE
    /\ rx' = [rx EXCEPT ![p] = Stored(p)]
    /\ timer' = [timer EXCEPT ![p] = IF timerEn[p] THEN @ ELSE GAP[p]]
    /\ timerEn' = [timerEn EXCEPT ![p] = TRUE]
StoreAndRestartLate(p) ==
    /\ ~transmit[p]
    /\ Len(Stored(p)) <= RX_BUFFER_SIZE
    /\ rx' = [rx EXCEPT ![p] = Stored(p)]
    /\ timer' = [timer EXCEPT ![p] = IF timerEn[p] /\ timer[p] = 0 THEN 0 ELSE GAP[p]]
    /\ timerEn' = [timerEn EXCEPT ![p] = TRUE]

\* The rx timer starts again from 0.
StoreAndRestart(p) ==
    /\ ~transmit[p]
    /\ Len(Stored(p)) < RX_BUFFER_SIZE
    /\ rx' = [rx EXCEPT ![p] = Stored(p)]
    /\ timer' = [timer EXCEPT ![p] = IF timerEn[p] /\ timer[p] = 0 THEN 0 ELSE GAP[p]]
    /\ timerEn' = [timerEn EXCEPT ![p] = TRUE]

\* The buffer is full: what was received is dropped.
StoreAndDrop(p) ==
    /\ ~transmit[p]
    /\ Len(Stored(p)) >= RX_BUFFER_SIZE
    /\ rx' = [rx EXCEPT ![p] = <<>>]
    /\ UNCHANGED <<timer, timerEn>>

USART_IRQHandler(p) ==
    /\ Serve(p)
    /\ StoreWhileTransmitting(p) \/ StoreAndRestart(p) \/ StoreAndDrop(p)
    /\ UNCHANGED <<pollVars, clk, dma, m0addr, dir, rdr, bus, glitches, noisy, transmit,
                   health, current_tick_tx_eth>>

-----------------------------------------------------------------------------
\* Check_message_UART and what it calls: the health bits a message sets.

\* Mutant of Check_message_BKD: the length is that of the data, not of the frame.
CheckBKDDataLength(message) ==
    IF Len(message) = REPLY_SIZE - 1 /\ current_BKD < IN_TOTAL_BKD
    THEN {AdrBKD(current_device_in_BKDx, current_BKD)}
    ELSE {}

\* A health field has 12 bits, so 1 << current_BKD sets none in the servo slot.
Check_message_BKD(message) ==
    IF Len(message) = REPLY_SIZE /\ current_BKD < IN_TOTAL_BKD
    THEN {AdrBKD(current_device_in_BKDx, current_BKD)}
    ELSE {}

Check_message_BKHO_A(message) ==
    IF Len(message) = REPLY_SIZE THEN {current_device_in_BKHO_A} \cap BKHO_A ELSE {}

\* Mutant of Check_message_UART: the check sum is not compared.
CheckUARTNoCrc(message) ==
    IF Len(message) > 1
    THEN IF current_BKD # IN_TOTAL_BKD THEN Check_message_BKD(message)
                                       ELSE Check_message_BKHO_A(message)
    ELSE {}

\* The branch of Check_message_OUT_SERVO tests current_BKD = IN_TOTAL_BKD a
\* second time and is never taken: servo replies go to Check_message_BKD.
Check_message_UART(message) ==
    IF Len(message) > 1 /\ CrcOK(message)
    THEN IF current_BKD # IN_TOTAL_BKD THEN Check_message_BKD(message)
                                       ELSE Check_message_BKHO_A(message)
    ELSE {}

\* Mutants of EndRx: the counter is not reset; a checked message ends the slot.
EndRxKeepsCounter(p) ==
    /\ Serve(RxTimer[p])
    /\ health' = [health EXCEPT ![current_tick_tx_eth] = @ \cup Check_message_UART(rx[p])]
    /\ timer' = [timer EXCEPT ![p] = 0]
    /\ timerEn' = [timerEn EXCEPT ![p] = FALSE]
    /\ UNCHANGED <<pollVars, clk, dma, m0addr, dir, rdr, bus, glitches, noisy, transmit,
                   rx, current_tick_tx_eth>>
EndRxNextSlot(p) ==
    /\ Serve(RxTimer[p])
    /\ health' = [health EXCEPT ![current_tick_tx_eth] = @ \cup Check_message_UART(rx[p])]
    /\ timer' = [timer EXCEPT ![p] = 0]
    /\ rx' = [rx EXCEPT ![p] = <<>>]
    /\ timerEn' = [timerEn EXCEPT ![p] = FALSE]
    /\ current_BKD' = IF rx[p] # <<>> /\ current_BKD <= IN_TOTAL_BKD
                      THEN current_BKD + 1 ELSE current_BKD
    /\ UNCHANGED <<current_device_in_BKDx, current_device_in_BKHO_A,
                   current_device_in_OUT_SERVO, message_adr, clk, dma, m0addr,
                   dir, rdr, bus, glitches, noisy, transmit, current_tick_tx_eth>>

\* TIMER2_IRQHandler and TIMER4_IRQHandler: the line has been silent.
EndRx(p) ==
    /\ Serve(RxTimer[p])
    /\ health' = [health EXCEPT ![current_tick_tx_eth] = @ \cup Check_message_UART(rx[p])]
    /\ timer' = [timer EXCEPT ![p] = 0]
    /\ rx' = [rx EXCEPT ![p] = <<>>]
    /\ timerEn' = [timerEn EXCEPT ![p] = FALSE]
    /\ UNCHANGED <<pollVars, clk, dma, m0addr, dir, rdr, bus, glitches, noisy, transmit,
                   current_tick_tx_eth>>

-----------------------------------------------------------------------------
\* What Check_message_YV (main context, src/src/ethernet.c) does to the state
\* of this module: it makes the other buffer the current one.
SwitchBuffer ==
    /\ pend = {}
    /\ current_tick_tx_eth' = IF current_tick_tx_eth = 0 THEN 1 ELSE 0
    /\ UNCHANGED <<pollVars, hwVars, rxVars, transmit, health>>

Handlers ==
    \/ Qwerty_all_Device
    \/ \E p \in Ports : EndRx(p) \/ TxEnd(p) \/ USART_IRQHandler(p)

LinkNext == Advance \/ Handlers \/ Chatter \/ Glitch \/ SwitchBuffer

LinkSpec == LinkInit /\ [][LinkNext]_linkVars

\* The clock runs and the NVIC serves what is pending.
LinkFairSpec == LinkSpec /\ WF_linkVars(Advance) /\ WF_linkVars(Handlers)

-----------------------------------------------------------------------------
Frames == [from : 0 .. AND_ADR_OUT_SERVO, n : Nat, ok : BOOLEAN]
Bytes  == [frame : Frames, i : Nat]

\* Type correctness of the link's state.
LinkTypeOK ==
    /\ PollTypeOK
    /\ clk \in 0 .. SLOT - 1
    /\ pend \subseteq IRQ
    /\ dma \in [Ports -> 0 .. TX_SIZE] /\ m0addr \in Slots
    /\ transmit \in [Ports -> BOOLEAN]
    /\ dir \in [Ports -> {"tx", "rx"}]
    /\ rx \in [Ports -> Seq(Bytes)]
    /\ timer \in [Ports -> Nat] /\ \A p \in Ports : timer[p] <= GAP[p]
    /\ timerEn \in [Ports -> BOOLEAN]
    /\ rdr \in [Ports -> Bytes]
    /\ bus \in [Ports -> [frame : Frames, wait : Nat, sent : Nat]]
    /\ glitches \in Nat /\ noisy \in BOOLEAN
    /\ health \in [{0, 1} -> SUBSET Devices]
    /\ current_tick_tx_eth \in {0, 1}

\* What the handlers guarantee although they store a byte before they test the counter,
\* and do not test it while the port transmits: USART0's buffer is never overrun, although
\* frames of any length pile up in it; USART5's only by noise, stored while the board
\* transmits: no byte of an answer is ever written behind the end of the buffer.
\* (What lies behind it in memory, and is overwritten then, is not in the model.)
OnlyNoiseOverruns ==
    /\ Len(rx["USART0"]) < RX_BUFFER_SIZE
    /\ Len(rx["USART5"]) >= RX_BUFFER_SIZE =>
           \A i \in 1 .. Len(rx["USART5"]) : rx["USART5"][i] = Noise

\* The board never drives the line while a device is still answering.
HalfDuplex == dir["USART5"] = "tx" => Silent(bus["USART5"])

\* When the next poll starts, the previous one is over on every level: the
\* request was sent, the line turned round and silent again, the answer checked
\* and the rx timer stopped; the buffer holds nothing but noise.  (The first poll has
\* no previous one, Polled = 0: it finds the DMA of start-up still sending.)
SlotClean ==
    ("TIMER6" \in pend /\ "TIMER4" \notin pend /\ Polled # 0) =>
        /\ dir["USART5"] = "rx"
        /\ dma["USART5"] = 0
        /\ Silent(bus["USART5"])
        /\ "USART5" \notin pend
        /\ timer["USART5"] = 0
        /\ \A i \in 1 .. Len(rx["USART5"]) : rx["USART5"][i] = Noise

\* An answer still fits in USART5's buffer behind the noise of this slot.
Roomy == glitches + REPLY_SIZE < RX_BUFFER_SIZE

\* The rx timer of USART5 never cuts a frame: when it fires after bytes of an
\* answer, they are the whole answer, in order, at the end of the buffer.  (Behind too
\* much noise StoreAndDrop drops the beginning of the answer.)
FrameNeverCut ==
    LET r == rx["USART5"]
        f == bus["USART5"].frame
    IN  ("TIMER4" \in pend /\ Roomy /\ \E i \in 1 .. Len(r) : r[i] # Noise) =>
            /\ Silent(bus["USART5"])
            /\ Len(r) >= f.n
            /\ \A i \in 1 .. f.n : r[Len(r) - f.n + i] = [frame |-> f, i |-> i]

\* Only a device that is there is reported alive, whatever is late, damaged or
\* unasked for: a health bit is set for no device outside Responders.
NoGhostHealth == \A b \in {0, 1} : health[b] \subseteq Responders

\* What a step may do to the health bits: one that is set belongs to the device
\* whose undamaged answer is in USART5's buffer.
CreditsSender ==
    \A b \in {0, 1} : \A d \in health'[b] \ health[b] :
        /\ rx["USART5"] # <<>>
        /\ rx["USART5"][1].frame = [from |-> d, n |-> REPLY_SIZE, ok |-> TRUE]

\* A health bit is set only by the undamaged answer of the device it belongs to,
\* although nothing but the time tells Check_message_UART whose answer it has.
AttributedReply == [][CreditsSender]_linkVars

\* Why the slots stay apart: at every moment of a slot, the time that has passed
\* and the time that what is going on may still take fit together.  (When TIMER6
\* is pending its counter has wrapped and the whole slot has passed, but for the first
\* time, when timer_init has set the flag and no time has passed.)
Elapsed  == IF "TIMER6" \in pend /\ Polled # 0 THEN SLOT ELSE clk
Answered == TX_SIZE + MaxLatency + REPLY_SIZE
Deadlines ==
    /\ "TIMER6" \in pend => clk = 0
    /\ dma["USART5"] > 0 => Elapsed + dma["USART5"] <= TX_SIZE
    /\ "DMA1_CH6" \in pend => Elapsed <= TX_SIZE
    /\ ~Silent(bus["USART5"]) =>
           /\ bus["USART5"].sent < bus["USART5"].frame.n
           /\ Elapsed + bus["USART5"].wait + bus["USART5"].frame.n - bus["USART5"].sent
                  <= Answered
    /\ "USART5" \in pend => Elapsed <= Answered
    /\ timer["USART5"] > 0 => Elapsed + timer["USART5"] <= Answered + GAP_USART5

\* The direction pin and the transmit flag go together, and only a request that
\* is under way, its last interrupt included, holds the line.
Turns ==
    /\ dir["USART0"] = "rx"
    /\ transmit["USART5"] <=> dir["USART5"] = "tx"
    /\ dir["USART5"] = "tx" => /\ dma["USART5"] > 0 \/ "DMA1_CH6" \in pend
                               /\ Silent(bus["USART5"])

\* Bytes of an answer wait in the buffer only while the rx timer is going to see
\* them; a byte that comes in while the board transmits is noise, like all that waits
\* then, and so is everything that has overrun the buffer.
OnlyNoise == \A i \in 1 .. Len(rx["USART5"]) : rx["USART5"][i] = Noise
Reception ==
    /\ timerEn["USART5"] => timer["USART5"] > 0 \/ "TIMER4" \in pend
    /\ (\E i \in 1 .. Len(rx["USART5"]) : rx["USART5"][i] # Noise) =>
           timer["USART5"] > 0 \/ "TIMER4" \in pend
    /\ transmit["USART5"] /\ "USART5" \in pend => rdr["USART5"] = Noise
    /\ transmit["USART5"] \/ Len(rx["USART5"]) >= RX_BUFFER_SIZE => OnlyNoise

\* Start-up.  The first poll comes at once, when nothing has been heard yet and the
\* channel is still sending the row 0 without an address; until the next poll the
\* devices hear the rest of that row, and no request.
StartUp ==
    /\ Polled = 0 =>
           /\ current_BKD = 0 /\ \A s \in Slots : message_adr[s] = 0
           /\ pend = {"TIMER6"} /\ dma["USART5"] > 0 /\ m0addr = 0
           /\ rx["USART5"] = <<>> /\ bus["USART5"] = Quiet
    /\ m0addr = current_BKD \/ Heard = 0

\* The inductive invariant of the link.
LinkInv == LinkTypeOK /\ Deadlines /\ Turns /\ Reception /\ StartUp

\* What the attribution of replies rests on, when nobody speaks on USART0: a byte
\* is noise or comes from the device that was polled last, which is there.
OfPolled(byte) ==
    \/ byte = Noise
    \/ byte.frame.from = Polled /\ Polled \in Responders
FromPolled ==
    /\ bus["USART0"] = Quiet /\ "USART0" \notin pend /\ rx["USART0"] = <<>>
    /\ ~Silent(bus["USART5"]) => /\ bus["USART5"].frame.from = Polled
                                 /\ Polled \in Responders
    /\ "USART5" \in pend => OfPolled(rdr["USART5"])
    /\ \A i \in 1 .. Len(rx["USART5"]) : OfPolled(rx["USART5"][i])

\* Byte i of the frame f.
ByteOf(f, i) == [frame |-> f, i |-> i]

\* The buffer r holds at most g bytes of noise, and behind them the first m bytes of
\* the frame f.
Holds(r, f, m, g) ==
    LET noise == Len(r) - m
    IN  /\ noise \in 0 .. g
        /\ \A i \in 1 .. Len(r) :
               r[i] = IF i <= noise THEN Noise ELSE ByteOf(f, i - noise)

\* USART5's buffer, the frame on its line and the noise there was.
Buffered(m) == Holds(rx["USART5"], bus["USART5"].frame, m, glitches)

\* Why no frame is cut: from the request to the end of the answer, the buffer holds
\* what has come off the line so far, and the rx timer is stopped before the first byte
\* (in the slot after start-up, which has no answer, it may still be running) and
\* started again by each one.
LineBounded ==
    /\ bus["USART5"].sent <= bus["USART5"].frame.n
    /\ bus["USART5"].frame.n <= REPLY_SIZE
WhileSending ==
    transmit["USART5"] =>
        /\ Buffered(0)
        /\ Heard # 0 => timer["USART5"] = 0 /\ "TIMER4" \notin pend
        /\ "USART5" \in pend => /\ Len(rx["USART5"]) < glitches
                                /\ "DMA1_CH6" \notin pend /\ "TIMER4" \notin pend
ByteWaiting ==
    LET line == bus["USART5"]
    IN  ~transmit["USART5"] /\ "USART5" \in pend =>
            /\ line.sent > 0 /\ line.wait = 0
            /\ rdr["USART5"] = ByteOf(line.frame, line.sent)
            /\ Buffered(line.sent - 1) /\ "TIMER4" \notin pend
            /\ timer["USART5"] = IF line.sent = 1 THEN 0 ELSE GAP_USART5 - 1
BetweenBytes ==
    LET line == bus["USART5"]
    IN  ~Silent(line) /\ "USART5" \notin pend =>
            /\ line.sent > 0 => line.wait = 0
            /\ Buffered(line.sent) /\ "TIMER4" \notin pend
            /\ timer["USART5"] = IF line.sent = 0 THEN 0 ELSE GAP_USART5
AfterAnswer ==
    ~transmit["USART5"] /\ Silent(bus["USART5"]) /\ "USART5" \notin pend =>
        Buffered(0) \/ Buffered(bus["USART5"].frame.n)
Collecting == WhileSending /\ ByteWaiting /\ BetweenBytes /\ AfterAnswer

\* The slots whose answers Check_message_UART credits to the device that was polled.
Credited == current_BKD < IN_TOTAL_BKD \/ (current_BKD = SlotBKHO /\ WarmBKHO_A)

\* An undamaged answer of a BKD or BKHO_A device is in the packet before the
\* next poll, in one of the two buffers.  (A device in the BKHO_A slot answers
\* for itself only once the counter has reached BKHO_A.)
RecordedInTime ==
    LET f == bus["USART5"].frame
    IN  /\ "TIMER6" \in pend /\ "TIMER4" \notin pend
        /\ f.ok /\ f.n = REPLY_SIZE /\ glitches = 0
        /\ Credited
        => f.from \in health[0] \cup health[1]

\* Why an answer is recorded: once the request is out the frame on the line is the
\* polled device's; and when it has come in whole the rx timer is going to see it, or
\* has seen it and its health bit is set.
AnswerOfPolled ==
    LET f == bus["USART5"].frame
    IN  ~transmit["USART5"] => f = NoFrame \/ (f.from = Polled /\ Polled \in Responders)
AnswerSeen ==
    LET f == bus["USART5"].frame
    IN  /\ ~transmit["USART5"] /\ Silent(bus["USART5"]) /\ "USART5" \notin pend
        /\ f.ok /\ f.n = REPLY_SIZE /\ glitches = 0 /\ Credited
        => \/ Buffered(f.n) /\ (timer["USART5"] > 0 \/ "TIMER4" \in pend)
           \/ f.from \in health[0] \cup health[1]

\* USART0, whose buffer any other talker may fill: it is never in the state in which
\* the handler stores bytes without looking at the counter.
Usart0Guarded == ~transmit["USART0"] /\ Len(rx["USART0"]) < RX_BUFFER_SIZE

\* The inductive invariant of the link and its reception.
ReplyInv ==
    /\ LinkInv
    /\ LineBounded /\ (Roomy => Collecting)
    /\ AnswerOfPolled /\ AnswerSeen
    /\ Usart0Guarded

\* What the comment "Check Out Servo" in Check_message_UART says: the answer of
\* a servo drive reaches Check_message_OUT_SERVO, which sets its health bit.
ServoRecordedInTime ==
    LET f == bus["USART5"].frame
    IN  /\ "TIMER6" \in pend /\ "TIMER4" \notin pend
        /\ f.ok /\ f.n = REPLY_SIZE /\ glitches = 0
        /\ current_BKD = SlotServo /\ WarmServo
        => f.from \in health[0] \cup health[1]
=============================================================================
