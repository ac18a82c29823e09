# Verification of the YLS board firmware (GD32F450)

The firmware in `src/` runs a board, YLS, that sits between a host called YV
(Ethernet, UDP) and up to 176 devices on an RS-485 line: 12 BKD blocks of 12
processors, a BKHO_A unit of 24, and 8 outer servo drives.  A hardware timer polls
one device every 126 us; replies are gathered in a packet that is sent to YV
whenever YV sends one.  There is no operating system: everything is interrupt
handlers of one preemption level and a main loop below them.

## Inventory

| Component | State | Operations | Interacts through |
|---|---|---|---|
| Poll schedule (`uart.c`, `Qwerty_all_Device`) | `current_BKD`, `current_device_in_BKDx`, `..._BKHO_A`, `..._OUT_SERVO`, byte 0 of the rows of `message_from_BKD` | one step per TIMER6 interrupt | the rows (with main and the DMA), the counters (with the check of replies) |
| RS-485 link (`uart.c`) | transmit flags, receive buffers and counters, `timer2En`, `timer4En`, direction pins, DMA channels | handlers of TIMER2, TIMER4, TIMER6, USART0, USART5, DMA1 channels 6 and 7 | health bits of `YLSToYVPack[current_tick_tx_eth]` |
| YV packets (`ethernet.c`) | `message_from_BKD`, `YLSToYVPack[2]`, `current_tick_tx_eth` | `udp_reciev`, `Check_message_YV`, `udp_send_buf` | shared with every handler above; lwIP |
| Interrupt priorities (`nvic_irq_enable` and its calls) | NVIC registers | set once | decides which of two simultaneous handlers runs first |
| Start-up (`main.c`, `init_config.c`, `ConfigurationUSARTn.c`) | peripheral registers | once | leaves DMA channels and timers running |
| Main loop and Ethernet driver (`main.c`, `ethernetif.c`, `gd32f4xx_enet.c`) | two rings of descriptors, `dma_current_rxdesc`, `dma_current_txdesc` | poll, drop, copy, release, send | the DMA, through the bit DAV of each descriptor and poll demands; calls lwIP |
| Time base (`main.c`, `gd32f4xx_it.c`, `netconf.c`) | `g_localtime`, last times of the lwIP timers | SysTick, `lwip_timeouts_check` | drives `etharp_tmr` |
| lwIP: ARP cache (`etharp.c`) | `arp_table`, `etharp_cached_entry` | `etharp_output`, `etharp_input`, `etharp_tmr` | every packet the board sends; hosts of the network |
| lwIP: reassembly (`ip4_frag.c`) and receive buffers (`pbuf.c`) | `reassdatagrams`, `ip_reass_pbufcount`, the pool | `ip4_reass`, `ip_reass_tmr` | shares the pool with `low_level_input` |
| lwIP: the rest | - | UDP only is used | `udp_reciev`, `udp_send_buf` |
| Packet layout (`protocol.h`) | packed structures | none | indices used by `uart.c`, `ethernet.c` |
| Clock, GPIO, PHY set-up; fault handlers; vendor library | registers | once | - |

What is hard here:

* replies carry no sequence number or sender: a reply belongs to a request only
  because it came in the same slot, so correctness is timing and the order of
  interrupts that fall together;
* main writes rows and switches buffers while handlers and the DMA use them,
  without a lock anywhere;
* small unsigned counters wrap, index arrays and serve as shift counts;
* buffers are bounded by a test made after the write;
* the Ethernet DMA and main share descriptors without interrupts or locks, and a
  suspended DMA goes on only if main asks it to, in the right order;
* lwIP's caches and queues rely on timers that this board never runs.

`PROJECT.json` lists these hazards line by line, with the properties that would
catch each one going wrong.

## Modules

* **PollSchedule** - the schedule alone: four counters and the address bytes.  One
  action per kind of slot (`PollBKD`, `PollBKHO_A`, `PollOutServo`), each containing
  the common head of `Qwerty_all_Device` (`NextSlot`).  It is also the abstract
  specification of what Rs485Link does to these variables.
* **PollScheduleProofs** - TLAPS proofs about it.
* **Rs485Link** (extends PollSchedule) - one action per interrupt handler, plus the
  hardware (`Advance`: one byte time passes), the devices (`Answer`) and disturbances
  (`Glitch`, `Chatter`).  `pend` is the set of pending interrupts; `Serve` picks the
  one that the NVIC would.  `Qwerty_all_Device` contains the actions of PollSchedule.
  USART0 and USART5 have the same handlers, which are written once with the port as
  a parameter.
  It begins where `Timer6_config` enables TIMER6's interrupt.  `timer_init` has set the
  update flag (UPG) and it is cleared only afterwards, so the first poll comes at once,
  while channel 6, which `ConfigUsartDMA_Tx` enabled, is still sending row 0.  An enabled
  channel ignores what `StartTransmit` writes to its address and count: the first request is lost,
  the devices hear the rest of row 0, which has no address (`Heard`), and nobody
  answers in the first slot.
* **Station** (extends Rs485Link) - adds the main context: `Check_message_YV` field by
  field, the switch of buffers, and the two moments at which the payload is read
  (`Sum`, `Copy`).  It also follows the contents of a request: the DMA reads one
  part of the row per byte time, and the check sum is what the row held when TIMER6
  ran.  Each part is known by the packet and the field it came from.
* **FrameQueue** - an abstract queue: items are numbered as they are offered and taken in
  that order, none twice.  It may be lossy, direct (an item may be taken in the moment
  it is offered) and bounded.
* **EnetRing** - both rings of Ethernet descriptors.  The DMA (external: written from how
  the driver programs it) stores a frame in one descriptor or two, suspends, flushes and
  sends.  Main has one action between any two of its accesses to shared state:
  `enet_rxframe_size_get` (`PollNone`, `PollDrop`, `PollFrame`), `low_level_input`
  (`ReadLength`, `CopyFrame`), `enet_frame_receive` (`ReleaseBusy`, `Release`, `Resume`),
  `ethernetif_input` (`Input`), `low_level_output` and `enet_frame_transmit`
  (`LowLevelOutput`, `Demand`).  Implements FrameQueue twice.
* **EthArp** - the ARP cache and the clock that drives it.  lwIP runs in main only, so a
  call is one step.  Every kind of entry, the recycling order of `etharp_find_entry`, the
  one-packet queue of a pending entry and the shared `etharp_cached_entry` are there.
  For each address it implements FrameQueue.
* **IpReass** - reassembly of IP fragments and the pool of receive buffers: both limits,
  eviction of the oldest datagrams, overlap, completion and timeout.  The buffers of a
  fragment are counted as a set (buffer k of fragment f), and the list that is left after
  a removal is given by position, order kept; both are what the code's loops arrive at.
* **Rs485LinkProofs**, **Rs485ReplyProofs** (what becomes of an answer), **StationProofs**,
  **EnetRingProofs**, **EthArpProofs**, **IpReassProofs** - TLAPS proofs about them.
* **MCRs485Link**, **MCStation**, **MCEthArp** - the instances that TLC checks (EnetRing,
  IpReass and PollSchedule need no such module).

State that names a C variable has its name.  `rx[p]` is `usartN_buffer_rx` up to
`usartN_counter`; `transmit[p]` is `usartN_transmit`; `timerEn[p]` is `timer2En` or
`timer4En`; `health[b]` is the set of devices whose bit in
`YLSToYVPack[b].data.health_abonent` is set, devices being numbered by address (the
`switch` statements of `uart.c` give each address a bit of its own, the same one
where it is cleared and where it is set).

### Abstractions

* Time is discrete, in byte times (2 us at 5 Mbaud).  Handlers take no time.  The wait
  loop of `USART5_RX` is part of the time of a request.
* The check sum is ideal: `Crc8` accepts whole undamaged frames and nothing else.
* Of what a reply stores only the health bit is kept, not the data.
* Main takes its steps in source order.  `message_from_BKD` is not `volatile`, so a
  compiler may reorder the byte stores; a request could then mix two packets in
  another pattern than the one `MixesNeighboursOnly` states.
* The low bytes of a row's two angles are one field, and so are the high bytes.  The
  inner check byte [15] is a field known by its packet.
* The filter on `command` is a function of one packet and does not appear.
* Packets of a length other than 80 bytes are dropped at once and have no action.
* Noise comes in while the board transmits, when nothing drives USART5's input, a byte in
  a byte time at most (`noisy`).  `glitches` is the number of noise bytes that an answer of this
  slot may have before it: what was in the buffer when the poll began and what came since.
  Nothing but the end of an answer clears them, so they pile up beside silent devices.
  `Roomy` says that an answer still fits behind them.
* When noise has overrun USART5's buffer the counter goes on as in the code, up to its
  wrap at 256; what lies behind the buffer in memory and is overwritten is not modelled.
  So of a board that has come that far, the properties say what its handlers do, not what else
  has been damaged.
* EnetRing: a frame is its number; a frame takes at most two descriptors.  The chain is
  in chained mode, as `low_level_init` sets it up.  What lwIP does with a frame is
  `Send`, any number of times.
* EthArp: broadcast, multicast and unroutable packets do not touch the cache.  Memory may
  run out whenever it is asked for.  `newest` records who claimed an address last in any
  well-formed ARP packet, whether the cache took it or not.
* IpReass: fragments are well formed, and datagrams under way have different
  identifications.  Lengths count units of 8 bytes.  The list of fragments is a set,
  because the code keeps it sorted and disjoint (`Disjoint`).  A frame that is no
  fragment leaves everything as it was and is not a step.

## Runs

| Run | Instance | Shows |
|---|---|---|
| `poll` | sizes of the source | no counter leaves its range; a round asks all blocks for the same processor; after the warm-up a device has one slot, for good; every device is polled for ever |
| `link` | from the start-up on; 2 blocks, 4 devices, one absent; byte counts and periods of the source, pauses of up to 9 byte times, no slack in the slot | half duplex, clean slots, uncut frames, no health bit for an absent device, every good reply recorded in time and credited to its sender; the inductive invariant of the proofs (`ReplyInv`, which contains `LinkInv`); Rs485Link implements PollSchedule |
| `link_usart0` | a talker on USART0, more noise on USART5 than its buffer holds | USART0's buffer stays in bounds although its frames run together, USART5's is overrun only by noise (`OnlyNoiseOverruns`), and polling never stops |
| `link_servo` | as `link`, shorter frames | *violation*: a servo drive's reply is never recorded |
| `station` | 1 block, 3 devices, 2 packets | what a device accepts is a snapshot of its row: fields of one packet, followed by fields of the packet before; the inductive invariant behind it (`StationInv`); Station implements Rs485Link |
| `station_live` | 1 packet | the last packet of YV reaches every BKD block and BKHO_A whole |
| `station_pbuf` | 1 packet | *violation*: a datagram's payload changes after its check sum was computed |
| `enet` | 3 receive and 2 transmit descriptors, 4 frames in, 3 out | each descriptor has one owner; lwIP gets the frame whose length was read, frames in order and once; every loss is explained; what lwIP sends leaves in order and complete; a suspended DMA is always resumed; `low_level_output` returns |
| `arp` | 2 entries, 3 hosts, one of which changes its hardware address; the clock running | one entry per address; a packet waits on its own pending entry, goes to the host that claimed the address last, in order; no address stays pending |
| `arp_clock` | the same with this board's clock | *violation*: an address stays pending for ever |
| `reass` | 5 buffers of which 4 may wait, 2 datagrams of 4 units at a time, timer running | buffers are accounted for; only whole datagrams pass; the list is well formed (`WellFormed`: one entry per datagram, with disjoint parts of its own, ordered by age); eviction frees the last of the other datagrams (`EvictsLast`) and spares the fragment's own; no step makes a waiting datagram younger, and each call of the timer makes it older (`OnlyAges`) |
| `reass_pool` | pool and limit equal and no timer, as on this board | *violation*: reception can end for good |

What the Ethernet and lwIP runs say about the board, beyond pass or violation:

* `enet_rxframe_size_get` returns 1 after it has dropped a bad frame; main takes this for
  a frame and goes on with the next descriptor unchecked.  That is the only way in which a
  damaged or partial frame reaches lwIP, and, besides `pbuf_alloc` failing, the only way in which
  a good one is lost (`Explained`).  It is also what saves reception after a drop, since
  `enet_rxframe_drop` makes no poll demand: with another result the DMA would stay
  suspended (`RxResumed`).
* `AgeOrdered` and `EvictsLast` answer the `@todo` of `ip_reass_remove_oldest_datagram`: the
  oldest datagram is always the last of the list, and what the search finds is always the
  last of the datagrams other than the fragment's own.  The "<=" of the search matters: with
  "<" it would be the first of those of one age.
* With `SYSTEMTICK_PERIOD_MS` 0, `g_localtime` never moves: pending ARP entries stay until
  they are recycled, and stable ones never expire.
* `PBUF_POOL_SIZE` equals `IP_REASS_MAX_PBUFS`, against the advice in `opt.h`, and nothing
  calls `ip_reass_tmr`: main calls `lwip_timeouts_check`, which knows the TCP and ARP timers
  only.  So a datagram with a missing fragment waits for ever unless it is evicted; that
  it is given up is not stated as a property, because it would rest on a timer that never runs.
  What holds whether the timer is called or not is `OnlyAges`.

What the RS-485 runs say beyond that: the test of `usart5_counter` guards the buffer only
while the board listens.  Noise does overrun USART5's buffer, in `link_usart0` as in the
code, and `OnlyNoiseOverruns` says that nothing else does.  A byte in a byte time during
a request of 20 bytes fills the 200 bytes in ten slots, if no device answers in any of them: TIMER4 is started by a byte that comes
in while the board listens, and only its handler, or such a byte at the limit, sets the
counter back.

Facts about single lines that have no run: until the counters of BKHO_A and of the servos
have climbed from 1, their slots speak to devices of other groups (`uart.c:183`); `Timer2_config`
never calls `timer_init`, so TIMER2 keeps its reset period of 655 us instead of 2.4 us and
frames on USART0 run together (`init_config.c:272`); BKHO_A is sent a byte of `ykp_angle` where
its mask belongs (`ethernet.c:40` against `protocol.h:159`).

A request that TIMER6 builds in the middle of `Check_message_YV` is accepted by the
device although it mixes two packets, down to the two bytes of one angle;
`MixesNeighboursOnly` says exactly how much mixing there is, and
`LastPacketDelivered` that it does not last.  A request that main changes while the
DMA reads it fails its check sum.

**Bounds.** Two blocks are enough for a neighbour in the same round and one in the
next; one device per group shortens the warm-up, whose real length the `poll` run
covers.  In `link_usart0` the buffer has 6 bytes and noise up to 7, one more than
overruns it; a slot brings few of them, so it takes several silent slots.  `LatencyBudget`
is tight in `link`, so the end of a reply and the next poll do meet.  One noise byte suffices to damage a reply.  Two packets
are needed for a mixture; `MaxPackets` and `MaxGlitches` are the only bounds on
behaviour.  In `station` one device may answer, and stays silent, damages its reply or
sends it well, which gives the health bits everything they can do.
`enet`: three receive descriptors are enough for a drop, the descriptor taken after it and
one that the DMA fills meanwhile, and for a frame in two parts with the ring full; four
frames wrap the ring.  `arp`: two entries for three addresses force recycling;
`MaxPackets` bounds the packets, the ages are short (seconds of the source scaled down) and
the clock wraps (`TimeModulus`).  `reass`: a datagram of four units in buffers of two can
be split into two, three or four fragments in every way, of one buffer or two; each limit is reached
before the other in some behaviour.

**Assumptions on the environment.** A device answers only when asked and within
`MaxLatency` (`LatencyBudget`); without this a reply is credited to the next device.  The
amount of noise is not restricted: `MaxGlitches` is a bound for TLC, any number in the
proofs, and what is said of an answer behind much noise says so (`Roomy`, `glitches = 0`).

**Fairness.** The clock (`Advance`, `Tick`) and the handlers are weakly fair: timers
run freely, and the NVIC leaves nothing pending for ever.  Main is weakly fair within a
packet: handlers are far shorter than a slot.  No fairness is assumed of devices,
noise or YV.
In EnetRing main is weakly fair (it never blocks but in `low_level_output`), the DMA
finishes a frame it has begun (`RxStoreSecond`), and the MAC sends what it is given
(`TxSend`: the link is up); it resumes only by a poll demand, and no frame need arrive.  In
EthArp SysTick is weakly fair and `Timer` strongly: main calls `lwip_timeouts_check` in
every turn of its loop, many times in each interval of a second, so it cannot miss for ever an
interval that is over again and again.  In IpReass (`ReassFairSpec`,
used by `reass_pool` only) fragments that can be taken keep coming in; of `ip_reass_tmr`, which
this board never calls, nothing is assumed.

## Proofs

**PollScheduleProofs**, for all sizes that satisfy `SizesAssumption` (every count
positive, the last address below 255, so that `++x > AND_ADR` can be true of a
`uint8_t`):

* `PollTypeCorrect`: the type invariant;
* `RoundsAreConsistent`, `OneSlotPerDeviceHolds`, `RangeStability`: `[]RoundConsistent`,
  `[]OneSlotPerDevice` and the action property `RangeStable`.

The inductive invariant is `PollInv`: types, `RoundConsistent` and `GroupRows`.
`OneSlotPerDevice` alone is not inductive: that two rows differ after a step follows
only from knowing what every row holds, this or the previous round's processor of its
block, or its group's counter.  The address plan then keeps them apart: blocks occupy
disjoint intervals (`BlocksDisjoint`), below BKHO_A (`BlockRange`), below the servos.
The products of two constants in the address plan are beyond linear arithmetic, so the
lemmas `ProductNat`, `BlockRange` and `BlocksDisjoint` isolate them.

**Rs485LinkProofs**, for all timings that satisfy `LatencyBudget`, all sets of fitted
devices, reply lengths and numbers of noise bytes, from the start-up on:

* `LinkImplementsPoll`: only TIMER6's handler touches the schedule, and each time makes
  one step of it; so everything proved of the schedule holds of the link;
* `LinkTypeCorrect`; `LinkInvariant`, `SlotsAreClean`, `LineIsHalfDuplex`;
* `RepliesAreAttributed` and `NoGhosts`, for a board on whose USART0 nobody speaks
  (`ChatterLengths = {}`): a frame there would be credited to the device being polled.

The inductive invariant is `LinkInv`: types, `Deadlines`, `Turns`, `Reception` and
`StartUp`.
`SlotClean` speaks only of the moment a slot ends; what makes it true is that in every
phase the time elapsed plus the time the phase may still take stays within the budget:
the DMA within `TX_SIZE`, the answer within `Answered`, the rx timer within `Answered +
GAP_USART5`.  A byte time adds one to the elapsed time and takes one from what remains;
each handler starts the next phase within its budget.  The first poll is the exception that
`StartUp` is about: it comes when no time has passed (`Elapsed`) and the channel still has a
whole `TX_SIZE` at most to send, so the first slot fits, too; and as nobody hears its
request (`FirstPollUnheard`) there is no answer in it.  `SlotClean` therefore speaks of
every poll but the first.  `Reception` adds that bytes of an
answer wait only while the rx timer will see them, which needs that TIMER4's handler
precedes USART5's (`Priorities`).  For the attribution `FromPolled` says that every byte
is noise or comes from the device polled last; the poll preserves it only because the
buffer is clean and TIMER4's handler also precedes TIMER6's.  `PollInv` then connects
the address on the bus with the device that `Check_message_UART` credits
(`Attribution`).

**Rs485ReplyProofs**, under the assumptions of Rs485LinkProofs, with any talker on USART0
and any amount of noise:

* `ReplyInvariant`: the inductive invariant of the reception;
* `BuffersInBounds` (`OnlyNoiseOverruns`), `FramesAreWhole`, `RepliesAreRecorded`.

`ReplyInv` is `LinkInv` and what follows one answer through the slot.  `LineBounded` bounds
the frame on the line.  `Collecting` says, as long as an answer fits behind the noise (`Roomy`),
what USART5's buffer holds: the noise so far while the board transmits, then the noise
and the bytes that have come off the line, one less while a byte waits for its handler;
and that the rx timer is stopped before the first byte and restarted by each.  That a
frame is not cut is not inductive without it: it is a fact about the timer's value between
two bytes.  With less room the handler drops the beginning of an answer, and the
poll that follows may find room again only if the buffer is short (`glitches` is what it
holds).  That only noise overruns the buffer is `Reception`: once the board listens, a byte at
the limit empties the buffer.  `AnswerOfPolled` says
whose answer it is, `AnswerSeen` that an answer that is in is waiting for the rx timer or
recorded, and `Usart0Guarded` keeps the other port out of the state in which its handler
does not look at the counter.

**StationProofs**, for any number of packets, blocks and devices:

* `StationImplementsLink`, by which the theorems about the link hold with the main context
  running; `StationSlotsAreClean` and `StationRepliesAreRecorded` are instances;
* `StationTypeCorrect`; `StationInStep`, the inductive invariant; `RequestsAreSnapshots`.

`StationInv` has three parts besides the types.  `RowsInStep`: each row's fields are of the last packet or
the one before, according to the place where `Check_message_YV` is.  `SummedAtOnce`: the
check sum of a row was computed over such a state.  `WireInStep`: what the DMA has read
and its counter make up one request, and the check sum at its end is the one that TIMER6
computed for the row polled now.  A device that accepts a request has read the same bytes
that the check sum was computed over, hence a snapshot.

**EnetRingProofs**, for rings of any size of at least two descriptors:

* `RingTypeCorrect`, `WindowsHold`, `CopiedBeforeReuseHolds`, `LossesExplained`;
* `TransmitImplementsQueue`: transmission implements FrameQueue without losses, bounded
  by the ring;
* `ReceiveImplementsQueue`: reception implements FrameQueue with losses.

`RingInv` has three parts.  `RxInv` and `TxInv` say that the descriptors of one side are a
window of the ring; the lemmas `WindowGrows` and `WindowShrinks` are about any ring and
serve both.  `Windows` alone is not enough: the DMA may write the second part of a frame only
because the descriptor for it was its own before (`RxInv`), and a frame is sent in
order only because the DMA's descriptors hold consecutive numbers, as many as are under way
(`TxInv`, `InFlight`).  `MainInv` says what main knows at each point: between the reading
of a length and the release the descriptor does not change under it, because the DMA
only writes to its own.  For the order of reception `RxOrder` is needed besides: main may give lwIP the first part
of a frame unchecked, and what keeps it from giving it the second part of the same frame
is that a second part is never valid and so is dropped by the next poll.

**EthArpProofs**, for every table size, all hosts, claims, ages and clocks:

* `ArpTypeCorrect`, `OneEntryHolds`, `QueuedPackets`, `RightHostHolds`;
* `PacketsInOrder`: for each address the cache implements FrameQueue.

The invariant `ArpInv` is the conjunction of these with `Sound`: an entry in use has a proper
address, and nothing was sent that was not submitted.  The parts need each other: that an
update does not leave a second entry with an old hardware address (`RightHost`) follows
from `OneEntry`, and that a packet sent directly does not overtake a waiting one from
`QueuedWhilePending`.

**IpReassProofs**, for every size of the pools, every length of datagrams and buffers
and every way to split a datagram:

* `ReassTypeCorrect`, `BuffersAccounted`, `ListWellFormed`, `PassedIsWhole`;
* `OwnDatagramKept` and `NeverYounger`: the action properties `KeepsOwn` and `OnlyAges`;
* `EvictionIsLast`: the eviction loop has one outcome in every state that can be reached.

The inductive invariant is `ReassInv`: the list is well formed (`ListOK`: types, one entry
per datagram, own and disjoint fragments, ordered by age), holds finitely many buffers,
within the limits, and `Accounted`.  The parts need each other: that the buffers of the
entries that go and of those that stay add up follows from the entries having different
buffers, which follows from their fragments being their own and their datagrams different.
With the buffers as a set the accounting is the cardinality of disjoint unions and needs no
induction.  What would need induction otherwise is reduced to one lemma, that a set
of naturals has a least element (`Least`): it shows that the list after a removal enumerates
the entries that stay (`Thinned`), that a finished datagram covers every byte (a first
byte not covered would begin a hole, `FinishedCovers`), and that the eviction loop has an
outcome (the least number of last entries that make enough room).

Only model-checked: the liveness properties (`EveryDevicePolled`, `LastPacketDelivered`,
`RxResumed`, `SendCompletes`, `PendingSettles`), which are outside the prover's
reach, as is ENABLED; and the four runs that expect a violation.  Every invariant, every
action property and every refinement that a passing run checks is proved.

## Not modelled

* The data a reply stores, and the offsets of `protocol.h`: in the servo slot
  `Check_message_BKD` indexes arrays with 13 (`uart.c:444`), which writes past them into other
  fields of the packed structure.
* Start-up beyond the state it leaves; clock, GPIO and PHY registers; the fault handlers,
  which only loop.
* TCP, DHCP, IPv6, PPP, ICMP, the sequential APIs and the applications of lwIP: they are in the
  repository but this firmware opens one UDP socket and nothing else; `tcp_tmr` runs over empty
  lists.  They are most of the repository's lines, so the share of all lines that is
  modelled stays small although the board's own code is covered.
* Sending side of IP fragmentation: a reply fits one frame.
* The rest of the peripheral library: register access without state of its own.

## Plan

1. *Done*: PollSchedule, Rs485Link, Station, FrameQueue, EnetRing, EthArp, IpReass and the
   proofs above.
2. The data of a reply in Station, so that a datagram's health bits and data can be
   compared across the switch of buffers.
3. Safety parts of the liveness arguments, as invariants with proofs: what keeps a suspended
   DMA resumable (behind `RxResumed` and `SendCompletes`), and that the age of a pending ARP
   entry only grows (behind `PendingSettles`).
