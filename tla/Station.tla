------------------------------ MODULE Station ------------------------------
(***************************************************************************)
(* The whole board between YV and the devices: the interrupt side of       *)
(* Rs485Link together with the main context, which the interrupts preempt  *)
(* between any two of its accesses to what they share (src/src/ethernet.c):*)
(*                                                                         *)
(*  - Check_message_YV copies the fields of a YV packet into the rows of   *)
(*    message_from_BKD, from which TIMER6 and the DMA build requests;      *)
(*  - it makes the other buffer the current one and sends that buffer,     *)
(*    whose health bits the handlers go on changing.                       *)
(*                                                                         *)
(* A value is known by the packet it came from and the field it was read   *)
(* from.  A request is the sequence of its parts in the order in which the *)
(* DMA reads them, one per byte time.  Packets of another length than 80   *)
(* bytes are dropped by udp_reciev and have no action.  The inner check    *)
(* byte [15], which main computes over the row, address included, is known *)
(* like the other values by its packet.                                    *)
(***************************************************************************)
EXTENDS Rs485Link

CONSTANT MaxPackets     \* bound on the number of packets from YV

Fields == <<"command", "mask", "angle_low", "angle_high", "crc15">>
Angle  == {"angle_low", "angle_high"}
AllFields == {Fields[k] : k \in 1 .. Len(Fields)}
Parts  == <<"adr">> \o Fields \o <<"crc">>

ASSUME StationAssumption == MaxPackets \in Nat /\ TX_SIZE = Len(Parts)

VARIABLES
    pc,        \* where main is: "idle", "rows", "switch", "sum", "copy"
    row, fld,  \* the row and the field Check_message_YV writes next
    yv,        \* packets accepted so far; the last is the one being handled
    rows,      \* bytes [1], [2], [4..7], [15] of the rows of message_from_BKD;
               \* low and high bytes of the two angles of a row stand for both
    crc,       \* byte [19] of each row: what Crc8 was computed over
    wire,      \* the parts of the request that the DMA has read
    summed,    \* the payload the UDP check sum was computed over
    sent       \* the last datagram: the payload that went out and the one summed

mainVars    == <<pc, row, fld, yv, rows, summed, sent>>
stationVars == <<linkVars, mainVars, crc, wire>>

-----------------------------------------------------------------------------
\* The rows Check_message_YV fills: the loop runs over the BKD blocks and BKHO_A.
FilledRows == 0 .. IN_TOTAL_BKD

\* The field of the YV packet that ends up in a field of row i.  For row
\* IN_TOTAL_BKD the indices are one past the arrays of the packed structure:
\* yps_mask[12] is the first byte of ykp_angle, ykp_angle[12] is out_ykp_angle.
SourceOf(i, f) ==
    CASE f = "command" -> <<"command", 0>>
      [] f = "mask"    -> IF i < IN_TOTAL_BKD THEN <<"yps_mask", i>> ELSE <<"ykp_angle", 0>>
      [] f \in Angle   -> IF i < IN_TOTAL_BKD THEN <<"ykp_angle", i>>
                                              ELSE <<"out_ykp_angle", 0>>
      [] f = "crc15"   -> <<"crc15", i>>

Empty == [pkt |-> 0, src |-> <<"zero", 0>>]

\* What Crc8 covers.  A row that was never summed ends in a 0, which is not the sum of
\* a row of zeros: the sum of no address.
Covered(s, adr) == [adr |-> adr, row |-> rows[s]]
NotSummed == -1

\* What the DMA reads as part k of its row.
PartNow(k) ==
    CASE Parts[k] = "adr" -> message_adr[m0addr]
      [] Parts[k] = "crc" -> crc[m0addr]
      [] OTHER            -> rows[m0addr][Parts[k]]

-----------------------------------------------------------------------------
StationInit ==
    /\ LinkInit
    /\ pc = "idle" /\ row = 0 /\ fld = 1 /\ yv = 0
    /\ rows = [s \in Slots |-> [f \in AllFields |-> Empty]]
    /\ crc = [s \in Slots |-> Covered(s, NotSummed)]
    /\ wire = <<>>
    /\ summed = {}
    /\ sent = [health |-> {}, sum |-> {}]

\* The interrupts preempt main: it takes a step only when none is pending.
MainRuns == pend = {}

\* udp_reciev is called with a packet of SIZE_MESSAGE_YV bytes.
UdpReciev ==
    /\ MainRuns
    /\ pc = "idle" /\ yv < MaxPackets
    /\ yv' = yv + 1
    /\ pc' = "rows" /\ row' = 0 /\ fld' = 1
    /\ UNCHANGED <<linkVars, rows, crc, wire, summed, sent>>

\* One assignment of the loop of Check_message_YV over the rows 0 .. last, which
\* leaves alone the fields that are not among fields.
AssignField(last, fields) ==
    /\ MainRuns
    /\ pc = "rows"
    /\ rows' = IF Fields[fld] \notin fields THEN rows
               ELSE [rows EXCEPT ![row][Fields[fld]] =
                        [pkt |-> yv, src |-> SourceOf(row, Fields[fld])]]
    /\ fld' = IF fld < Len(Fields) THEN fld + 1 ELSE 1
    /\ row' = IF fld < Len(Fields) THEN row ELSE row + 1
    /\ pc' = IF fld = Len(Fields) /\ row = last THEN "switch" ELSE "rows"
    /\ UNCHANGED <<linkVars, yv, crc, wire, summed, sent>>

\* Mutants of WriteField: the angles are taken over from every other packet only;
\* the loop ends one row early.
WriteFieldSkipping == AssignField(IN_TOTAL_BKD, IF yv % 2 = 0 THEN AllFields \ Angle
                                                              ELSE AllFields)
WriteFieldShort    == AssignField(IN_TOTAL_BKD - 1, AllFields)

\* The rows are those of the BKD blocks and of BKHO_A.
WriteField == AssignField(IN_TOTAL_BKD, AllFields)

\* Mutant of Switch: the buffer that becomes current is emptied first.
SwitchAndClear ==
    /\ MainRuns
    /\ pc = "switch"
    /\ current_tick_tx_eth' = IF current_tick_tx_eth = 0 THEN 1 ELSE 0
    /\ health' = [health EXCEPT ![current_tick_tx_eth'] = {}]
    /\ pc' = "sum"
    /\ UNCHANGED <<pollVars, hwVars, rxVars, transmit, row, fld, yv, rows, crc, wire,
                   summed, sent>>

\* The other buffer becomes the current one.
Switch ==
    /\ pc = "switch"
    /\ SwitchBuffer
    /\ pc' = "sum"
    /\ UNCHANGED <<row, fld, yv, rows, crc, wire, summed, sent>>

\* udp_send_buf: udp_sendto computes the check sum over the buffer that has just
\* become current ...
Sum ==
    /\ MainRuns
    /\ pc = "sum"
    /\ summed' = health[current_tick_tx_eth]
    /\ pc' = "copy"
    /\ UNCHANGED <<linkVars, row, fld, yv, rows, crc, wire, sent>>

\* ... and low_level_output copies the buffer into the Ethernet DMA's memory.
Copy ==
    /\ MainRuns
    /\ pc = "copy"
    /\ sent' = [health |-> health[current_tick_tx_eth], sum |-> summed]
    /\ pc' = "idle"
    /\ UNCHANGED <<linkVars, row, fld, yv, rows, crc, wire, summed>>

\* udp_send_buf returns early: there is no pbuf.
SendFails ==
    /\ MainRuns
    /\ pc = "sum"
    /\ pc' = "idle"
    /\ UNCHANGED <<linkVars, row, fld, yv, rows, crc, wire, summed, sent>>

Main == UdpReciev \/ WriteField \/ Switch \/ Sum \/ Copy \/ SendFails

\* The interrupt side: Qwerty_all_Device computes the check sum of its row, and
\* the DMA reads the row part by part while it drives the line.
Poll ==
    /\ Qwerty_all_Device
    /\ crc' = [crc EXCEPT ![current_BKD'] = Covered(current_BKD', message_adr'[current_BKD'])]
    /\ wire' = <<>>
    /\ UNCHANGED mainVars

Tick ==
    /\ Advance
    /\ wire' = IF dir["USART5"] = "tx" /\ dma["USART5"] > 0
               THEN Append(wire, PartNow(TX_SIZE - dma["USART5"] + 1))
               ELSE wire
    /\ UNCHANGED <<mainVars, crc>>

Receive ==
    /\ \E p \in Ports : EndRx(p) \/ TxEnd(p) \/ USART_IRQHandler(p)
    /\ UNCHANGED <<mainVars, crc, wire>>

StationNext == Main \/ Poll \/ Tick \/ Receive

StationSpec == StationInit /\ [][StationNext]_stationVars

\* The clock runs, the NVIC serves what is pending, and main, which is never
\* preempted for ever, goes on with the packet it is handling.
StationFairSpec ==
    /\ StationSpec
    /\ WF_stationVars(Tick)
    /\ WF_stationVars(Poll \/ Receive)
    /\ WF_stationVars(WriteField \/ Switch \/ Sum \/ Copy)

-----------------------------------------------------------------------------
Sources == {"zero", "command", "yps_mask", "ykp_angle", "out_ykp_angle", "crc15"}

\* Type correctness of the main context's state.
StationTypeOK ==
    /\ pc \in {"idle", "rows", "switch", "sum", "copy"}
    /\ row \in 0 .. IN_TOTAL_BKD + 1 /\ fld \in 1 .. Len(Fields)
    /\ yv \in 0 .. MaxPackets
    /\ rows \in [Slots -> [AllFields -> [pkt : 0 .. yv, src : Sources \X Slots]]]
    /\ DOMAIN crc = Slots /\ Len(wire) <= TX_SIZE
    /\ summed \subseteq Devices /\ sent.health \subseteq Devices

\* The request on the line is complete and its check sum holds: a device takes it.
Accepted ==
    /\ Len(wire) = TX_SIZE
    /\ wire[TX_SIZE].adr = wire[1]
    /\ \A k \in 1 .. Len(Fields) : wire[TX_SIZE].row[Fields[k]] = wire[k + 1]

\* The packets that the fields of the request come from, in the order of Fields.
Packet(k)  == wire[k + 1].pkt
AllFrom(p) == \A k \in 1 .. Len(Fields) : Packet(k) = p

\* The packets of the fields of row r are those of a row at one moment of
\* Check_message_YV: the first n fields are of the packet new, the others of the one
\* just before it.
Snapshot(r, y) ==
    \E new \in 0 .. y, n \in 1 .. Len(Fields) :
        \A k \in 1 .. Len(Fields) : r[Fields[k]].pkt = IF k <= n THEN new ELSE new - 1

\* Why requests are snapshots.  The rows and the fields before the place where
\* Check_message_YV is are of the last packet, the others of the one before it; the
\* servo drives' row is never written.
RowsInStep ==
    /\ pc = "rows" => yv > 0 /\ row \in FilledRows
    /\ \A s \in Slots, k \in 1 .. Len(Fields) :
           LET todo == pc = "rows" /\ (s > row \/ (s = row /\ k >= fld))
           IN  rows[s][Fields[k]].pkt =
                   IF s \notin FilledRows THEN 0 ELSE IF todo THEN yv - 1 ELSE yv

\* Crc8 was computed over what a row held at one moment.
SummedAtOnce == \A s \in Slots : Snapshot(crc[s].row, yv)

\* What the DMA has read of the request and what it has still to read make up the
\* request (what it read of row 0 before the first poll, with the line not driven, is
\* missing); the check sum that it read last is the one of the row it is reading.
WireInStep ==
    /\ Len(wire) \in Nat /\ wire = [k \in 1 .. Len(wire) |-> wire[k]]
    /\ "DMA1_CH6" \in pend => dma["USART5"] = 0
    /\ dir["USART5"] = "tx" => /\ Len(wire) + dma["USART5"] <= TX_SIZE
                               /\ Heard # 0 => Len(wire) = TX_SIZE - dma["USART5"]
    /\ Len(wire) = TX_SIZE => wire[TX_SIZE] = crc[m0addr]

\* The inductive invariant of the board, on top of LinkInv.
StationInv == StationTypeOK /\ RowsInStep /\ SummedAtOnce /\ WireInStep

\* A request that a device takes is what its row held at one moment of
\* Check_message_YV, although TIMER6 may come between any two of its assignments
\* and the DMA reads the row while main goes on writing it: the fields written
\* so far are of the new packet, the others of the one just before it.
MixesNeighboursOnly ==
    Accepted => \E new \in 0 .. yv, n \in 1 .. Len(Fields) :
                    \A k \in 1 .. Len(Fields) :
                        Packet(k) = IF k <= n THEN new ELSE new - 1

\* The last packet of YV reaches every BKD block and BKHO_A, unmixed.
LastPacketDelivered ==
    \A s \in FilledRows :
        (pc = "idle" /\ yv = MaxPackets) ~>
            (m0addr = s /\ Accepted /\ AllFrom(MaxPackets))

\* What lwIP says of the payload of a PBUF_ROM pbuf: it does not change, so a
\* datagram is what its check sum was computed over.
SentAsSummed == sent.health = sent.sum
=============================================================================
