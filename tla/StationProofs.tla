--------------------------- MODULE StationProofs ---------------------------
(***************************************************************************)
(* The whole board implements its RS-485 side, so what is proved of        *)
(* Rs485Link holds with the main context running; and a request is a       *)
(* snapshot of its row, although main writes the row while it is sent.     *)
(***************************************************************************)
EXTENDS Station, Rs485ReplyProofs, SequenceTheorems

\* A step of the board is a step of the link or leaves the link alone.
LEMMA StationStepIsLinkStep == [StationNext]_stationVars => [LinkNext]_linkVars
  <1> SUFFICES ASSUME [StationNext]_stationVars PROVE [LinkNext]_linkVars
    OBVIOUS
  <1>1. CASE UdpReciev \/ WriteField \/ Sum \/ Copy \/ SendFails
    BY <1>1 DEF UdpReciev, WriteField, AssignField, Sum, Copy, SendFails
  <1>2. CASE Switch
    BY <1>2 DEF Switch, LinkNext
  <1>3. CASE Poll \/ Tick \/ Receive
    BY <1>3 DEF Poll, Tick, Receive, LinkNext, Handlers
  <1>4. CASE UNCHANGED stationVars
    BY <1>4 DEF stationVars
  <1> QED BY <1>1, <1>2, <1>3, <1>4 DEF StationNext, Main

\* The board implements the link: Check_message_YV, preempted anywhere, disturbs
\* neither the polling nor the reception.
THEOREM StationImplementsLink == StationSpec => LinkSpec
  <1>1. StationInit => LinkInit
    BY DEF StationInit
  <1> QED BY <1>1, StationStepIsLinkStep, PTL DEF StationSpec, LinkSpec

LEMMA StationLinkInv == StationSpec => [](LinkInv /\ PollInv)
  BY StationImplementsLink, LinkInvariant, LinkPollInv, PTL

-----------------------------------------------------------------------------
\* The names of the fields and of the parts of a request are told apart.
LEMMA FieldFacts ==
    /\ Len(Fields) = 5 /\ Len(Parts) = 7 /\ TX_SIZE = 7
    /\ Parts[7] = "crc"
    /\ \A k \in 1 .. 5 : Fields[k] \in AllFields
    /\ \A f \in AllFields : \E k \in 1 .. 5 : f = Fields[k]
    /\ \A j, k \in 1 .. 5 : Fields[j] = Fields[k] => j = k
  <1>1. Len(Fields) = 5
    BY DEF Fields
  <1>2. Len(Parts) = 7 /\ Parts[7] = "crc"
    BY DEF Parts, Fields
  <1>3. \A j, k \in 1 .. 5 : Fields[j] = Fields[k] => j = k
    BY SMT DEF Fields
  <1> QED BY <1>1, <1>2, <1>3, StationAssumption DEF AllFields

\* What a packet's fields are known by.
LEMMA SourceType ==
    ASSUME NEW i \in Slots, NEW f \in AllFields
    PROVE  SourceOf(i, f) \in Sources \X Slots
  <1>1. PICK k \in 1 .. 5 : f = Fields[k]
    BY FieldFacts
  <1>2. f \in {"command", "mask", "angle_low", "angle_high", "crc15"}
    BY <1>1, SMT DEF Fields
  <1>3. 0 \in Slots
    BY AddressPlan, SMT DEF Slots
  <1> QED BY <1>2, <1>3, SMT DEF SourceOf, Angle, Sources

\* A sequence known by its elements stays one when an element is appended.
LEMMA AppendOne ==
    ASSUME NEW w, Len(w) \in Nat, w = [k \in 1 .. Len(w) |-> w[k]], NEW x
    PROVE  /\ Len(Append(w, x)) = Len(w) + 1
           /\ Append(w, x) = [k \in 1 .. Len(Append(w, x)) |-> Append(w, x)[k]]
           /\ Append(w, x)[Len(w) + 1] = x
  <1> DEFINE S == {w[k] : k \in 1 .. Len(w)} \cup {x}
             a == Append(w, x)
  <1>1. w \in [1 .. Len(w) -> S] /\ x \in S
    OBVIOUS
  <1>2. w \in Seq(S)
    BY <1>1, IsASeq
  <1>3. a \in Seq(S) /\ Len(a) = Len(w) + 1 /\ a[Len(w) + 1] = x
    <2> HIDE DEF S
    <2> QED BY <1>1, <1>2, AppendProperties
  <1>4. a \in [1 .. Len(a) -> S]
    <2> HIDE DEF S, a
    <2> QED BY <1>3, LenProperties
  <1> QED BY <1>3, <1>4

-----------------------------------------------------------------------------
\* A row at every moment of Check_message_YV is a snapshot, and stays one when a
\* later packet comes in.
LEMMA RowIsSnapshot ==
    ASSUME StationTypeOK, RowsInStep, NEW s \in Slots
    PROVE  Snapshot(rows[s], yv)
  <1>0. yv \in Nat /\ row \in Int /\ fld \in 1 .. 5
    BY FieldFacts, StationAssumption, AddressPlan, SMT DEF StationTypeOK
  <1>1. CASE s \notin FilledRows
    <2>1. \A k \in 1 .. 5 : rows[s][Fields[k]].pkt = IF k <= 5 THEN 0 ELSE 0 - 1
      BY <1>1, FieldFacts DEF RowsInStep
    <2> QED BY <1>0, <2>1, FieldFacts DEF Snapshot
  <1>2. CASE s \in FilledRows /\ (pc # "rows" \/ s < row)
    <2>1. \A k \in 1 .. 5 : rows[s][Fields[k]].pkt = IF k <= 5 THEN yv ELSE yv - 1
      BY <1>0, <1>2, FieldFacts, AddressPlan, SMT DEF RowsInStep, FilledRows
    <2> QED BY <1>0, <2>1, FieldFacts DEF Snapshot
  <1>3. CASE s \in FilledRows /\ pc = "rows" /\ (s > row \/ (s = row /\ fld = 1))
    <2>1. yv - 1 \in 0 .. yv
      BY <1>0, <1>3 DEF RowsInStep
    <2>2. \A k \in 1 .. 5 : rows[s][Fields[k]].pkt
                                = IF k <= 5 THEN yv - 1 ELSE (yv - 1) - 1
      BY <1>0, <1>3, FieldFacts, AddressPlan, SMT DEF RowsInStep, FilledRows
    <2> QED BY <1>0, <2>1, <2>2, FieldFacts DEF Snapshot
  <1>4. CASE s \in FilledRows /\ pc = "rows" /\ s = row /\ fld # 1
    <2>1. fld - 1 \in 1 .. 5
      BY <1>0, <1>4
    <2>2. \A k \in 1 .. 5 : rows[s][Fields[k]].pkt
                                = IF k <= fld - 1 THEN yv ELSE yv - 1
      BY <1>0, <1>4, FieldFacts, AddressPlan, SMT DEF RowsInStep, FilledRows
    <2> QED BY <1>0, <2>1, <2>2, FieldFacts DEF Snapshot
  <1>5. s \in FilledRows => s \in Int
    BY AddressPlan, SMT DEF FilledRows
  <1> QED BY <1>0, <1>1, <1>2, <1>3, <1>4, <1>5, SMT

LEMMA SnapshotStays ==
    ASSUME NEW r, NEW y \in Nat, NEW z \in Nat, y <= z, Snapshot(r, y)
    PROVE  Snapshot(r, z)
  <1>1. 0 .. y \subseteq 0 .. z
    OBVIOUS
  <1> QED BY <1>1 DEF Snapshot

LEMMA StationInitInv == StationInit => StationInv
  <1> SUFFICES ASSUME StationInit PROVE StationInv
    OBVIOUS
  <1>0. LinkInv
    BY LinkInitInv DEF StationInit
  <1>1. StationTypeOK
    <2>1. 0 \in Slots /\ Empty \in [pkt : 0 .. yv, src : Sources \X Slots]
      BY AddressPlan, SMT DEF StationInit, Slots, Empty, Sources
    <2>2. rows \in [Slots -> [AllFields -> [pkt : 0 .. yv, src : Sources \X Slots]]]
      BY <2>1 DEF StationInit
    <2>3. row \in 0 .. IN_TOTAL_BKD + 1 /\ fld \in 1 .. Len(Fields) /\ yv \in 0 .. MaxPackets
      BY FieldFacts, AddressPlan, StationAssumption, SMT DEF StationInit
    <2>4. Len(wire) <= TX_SIZE
      BY FieldFacts DEF StationInit
    <2>5. DOMAIN crc = Slots
      BY DEF StationInit
    <2> QED BY <2>2, <2>3, <2>4, <2>5 DEF StationTypeOK, StationInit
  <1>2. RowsInStep
    BY FieldFacts DEF StationInit, RowsInStep, Empty
  <1>3. SummedAtOnce
    BY <1>1, <1>2, RowIsSnapshot DEF StationInit, SummedAtOnce, Covered
  <1>4. WireInStep
    <2>1. wire = <<>> /\ pend = {"TIMER6"} /\ dir["USART5"] = "rx"
      BY PortFacts DEF StationInit, LinkInit
    <2> QED BY <2>1, FieldFacts DEF WireInStep
  <1> QED BY <1>1, <1>2, <1>3, <1>4 DEF StationInv

\* Main's steps and the handlers do to the rows, the packet number and the place of
\* Check_message_YV what they say.
LEMMA RowsNext ==
    ASSUME StationTypeOK, RowsInStep, [StationNext]_stationVars
    PROVE  /\ RowsInStep' /\ yv' \in 0 .. MaxPackets /\ yv <= yv'
           /\ row' \in 0 .. IN_TOTAL_BKD + 1 /\ fld' \in 1 .. Len(Fields)
           /\ pc' \in {"idle", "rows", "switch", "sum", "copy"}
           /\ rows' \in [Slots -> [AllFields -> [pkt : 0 .. yv', src : Sources \X Slots]]]
  <1>0. /\ yv \in Nat /\ row \in Nat /\ row <= IN_TOTAL_BKD + 1 /\ fld \in 1 .. 5
        /\ MaxPackets \in Nat
    BY FieldFacts, StationAssumption, AddressPlan, SMT DEF StationTypeOK
  <1>1. CASE UdpReciev
    <2>1. /\ yv' = yv + 1 /\ yv' \in 0 .. MaxPackets /\ pc' = "rows" /\ pc = "idle"
          /\ row' = 0 /\ fld' = 1 /\ rows' = rows
      BY <1>0, <1>1, SMT DEF UdpReciev
    <2>2. 0 .. yv \subseteq 0 .. yv'
      BY <1>0, <2>1, SMT
    <2>3. rows' \in [Slots -> [AllFields -> [pkt : 0 .. yv', src : Sources \X Slots]]]
      BY <2>1, <2>2 DEF StationTypeOK
    <2>4. RowsInStep'
      <3>1. yv' > 0 /\ row' \in FilledRows
        BY <1>0, <2>1, AddressPlan, SMT DEF FilledRows
      <3>2. ASSUME NEW s \in Slots, NEW k \in 1 .. 5
            PROVE  rows'[s][Fields[k]].pkt = IF s \notin FilledRows THEN 0 ELSE yv' - 1
        BY <1>0, <2>1, FieldFacts, SMT DEF RowsInStep
      <3>3. ASSUME NEW s \in Slots, NEW k \in 1 .. 5
            PROVE  rows'[s][Fields[k]].pkt =
                       IF s \notin FilledRows THEN 0
                       ELSE IF pc' = "rows" /\ (s > row' \/ (s = row' /\ k >= fld'))
                       THEN yv' - 1 ELSE yv'
        <4>1. s \in FilledRows => s > row' \/ (s = row' /\ k >= fld')
          BY <2>1, AddressPlan, SMT DEF FilledRows
        <4> QED BY <2>1, <3>2, <4>1
      <3> QED BY <3>1, <3>3, FieldFacts DEF RowsInStep
    <2> QED BY <1>0, <2>1, <2>3, <2>4, FieldFacts, AddressPlan, SMT
  <1>2. CASE WriteField
    <2> DEFINE cell == [pkt |-> yv, src |-> SourceOf(row, Fields[fld])]
    <2>1. /\ pc = "rows" /\ yv' = yv
          /\ fld' = IF fld < 5 THEN fld + 1 ELSE 1
          /\ row' = IF fld < 5 THEN row ELSE row + 1
          /\ pc' = IF fld = 5 /\ row = IN_TOTAL_BKD THEN "switch" ELSE "rows"
      BY <1>2, FieldFacts DEF WriteField, AssignField
    <2>2. rows' = [rows EXCEPT ![row][Fields[fld]] = cell]
      BY <1>0, <1>2, FieldFacts DEF WriteField, AssignField
    <2>3. row \in FilledRows /\ row \in Slots /\ row <= IN_TOTAL_BKD /\ yv > 0
      BY <2>1, AddressPlan, SMT DEF RowsInStep, FilledRows, Slots
    <2>4. cell \in [pkt : 0 .. yv, src : Sources \X Slots]
      BY <1>0, <2>3, SourceType, FieldFacts
    <2>5. rows' \in [Slots -> [AllFields -> [pkt : 0 .. yv', src : Sources \X Slots]]]
      BY <1>0, <2>1, <2>2, <2>4, FieldFacts DEF StationTypeOK
    <2>6. ASSUME NEW s \in Slots, NEW k \in 1 .. 5
          PROVE  rows'[s][Fields[k]].pkt = IF s = row /\ k = fld THEN yv
                                           ELSE rows[s][Fields[k]].pkt
      BY <1>0, <2>2, FieldFacts DEF StationTypeOK
    <2>7. RowsInStep'
      <3>1. pc' = "rows" => yv' > 0 /\ row' \in FilledRows
        BY <1>0, <2>1, <2>3, AddressPlan, SMT DEF FilledRows
      <3>2. ASSUME NEW s \in Slots, NEW k \in 1 .. 5
            PROVE  rows'[s][Fields[k]].pkt =
                       IF s \notin FilledRows THEN 0
                       ELSE IF pc' = "rows" /\ (s > row' \/ (s = row' /\ k >= fld'))
                       THEN yv' - 1 ELSE yv'
        <4>1. rows[s][Fields[k]].pkt =
                       IF s \notin FilledRows THEN 0
                       ELSE IF s > row \/ (s = row /\ k >= fld) THEN yv - 1 ELSE yv
          BY <2>1, FieldFacts DEF RowsInStep
        <4>2. CASE s \notin FilledRows
          BY <2>3, <2>6, <4>1, <4>2
        <4>3. CASE s \in FilledRows
          <5>1. s \in Nat /\ s <= IN_TOTAL_BKD /\ IN_TOTAL_BKD \in Nat
            BY <4>3, AddressPlan, SMT DEF FilledRows
          <5>2. pc' = "rows" /\ (s > row' \/ (s = row' /\ k >= fld'))
                  <=> (s > row \/ (s = row /\ k >= fld)) /\ ~(s = row /\ k = fld)
            BY <1>0, <2>1, <2>3, <5>1, SMT
          <5> QED BY <2>1, <2>6, <4>1, <4>3, <5>2
        <4> QED BY <4>2, <4>3
      <3> QED BY <3>1, <3>2, FieldFacts DEF RowsInStep
    <2>8. row' \in 0 .. IN_TOTAL_BKD + 1 /\ fld' \in 1 .. 5
      BY <1>0, <2>1, <2>3, AddressPlan, SMT
    <2>9. yv \in 0 .. MaxPackets
      BY DEF StationTypeOK
    <2> QED BY <1>0, <2>1, <2>5, <2>7, <2>8, <2>9, FieldFacts
  <1>3. CASE pc' # "rows" /\ pc # "rows" /\ pc' \in {"idle", "sum", "copy"}
             /\ UNCHANGED <<row, fld, yv, rows>>
    <2>1. RowsInStep'
      BY <1>3 DEF RowsInStep
    <2> QED BY <1>0, <1>3, <2>1 DEF StationTypeOK
  <1>4. CASE UNCHANGED mainVars
    <2>1. RowsInStep'
      BY <1>4 DEF RowsInStep, mainVars
    <2> QED BY <1>0, <1>4, <2>1 DEF StationTypeOK, mainVars
  <1>5. Switch \/ Sum \/ Copy \/ SendFails =>
            /\ pc' # "rows" /\ pc # "rows" /\ pc' \in {"idle", "sum", "copy"}
            /\ UNCHANGED <<row, fld, yv, rows>>
    BY DEF Switch, Sum, Copy, SendFails
  <1>6. Poll \/ Tick \/ Receive \/ UNCHANGED stationVars => UNCHANGED mainVars
    BY DEF Poll, Tick, Receive, stationVars
  <1> QED BY <1>1, <1>2, <1>3, <1>4, <1>5, <1>6 DEF StationNext, Main

\* What Crc8 was computed over stays a snapshot of a row.
LEMMA SummedNext ==
    ASSUME StationTypeOK, RowsInStep, SummedAtOnce, LinkTypeOK, LinkTypeOK',
           [StationNext]_stationVars
    PROVE  SummedAtOnce'
  <1>0. yv \in Nat /\ yv' \in Nat /\ yv <= yv'
    BY RowsNext, StationAssumption, SMT DEF StationTypeOK
  <1>1. CASE crc' = crc
    BY <1>0, <1>1, SnapshotStays DEF SummedAtOnce
  <1>2. CASE Poll
    <2>1. current_BKD' \in Slots
      BY DEF LinkTypeOK, PollTypeOK
    <2>2. ASSUME NEW s \in Slots PROVE crc'[s].row = crc[s].row \/ crc'[s].row = rows[s]
      BY <1>2, <2>1 DEF Poll, Covered, StationTypeOK
    <2> QED BY <1>0, <2>2, RowIsSnapshot, SnapshotStays DEF SummedAtOnce
  <1>3. UdpReciev \/ WriteField \/ Switch \/ Sum \/ Copy \/ SendFails \/ Tick \/ Receive
            \/ UNCHANGED stationVars => crc' = crc
    BY DEF UdpReciev, WriteField, AssignField, Switch, Sum, Copy, SendFails, Tick,
           Receive, stationVars
  <1> QED BY <1>1, <1>2, <1>3 DEF StationNext, Main

\* The DMA reads one part per byte time while it drives the line, and the last of
\* them is the check sum.
LEMMA TickWire ==
    ASSUME LinkInv, StationTypeOK, WireInStep, Tick
    PROVE  WireInStep' /\ Len(wire') <= TX_SIZE
  <1> DEFINE n == dma["USART5"]
  <1>0. /\ Advance /\ crc' = crc /\ m0addr' = m0addr /\ Heard' = Heard
        /\ n \in Nat /\ TX_SIZE = 7 /\ dir["USART5"] \in {"tx", "rx"}
    BY Numbers, FieldFacts, PortFacts DEF Tick, Advance, Heard, pollVars, LinkInv, LinkTypeOK
  <1>1. /\ dma'["USART5"] = IF n > 0 THEN n - 1 ELSE 0
        /\ dir' = dir /\ ("DMA1_CH6" \in pend' <=> n = 1)
    BY <1>0, AdvanceEffect
  <1>2. CASE dir["USART5"] = "rx"
    <2>1. wire' = wire
      BY <1>2 DEF Tick
    <2> QED BY <1>0, <1>1, <1>2, <2>1, SMT DEF WireInStep, StationTypeOK
  <1>3. CASE dir["USART5"] = "tx"
    <2>1. n > 0
      BY <1>0, <1>3 DEF LinkInv, Turns, Advance
    <2>2. /\ Len(wire) \in Nat /\ Len(wire) + n <= 7 /\ (Heard # 0 => Len(wire) = 7 - n)
          /\ wire' = Append(wire, PartNow(7 - n + 1))
      BY <1>0, <1>3, <2>1 DEF Tick, WireInStep
    <2>3. /\ Len(wire') = Len(wire) + 1 /\ wire'[Len(wire) + 1] = PartNow(7 - n + 1)
          /\ wire' = [k \in 1 .. Len(wire') |-> wire'[k]]
      <3> HIDE DEF n
      <3> QED BY <2>2, AppendOne DEF WireInStep
    <2>4. Len(wire') = 7 => wire'[7] = crc[m0addr]
      <3> SUFFICES ASSUME Len(wire') = 7 PROVE wire'[7] = crc[m0addr]
        OBVIOUS
      <3>1. 7 - n + 1 = 7 /\ Len(wire) + 1 = 7
        <4> HIDE DEF n
        <4> QED BY <1>0, <2>1, <2>2, <2>3, SMT
      <3>2. wire'[7] = PartNow(7)
        <4> HIDE DEF n
        <4> QED BY <2>3, <3>1
      <3> QED BY <3>2, FieldFacts DEF PartNow
    <2>5. /\ Len(wire') \in Nat /\ Len(wire') + dma'["USART5"] <= 7 /\ Len(wire') <= 7
          /\ Heard # 0 => Len(wire') = 7 - dma'["USART5"]
      <3> HIDE DEF n
      <3> QED BY <1>0, <1>1, <2>1, <2>2, <2>3, SMT
    <2>6. dir'["USART5"] = "tx" /\ ("DMA1_CH6" \in pend' => dma'["USART5"] = 0)
      <3> HIDE DEF n
      <3> QED BY <1>0, <1>1, <1>3, SMT
    <2> QED BY <1>0, <2>3, <2>4, <2>5, <2>6 DEF WireInStep
  <1> QED BY <1>0, <1>2, <1>3

\* Every step keeps the parts on the line in step with the DMA's counter.
LEMMA WireNext ==
    ASSUME LinkInv, PollInv, StationTypeOK, WireInStep, [StationNext]_stationVars
    PROVE  WireInStep' /\ Len(wire') <= TX_SIZE
  <1>0. /\ LinkTypeOK /\ TX_SIZE = 7
        /\ dma["USART5"] \in 0 .. 7 /\ dir["USART5"] \in {"tx", "rx"}
    BY FieldFacts, PortFacts DEF LinkInv, LinkTypeOK
  <1>1. CASE UNCHANGED <<wire, crc, pend, dma, dir, m0addr, Heard>>
    BY <1>1 DEF WireInStep, StationTypeOK
  <1>2. UdpReciev \/ WriteField \/ Switch \/ Sum \/ Copy \/ SendFails
            \/ UNCHANGED stationVars => UNCHANGED <<wire, crc, pend, dma, dir, m0addr, Heard>>
    BY DEF UdpReciev, WriteField, AssignField, Switch, SwitchBuffer, Sum, Copy, SendFails,
           stationVars, linkVars, hwVars, pollVars, Heard
  <1>3. CASE Poll
    <2>1. Qwerty_all_Device /\ wire' = <<>>
      BY <1>3 DEF Poll
    <2>2. "DMA1_CH6" \notin pend'
      BY <2>1, PollFinds DEF Qwerty_all_Device, Serve
    <2>3. dma'["USART5"] \in 0 .. 7 /\ (dma["USART5"] = 0 => dma'["USART5"] = 7)
      BY <1>0, <2>1, PortFacts DEF Qwerty_all_Device, StartTransmit, LinkTypeOK
    <2>4. Heard' # 0 => dma'["USART5"] = 7
      BY <2>1, <2>3, PollFinds, FirstPollUnheard
    <2> QED BY <1>0, <2>1, <2>2, <2>3, <2>4 DEF WireInStep
  <1>4. CASE Receive
    <2>0. UNCHANGED <<wire, crc>>
      BY <1>4 DEF Receive
    <2>1. ASSUME NEW p \in Ports, EndRx(p) \/ USART_IRQHandler(p)
          PROVE  WireInStep'
      <3>1. UNCHANGED <<dma, dir, m0addr, Heard>> /\ pend' \subseteq pend
        BY <2>1 DEF EndRx, USART_IRQHandler, Serve, pollVars, Heard
      <3> QED BY <2>0, <3>1 DEF WireInStep
    <2>2. ASSUME NEW p \in Ports, TxEnd(p) PROVE WireInStep'
      <3>1. UNCHANGED <<dma, m0addr, Heard>> /\ pend' \subseteq pend
            /\ dir' = [dir EXCEPT ![p] = "rx"]
        BY <2>2 DEF TxEnd, Serve, pollVars, Heard
      <3>2. dir'["USART5"] \in {dir["USART5"], "rx"}
        BY <1>0, <3>1, PortFacts DEF LinkTypeOK
      <3> QED BY <2>0, <3>1, <3>2 DEF WireInStep
    <2>3. Len(wire') <= TX_SIZE
      BY <2>0 DEF StationTypeOK
    <2> QED BY <1>4, <2>1, <2>2, <2>3 DEF Receive
  <1> QED BY <1>1, <1>2, <1>3, <1>4, TickWire DEF StationNext, Main

LEMMA StationInvNext ==
    ASSUME LinkInv, LinkInv', PollInv, StationInv, [StationNext]_stationVars
    PROVE  StationInv'
  <1>0. LinkTypeOK /\ LinkTypeOK' /\ StationTypeOK /\ RowsInStep /\ SummedAtOnce /\ WireInStep
    BY DEF LinkInv, StationInv
  <1>1. summed' \subseteq Devices /\ sent'.health \subseteq Devices
    <2>1. health[current_tick_tx_eth] \subseteq Devices
      BY <1>0 DEF LinkTypeOK
    <2>2. summed' \in {summed, health[current_tick_tx_eth]}
      BY DEF StationNext, Main, UdpReciev, WriteField, AssignField, Switch, Sum, Copy,
             SendFails, Poll, Tick, Receive, mainVars, stationVars
    <2>3. sent' = sent \/ sent'.health = health[current_tick_tx_eth]
      BY DEF StationNext, Main, UdpReciev, WriteField, AssignField, Switch, Sum, Copy,
             SendFails, Poll, Tick, Receive, mainVars, stationVars
    <2> QED BY <1>0, <2>1, <2>2, <2>3 DEF StationTypeOK
  <1>2. DOMAIN crc' = Slots
    BY <1>0 DEF StationTypeOK, StationNext, Main, UdpReciev, WriteField, AssignField, Switch,
           Sum, Copy, SendFails, Poll, Tick, Receive, stationVars
  <1>3. StationTypeOK'
    BY <1>0, <1>1, <1>2, RowsNext, WireNext DEF StationTypeOK
  <1> QED BY <1>0, <1>3, RowsNext, SummedNext, WireNext DEF StationInv

\* The rows, the check sums and the request on the line are in step with the place
\* where Check_message_YV is and with the DMA's counter.
THEOREM StationInStep == StationSpec => []StationInv
  BY StationInitInv, StationInvNext, StationLinkInv, PTL DEF StationSpec

\* The state of the main context has its types: Check_message_YV's loop ends at the
\* last row it may write, and a request has no more parts than the DMA was given.
THEOREM StationTypeCorrect == StationSpec => []StationTypeOK
  <1>1. StationInv => StationTypeOK
    BY DEF StationInv
  <1> QED BY <1>1, StationInStep, PTL

\* Whatever comes between two assignments of Check_message_YV, a request that a
\* device accepts is what its row held at one moment.
THEOREM RequestsAreSnapshots == StationSpec => []MixesNeighboursOnly
  <1>1. LinkInv /\ StationInv => MixesNeighboursOnly
    <2> SUFFICES ASSUME LinkInv, StationInv, Accepted
                 PROVE  MixesNeighboursOnly
      BY DEF MixesNeighboursOnly
    <2>1. m0addr \in Slots /\ wire[TX_SIZE] = crc[m0addr]
      BY DEF LinkInv, LinkTypeOK, StationInv, WireInStep, Accepted
    <2>2. \A k \in 1 .. Len(Fields) : crc[m0addr].row[Fields[k]].pkt = Packet(k)
      BY <2>1 DEF Accepted, Packet
    <2>3. Snapshot(crc[m0addr].row, yv)
      BY <2>1 DEF StationInv, SummedAtOnce
    <2> QED BY <2>2, <2>3 DEF Snapshot, MixesNeighboursOnly
  <1> QED BY <1>1, StationLinkInv, StationInStep, PTL

-----------------------------------------------------------------------------
\* On the whole board, too, slots are clean and the line is half duplex.
THEOREM StationSlotsAreClean == StationSpec => [](SlotClean /\ HalfDuplex)
  BY StationImplementsLink, SlotsAreClean, LineIsHalfDuplex, PTL

\* Nor does Check_message_YV's switch of the packet buffers cost an answer: it is in
\* one of them before the next poll, and nothing but noise overruns a receive buffer.
THEOREM StationRepliesAreRecorded == StationSpec => [](RecordedInTime /\ OnlyNoiseOverruns)
  BY StationImplementsLink, RepliesAreRecorded, BuffersInBounds, PTL
=============================================================================
