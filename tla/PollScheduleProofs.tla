------------------------- MODULE PollScheduleProofs -------------------------
(***************************************************************************)
(* Proofs about the polling schedule, for every number of blocks, devices  *)
(* and servo drives whose addresses fit a uint8_t.                         *)
(***************************************************************************)
EXTENDS PollSchedule, TLAPS

\* The product of the two sizes, kept as one natural number in what follows.
LEMMA ProductNat ==
    /\ DEVICE_IN_BKD * IN_TOTAL_BKD \in Nat
    /\ DEVICE_IN_BKD * IN_TOTAL_BKD = IN_TOTAL_BKD * DEVICE_IN_BKD
    /\ DEVICE_IN_BKD * IN_TOTAL_BKD >= 1
  BY SizesAssumption, SMT

\* The landmarks of the address plan are uint8_t values in ascending order.
LEMMA AddressPlan ==
    /\ IN_TOTAL_BKD \in Nat /\ IN_TOTAL_BKD >= 1 /\ IN_TOTAL_BKD < 254
    /\ DEVICE_IN_BKD \in Nat /\ DEVICE_IN_BKD >= 1
    /\ START_ADR_BKHO_A \in Nat /\ START_ADR_BKHO_A >= 2
    /\ AND_ADR_BKHO_A \in Nat /\ START_ADR_BKHO_A <= AND_ADR_BKHO_A
    /\ START_ADR_OUT_SERVO = AND_ADR_BKHO_A + 1
    /\ AND_ADR_OUT_SERVO \in Nat /\ START_ADR_OUT_SERVO <= AND_ADR_OUT_SERVO
    /\ AND_ADR_OUT_SERVO < 255
  BY SizesAssumption, ProductNat, SMT
     DEF START_ADR_BKHO_A, AND_ADR_BKHO_A, START_ADR_OUT_SERVO, AND_ADR_OUT_SERVO

\* A BKD block has fewer processors than there are addresses.
LEMMA DevicesFit == DEVICE_IN_BKD < START_ADR_BKHO_A
  <1>1. DEVICE_IN_BKD <= DEVICE_IN_BKD * IN_TOTAL_BKD
    BY SizesAssumption, SMT
  <1> QED BY <1>1, SizesAssumption, ProductNat, SMT DEF START_ADR_BKHO_A

\* The address of a BKD processor lies in the range of its block, and the
\* ranges of the blocks are disjoint and end before BKHO_A begins.
LEMMA BlockRange ==
    ASSUME NEW d \in 1 .. DEVICE_IN_BKD, NEW b \in Blocks
    PROVE  /\ AdrBKD(d, b) \in Nat
           /\ b * DEVICE_IN_BKD \in Nat
           /\ AdrBKD(d, b) > b * DEVICE_IN_BKD
           /\ AdrBKD(d, b) <= b * DEVICE_IN_BKD + DEVICE_IN_BKD
           /\ AdrBKD(d, b) < START_ADR_BKHO_A
  <1> USE SizesAssumption
  <1>1. b \in Nat /\ IN_TOTAL_BKD - b - 1 \in Nat
    BY SMT DEF Blocks
  <1>2. b * DEVICE_IN_BKD \in Nat
    BY <1>1, SMT
  <1>3. (IN_TOTAL_BKD - b - 1) * DEVICE_IN_BKD >= 0
    BY <1>1, SMT
  <1>4. DEVICE_IN_BKD * IN_TOTAL_BKD
            = b * DEVICE_IN_BKD + DEVICE_IN_BKD + (IN_TOTAL_BKD - b - 1) * DEVICE_IN_BKD
    BY <1>1, SMT
  <1> QED
    BY <1>1, <1>2, <1>3, <1>4, ProductNat, SMT DEF AdrBKD, START_ADR_BKHO_A

\* The addresses of a block are below those of the blocks after it.
LEMMA BlocksDisjoint ==
    ASSUME NEW d \in 1 .. DEVICE_IN_BKD, NEW e \in 1 .. DEVICE_IN_BKD,
           NEW b \in Blocks, NEW c \in Blocks, b < c
    PROVE  AdrBKD(d, b) < AdrBKD(e, c)
  <1>1. b \in Nat /\ c \in Nat /\ c - b - 1 \in Nat
    BY SizesAssumption, SMT DEF Blocks
  <1>2. (c - b - 1) * DEVICE_IN_BKD >= 0
    BY <1>1, SizesAssumption, SMT
  <1>3. c * DEVICE_IN_BKD = b * DEVICE_IN_BKD + DEVICE_IN_BKD + (c - b - 1) * DEVICE_IN_BKD
    BY <1>1, SizesAssumption, SMT
  <1> QED
    BY <1>1, <1>2, <1>3, BlockRange, SizesAssumption, SMT

\* What one step of a counter does: it stays within first .. last once there,
\* and below last it adds one.
LEMMA StepRange ==
    ASSUME NEW x \in Nat, NEW last \in Nat, NEW first \in Nat,
           x <= last, last < 255, first <= last
    PROVE  /\ Step(x, last, first) \in Nat
           /\ Step(x, last, first) <= last
           /\ x < last => Step(x, last, first) = x + 1
           /\ x = last => Step(x, last, first) = first
           /\ (Inc8(x) > last) <=> (x = last)
  BY SMT DEF Step, Inc8

\* A group's counter stays below its last address, and within its group once
\* it is there.
LEMMA GroupStep ==
    ASSUME NEW last \in Nat, NEW first \in 1 .. last, NEW x \in 1 .. last, last < 255
    PROVE  /\ Step(x, last, first) \in 1 .. last
           /\ x \in first .. last => Step(x, last, first) \in first .. last
  BY SMT DEF Step, Inc8

-----------------------------------------------------------------------------
\* The slot and the device number after a step.
LEMMA NextSlotRange ==
    ASSUME PollTypeOK, NextSlot
    PROVE  /\ current_BKD' \in Slots
           /\ current_device_in_BKDx' \in 1 .. DEVICE_IN_BKD
           /\ \/ /\ current_BKD' = current_BKD + 1
                 /\ current_device_in_BKDx' = current_device_in_BKDx
              \/ /\ current_BKD = IN_TOTAL_BKD + 1 /\ current_BKD' = 0
                 /\ PreviousDevice' = current_device_in_BKDx
  <1> USE AddressPlan, DevicesFit
  <1>1. CASE current_BKD = IN_TOTAL_BKD + 1
    <2>1. Inc8(current_BKD) > IN_TOTAL_BKD + 1 /\ current_BKD' = 0
      BY <1>1, StepRange, SMT DEF NextSlot, PollTypeOK, Slots
    <2>2. current_device_in_BKDx' = Step(current_device_in_BKDx, DEVICE_IN_BKD, 1)
      BY <2>1 DEF NextSlot
    <2>3. CASE current_device_in_BKDx = DEVICE_IN_BKD
      <3>1. current_device_in_BKDx' = 1
        BY <2>2, <2>3, StepRange, SMT DEF PollTypeOK
      <3> QED BY <1>1, <2>1, <2>3, <3>1, SMT DEF Slots, PreviousDevice
    <2>4. CASE current_device_in_BKDx < DEVICE_IN_BKD
      <3>1. current_device_in_BKDx' = current_device_in_BKDx + 1
        BY <2>2, <2>4, StepRange, SMT DEF PollTypeOK
      <3> QED BY <1>1, <2>1, <2>4, <3>1, SMT DEF Slots, PreviousDevice, PollTypeOK
    <2> QED BY <2>3, <2>4, SMT DEF PollTypeOK
  <1>2. CASE current_BKD # IN_TOTAL_BKD + 1
    <2>1. current_BKD < IN_TOTAL_BKD + 1
      BY <1>2, SMT DEF PollTypeOK, Slots
    <2>2. ~(Inc8(current_BKD) > IN_TOTAL_BKD + 1) /\ current_BKD' = current_BKD + 1
      BY <2>1, StepRange, SMT DEF NextSlot, PollTypeOK, Slots
    <2>3. current_device_in_BKDx' = current_device_in_BKDx
      BY <2>2 DEF NextSlot
    <2> QED BY <2>1, <2>2, <2>3, SMT DEF PollTypeOK, Slots
  <1> QED BY <1>1, <1>2

\* PollInit => PollInv.
LEMMA PollInitInv == PollInit => PollInv
  <1> SUFFICES ASSUME PollInit PROVE PollInv
    OBVIOUS
  <1> USE AddressPlan, DevicesFit
  <1>1. PollTypeOK
    BY SMT DEF PollInit, PollTypeOK, Slots, Devices
  <1>2. RoundConsistent
    BY SMT DEF PollInit, RoundConsistent, Slots, Blocks
  <1>3. GroupRows
    BY SMT DEF PollInit, GroupRows, Slots, SlotBKHO, SlotServo
  <1> QED BY <1>1, <1>2, <1>3 DEF PollInv

\* A BKD poll keeps the invariant.
LEMMA PollBKDInv == PollInv /\ PollBKD => PollInv'
  <1> SUFFICES ASSUME PollInv, PollBKD PROVE PollInv'
    OBVIOUS
  <1> DEFINE s == current_BKD'
             d == current_device_in_BKDx'
  <1> USE AddressPlan, DevicesFit
  <1>0. PollTypeOK /\ RoundConsistent /\ GroupRows /\ NextSlot
    BY DEF PollInv, PollBKD
  <1>1. /\ s \in Slots /\ s \in Blocks
        /\ d \in 1 .. DEVICE_IN_BKD
    BY <1>0, NextSlotRange, SMT DEF PollBKD, Slots, Blocks
  <1>2. AdrBKD(d, s) \in Nat /\ AdrBKD(d, s) < START_ADR_BKHO_A
    BY <1>1, BlockRange
  <1>3. message_adr' = [message_adr EXCEPT ![s] = AdrBKD(d, s)]
    <2>1. AdrBKD(d, s) % 256 = AdrBKD(d, s)
      BY <1>2, SMT
    <2> QED BY <2>1 DEF PollBKD
  <1>4. PollTypeOK'
    <2>1. message_adr' \in [Slots -> 0 .. AND_ADR_OUT_SERVO]
      BY <1>0, <1>1, <1>2, <1>3, SMT DEF PollTypeOK
    <2> QED BY <1>0, <1>1, <2>1 DEF PollTypeOK, PollBKD
  <1>5. RoundConsistent'
    <2> SUFFICES ASSUME NEW b \in Blocks
                 PROVE  message_adr'[b] \in {0, AdrBKD(IF b <= s THEN d ELSE PreviousDevice', b)}
      BY DEF RoundConsistent
    <2>1. CASE b = s
      <3>1. message_adr'[b] = AdrBKD(d, b)
        BY <1>0, <1>1, <1>3, <2>1 DEF PollTypeOK
      <3> QED BY <1>1, <2>1, <3>1, SMT DEF Blocks
    <2>2. CASE b # s
      <3>1. message_adr'[b] = message_adr[b]
        BY <1>0, <1>1, <1>3, <2>2, SMT DEF PollTypeOK, Slots, Blocks
      <3>2. message_adr[b] \in {0, AdrBKD(IF b <= current_BKD THEN current_device_in_BKDx
                                                            ELSE PreviousDevice, b)}
        BY <1>0 DEF RoundConsistent
      <3>3. CASE s = current_BKD + 1 /\ d = current_device_in_BKDx
        <4>1. PreviousDevice' = PreviousDevice
          BY <3>3 DEF PreviousDevice
        <4>2. (b <= s) <=> (b <= current_BKD)
          BY <1>0, <2>2, <3>3, SMT DEF PollTypeOK, Slots, Blocks
        <4> QED BY <3>1, <3>2, <3>3, <4>1, <4>2
      <3>4. CASE /\ current_BKD = IN_TOTAL_BKD + 1 /\ s = 0
                 /\ PreviousDevice' = current_device_in_BKDx
        <4>1. b <= current_BKD /\ ~(b <= s)
          BY <2>2, <3>4, SMT DEF Blocks
        <4> QED BY <3>1, <3>2, <3>4, <4>1
      <3> QED BY <1>0, <3>3, <3>4, NextSlotRange
    <2> QED BY <2>1, <2>2
  <1>6. GroupRows'
    <2>1. /\ message_adr'[SlotBKHO] = message_adr[SlotBKHO]
          /\ message_adr'[SlotServo] = message_adr[SlotServo]
      BY <1>0, <1>1, <1>3, SMT DEF PollTypeOK, Slots, Blocks, SlotBKHO, SlotServo
    <2> QED BY <1>0, <2>1 DEF GroupRows, PollBKD
  <1> QED BY <1>4, <1>5, <1>6 DEF PollInv

\* The BKD rows when the step is in one of the last two slots, whose row is the
\* only one written.
LEMMA OtherRows ==
    ASSUME PollInv, NextSlot, current_BKD' >= IN_TOTAL_BKD, NEW a,
           message_adr' = [message_adr EXCEPT ![current_BKD'] = a]
    PROVE  RoundConsistent'
  <1> USE AddressPlan, DevicesFit
  <1>0. PollTypeOK /\ RoundConsistent
    BY DEF PollInv
  <1>1. /\ current_BKD' \in Slots
        /\ current_BKD' = current_BKD + 1
        /\ current_device_in_BKDx' = current_device_in_BKDx
    BY <1>0, NextSlotRange, SMT DEF PollTypeOK, Slots
  <1> SUFFICES ASSUME NEW b \in Blocks
               PROVE  message_adr'[b] \in {0, AdrBKD(IF b <= current_BKD'
                                                     THEN current_device_in_BKDx'
                                                     ELSE PreviousDevice', b)}
    BY DEF RoundConsistent
  <1>2. message_adr'[b] = message_adr[b]
    BY <1>0, <1>1, SMT DEF PollTypeOK, Slots, Blocks
  <1>3. b <= current_BKD /\ b <= current_BKD'
    BY <1>0, <1>1, SMT DEF PollTypeOK, Slots, Blocks
  <1> QED BY <1>0, <1>1, <1>2, <1>3 DEF RoundConsistent

\* A BKHO_A poll keeps the invariant.
LEMMA PollBKHO_AInv == PollInv /\ PollBKHO_A => PollInv'
  <1> SUFFICES ASSUME PollInv, PollBKHO_A PROVE PollInv'
    OBVIOUS
  <1> USE AddressPlan, DevicesFit
  <1>0. PollTypeOK /\ GroupRows /\ NextSlot
    BY DEF PollInv, PollBKHO_A
  <1>1. /\ current_BKD' \in Slots /\ current_BKD' = SlotBKHO
        /\ current_device_in_BKDx' \in 1 .. DEVICE_IN_BKD
    BY <1>0, NextSlotRange DEF PollBKHO_A, SlotBKHO
  <1>2. current_device_in_BKHO_A' \in 1 .. AND_ADR_BKHO_A
    <2>1. /\ AND_ADR_BKHO_A \in Nat /\ AND_ADR_BKHO_A < 255 /\ START_ADR_BKHO_A \in 1 .. AND_ADR_BKHO_A
          /\ current_device_in_BKHO_A \in 1 .. AND_ADR_BKHO_A
      BY <1>0, SMT DEF PollTypeOK, Devices
    <2>2. Step(current_device_in_BKHO_A, AND_ADR_BKHO_A, START_ADR_BKHO_A) \in 1 .. AND_ADR_BKHO_A
      BY <2>1, GroupStep
    <2> QED BY <2>2 DEF PollBKHO_A, Devices
  <1>3. message_adr' = [message_adr EXCEPT ![SlotBKHO] = current_device_in_BKHO_A']
    BY <1>1 DEF PollBKHO_A
  <1>4. PollTypeOK'
    <2>1. message_adr' \in [Slots -> 0 .. AND_ADR_OUT_SERVO]
      BY <1>0, <1>1, <1>2, <1>3, SMT DEF PollTypeOK
    <2> QED BY <1>0, <1>1, <1>2, <2>1 DEF PollTypeOK, PollBKHO_A
  <1>5. RoundConsistent'
    <2>1. current_BKD' >= IN_TOTAL_BKD
      BY <1>1, SMT DEF SlotBKHO
    <2> QED BY <1>0, <1>1, <1>3, <2>1, OtherRows, Zenon
  <1>6. GroupRows'
    <2>1. /\ message_adr'[SlotBKHO] = current_device_in_BKHO_A'
          /\ message_adr'[SlotServo] = message_adr[SlotServo]
      BY <1>0, <1>1, <1>3, SMT DEF PollTypeOK, Slots, SlotBKHO, SlotServo
    <2> QED BY <1>0, <2>1 DEF GroupRows, PollBKHO_A
  <1> QED BY <1>4, <1>5, <1>6 DEF PollInv

\* A servo poll keeps the invariant.
LEMMA PollOutServoInv == PollInv /\ PollOutServo => PollInv'
  <1> SUFFICES ASSUME PollInv, PollOutServo PROVE PollInv'
    OBVIOUS
  <1> USE AddressPlan, DevicesFit
  <1>0. PollTypeOK /\ GroupRows /\ NextSlot
    BY DEF PollInv, PollOutServo
  <1>1. /\ current_BKD' \in Slots /\ current_BKD' = SlotServo
        /\ current_device_in_BKDx' \in 1 .. DEVICE_IN_BKD
    BY <1>0, NextSlotRange, SMT DEF PollOutServo, SlotServo, Slots
  <1>2. current_device_in_OUT_SERVO' \in Devices
    <2>1. /\ AND_ADR_OUT_SERVO \in Nat /\ AND_ADR_OUT_SERVO < 255 /\ START_ADR_OUT_SERVO \in 1 .. AND_ADR_OUT_SERVO
          /\ current_device_in_OUT_SERVO \in 1 .. AND_ADR_OUT_SERVO
      BY <1>0, SMT DEF PollTypeOK, Devices
    <2>2. Step(current_device_in_OUT_SERVO, AND_ADR_OUT_SERVO, START_ADR_OUT_SERVO) \in 1 .. AND_ADR_OUT_SERVO
      BY <2>1, GroupStep
    <2> QED BY <2>2 DEF PollOutServo, Devices
  <1>3. message_adr' = [message_adr EXCEPT ![SlotServo] = current_device_in_OUT_SERVO']
    BY <1>1 DEF PollOutServo
  <1>4. PollTypeOK'
    <2>1. message_adr' \in [Slots -> 0 .. AND_ADR_OUT_SERVO]
      BY <1>0, <1>1, <1>2, <1>3, SMT DEF PollTypeOK, Devices
    <2> QED BY <1>0, <1>1, <1>2, <2>1 DEF PollTypeOK, PollOutServo
  <1>5. RoundConsistent'
    <2>1. current_BKD' >= IN_TOTAL_BKD
      BY <1>1, SMT DEF SlotServo
    <2> QED BY <1>0, <1>1, <1>3, <2>1, OtherRows, Zenon
  <1>6. GroupRows'
    <2>1. /\ message_adr'[SlotServo] = current_device_in_OUT_SERVO'
          /\ message_adr'[SlotBKHO] = message_adr[SlotBKHO]
      BY <1>0, <1>1, <1>3, SMT DEF PollTypeOK, Slots, SlotBKHO, SlotServo
    <2> QED BY <1>0, <2>1 DEF GroupRows, PollOutServo
  <1> QED BY <1>4, <1>5, <1>6 DEF PollInv

\* Every step of TIMER6's handler keeps the invariant of the schedule.
LEMMA PollNextInv == PollInv /\ [PollNext]_pollVars => PollInv'
  <1>1. PollInv /\ UNCHANGED pollVars => PollInv'
    BY DEF PollInv, pollVars, PollTypeOK, RoundConsistent, GroupRows, PreviousDevice
  <1> QED BY <1>1, PollBKDInv, PollBKHO_AInv, PollOutServoInv DEF PollNext

\* In every state the counters and rows satisfy the inductive invariant.
THEOREM PollInvariant == PollSpec => []PollInv
  BY PollInitInv, PollNextInv, PTL DEF PollSpec

\* No counter of Qwerty_all_Device leaves its range or overflows a uint8_t.
THEOREM PollTypeCorrect == PollSpec => []PollTypeOK
  <1>1. PollInv => PollTypeOK
    BY DEF PollInv
  <1> QED BY <1>1, PollInvariant, PTL

\* All BKD blocks are asked for the same processor within a round.
THEOREM RoundsAreConsistent == PollSpec => []RoundConsistent
  <1>1. PollInv => RoundConsistent
    BY DEF PollInv
  <1> QED BY <1>1, PollInvariant, PTL

-----------------------------------------------------------------------------
\* Past the warm-up no device is addressed by two rows of message_from_BKD.
THEOREM OneSlotPerDeviceHolds == PollSpec => []OneSlotPerDevice
  <1>1. PollInv => OneSlotPerDevice
    <2> SUFFICES ASSUME PollInv, Warm, NEW s \in Slots, NEW t \in Slots, s < t,
                        message_adr[s] # 0 \/ message_adr[t] # 0
                 PROVE  message_adr[s] # message_adr[t]
      BY AddressPlan, SMT DEF OneSlotPerDevice, Slots
    <2> USE AddressPlan
    <2>0. PollTypeOK /\ RoundConsistent /\ GroupRows
      BY DEF PollInv
    <2>1. PreviousDevice \in 1 .. DEVICE_IN_BKD /\ current_device_in_BKDx \in 1 .. DEVICE_IN_BKD
      BY <2>0, SMT DEF PreviousDevice, PollTypeOK
    <2>2. \A b \in Blocks : \/ message_adr[b] = 0
                           \/ \E d \in 1 .. DEVICE_IN_BKD : message_adr[b] = AdrBKD(d, b)
      BY <2>0, <2>1 DEF RoundConsistent
    <2>3. \A b \in Blocks : message_adr[b] = 0 \/ message_adr[b] < START_ADR_BKHO_A
      BY <2>2, BlockRange
    <2>4. \/ message_adr[SlotBKHO] = 0
          \/ /\ message_adr[SlotBKHO] >= START_ADR_BKHO_A
             /\ message_adr[SlotBKHO] < START_ADR_OUT_SERVO
      BY <2>0, SMT DEF GroupRows, Warm, WarmBKHO_A, BKHO_A
    <2>5. message_adr[SlotServo] = 0 \/ message_adr[SlotServo] >= START_ADR_OUT_SERVO
      BY <2>0, SMT DEF GroupRows, Warm, WarmServo, OUT_SERVO
    <2>6. message_adr[s] \in Nat /\ message_adr[t] \in Nat
      BY <2>0, SMT DEF PollTypeOK
    <2>7. CASE s \in Blocks /\ t \in Blocks
      BY <2>2, <2>6, <2>7, BlocksDisjoint, BlockRange, SMT
    <2>8. CASE s \in Blocks /\ t \in {SlotBKHO, SlotServo}
      BY <2>3, <2>4, <2>5, <2>6, <2>8, SMT
    <2>9. CASE s = SlotBKHO /\ t = SlotServo
      BY <2>4, <2>5, <2>6, <2>9, SMT
    <2> QED
      BY <2>7, <2>8, <2>9, SMT DEF Slots, Blocks, SlotBKHO, SlotServo
  <1> QED BY <1>1, PollInvariant, PTL

\* A group's counter never leaves its range once it has reached it.
THEOREM RangeStability == PollSpec => RangeStable
  <1>1. PollInv /\ [PollNext]_pollVars => [KeepsRange]_pollVars
    <2> SUFFICES ASSUME PollInv, PollNext
                 PROVE  (WarmBKHO_A => WarmBKHO_A') /\ (WarmServo => WarmServo')
      BY DEF KeepsRange
    <2> USE AddressPlan
    <2>0. PollTypeOK
      BY DEF PollInv
    <2>1. CASE PollBKD
      BY <2>1 DEF PollBKD, WarmBKHO_A, WarmServo
    <2>2. CASE PollBKHO_A
      <3>1. START_ADR_BKHO_A \in 1 .. AND_ADR_BKHO_A /\ AND_ADR_BKHO_A < 255
        BY SMT
      <3>2. WarmBKHO_A => WarmBKHO_A'
        BY <2>0, <2>2, <3>1, GroupStep DEF PollBKHO_A, PollTypeOK, WarmBKHO_A, BKHO_A
      <3> QED BY <2>2, <3>2 DEF PollBKHO_A, WarmServo
    <2>3. CASE PollOutServo
      <3>1. START_ADR_OUT_SERVO \in 1 .. AND_ADR_OUT_SERVO
        BY SMT
      <3>2. WarmServo => WarmServo'
        BY <2>0, <2>3, <3>1, GroupStep DEF PollOutServo, PollTypeOK, WarmServo, OUT_SERVO, Devices
      <3> QED BY <2>3, <3>2 DEF PollOutServo, WarmBKHO_A
    <2> QED BY <2>1, <2>2, <2>3 DEF PollNext
  <1> QED BY <1>1, PollInvariant, PTL DEF PollSpec, RangeStable
=============================================================================
