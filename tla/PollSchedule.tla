---------------------------- MODULE PollSchedule ----------------------------
(***************************************************************************)
(* The order in which the YLS board polls its RS-485 devices: the counters *)
(* of Qwerty_all_Device (src/src/uart.c), which TIMER6 calls once per      *)
(* slot.  A round has IN_TOTAL_BKD + 2 slots: one per BKD block, one for   *)
(* the BKHO_A unit, one for the outer servo drives.  Every round a BKD     *)
(* slot speaks to the next of the DEVICE_IN_BKD processors of its block,   *)
(* and the last two slots to the next device of their group.               *)
(*                                                                         *)
(* This module is the schedule alone: which address byte goes into which   *)
(* row of message_from_BKD, and when.  What else the handler does in the   *)
(* same step (health bits, check sum, direction pin, DMA) is added by      *)
(* Rs485Link, whose Qwerty_all_Device contains the actions of this module. *)
(***************************************************************************)
EXTENDS Integers

CONSTANTS
    IN_TOTAL_BKD,       \* BKD blocks (12)
    DEVICE_IN_BKD,      \* processors in a BKD block (12: 4 cells of 3)
    DEVICE_IN_BKHO_A,   \* processors in the BKHO_A unit (24)
    DEVICE_OUT_SERVO    \* outer servo drives (8)

\* The last address must leave room for one increment of a uint8_t: the wrap
\* test `++x > AND_ADR` is never true when AND_ADR is 255.
ASSUME SizesAssumption ==
    /\ IN_TOTAL_BKD \in Nat \ {0}
    /\ DEVICE_IN_BKD \in Nat \ {0}
    /\ DEVICE_IN_BKHO_A \in Nat \ {0}
    /\ DEVICE_OUT_SERVO \in Nat \ {0}
    /\ IN_TOTAL_BKD + 2 < 256
    /\ IN_TOTAL_BKD * DEVICE_IN_BKD + DEVICE_IN_BKHO_A + DEVICE_OUT_SERVO < 255

VARIABLES
    current_BKD,                 \* the slot: a BKD block, BKHO_A or the servos
    current_device_in_BKDx,      \* the processor polled in every BKD block
    current_device_in_BKHO_A,    \* address last polled in the BKHO_A slot
    current_device_in_OUT_SERVO, \* address last polled in the servo slot
    message_adr                  \* byte [0] of each row of message_from_BKD

pollVars == <<current_BKD, current_device_in_BKDx, current_device_in_BKHO_A,
              current_device_in_OUT_SERVO, message_adr>>

-----------------------------------------------------------------------------
\* The address plan (the enum adr_devices).

Blocks    == 0 .. IN_TOTAL_BKD - 1
SlotBKHO  == IN_TOTAL_BKD
SlotServo == IN_TOTAL_BKD + 1
Slots     == 0 .. IN_TOTAL_BKD + 1

\* Mutant of START_ADR_BKHO_A: the first address of BKHO_A is a BKD's last.
StartOnLastBKD == DEVICE_IN_BKD * IN_TOTAL_BKD

START_ADR_BKHO_A    == 1 + DEVICE_IN_BKD * IN_TOTAL_BKD
AND_ADR_BKHO_A      == DEVICE_IN_BKHO_A + DEVICE_IN_BKD * IN_TOTAL_BKD
START_ADR_OUT_SERVO == 1 + AND_ADR_BKHO_A
AND_ADR_OUT_SERVO   == DEVICE_OUT_SERVO + AND_ADR_BKHO_A

BKHO_A    == START_ADR_BKHO_A .. AND_ADR_BKHO_A
OUT_SERVO == START_ADR_OUT_SERVO .. AND_ADR_OUT_SERVO
Devices   == 1 .. AND_ADR_OUT_SERVO

\* The address of processor d of BKD block b.
AdrBKD(d, b) == d + b * DEVICE_IN_BKD

\* ++ on a uint8_t.
Inc8(x) == (x + 1) % 256

\* Mutants of Step: the wrap test one too late; the wrap to 1 instead of to the
\* first address of the group.
StepOneLate(x, last, first) == IF Inc8(x) > last + 1 THEN first ELSE Inc8(x)
StepToOne(x, last, first)   == IF Inc8(x) > last THEN 1 ELSE Inc8(x)

\* `if (++x > last) x = first`, the step of each of the four counters.
Step(x, last, first) == IF Inc8(x) > last THEN first ELSE Inc8(x)

-----------------------------------------------------------------------------
PollInit ==
    /\ current_BKD = 0
    /\ current_device_in_BKDx = 1
    /\ current_device_in_BKHO_A = 1
    /\ current_device_in_OUT_SERVO = 1
    /\ message_adr = [s \in Slots |-> 0]

\* Mutants of NextSlot: the device number moves on one slot early; the round
\* ends after the BKD blocks (the test left commented out in the source).
NextSlotEarlyDevice ==
    /\ current_BKD' = Step(current_BKD, IN_TOTAL_BKD + 1, 0)
    /\ current_device_in_BKDx' =
           IF Inc8(current_BKD) = IN_TOTAL_BKD + 1
           THEN Step(current_device_in_BKDx, DEVICE_IN_BKD, 1)
           ELSE current_device_in_BKDx
NextSlotBlocksOnly ==
    /\ current_BKD' = Step(current_BKD, IN_TOTAL_BKD - 1, 0)
    /\ current_device_in_BKDx' =
           IF Inc8(current_BKD) > IN_TOTAL_BKD - 1
           THEN Step(current_device_in_BKDx, DEVICE_IN_BKD, 1)
           ELSE current_device_in_BKDx

\* The next slot; the device number moves on when the slot wraps.
NextSlot ==
    /\ current_BKD' = Step(current_BKD, IN_TOTAL_BKD + 1, 0)
    /\ current_device_in_BKDx' =
           IF Inc8(current_BKD) > IN_TOTAL_BKD + 1
           THEN Step(current_device_in_BKDx, DEVICE_IN_BKD, 1)
           ELSE current_device_in_BKDx

\* Speaking to a device of a BKD block.
PollBKD ==
    /\ NextSlot
    /\ current_BKD' < IN_TOTAL_BKD
    /\ message_adr' = [message_adr EXCEPT
           ![current_BKD'] = AdrBKD(current_device_in_BKDx', current_BKD') % 256]
    /\ UNCHANGED <<current_device_in_BKHO_A, current_device_in_OUT_SERVO>>

\* Speaking to a device of BKHO_A.
PollBKHO_A ==
    /\ NextSlot
    /\ current_BKD' = IN_TOTAL_BKD
    /\ current_device_in_BKHO_A' =
           Step(current_device_in_BKHO_A, AND_ADR_BKHO_A, START_ADR_BKHO_A)
    /\ message_adr' = [message_adr EXCEPT ![current_BKD'] = current_device_in_BKHO_A']
    /\ UNCHANGED current_device_in_OUT_SERVO

\* Mutant of PollOutServo: the address is sent, the counter is not advanced.
PollOutServoStuck ==
    /\ NextSlot
    /\ current_BKD' > IN_TOTAL_BKD
    /\ message_adr' = [message_adr EXCEPT ![current_BKD'] = current_device_in_OUT_SERVO]
    /\ UNCHANGED <<current_device_in_BKHO_A, current_device_in_OUT_SERVO>>

\* Speaking to an outer servo drive.
PollOutServo ==
    /\ NextSlot
    /\ current_BKD' > IN_TOTAL_BKD
    /\ current_device_in_OUT_SERVO' =
           Step(current_device_in_OUT_SERVO, AND_ADR_OUT_SERVO, START_ADR_OUT_SERVO)
    /\ message_adr' = [message_adr EXCEPT ![current_BKD'] = current_device_in_OUT_SERVO']
    /\ UNCHANGED current_device_in_BKHO_A

PollNext == PollBKD \/ PollBKHO_A \/ PollOutServo

PollSpec == PollInit /\ [][PollNext]_pollVars

\* TIMER6 runs for ever once Timer6_config has enabled it.
PollFairSpec == PollSpec /\ WF_pollVars(PollNext)

-----------------------------------------------------------------------------
\* The address on the bus in this slot (0 before the first poll).
Polled == message_adr[current_BKD]

\* The processor number of the round before this one.
PreviousDevice ==
    IF current_device_in_BKDx = 1 THEN DEVICE_IN_BKD ELSE current_device_in_BKDx - 1

\* The BKHO_A and servo counters start at 1, below their ranges, and walk
\* through other groups' addresses before they get there.
WarmBKHO_A == current_device_in_BKHO_A \in BKHO_A
WarmServo  == current_device_in_OUT_SERVO \in OUT_SERVO
Warm       == WarmBKHO_A /\ WarmServo

\* Type correctness: no counter of Qwerty_all_Device leaves the range its wrap
\* test leaves it, so no uint8_t overflows and no row index is out of range.
PollTypeOK ==
    /\ current_BKD \in Slots
    /\ current_device_in_BKDx \in 1 .. DEVICE_IN_BKD
    /\ current_device_in_BKHO_A \in 1 .. AND_ADR_BKHO_A
    /\ current_device_in_OUT_SERVO \in Devices
    /\ message_adr \in [Slots -> 0 .. AND_ADR_OUT_SERVO]

\* Every BKD block is asked for the same processor within a round: a row whose
\* slot has come holds this round's address, a row whose slot is still to come
\* the previous round's (0 while there was none).
RoundConsistent ==
    \A b \in Blocks :
        message_adr[b] \in {0, AdrBKD(IF b <= current_BKD THEN current_device_in_BKDx
                                                          ELSE PreviousDevice, b)}

\* The rows of the last two slots hold the counters they were filled from.
GroupRows ==
    /\ message_adr[SlotBKHO] \in {0, current_device_in_BKHO_A}
    /\ message_adr[SlotServo] \in {0, current_device_in_OUT_SERVO}

\* Once the counters of BKHO_A and of the servos have reached their ranges, no
\* two rows of message_from_BKD hold the address of one device: a device is
\* asked in one slot of the round only, and one slot asks it.
OneSlotPerDevice ==
    Warm => \A s, t \in Slots :
                s # t => (message_adr[s] # message_adr[t] \/ message_adr[s] = 0)

\* The inductive invariant of the schedule.
PollInv == PollTypeOK /\ RoundConsistent /\ GroupRows

\* What a step may do to the counters of the two groups: a counter that is in
\* the range of its group stays in it.
KeepsRange == (WarmBKHO_A => WarmBKHO_A') /\ (WarmServo => WarmServo')

\* A counter that has reached the range of its group never leaves it again.
RangeStable == [][KeepsRange]_pollVars

\* No device is left out of the schedule: each is polled again and again.
EveryDevicePolled == \A d \in Devices : []<>(Polled = d)
=============================================================================
