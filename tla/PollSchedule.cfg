CONSTANTS
    IN_TOTAL_BKD = 12
    DEVICE_IN_BKD = 12
    DEVICE_IN_BKHO_A = 24
    DEVICE_OUT_SERVO = 8
SPECIFICATION PollFairSpec
INVARIANTS PollTypeOK RoundConsistent OneSlotPerDevice
PROPERTIES RangeStable EveryDevicePolled
