CONSTANTS
    IN_TOTAL_BKD = 2
    DEVICE_IN_BKD = 1
    DEVICE_IN_BKHO_A = 1
    DEVICE_OUT_SERVO = 1
    TX_SIZE = 2
    REPLY_SIZE = 3
    RX_BUFFER_SIZE = 5
    SLOT = 8
    GAP_USART5 = 2
    GAP_USART0 = 2
    Responders <- MCResponders
    ReplyLengths = {2, 3}
    MaxLatency = 1
    ChatterLengths = {}
    MaxGlitches = 0
SPECIFICATION LinkSpec
INVARIANT ServoRecordedInTime
