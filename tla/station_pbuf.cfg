CONSTANTS
    IN_TOTAL_BKD = 1
    DEVICE_IN_BKD = 1
    DEVICE_IN_BKHO_A = 1
    DEVICE_OUT_SERVO = 1
    TX_SIZE = 7
    REPLY_SIZE = 2
    RX_BUFFER_SIZE = 3
    SLOT = 11
    GAP_USART5 = 2
    GAP_USART0 = 2
    Responders = {1}
    ReplyLengths = {2}
    MaxLatency = 0
    ChatterLengths = {}
    MaxGlitches = 0
    MaxPackets = 1
SPECIFICATION StationSpec
INVARIANT SentAsSummed
