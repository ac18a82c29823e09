CONSTANTS
    IN_TOTAL_BKD = 1
    DEVICE_IN_BKD = 1
    DEVICE_IN_BKHO_A = 1
    DEVICE_OUT_SERVO = 1
    TX_SIZE = 2
    REPLY_SIZE = 3
    RX_BUFFER_SIZE = 6
    SLOT = 7
    GAP_USART5 = 2
    GAP_USART0 = 9
    Responders = {1}
    ReplyLengths = {3}
    MaxLatency = 0
    ChatterLengths = {4}
    MaxGlitches = 7
SPECIFICATION LinkFairSpec
 
PROPERTY EveryDevicePolled
