CONSTANTS
    IN_TOTAL_BKD = 2
    DEVICE_IN_BKD = 1
    DEVICE_IN_BKHO_A = 1
    DEVICE_OUT_SERVO = 1
    TX_SIZE = 20
    REPLY_SIZE = 32
    RX_BUFFER_SIZE = 200
    SLOT = 63
    GAP_USART5 = 2
    GAP_USART0 = 328
    Responders <- MCResponders
    ReplyLengths = {31, 32}
    MaxLatency = 9
    ChatterLengths = {}
    MaxGlitches = 1
SPECIFICATION LinkSpec
INVARIANTS HalfDuplex SlotClean FrameNeverCut NoGhostHealth RecordedInTime
           ReplyInv
PROPERTIES AttributedReply PollSpec
