CONSTANTS
    ENET_RXBUF_NUM = 3
    ENET_TXBUF_NUM = 2
    MaxFrames = 4
    MaxReplies = 3
SPECIFICATION RingFairSpec
INVARIANTS RingTypeOK Windows CopiedBeforeReuse
PROPERTIES RxQueueSpec TxQueueSpec Explained RxResumed SendCompletes
