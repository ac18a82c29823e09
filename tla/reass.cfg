CONSTANTS
    PBUF_POOL_SIZE = 5
    IP_REASS_MAX_PBUFS = 4
    MEMP_NUM_REASSDATA = 2
    IP_REASS_MAXAGE = 1
    TIMEOUT_CHECK_USE_LWIP = TRUE
    Ids = {i1, i2, i3}
    DatagramLen = 4
    BufferLen = 2
SPECIFICATION ReassSpec
INVARIANTS ReassTypeOK Accounted WellFormed EvictsLast Whole
PROPERTIES KeepsOwn OnlyAges
