CONSTANTS
    PBUF_POOL_SIZE = 4
    IP_REASS_MAX_PBUFS = 4
    MEMP_NUM_REASSDATA = 2
    IP_REASS_MAXAGE = 2
    TIMEOUT_CHECK_USE_LWIP = FALSE
    Ids = {i1, i2, i3}
    DatagramLen = 3
    BufferLen = 1
SPECIFICATION ReassFairSpec
PROPERTY StillReceives
