CONSTANTS
    yls = yls
    yv = yv
    pc = pc
    m1 = m1
    m2 = m2
    m3 = m3
    ARP_TABLE_SIZE = 2
    ARP_MAXAGE = 4
    ARP_MAXPENDING = 2
    REREQUEST_UNICAST = 1
    ARP_TMR_INTERVAL = 1
    SYSTEMTICK_PERIOD_MS = 1
    TimeModulus = 2
    Addrs = {yls, yv, pc}
    AnyIp = any
    Macs = {m1, m2, m3}
    ZeroMac = zero
    Claims <- MCClaims
    MaxPackets = 2
SPECIFICATION ArpFairSpec
INVARIANTS ArpTypeOK OneEntry QueuedWhilePending RightHost
PROPERTIES InOrder PendingSettles
