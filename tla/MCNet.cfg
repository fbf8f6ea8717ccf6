\* Two servers and rings of two, so that rings fill up, and a cache of one, so
\* that every stored entry replaces another.  The client may stop for good: a
\* DNS reply that is lost is waited for without a timeout.
SPECIFICATION FairSpec
CONSTANTS
    DmaSlots = 2
    StageSlots = 2
    IpSlots = 2
    UdpSlots = 1
    Wrap = 4
    CacheSize = 1
    ArpRetries = 1
    Retries = 2
    Servers = {"d1", "d2"}
    Questions = 2
    Noise = 1
    MaxFaults = 1
INVARIANTS TypeOK RightPeer
PROPERTIES PipeSpec AirOrder ClientReturns
CHECK_DEADLOCK FALSE
