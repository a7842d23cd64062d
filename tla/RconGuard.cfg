\* Three addresses compete for two buckets; the clock changes sign once.
CONSTANTS
    a1 = a1
    a2 = a2
    a3 = a3
    Addrs <- ThreeAddrs
    Loopback = Loopback
    NoAddr = NoAddr
    Half = 4
    RconBuckets = 2
    RconBurst = 2
    RconPeriod = 2
    ReportGap = 1
    MaxStart = 5
    MaxNow = 7
    MaxDropped = 1
SYMMETRY Symmetry
SPECIFICATION Spec
CHECK_DEADLOCK FALSE
INVARIANTS
    TypeOK
    TableInv
    WindowBound
PROPERTIES
    ContractSpec
