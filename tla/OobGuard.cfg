\* Two addresses compete for one bucket while an admin changes the rates;
\* the clock changes sign on the way.
CONSTANTS
    a1 = a1
    a2 = a2
    Addrs <- TwoAddrs
    Loopback = Loopback
    NoAddr = NoAddr
    All = All
    Half = 15
    OobBuckets = 1
    Second = 5
    MaxRate = 3
    BurstFactor = 2
    DefaultIp = 1
    DefaultAll = 2
    CfgTtl = 2
    ReportGap = 2
    CvarValues <- LiveCvars
    Watched <- WatchBoth
    Starts = {13}
    MaxNow = 16
    MaxChanges = 1
    MaxDropped = 1
SPECIFICATION Spec
CHECK_DEADLOCK FALSE
INVARIANTS
    LimiterArmed
    TypeOK
    WindowBound
PROPERTIES
    ConfigFresh
    AllContractKept
