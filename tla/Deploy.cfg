\* One deployer at a time: killed, repeated, on rebuilt sources.
CONSTANTS
    i1 = i1
    i2 = i2
    Instances <- One
    MaxBuilds = 3
    MaxInstalls = 1
    MaxKills = 3
SPECIFICATION Spec
CHECK_DEADLOCK FALSE
INVARIANTS
    TypeOK
    OriginalKept
    BackupIsOriginal
PROPERTIES
    LaunchesProtected
    MappedUntouched
