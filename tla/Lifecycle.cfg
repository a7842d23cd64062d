\* Commands one after another, a crash, and restarts that overlap; see Scenes.
CONSTANTS
    Modes <- Scenes
    MaxCrashes = 5
    MaxSupervised = 10
    MaxPid = 12
    CommandLimit = 3
    CrashLimit = 1
SPECIFICATION Spec
CHECK_DEADLOCK FALSE
INVARIANTS
    TypeOK
    StopStops
    OneEngine
PROPERTIES
    RestartReturns
    OrphansLeave
