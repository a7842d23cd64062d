\* A crash in a screen session.
CONSTANTS
    Modes <- ScreenCrash
    MaxCrashes = 5
    MaxSupervised = 10
    MaxPid = 12
    CommandLimit = 3
    CrashLimit = 1
SPECIFICATION Spec
CHECK_DEADLOCK FALSE
PROPERTIES
    CrashRestarted
