\* A plugin dies twice; the loop starts it again only once.
CONSTANTS
    Packets = {1, 2}
    MaxCommands = 3
    Kinds = {"chat", "connect", "leave", "bare", "other"}
    MaxLines = 3
    Names = {"p1"}
    MaxProcs = 4
    DeathLimit = 2
    Modes <- Deaths
    CrashLimit = 1
SPECIFICATION Spec
CHECK_DEADLOCK FALSE
PROPERTIES
    RespawnsPlugins
