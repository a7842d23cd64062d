\* At most three lines, three commands, two deaths and one crash; see Scenes.
CONSTANTS
    Packets = {1, 2}
    MaxCommands = 3
    Kinds = {"chat", "connect", "leave", "bare", "other"}
    MaxLines = 3
    Names = {"p1"}
    MaxProcs = 4
    DeathLimit = 2
    Modes <- Scenes
    CrashLimit = 1
SPECIFICATION Spec
CHECK_DEADLOCK FALSE
INVARIANTS
    TypeOK
    InStep
    WholeLinesTold
    VerdictFresh
    OnePerPlugin
    PluginsStop
PROPERTIES
    PluginsReturn
    KeepsWatch
