\* Five scenes: see Scene.
CONSTANTS
    UserInfos <- Sent
    Chars <- NameChars
    Padawan <- NoName
    MaxName = 4
    MaxInfo = 17
    Buffer = 44
    PairSize = 3
    DefaultSize <- Sizes
    MaxPairs = 3
    MaxRounds = 3
    SlotCount = 32
    Half = 8
    DlGap = 2
    Uptimes = {0, 3, 6}
    MaxUptime = 20
    MaxDrops = 4
    Scenes <- Names
    Given <- Scene
SPECIFICATION Spec
CHECK_DEADLOCK FALSE
INVARIANTS
    TypeOK
    GameAccepts
    PolicyKept
    EntryFirst
    GameShielded
    ReportsTimely
PROPERTIES
    LegitUntouched
    Settles
    NoGhost
