\* The scene of userinfos, for what the code does about AppendedFits.
CONSTANTS
    UserInfos <- Sent
    Chars <- NameChars
    Padawan <- NoName
    MaxName = 4
    MaxInfo = 17
    Buffer = 44
    PairSize = 3
    DefaultSize <- Sizes
    MaxPairs = 3
    MaxRounds = 3
    SlotCount = 32
    Half = 8
    DlGap = 2
    Uptimes = {0, 3, 6}
    MaxUptime = 20
    MaxDrops = 4
    Scenes = {"userinfo"}
    Given <- Scene
SPECIFICATION Spec
CHECK_DEADLOCK FALSE
PROPERTIES
    AppendedFits
