SPECIFICATION Spec
CONSTANTS
    None = None
    DefaultColors <- MCDefaultColors
    Shipped <- MCShipped
    CustomId <- MCCustomId
    CustomName <- MCCustomName
    Folded <- MCFolded
    Rank <- MCRank
    MaxPalettes = 8
    MaxMemory = 2
    GenMod = 4
    Scenes <- MCScenes
    Sources = {"A", "B"}
    Follower = "A"
    FollowId = "device"
    Colors = {"x"}
    Customs <- MCCustoms
    Devices <- MCDevices
    FirstDevice = "D1"
    FileColors <- MCFileColors
    FileSize <- MCFileSize
    StreamColors <- MCStreamColors
    MaxVersion = 2
    RecheckPolls = 2
    Windows = {}
INVARIANT PaletteInv
PROPERTIES EditsStayHome FollowsDevice
CHECK_DEADLOCK FALSE
