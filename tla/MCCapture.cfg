SPECIFICATION Spec
CONSTANTS
    None = None
    A = A
    B = B
    FrameMod = 8
    NtscHeight = 1
    PalHeight = 2
    SplitHeight = 1
    Interval <- MCInterval
    SoundInterval <- MCSoundInterval
    SoundMod = 16
    LateWindow = 2
    MaxFill = 3
    MaxConceal = 2
    PacketFrames = 4
    FadeSamples = 8
    RampSamples = 3
    Debounce = 1
    MatchWindow = 2
    Expire = 6
    MaxPath = 3
    MaxEvents = 2
    MaxQueue = 2
    SegmentFrames = 2
    MaxWav = 3
    HeaderPeriod = 2
    Devices = {A, B}
    UserVolume <- MCUserVolume
    Scenes <- MCScenes
    FirstFrame = 6
    Levels <- MCLevels
    Spacing = 6
    Skew = 1
    Windows = {}
INVARIANTS RecorderInv MediaInv
PROPERTIES FilesOnlyGrow TimesAdvance CallsReturn
CHECK_DEADLOCK FALSE
