SPECIFICATION Spec
CONSTANTS
  None = None
  Tree <- MCTree
  Parent <- MCParent
  Locked <- MCLocked
  LengthLines <- MCLengthLines
  MaxPath = 4
  FileTypes <- MCFileTypes
  Remote <- MCRemote
  Rank <- MCRank
  MaxFiles = 3
  MaxDepth = 2
  UiLimit = 2
  Settings <- MCSettings
  Md5 <- MCMd5
  TickMs = 6000000
  MaxKeys = 1
  MaxOps = 3
  MaxIgnore = 2
  Windows = {}
INVARIANTS
  AutomationInv
PROPERTIES
  StartsWhatIsSet
  JumpIsPlayed
  ThreadsReturn
CHECK_DEADLOCK FALSE
