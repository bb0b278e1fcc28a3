SPECIFICATION Spec
CONSTANTS
  MaxErrors = 3
  MaxLabels = 4
  MaxStack = 6
  MaxFor = 2
  MaxGosub = 2
  MaxScopes = 3
  MaxVars = 5
  MaxArray = 3
  IntBits = 5
  Fuel = 40
  Alphabet <- MCAlphabet
  StringNames <- MCStringNames
  World <- MCWorld
  Programs <- MCPrograms
  Texts <- MCTexts
INVARIANTS
    ParsesAsWritten
    RunsAsWritten
PROPERTIES
    RunEnds
CHECK_DEADLOCK FALSE
