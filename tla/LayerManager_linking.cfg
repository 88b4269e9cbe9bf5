SPECIFICATION Spec
CONSTANTS
  Null = Null
  MAX_LAYER_NUMBER = 5
  MaxWords = 5
  Name <- MCName
  Created <- MCCreated
  Text <- Texts
CHECK_DEADLOCK FALSE
INVARIANTS
  TypeOK
  LinkedAsWritten
  SendsReachAdapter
