SPECIFICATION Spec
CONSTANTS
  MaxDevices = 2
INVARIANTS
  TypeOK
  UsesHeld
  ReleasedAtEnd
  SelectedExists
  PrintsApart
CHECK_DEADLOCK FALSE
