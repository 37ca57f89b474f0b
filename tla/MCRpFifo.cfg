SPECIFICATION FairSpec
CONSTANTS
  Byte = {x, y}
  Capacity = 3
  Strings <- MCStrings
INVARIANTS
  TypeOK
  TailFollowsHead
  RawWindows
PROPERTIES
  ImplementsQueue
  CallsReturn
