SPECIFICATION Spec
CONSTANTS
  Value = {a, b}
  Null = null
  MaxDepth = 4
  MaxStrings = 2
  MaxServers = 2
SYMMETRY ValueSymmetry
INVARIANTS
  TypeOK
  FollowsDocument
  ShapedNeverRefused
  ServersSound
PROPERTY
  StoredUnderOwnKey
