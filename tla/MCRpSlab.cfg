SPECIFICATION Spec
CONSTANTS
  PageShift = 4
  MinShift = 1
  WordBits = 4
  ByteBits = 2
  IntBits = 5
  HeaderBytes = 8
  EntryBytes = 3
  PoolBytes = 84
  Sizes = {2, 4, 7, 16, 20}
  MaxLive = 6
  MaxStale = 1
INVARIANTS
  TypeOK
  ListsLinked
  PagesConserved
  SlotsHaveRoom
  BusyIsLive
