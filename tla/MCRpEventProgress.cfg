SPECIFICATION FairSpec
CONSTANTS
  FdLimit = 1
  MaxAddrs = 2
  ReadCap = 2
  WriteCap = 2
  InCap = 2
  OutCap = 2
  ConnectTimeout = 1
  RetryDelay = 1
  MaxElapsed = 1
  HelloLen = 1
  MaxReply = 2
  Faults = {"connect"}
INVARIANTS
  TypeOK
  LoopsHaveWork
PROPERTIES
  InputRead
  OutputSent
  RetriesForever
  LookupPickedUp
  AttemptEnds
  InterruptStops
