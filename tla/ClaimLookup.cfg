SPECIFICATION FairSpec
CONSTANTS
  FdLimit = 1
  MaxAddrs = 2
  ReadCap = 1
  WriteCap = 1
  InCap = 1
  OutCap = 1
  ConnectTimeout = 1
  RetryDelay = 1
  MaxElapsed = 1
  HelloLen = 1
  MaxReply = 1
  Faults = {"gai"}
PROPERTY
  LookupPickedUp
