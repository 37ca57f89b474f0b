SPECIFICATION Spec
CONSTANTS
  Letter = {"P", "I", "N", "G", "f", "F"}
  HexLetter = {"f", "F"}
  Digit = {"0", "4"}
  Special = {"["}
  Odd = {"#"}
  Nul = "NUL"
  NickBytes = 4
  Middles = 2
  Groups = 3
  Zeros = 1
  PrefixRoom = 2
  CodeRoom = 4
  ParamsRoom = 10
  MyNick = "nick"
  MyLogin = "login"
  MyName = "name"
  Channel = "channel"
  WriteCapacity = 8
  Lines <- MCLines
  ReadCapacity = 7
  ReadSizes = {3}
  WriteSizes = {}
  MaxLines = 2
  MaxBytes = 22
  MaxConnects = 2
INVARIANTS
  TypeOK
  MessagesRight
  OutputExpected
PROPERTY
  DrainEnds
