CONSTANTS
  a = a
  b = b
  Name = {a, b}
  Nil = Nil
  Byte = {0}
  FilesCap = 0
  PathMapCap = 3
  MaxInodes = 3
  FdTableLen = 4
  OpenFilesCap = 0
  PathArg <- TwoFiles
  ModeArg <- FullMode
  FdArg = {3}
  DataArg <- NoData
  CountArg = {}
  OffsetArg = {}
  OwnerArg = {}
  LongName = {}
  UsizeMod = 2
  MaxLen = 1
  MaxPosition = 1
  Nowhere = Nowhere
SPECIFICATION NamespaceSpec
VIEW WithoutLast
CONSTRAINT ShallowCwd
PROPERTY UnlinkRemovesName
CHECK_DEADLOCK FALSE
