CONSTANTS
  a = a
  b = b
  Name = {a, b}
  Nil = Nil
  Byte = {0}
  FilesCap = 1
  PathMapCap = 3
  MaxInodes = 3
  FdTableLen = 4
  OpenFilesCap = 1
  PathArg <- TwoFiles
  ModeArg <- FullMode
  FdArg = {3}
  DataArg <- NoData
  CountArg = {}
  OffsetArg = {}
  OwnerArg = {}
  LongName = {}
  UsizeMod = 2
  MaxLen = 1
  MaxPosition = 1
  Nowhere = Nowhere
SPECIFICATION DeletionSpec
VIEW WithoutLast
PROPERTY DeletedFilesMakeRoom
CHECK_DEADLOCK FALSE
