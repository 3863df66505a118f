CONSTANTS
  a = a
  b = b
  Name = {a, b}
  Nil = Nil
  Byte = {0, 1}
  FilesCap = 2
  PathMapCap = 2
  MaxInodes = 2
  FdTableLen = 5
  OpenFilesCap = 2
  PathArg <- RootAndFile
  ModeArg <- FullMode
  FdArg = {3, 4}
  DataArg <- OneByteOrNone
  CountArg = {2}
  OffsetArg <- Offsets
  OwnerArg = {}
  LongName = {}
  UsizeMod = 3
  MaxLen = 2
  MaxPosition = 3
  Nowhere = Nowhere
SPECIFICATION IOSpec
CONSTRAINT FewBytes
PROPERTY TruncateSetsSize
VIEW WithoutLast
CHECK_DEADLOCK FALSE
