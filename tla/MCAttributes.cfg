CONSTANTS
  a = a
  b = b
  Name = {a, b}
  Nil = Nil
  Byte = {0}
  FilesCap = 2
  PathMapCap = 3
  MaxInodes = 3
  FdTableLen = 4
  OpenFilesCap = 1
  PathArg <- FilesAndRelative
  ModeArg <- SomeModes
  FdArg = {3}
  DataArg <- NoData
  CountArg = {0, 1}
  OffsetArg = {}
  OwnerArg = {1}
  LongName = {}
  UsizeMod = 2
  MaxLen = 1
  MaxPosition = 1
  Nowhere = Nowhere
SPECIFICATION AttributeSpec
VIEW WithoutLast
CONSTRAINT OneBelowRoot
PROPERTY AttributesChangeAsAsked
CHECK_DEADLOCK FALSE
