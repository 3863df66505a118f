CONSTANTS
  a = a
  b = b
  Name = {a, b}
  Nil = Nil
  Byte = {0}
  FilesCap = 1
  PathMapCap = 3
  MaxInodes = 3
  FdTableLen = 6
  OpenFilesCap = 2
  PathArg <- TwoFiles
  ModeArg <- FullMode
  FdArg <- FdArgs
  DataArg <- NoData
  CountArg = {}
  OffsetArg = {}
  OwnerArg = {}
  LongName = {}
  UsizeMod = 2
  MaxLen = 1
  MaxPosition = 1
  Nowhere = Nowhere
SPECIFICATION DescriptorSpec
VIEW WithoutLast
INVARIANT NoDanglingNumber
INVARIANT HandlesMatchTable
INVARIANT ContentUnlessFull
PROPERTY OtherDescriptorsKept
PROPERTY HandleLostWhenFull
