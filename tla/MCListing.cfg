CONSTANTS
  a = a
  b = b
  c = c
  Name = {a, b, c}
  LongName = {c}
  Nil = Nil
  Byte = {0}
  FilesCap = 0
  PathMapCap = 4
  MaxInodes = 2
  FdTableLen = 4
  OpenFilesCap = 1
  PathArg <- Paths
  ModeArg <- TwoModes
  FdArg = {3}
  DataArg <- NoData
  CountArg = {1, 2}
  OffsetArg = {}
  OwnerArg = {}
  UsizeMod = 5
  MaxLen = 1
  MaxPosition = 4
  Nowhere = Nowhere
SPECIFICATION ListingSpec
VIEW WithoutLast
INVARIANT ListingIsBounded
PROPERTY NoneMissedUnlessRemoved
PROPERTY NoneRepeatedUnlessAdded
CHECK_DEADLOCK FALSE
