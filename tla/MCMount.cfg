CONSTANTS
  Caller = {c1}
  FdTableLen = 4
  MaxFiles = 1
  Byte = {"newline", "x"}
  Newline = "newline"
  Text <- SomeText
  MaxSent = 0
SPECIFICATION Spec
PROPERTY MountReturns
CHECK_DEADLOCK FALSE
