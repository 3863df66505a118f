CONSTANTS
  Caller = {c1, c2}
  FdTableLen = 4
  MaxFiles = 1
  Byte = {"newline", "x"}
  Newline = "newline"
  Text <- SomeText
  MaxSent = 2
SPECIFICATION Spec
CONSTRAINT FirstCallsApart
INVARIANT GlobalTypeOK
INVARIANT GuardIsExclusive
INVARIANT DescriptorsHaveOneOwner
INVARIANT LinesAreWhole
 
PROPERTY ImplementsPool
PROPERTY LockIsReleased
PROPERTY CallReturnsWhenAlone
PROPERTY StdoutReturns
CHECK_DEADLOCK FALSE
