CONSTANTS
  Key = {k1, k2, k3, k4}
  Val = {v1, v2}
  Cap = 3
SPECIFICATION FMSpec
INVARIANT FMTypeOK
INVARIANT KeysHeldOnce
PROPERTY ImplementsBoundedMap
