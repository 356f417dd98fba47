SPECIFICATION Spec
CONSTANTS
  Size = 2
  CountMod = 256
  HwDepth = 2
  MaxBytes = 3
  MaxResets = 1
INVARIANT NoPhantomBytes
CHECK_DEADLOCK FALSE
