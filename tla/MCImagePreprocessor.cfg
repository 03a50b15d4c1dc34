SPECIFICATION Spec
CONSTANTS
  Image = {1, 2, 3}
  Bytes <- MCBytes
  Slot = {1, 2}
  Garbage = Garbage
  MaxQueue = 4
INVARIANT RightPixels
PROPERTY CallReturns
