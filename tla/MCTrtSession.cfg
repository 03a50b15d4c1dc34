SPECIFICATION Spec
CONSTANTS
  Binding = {1, 2, 3}
  Input = 1
  Shape = {1, 2, 3, 4}
  NoShape = NoShape
  Unresolved = {4}
  Bytes <- MCBytes
  CtorBytes <- MCCtorBytes
  Address = {a1, a2, a3, a4, a5}
  NoAddress = NoAddress
SYMMETRY Symmetry
INVARIANTS Mirrors NoUseAfterFree
PROPERTY ImplementsContract
