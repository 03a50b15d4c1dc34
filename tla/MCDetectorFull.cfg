SPECIFICATION Spec
CONSTANTS
  Binding = {"io", "aux"}
  Consumed = {"io"}
  Address = {a1, a2, a3}
  NoAddress = NoAddress
  Batch = {1, 2}
  NoBatch = NoBatch
  MaxCall = 3
  Size = {1, 2}
  InputSize = 1
  Pinned = {p1, p2}
  UseCudaGraph = FALSE
  GpuDecode = TRUE
  FullPipeline = TRUE
  MaxGeneration = 2
SYMMETRY Symmetry
INVARIANTS NeverTorn GatesHeal
PROPERTY ReplaysAreInferences
