SPECIFICATION Spec
CONSTANTS
  Binding = {"io", "aux"}
  Consumed = {"io"}
  Address = {a1, a2, a3}
  NoAddress = NoAddress
  Batch = {1, 2, 3}
  NoBatch = NoBatch
  MaxCall = 3
  Size = {1}
  InputSize = 1
  Pinned = {p1, p2}
  UseCudaGraph = TRUE
  GpuDecode = FALSE
  FullPipeline = FALSE
  MaxGeneration = 2
SYMMETRY Symmetry
INVARIANTS ResultsLand FreezeSettles
PROPERTY ReplaysAreInferences
