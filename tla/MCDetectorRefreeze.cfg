SPECIFICATION Spec
CONSTANTS
  Binding = {"io", "aux"}
  Consumed = {"io"}
  Address = {a1, a2}
  NoAddress = NoAddress
  Batch = {1}
  NoBatch = NoBatch
  MaxCall = 1
  Size = {1, 2}
  InputSize = 1
  Pinned = {p1, p2}
  UseCudaGraph = FALSE
  GpuDecode = FALSE
  FullPipeline = FALSE
  MaxGeneration = 1
SYMMETRY Symmetry
INVARIANT StagingWarmWhenFrozen
