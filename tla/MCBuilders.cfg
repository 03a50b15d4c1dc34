SPECIFICATION BuildersSpec
CONSTANTS
    Publishers = {a, b}
    WithText = {a}
    WithTwin = {}
    Old = Old
    NoFile = NoFile
    Nobody = Nobody
    Proc = {p1, p2}
    Checkpoint = {c1, c2}
    Nothing = Nothing
    DefaultProfile <- Default
    PlacedSlots <- ThePlacedSlots
    Unbound <- TheUnbound
    RenamesProfile = FALSE
    Caches <- TheCaches
    Engine = {"a"}
    Onnx <- TheOnnx
    Shape <- OneShape
    Batches = {1, 8}
    MaxBuilds = 4
    Networks <- TheNetworks
    Sidecars <- TheSidecars
    Triples <- TheTriples
    AuxLimits <- TheAuxLimits
    Repairs <- TheRepairs
INVARIANTS AcceptedIsIdentified EngineOfItsOnnx BuiltIsLoadable IslandIsExact
PROPERTY EngineKeepsItsSidecar
SYMMETRY Symmetry
CHECK_DEADLOCK FALSE
