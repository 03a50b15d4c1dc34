SPECIFICATION RuntimeSpec
CONSTANTS
    Inputs = {i1, i2}
    Outputs = {o1, o2}
    Values = {v1, v2}
    Nothing = Nothing
    MaxCalls = 9
    Sizes = {0, 1, 4, 5}
    Align = 4
    MaxSlabs = 4
    NoBlock = NoBlock
    NaN = NaN
    Thread = {t1, t2}
    Native = {n1, n2}
    Object = {x1, x2, x3}
    Threshold = {0, 3}
    Batch = {1, 2}
    Place = {"wheel", "build", "elsewhere"}
    SearchOrder <- WheelThenBuild
    System = "v1"
    Slots = 2
    MaxNth = 2
    MaxHits = 4
    Decodings <- TheDecodings
    Contracts <- TheContracts
    Bindings <- TheBindings
    Searches <- TheSearches
    Bridges <- TheBridges
INVARIANTS
    SlabsDisjoint AgreesWithReference ContractIsExact FiresOnNthHit ExactValue
    OneOwner ErrorIsOwn NotPassedOver CalledIsAlive
PROPERTY OutputOfItsInputs
SYMMETRY Symmetry
CHECK_DEADLOCK FALSE
