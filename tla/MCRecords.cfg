SPECIFICATION RecordsSpec
CONSTANTS
    Name = {"engine", "report", "other"}
    Input = {"engine"}
    Writer = {"w1", "w2"}
    Nothing = Nothing
    Assemblers = {a1, a2}
    Evaluations <- TheEvaluations
    Benchmarks <- TheBenchmarks
    Lineages <- TheLineages
    Sweeps <- TheSweeps
    Releases <- TheReleases
INVARIANTS ArtifactsKept EngineOfNamedOnnx OneModel RowsAreCurrent
PROPERTIES NothingReplaced ShippedIsAdmitted
SYMMETRY Symmetry
CHECK_DEADLOCK FALSE
