SPECIFICATION MakersSpec
CONSTANTS
    Position = {q1, q2, q3}
    Proc = {p1, p2}
    Nothing = Nothing
    MaxVersion = 1
    MaxFaults = 1
    NumLayers = 3
    NumQueries = 3
    Scores = {0, 1}
    EvalIdxs <- TheEvalIdxs
    QueryCounts <- TheQueryCounts
    Cascades <- TheCascades
    Geometries <- TheGeometries
    Conversions <- TheConversions
    Lists <- TheLists
INVARIANTS
    ExportIsTrue RowsAreTrained QueriesAreAnchored ConversionIsClean
    IndicesStayFp32
CHECK_DEADLOCK FALSE
