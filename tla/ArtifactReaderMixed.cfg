\* a publishes a graph with a sidecar and b one without, and nobody removes a twin.
SPECIFICATION ReadSpec
CONSTANTS
    Publishers = {a, b}
    WithText = {a}
    WithTwin = {}
    Old = Old
    NoFile = NoFile
    Nobody = Nobody
INVARIANT OneStableInput
CHECK_DEADLOCK FALSE
