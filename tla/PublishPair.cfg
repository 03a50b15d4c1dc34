\* Two producers of one artifact: a has a sidecar and a twin to remove, b's source has no
\* sidecar and it leaves the twin alone.
SPECIFICATION FairSpec
CONSTANTS
    Publishers = {a, b}
    WithText = {a}
    WithTwin = {a}
    Old = Old
    NoFile = NoFile
    Nobody = Nobody
INVARIANT NothingLost
PROPERTIES EveryPublisherEnds AtomicSpec
CHECK_DEADLOCK FALSE
