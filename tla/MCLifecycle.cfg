SPECIFICATION FairSpec
CONSTANTS
    Worker = {w1, w2}
    RetryLimit = 1
CHECK_DEADLOCK FALSE
INVARIANTS
    TypeOK
    DatabaseOutlivesIndexer
    NodeStopsFirst
PROPERTIES
    Stops
