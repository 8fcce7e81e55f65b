\* Three requests, that meet in the heap and in what is remembered, while the
\* playlist changes, a call fails or the movie is forgotten.
SPECIFICATION Spec
CONSTANTS
    MaxCount = 4
    Counts = {3, 4}
    Starts <- MCStarts
    Aheads = {1, 3}
    MaxRequests = 3
    MaxFaults = 2
    NoEntry = NoEntry
    NotComputed = NotComputed
INVARIANTS
    TypeOK
    ChainsExact
    ReachesAhead
PROPERTIES
    Settles
\* The task waits for requests, or is dead: both may last.
CHECK_DEADLOCK FALSE
