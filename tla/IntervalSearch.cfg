\* Five segments: ranges of length 1 to 5, so that both parities have a first
\* index, a middle and a last one, and a split leaves ranges that split again.
SPECIFICATION FairSpec
CONSTANTS
    Count = 5
    MovieDuration = 3
    Target = 2
    MaxBetween = 3
    Times <- MCTimes
INVARIANTS
    TypeOK
    Partition
    RangesFollowTimes
    RangeFound
    FreshFetch
    PanicCause
PROPERTIES
    FinishedMeansClose
    ComputationEnds
\* A panic ends the task.
CHECK_DEADLOCK FALSE
