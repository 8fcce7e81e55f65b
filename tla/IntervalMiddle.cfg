\* The smallest playlist with an item of even length.
SPECIFICATION Spec
CONSTANTS
    Count = 2
    MovieDuration = 3
    Target = 2
    MaxBetween = 3
    Times <- MCTimes
INVARIANTS
    PanicOnlyOnEmptyItem
\* A panic ends the task.
CHECK_DEADLOCK FALSE
