SPECIFICATION Spec
CONSTANTS
    Unset = Unset
    Empty = Empty
    Bad = Bad
    Text <- MCText
    Documents <- MCDocuments
    Updates <- MCUpdates
INVARIANTS
    AdmittedRuns
    BackstopAgrees
PROPERTIES
    DefaultsHarmless
CHECK_DEADLOCK FALSE
