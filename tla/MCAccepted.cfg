SPECIFICATION Spec
CONSTANTS
    Unset = Unset
    Empty = Empty
    Bad = Bad
    Text <- MCText
    Documents <- MCDocuments
    Updates <- MCUpdates
INVARIANTS
    AdmittedIsAccepted
CHECK_DEADLOCK FALSE
