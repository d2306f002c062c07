CONSTANTS
  MaxMeddles = 3
  MaxFaults = 2
SPECIFICATION Spec
INVARIANT FailedLeaves
PROPERTY LostOnlyInWindow
PROPERTY OriginalKept
PROPERTY SuccessExact
\* One call ends.
CHECK_DEADLOCK FALSE
