CONSTANTS
  NumHomes = 2
  NumOps = 3
  HomeOf <- TwoHomes
  Kind <- InstallThenRemove
  Listed <- Manifests
  MaxCrashes = 2
  MaxFaults = 2
  MaxEdits = 0
SPECIFICATION NamedSpec
INVARIANT BackupKept
PROPERTY ImplementsAtomicCommit
PROPERTY EventuallySettled
\* The installer really stops once no journal is left.
CHECK_DEADLOCK FALSE
