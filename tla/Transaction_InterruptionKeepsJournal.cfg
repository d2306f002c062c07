CONSTANTS
  NumHomes = 2
  NumOps = 3
  HomeOf <- TwoHomes
  Kind <- InstallThenRemove
  Listed <- Manifests
  MaxCrashes = 1
  MaxFaults = 0
  MaxEdits = 0
SPECIFICATION Spec
INVARIANT InterruptionKeepsJournal
\* The installer really stops once no journal is left.
CHECK_DEADLOCK FALSE
