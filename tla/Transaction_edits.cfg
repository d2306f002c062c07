CONSTANTS
  NumHomes = 2
  NumOps = 3
  HomeOf <- TwoHomes
  Kind <- Reinstall
  Listed <- Manifests
  MaxCrashes = 1
  MaxFaults = 1
  MaxEdits = 2
SPECIFICATION Spec
INVARIANT SettledAtomic
PROPERTY EditsSurvive
PROPERTY SealedFreezesFiles
\* The installer really stops once no journal is left.
CHECK_DEADLOCK FALSE
