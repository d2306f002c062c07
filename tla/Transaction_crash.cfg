CONSTANTS
  NumHomes = 3
  NumOps = 5
  HomeOf <- ThreeHomes
  Kind <- MixedKinds
  Listed <- Manifests
  MaxCrashes = 3
  MaxFaults = 0
  MaxEdits = 0
SPECIFICATION Spec
INVARIANT TypeOK
INVARIANT WriteAhead
INVARIANT JournalBacked
INVARIANT DecisionUniform
INVARIANT PrefixApplied
INVARIANT RefusalJustified
\* The installer really stops once no journal is left.
CHECK_DEADLOCK FALSE
