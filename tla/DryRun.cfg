CONSTANTS
  Found <- Beginnings
  Edited = {"absent"}
  Operations = {"install"}
  Targets = 2
  MaxRuns = 1
  MaxMishaps = 1
SPECIFICATION Spec
INVARIANT ReportIsOfOneMoment
INVARIANT NoPhantomConflict
