CONSTANTS
  c1 = c1
  c2 = c2
  c3 = c3
  codex = codex
  opencode = opencode
  Contexts <- ThreeContexts
  Paths <- TwoHomes
  Route <- OneSecond
  Rank <- CodexFirst
  Interpreter <- TwoProcesses
  Existing <- TwoHomes
  MaxDirs = 4
  MaxAnchors = 5
  MaxMeddles = 1
  MaxFaults = 0
  MaxKills = 1
SPECIFICATION Spec
INVARIANT TypeOK
INVARIANT RefusalJustified
INVARIANT NothingLeftLocked
INVARIANT MutualExclusion
\* Every context locks its homes once.
CHECK_DEADLOCK FALSE
