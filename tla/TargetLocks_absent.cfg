CONSTANTS
  c1 = c1
  c2 = c2
  c3 = c3
  codex = codex
  opencode = opencode
  Contexts <- ThreeContexts
  Paths <- TwoHomes
  Route <- OneReversed
  Rank <- CodexFirst
  Interpreter <- TwoProcesses
  Existing <- OpencodeExists
  MaxDirs = 4
  MaxAnchors = 5
  MaxMeddles = 1
  MaxFaults = 1
  MaxKills = 1
SPECIFICATION FairSpec
INVARIANT LockedHomeStays
PROPERTY EventuallyThrough
\* Every context locks its homes once.
CHECK_DEADLOCK FALSE
