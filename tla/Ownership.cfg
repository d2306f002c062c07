CONSTANTS
  Files = {"pusher", "runtime"}
  Runtime = {"runtime"}
  Instructions = {"AGENTS"}
  Optional = {"AGENTS", "pusher"}
  Texts = {"mine"}
  MaxRelease = 2
  MaxEdits = 3
SPECIFICATION Spec
INVARIANT TypeOK
INVARIANT NothingLost
INVARIANT InstallSettles
INVARIANT RejectedOnlyAfterRetained
INVARIANT UninstallGoesThrough
INVARIANT ConflictsHaveACause
PROPERTY RoundTrip
