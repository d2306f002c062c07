CONSTANTS
  Rests = {"plain", "extra", "broken"}
  Unsafe = {"broken"}
  Overriding = {"extra"}
  ProjectClean = TRUE
  MaxTouches = 0
  MaxOrphans = 1
SPECIFICATION Spec
INVARIANT InstalledIsRecorded
