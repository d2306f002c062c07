CONSTANTS
  Rests = {"plain", "extra", "broken"}
  Unsafe = {"broken"}
  Overriding = {"extra"}
  ProjectClean = TRUE
  MaxTouches = 1
  MaxOrphans = 1
SPECIFICATION Spec
INVARIANT TypeOK
INVARIANT OwnershipProved
INVARIANT FilesHaveTheirPackage
INVARIANT SuccessIsTrue
PROPERTY ReceiptOutlivesPackage
PROPERTY InvocationEnds
