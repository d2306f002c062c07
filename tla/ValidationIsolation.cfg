SPECIFICATION Spec
CONSTANTS
  Files = 2
  Protected = {}
  MaxEdits = 3
  MaxMoves = 3
INVARIANT SuccessLeavesNothing
PROPERTY OthersKept
INVARIANT TestedIsTheCheckout
