SPECIFICATION ExcSpec
CONSTANTS
  Payloads = {"x", "y"}
  MaxDepth = 6
  MaxMoves = 2
INVARIANTS
  CaughtIsRaised
CHECK_DEADLOCK FALSE
