SPECIFICATION Spec
CONSTANTS
  Objects = {x, y}
  Target = x
  Null = Null
  Slots = {1}
  Kinds = {"struct", "podArray"}
INVARIANT HonestUnique
CHECK_DEADLOCK FALSE
