SPECIFICATION ProgramsSpec
CONSTANTS
  Inputs = {"a", "b"}
  Queries = {"half", "pick", "check", "all"}
  InputValues = {0, 1, 2}
  Script <- MCScript
  FirstRunsSucceed = TRUE
  MaxRevision = 4
  MaxLeaked = 4
  Files = {"a", "b", "s", "z"}
  Projects = {"P"}
  None = None
  ProjectOf <- MCProjectOf
  SourcesOf <- MCSourcesOf
  Contents = {1, 2}
  Objects = {x, y, z}
  Target = x
  Null = Null
  Slots = {1, 2}
  Kinds = {"struct", "scalarArray"}
  Types <- MCTypes
  MaxPicks = 3
  Addrs = {1, 2, 3}
  IdHash <- MCIdHash
  Payloads = {"x", "y"}
  MaxDepth = 5
  MaxMoves = 1
INVARIANTS
  AnswersCurrent
  HonestUnique
  BufferIsTruth
  EqualsAgree
  OrderAgrees
  UnwoundToLive
PROPERTIES
  EarlyCutoff
CHECK_DEADLOCK FALSE
