SPECIFICATION LspSpec
CONSTANTS
  Files = {"a", "b", "s", "q"}
  Projects = {"P", "Q"}
  None = None
  ProjectOf <- MCProjectOf
  SourcesOf <- MCSourcesOf
  Contents = {1, 2}
INVARIANT CheckedInOrder
