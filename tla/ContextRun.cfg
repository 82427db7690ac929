SPECIFICATION SmallSpec
CONSTANTS
  Paths <- MCPaths
  Server <- MCServer
  Indexed <- MCIndexed
  Entry <- MCEntry
  Clean <- MCClean
  Imports <- MCImports
  Tokens <- MCTokens
  Chunks = {c1, c2}
  TopScore = 2
  Boost = 1
  MaxQueries = 3
  PerQuery = 1
  TopK = 2
  MaxInject = 1
  VectorTop = 2
  MaxTargets = 3
  MaxTokens = 2
  BatchSize = 2
  MaxNamed = 2
  Stale = TRUE
INVARIANT TypeOK
INVARIANT BestFirst
INVARIANT PlannerFirst
INVARIANT CreatesOnlyAbsent
INVARIANT PromptHolds
INVARIANT NothingLeftOut
SYMMETRY Symmetry
CHECK_DEADLOCK FALSE
