\* Three sources, two of them ingested, by two tasks at a time; one restart,
\* one row refused; two observations and three chunks or enrichments.
SPECIFICATION ScopedSpec
CONSTANTS
  Sources <- MCSources
  Parsed <- MCParsed
  Needles = {"wag", "a", "Dog"}
  Has <- MCHas
  Order <- MCOrder
  Keywords = {"if"}
  Foreign <- MCForeign
  Tasks = {t1, t2}
  MaxIngests = 2
  MaxRestarts = 1
  MaxRefused = 1
  Gathered <- MCGathered
  Similar <- MCSimilar
  MaxItems = 1
  Budget = 5
  MaxPushes = 2
  MaxChunks = 3
SYMMETRY TasksAlike
INVARIANTS
  AnswersMatchGraph
  OnlyOwnCode
  NothingForgotten
  BestHitsAndAllNeighbours
  TrimKeepsBest
CHECK_DEADLOCK FALSE
