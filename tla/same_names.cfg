\* The same text ingested from two files, in the memory of one store; nothing
\* but the graph is of interest.
SPECIFICATION Spec
CONSTANTS
  Sources <- MCTwins
  Parsed <- MCParsedTwins
  Needles = {"process"}
  Has <- MCHas
  Order <- MCOrder
  Keywords = {"if"}
  Foreign <- MCForeign
  Tasks = {t1}
  MaxIngests = 2
  MaxRestarts = 0
  MaxRefused = 0
  Gathered = {}
  Similar <- MCSimilar
  MaxItems = 1
  Budget = 5
  MaxPushes = 0
  MaxChunks = 0
INVARIANTS
  EveryFileContributes
CHECK_DEADLOCK FALSE
