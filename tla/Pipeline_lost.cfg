CONSTANTS
  j1 = j1
  h1 = h1
  h2 = h2
  NoMsg = NoMsg
  Job = {j1}
  Handler = {h1, h2}
  MAX_BLOCKS = 2
  MAX_RETRIES = 0
  NBlocks <- TwoBlocks
  Poison = {}
  Callback = {j1}
  Faulty = {"parse:publish", "route"}
  MaxCopies = 1
  MaxCrashes = 0
SPECIFICATION Spec
SYMMETRY Handlers
INVARIANTS
  Driven
CHECK_DEADLOCK FALSE
