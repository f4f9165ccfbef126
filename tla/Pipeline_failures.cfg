CONSTANTS
  j1 = j1
  h1 = h1
  h2 = h2
  NoMsg = NoMsg
  Job = {j1}
  Handler = {h1, h2}
  MAX_BLOCKS = 1
  MAX_RETRIES = 1
  NBlocks <- OneBlock
  Poison = {}
  Callback = {j1}
  Faulty <- AllSteps
  MaxCopies = 1
  MaxCrashes = 0
SPECIFICATION Spec
SYMMETRY Handlers
INVARIANTS
  BarrierCount
  NotifiedOnce
PROPERTIES
  NoResurrection
  FollowsContract
CHECK_DEADLOCK FALSE
