CONSTANTS
  j1 = j1
  h1 = h1
  h2 = h2
  NoMsg = NoMsg
  Job = {j1}
  Handler = {h1, h2}
  MAX_BLOCKS = 2
  MAX_RETRIES = 0
  NBlocks <- TwoBlocks
  Poison = {}
  Callback = {j1}
  Faulty = {}
  MaxCopies = 2
  MaxCrashes = 1
SPECIFICATION Spec
SYMMETRY Handlers
INVARIANTS
  TypeInv
  BarrierCount
  WholeDrama
  NotifiedOnce
  Driven
PROPERTIES
  NoResurrection
  ImplementsContract
CHECK_DEADLOCK FALSE
