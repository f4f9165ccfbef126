CONSTANTS
  j1 = j1
  h1 = h1
  h2 = h2
  NoMsg = NoMsg
  Job = {j1}
  Handler = {h1, h2}
  MAX_BLOCKS = 2
  MAX_RETRIES = 0
  NBlocks <- TwoBlocks
  Poison = {}
  Callback = {j1}
  Faulty = {"tts:audio"}
  MaxCopies = 1
  MaxCrashes = 0
SPECIFICATION Spec
SYMMETRY Handlers
INVARIANTS
  NoIncompleteDrama
CHECK_DEADLOCK FALSE
