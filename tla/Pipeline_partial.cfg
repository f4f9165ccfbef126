CONSTANTS
  j1 = j1
  h1 = h1
  h2 = h2
  NoMsg = NoMsg
  Job = {j1}
  Handler = {h1, h2}
  MAX_BLOCKS = 2
  MAX_RETRIES = 0
  NBlocks <- TwoBlocks
  Poison = {}
  Callback = {j1}
  Faulty = {"tts:audio", "dlq:resolve"}
  MaxCopies = 1
  MaxCrashes = 0
SPECIFICATION FairSpec
INVARIANTS
  WholeDrama
  Driven
PROPERTIES
  FollowsContract
  JobTerminates
CHECK_DEADLOCK FALSE
