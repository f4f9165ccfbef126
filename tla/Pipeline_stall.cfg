CONSTANTS
  j1 = j1
  h1 = h1
  h2 = h2
  NoMsg = NoMsg
  Job = {j1}
  Handler = {h1}
  MAX_BLOCKS = 1
  MAX_RETRIES = 1
  NBlocks <- OneBlock
  Poison = {}
  Callback = {j1}
  Faulty = {"tts:audio", "dlq:emit"}
  MaxCopies = 1
  MaxCrashes = 1
SPECIFICATION FairSpec
PROPERTIES
  JobTerminates
CHECK_DEADLOCK FALSE
