CONSTANTS
  j1 = j1
  j2 = j2
  h1 = h1
  h2 = h2
  NoMsg = NoMsg
  Job = {j1, j2}
  Handler = {h1}
  MAX_BLOCKS = 1
  MAX_RETRIES = 1
  NBlocks <- NoBlocks
  Poison = {j2}
  Callback = {j1, j2}
  Faulty = {}
  MaxCopies = 1
  MaxCrashes = 0
  Word = {"x", "y"}
  MaxLines = 4
SPECIFICATION FairSpec
PROPERTIES
  PoisonFails
  JobTerminates
CHECK_DEADLOCK FALSE
