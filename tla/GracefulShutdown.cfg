SPECIFICATION MCSpec
CONSTANTS
  Environments <- MCEnvironments
  Others = {u1}
  MaxBoots = 1
  MaxFaults = 0
  Callers = {}
  MaxTokens = 0
  MaxLines = 0
  MaxUps = 0
  MaxErrors = 0
CHECK_DEADLOCK FALSE
INVARIANTS ShutdownIsGraceful
