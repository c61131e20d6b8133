SPECIFICATION MCSpec
CONSTANTS
  Environments <- MCEnvironments
  Others = {u1}
  MaxBoots = 2
  MaxFaults = 1
  Callers = {c1}
  MaxTokens = 2
  MaxLines = 1
  MaxUps = 2
  MaxErrors = 1
CHECK_DEADLOCK FALSE
INVARIANTS  DatabaseOutlivesSweeps RepeatsFollowLostAnswers
PROPERTIES SignalEndsServe  ImplementsUptime
