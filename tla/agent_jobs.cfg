SPECIFICATION AgentRuns
CONSTANTS
  Job = {j1, j2, j3}
  InvalidAction = {j1}
  InvalidJob = {j2}
  AgentExpiry = {j3}
  Exposed = {j3}
  PollLimit = 1
  InboxLimit = 1
  TakeLimit = 2
  MaxCrashes = 2
  MaxFaults = 1
INVARIANTS AgentTypeOK AtMostOnce EffectIsNeverForgotten CompletedIsTrue ClosedIsReported
PROPERTIES LocalFinalIsForever
