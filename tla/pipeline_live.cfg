SPECIFICATION FairSpec
CONSTANTS
  Job = {j1}
  InvalidAction = {}
  InvalidJob = {}
  AgentExpiry = {}
  PollLimit = 1
  InboxLimit = 2
  TakeLimit = 2
  MaxCrashes = 1
  MaxFaults = 0
  ResultId <- MCResultId
  Reported <- MCReported
  Perishable = {}
  Guarded = {j1}
  Automated = {j1}
  Writer = {}
  PullBatch = 2
PROPERTIES EveryJobCloses EveryResultIsAcknowledged
