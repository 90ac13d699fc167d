SPECIFICATION Spec
CONSTANTS
  Job = {j1}
  InvalidAction = {}
  InvalidJob = {}
  AgentExpiry = {j1}
  PollLimit = 1
  InboxLimit = 2
  TakeLimit = 2
  MaxCrashes = 1
  MaxFaults = 1
  ResultId <- MCResultId
  Reported <- MCReported
  Perishable = {j1}
  Guarded = {j1}
  Automated = {j1}
  Writer = {}
  PullBatch = 2
INVARIANTS TypeOK ArchivedOnlyIfReceived EvidenceReachesServer CompletedIsReal
PROPERTIES KeepsContract
