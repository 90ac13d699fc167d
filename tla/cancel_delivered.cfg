SPECIFICATION ServerSpec
CONSTANTS
  Job = {j1}
  ResultId = {r1, r2}
  Reported = {}
  Perishable = {j1}
  Guarded = {j1}
  Automated = {}
  Writer = {w1}
  PullBatch = 1
PROPERTIES CancelsOnlyUndelivered
