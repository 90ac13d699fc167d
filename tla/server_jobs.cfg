SPECIFICATION ServerSpec
CONSTANTS
  Job = {j1, j2}
  ResultId = {r1, r2}
  Reported <- MCReported
  Perishable = {j1}
  Guarded = {j1}
  Automated = {j1}
  Writer = {w1}
  PullBatch = 1
SYMMETRY ResultIdSymmetry
INVARIANTS ServerTypeOK AcknowledgedIsFinal StatusMatchesEvidence
PROPERTIES OnlyUnlockedSavesReplaceFinal JobsGoForward
