SPECIFICATION Spec
CONSTANTS
  PC = {p1, p2} InDomain = {p1} SpareName = spare LastDeployment = 2 LinkKind = {"external"} BatchUses = 1
  IssueRequest = {q1} TokenUses = 1 MaxRuns = 2 MaxTroubles = 1
  MaxOrders = 2 Operator = {op} Purger = {op} Editor = {ed} OtherJob = {"update"} MaxIncidents = 1
  HeartbeatField = {"ip"} MaxWishes = 2 MaxSetbacks = 1
  Maintenance = {m1, m2} MaxAlerts = 5 MaxInventories = 1 MaxMishaps = 1
  User = {1, 2, 3} Group = {11, 12} AdminGroup = {12} Hidden = {2} NameOf <- Names World <- Worlds
  Reviewed = {1, 11} SeedUser = {1} SyncGroup = {11}
  Limit = 2 MaxRows = 3 MaxUploads = 2 MaxEvents = 3
INVARIANTS EstateTypeOK EnrollmentIsSound RemovalsAreTrue InventoryIsKept AlertsAreTrue AccessIsReviewed
PROPERTIES EndedRemovalsStay EstateProgresses
CHECK_DEADLOCK FALSE
