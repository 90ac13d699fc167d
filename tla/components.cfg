SPECIFICATION Spec
CONSTANTS
  NewestVersion = 2 MaxUpdates = 2 MaxUpdFaults = 2
  MailRows = 2 Sender = {s1, s2} Desk = {d1, d2} MaxAttempts = 1 MaxMailFaults = 1 MaxMailOps = 1
  Request = {r1, r2} Message = {m1} Foreign = {} Fetcher = {f1, f2} Withdrawable = {"ticket_resolved"} MaxDeskFaults = 1 MaxDeskSaves = 3
  Target = {t1} Batch = {b1, b2} Solo = {s1} NoTarget = NoTarget NoBatch = NoBatch MaxInstallFaults = 1 MaxRequests = 2
  Session = {x1} NoSession = NoSession Conn = {c1, c2} Mode = {"synthetic", "conpty", "admin_auth"} MaxTerminalFaults = 1
  MaxMinute = 3 ChannelLimit = 1 QueueLimit = 2 BatchLimit = 2 Retention = 0 MaxWindowAge = 1 AcceptedAge = 2
  Compactor = {k1} MaxTelemetryFaults = 1
  ConfigJob = {j1, j2} PlainJob = {p1} Default = Default NoConfigJob = NoConfigJob MaxConfigFaults = 2
  Definition = {a1} Patient = {a1} Endpoint = {e1} RunRequest = {q1} Scheduler = {w1, w2} Period = 1 Validity = 1
  MaxTime = 2 MaxRetries = 1 MaxOperations = 3 MaxAutomationFaults = 1
  MaxVersion = 1 EndpointChannel = "pilot" Editor = {ed1, ed2} MaxReleaseOps = 3 MaxDecisions = 1
INVARIANTS TypeOK UpdatesAreSafe TicketsAreSound OrderedWorkIsGuarded 
PROPERTIES ClosedStaysClosed EverythingEnds
CHECK_DEADLOCK FALSE
