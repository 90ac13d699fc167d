SPECIFICATION ConfigSpec
CONSTANTS
  ConfigJob = {j1, j2} PlainJob = {p1} Default = Default NoConfigJob = NoConfigJob MaxConfigFaults = 2
PROPERTIES OnlyLostIsInterrupted
CHECK_DEADLOCK FALSE
