SPECIFICATION Spec
CHECK_DEADLOCK FALSE
CONSTANTS
  Sessions = {s1, s2}
  MaxJobs = 2
  KeptBatches = 1
  MaxCrashes = 1
SYMMETRY SessionSymmetry
INVARIANTS TypeOK AgentIsAccountedFor BatchVerdict LeasesAreReturned
PROPERTIES SettledIsFinal TrackedAgentIsSpared
