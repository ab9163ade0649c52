SPECIFICATION FairSpec
CONSTANTS
  Generators = {"rest", "relay"}
  Shells <- McShells
  Files <- McFiles
  KindOf <- McKindOf
  Parts <- McParts
  Versions <- McVersions
  Missing = "missing"
  Malformed = {"broken"}
  Emits <- McEmits
  Workers = 2
  MaxRuns = 2
  MaxEdits = 1
INVARIANTS
  VerdictTruthful
  FailsForAReason
PROPERTIES
  RunEnds
  ImplementsRegenContract
CHECK_DEADLOCK FALSE
