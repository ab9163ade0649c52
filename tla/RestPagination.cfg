SPECIFICATION Spec
CONSTANTS
  Retries = 1
  RetryOn = {429, 500}
  Pages = 3
  MaxItems = 1
INVARIANTS
  
  OutcomeTruthful
  OnlyLossReplays
PROPERTY WalkEnds
