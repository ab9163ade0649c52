SPECIFICATION Spec
CONSTANTS
  a1 = a1
  a2 = a2
  Acts = {a1, a2}
  Kind <- CollectAndDetect
  MaxDrops = 1
INVARIANTS
  CallInv
  FiredOnce
  
PROPERTIES
  EndCompletesActions
  FinishCompletesAction
