SPECIFICATION Spec
CONSTANTS
  Depth = 8
  Fold <- McFold
  Snake = {}
  Hidden <- McHidden
  Deprecated = {}
  Pascal <- McPascal
  Constant <- McConstant
  Stripped <- McStripped
  Documents <- McDocuments
  PackageToPy <- McPackageToPy
  Projection <- McProjection
  EventClasses <- McEventClasses
  ActionClasses <- McActionClasses
  Private <- McPrivate
  Dunder = {"__init__", "__call__", "__iter__"}
  Public <- McPublic
INVARIANTS
  
  
  NothingLost
  
  
CHECK_DEADLOCK FALSE
