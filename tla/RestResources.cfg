SPECIFICATION BuildSpec
CONSTANTS
  Depth = 8
  Fold <- McFold
  Snake <- McSnake
  Hidden = {}
  Deprecated = {}
  Documents <- McDocuments
  SpecOrder <- McSpecOrder
  SnakeName <- McSnakeName
  Stem <- McStem
  Schemas <- McSchemas
INVARIANTS
  PathFaithful
  
  
  TreeReachesEveryResource
CHECK_DEADLOCK FALSE
