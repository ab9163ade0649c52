SPECIFICATION Spec
CONSTANTS
  a1 = a1
  a2 = a2
  Acts = {a1, a2}
  Kind <- PlayAndFax
  MaxDrops = 0
PROPERTY EveryFinishCompletes
