SPECIFICATION Spec
CONSTANTS
  t1 = t1
  c1 = c1
  c2 = c2
  i1 = i1
  i2 = i2
  Tags = {t1}
  Legs <- TwoLegs
  Inbound = {i1, i2}
  MaxActiveCalls = 1
  MaxDrops = 1
  MaxInFlight = 2
SYMMETRY Symmetry
INVARIANTS
  DialInv
  DialTruthful
  TableHoldsOpenCalls
 
