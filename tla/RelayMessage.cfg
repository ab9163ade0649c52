SPECIFICATION Spec
CONSTANTS
  Msgs = {m1, m2}
  MaxDrops = 1
INVARIANTS
  HandleConsistent
  FiredOnce
  TableHoldsOpenMessages
PROPERTIES
  
  TerminalReportCompletes
