SPECIFICATION Spec
CONSTANTS
  MaxAttempts = 2
  MaxConnects = 3
  MaxPushes = 2
  MaxSessions = 2
INVARIANTS
  ConnectionInv
PROPERTIES
  NoReconnectAfterDisconnect
  
  
