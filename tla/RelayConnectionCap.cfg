SPECIFICATION Spec
CONSTANTS
  MaxAttempts = 1
  MaxConnects = 3
  MaxPushes = 1
  MaxSessions = 1
INVARIANT ReconnectsAreCapped
