SPECIFICATION Spec
CONSTANTS
  Ids = {i1, i2}
  MaxPushes = 2
  MaxConnects = 2
INVARIANTS
  PendingMatchesStack
  OutcomeMatchesReply
  NoUnreadReply
  NothingStranded
PROPERTY ImplementsContract
