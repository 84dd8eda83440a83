CONSTANTS
  Calls = {1, 2}
  Sockets = {1, 2}
  NoSocket = NoSocket
  MaxAttempts = 2
  MaxSeq = 3
  MaxRestarts = 1
SPECIFICATION FairSpec
INVARIANT ConnectionTypeOK
INVARIANT OneConnection
INVARIANT ReconnectPending
INVARIANT NothingMissing
PROPERTY ReconnectsOrOffers
CHECK_DEADLOCK FALSE
