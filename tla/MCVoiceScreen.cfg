CONSTANTS
  Lengths = {1, 2, 4}
  MaxBytes = 3
  Calls = {1, 2}
  MaxMessages = 5
  MaxPresses = 3
SPECIFICATION FairSpec
INVARIANT QueueConsistent
INVARIANT BusyIffActive
INVARIANT OpenMicShown
PROPERTY ReceptionEnds
CHECK_DEADLOCK FALSE
