CONSTANTS
  Lengths = {1, 2, 4}
  MaxBytes = 3
  Calls = {1, 2}
  MaxMessages = 5
  MaxPresses = 3
SPECIFICATION Spec
INVARIANT MicOnlyWhilePressed
CHECK_DEADLOCK FALSE
