CONSTANTS
  Users = {u1}
  Rooms = {r1}
  Sizes = {1, 2, 4}
  MaxDuration = 2
  MaxSizeBytes = 3
  CleanupInterval = 3
  MaxSeq = 4
  MaxTime = 7
SPECIFICATION BufferSpec
INVARIANT NoHoles
INVARIANT SizeBounded
INVARIANT RetentionBounded
PROPERTY LatestKept
