CONSTANTS
  a = a
  b = b
  c = c
  u1 = u1
  u2 = u2
  r1 = r1
  Conns = {a, b}
  Users = {u1, u2}
  Rooms = {r1}
  UserOf <- TwoUsers
  Channel <- OneRoom
  Roaming = {b}
  SendCap = 1
  Sizes = {1}
  BroadcastCap = 1
  MaxDuration = 1
  MaxSizeBytes = 1
  CleanupInterval = 1
  Since = {0, 1}
  MaxPackets = 2
  MaxSeq = 2
  MaxTime = 0
  NoUser = NoUser
  Absent = Absent
  Replay = Replay
SPECIFICATION FairSpec
INVARIANT TypeOK
INVARIANT OneSpeakerAtATime
INVARIANT RelayOrder
INVARIANT NoOrphanFloor
INVARIANT PanicOnlyAfterDrop
INVARIANT NoReplayGap
INVARIANT LiveRoomsCounted
PROPERTY FloorFreed
PROPERTY GoneForgotten
PROPERTY ImplementsFloor
CHECK_DEADLOCK FALSE
