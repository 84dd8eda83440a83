CONSTANTS
  a = a
  b = b
  c = c
  u1 = u1
  u2 = u2
  r1 = r1
  Conns = {a, b, c}
  Users = {u1, u2}
  Rooms = {r1}
  UserOf <- Reconnected
  Channel <- OneRoom
  Roaming = {}
  SendCap = 1
  Sizes = {1}
  BroadcastCap = 1
  MaxDuration = 1
  MaxSizeBytes = 1
  CleanupInterval = 1
  Since = {0}
  MaxPackets = 2
  MaxSeq = 2
  MaxTime = 0
  NoUser = NoUser
  Absent = Absent
  Replay = Replay
SPECIFICATION Spec
INVARIANT OneSpeakerAtATime
CHECK_DEADLOCK FALSE
