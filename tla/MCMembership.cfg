CONSTANTS
  u1 = u1
  u2 = u2
  u3 = u3
  Users = {u1, u2, u3}
  Channels = {c1}
  Requests = {1, 2, 3, 4, 5}
  UserOf <- Makers
  Asks <- Purposes
  Dismissed = {u1, u2}
  MaxUsers = 2
  NoUser = NoUser
  NoRequest = NoRequest
SPECIFICATION FairSpec
INVARIANT MembershipTypeOK
INVARIANT NotOversubscribed
PROPERTY FullOnlyWhenFull
PROPERTY ImplementsGroups
PROPERTY RequestsEnd
CHECK_DEADLOCK FALSE
