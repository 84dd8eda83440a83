CONSTANTS
  u1 = u1
  u2 = u2
  u3 = u3
  e1 = e1
  e2 = e2
  p1 = p1
  p2 = p2
  q1 = q1
  q2 = q2
  Users = {u1, u2, u3}
  Emails = {e1, e2}
  Passwords = {p1, p2}
  Requests = {q1, q2}
  AdminEmails = {e1, e2}
  Tables <- OneOrTwoAdmins
  Absent = Absent
SPECIFICATION Spec
INVARIANT AccountsTypeOK
INVARIANT NothingInvented
INVARIANT BootstrapPromotes
PROPERTY DeletedForGood
PROPERTY LastAdminLostInRaceOnly
