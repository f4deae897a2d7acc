CONSTANTS
  k1 = k1
  k2 = k2
  e1 = e1
  e2 = e2
  i1 = i1
  i2 = i2
  s1 = s1
  s2 = s2
  s3 = s3
  Clerk = {k1, k2}
  Email = {e1, e2}
  EmailOf <- OwnEmails
  Code = {i1, i2}
  Seeded <- SecondSeeded
  Session = {s1, s2, s3}
  UserOf <- TwoTabs
  Request = {q1, q2}
  None = None
  MaxOps = 5
SPECIFICATION Spec
INVARIANTS
  OnlyAdmittedAct
PROPERTIES
  DecisionsStand
CHECK_DEADLOCK FALSE
