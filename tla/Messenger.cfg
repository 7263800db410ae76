\* Two senders for one user, one for another; calls fail, the process ends.
CONSTANTS
  s1 = s1
  s2 = s2
  s3 = s3
  u1 = u1
  u2 = u2
  Senders = {s1, s2, s3}
  Recipients = {u1, u2}
  To <- MCTo
  PageLimit = 2
  Faults = {"call", "crash"}
SPECIFICATION Spec
INVARIANTS
  TypeOK
  Consistent
  CleanWhenAlone
PROPERTY
  IdleCollected
