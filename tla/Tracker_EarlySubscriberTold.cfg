CONSTANTS
  t1 = t1
  t2 = t2
  r1 = r1
  r2 = r2
  r3 = r3
  Torrents = {t1}
  Requests = {r1, r2}
  Link <- MCLink
  NotifyLimit = 2
  Faults = {}
SPECIFICATION Spec
PROPERTY
  EarlySubscriberTold
