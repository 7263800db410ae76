\* Eventual consistency, delivery and the end of every send: two torrents that
\* may complete in the same poll, with restarts, interrupts and failed
\* transactions.
CONSTANTS
  t1 = t1
  t2 = t2
  r1 = r1
  r2 = r2
  r3 = r3
  Torrents = {t1, t2}
  Requests = {r1}
  Link <- MCLink
  NotifyLimit = 1
  Faults = {"crash", "interrupt", "set"}
SPECIFICATION Spec
PROPERTIES
  Converges
  TimelySubscriberTold
  SendReturns
