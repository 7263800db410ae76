\* The code's periods in 1/64 s; three torrents, any of them bad; calls may fail.
CONSTANTS
  t1 = t1
  t2 = t2
  t3 = t3
  minPeriod = 128
  maxPeriod = 19200
  Order <- MCOrder
  Rungs = 8
  Ladder <- MCLadder
  Faults = {"fail"}
SPECIFICATION Spec
INVARIANTS
  TypeOK
  Recovers
PROPERTY
  AheadStored
