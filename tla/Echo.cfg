\* Three echoes, announcements that may be refused.
CONSTANTS
  j1 = j1
  j2 = j2
  j3 = j3
  Jobs <- MCJobs
  Faults = {"send"}
SPECIFICATION Spec
INVARIANTS
  TypeOK
  Exclusive
  Conserved
PROPERTIES
  HandlersReturn
  AcceptedIsAnnounced
CHECK_DEADLOCK FALSE
