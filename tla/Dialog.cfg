\* One dialog submitted twice, another that is opened; a known category and
\* one that the modal shows and the code refuses; restarts.
CONSTANTS
  d1 = d1
  d2 = d2
  s1 = s1
  s2 = s2
  s3 = s3
  Dialogs = {d1, d2}
  Submissions = {s1, s2}
  Of <- MCOf
  Typed = {"Movie", "Book"}
  Faults = {"restart"}
SPECIFICATION Spec
INVARIANT
  TypeOK
PROPERTIES
  AcceptedTogether
  FirstIsFound
  IdentifierFreed
CHECK_DEADLOCK FALSE
