\* Two dialogs, of any categories and with the name that the magnet link proposes
\* to both, and the scraper; the database may fail.
CONSTANTS
  d1 = d1
  d2 = d2
  movie = movie
  music = music
  n1 = n1
  n2 = n2
  Scraper = scraper
  Titles = {n1}
  Dialogs = {d1, d2}
  Categories = {movie, music}
  Faults = {"fail"}
SPECIFICATION Spec
INVARIANTS
  TypeOK
  ExactUnlessOvertaken
  DeadlockNeedsThird
PROPERTIES
  ImplementsTransaction
  SetReturns
CHECK_DEADLOCK FALSE
