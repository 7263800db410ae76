\* One dialog and the scraper; nothing fails.
CONSTANTS
  d1 = d1
  d2 = d2
  movie = movie
  music = music
  n1 = n1
  n2 = n2
  Scraper = scraper
  Titles = {n1, n2}
  Dialogs = {d1}
  Categories = {movie, music}
  Faults = {}
SPECIFICATION Spec
PROPERTY
  CategoriesReadded
CHECK_DEADLOCK FALSE
