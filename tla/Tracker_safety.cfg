\* Three users add the same torrent, every kind of failure may happen; the
\* notifier reads only one of the subscriptions at a time.
CONSTANTS
  t1 = t1
  t2 = t2
  r1 = r1
  r2 = r2
  r3 = r3
  Torrents = {t1}
  Requests = {r1, r2, r3}
  Link <- MCLink
  NotifyLimit = 1
  Faults = {"crash", "interrupt", "set", "dialog", "notify"}
SYMMETRY Symmetry
SPECIFICATION Spec
INVARIANTS
  TypeOK
  NoFalseCompletion
  ThankedIsSubscribed
PROPERTIES
  SettledForGood
  UsesSet
  KeepsLedger
  NeverDropped
