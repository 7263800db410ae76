\* Two interactions, each for ping, for get-all, or for a command that an earlier
\* build has left; get-all also stands for a command with a Run of its own; every
\* kind of failure.
CONSTANTS
  i1 = i1
  i2 = i2
  Commands = {"ping", "get-all"}
  InitCommands = {"get-all"}
  Leftover = {"list", "ping"}
  Interactions = {i1, i2}
  Faults = {"crash", "interrupt", "register", "hook", "init", "handler"}
SPECIFICATION Spec
INVARIANTS
  TypeOK
  AnswersTruthful
  CommandsServed
PROPERTIES
  DrawsTickets
  InterruptEnds
