SPECIFICATION Spec
CONSTANTS
  r1 = r1
  r2 = r2
  r3 = r3
  r4 = r4
  a = a
  b = b
  Request = {r1, r2, r3, r4}
  Tour = {}
  Day = {}
  Instrument = {a}
  Whitelist <- OneListed
  Stake = 1
  BrokerCash = 0
  Kinds <- AllKinds
  Cap = 2
  Faults = {}
  StartAutonomy = {"paper", "live"}
  Steps = 2
  FailureStreak = 2
SYMMETRY RequestSymmetry
INVARIANTS
  JournalIntact
  RowTellsItsStory
PROPERTIES
  OnlyResumeLiftsHalt
