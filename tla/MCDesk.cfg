SPECIFICATION Spec
CONSTANTS
  r1 = r1
  t1 = t1
  d1 = d1
  a = a
  b = b
  Request = {r1}
  Tour = {t1}
  Day = {d1}
  Instrument = {a}
  Whitelist <- OneListed
  Stake = 1
  BrokerCash = 0
  Kinds = {"halt", "reset"}
  Cap = 1
  Faults = {"restart"}
  StartAutonomy = {"paper"}
  Steps = 2
  FailureStreak = 2
INVARIANTS
  CapPerHand
PROPERTIES
  JournalIsSealed
