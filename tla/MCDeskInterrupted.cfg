SPECIFICATION Spec
CONSTANTS
  r1 = r1
  d1 = d1
  a = a
  b = b
  Request = {r1}
  Tour = {}
  Day = {d1}
  Instrument = {a, b}
  Whitelist <- BothListed
  Stake = 1
  BrokerCash = 0
  Kinds = {"halt", "observer"}
  Cap = 3
  Faults = {"restart", "unanswered"}
  StartAutonomy = {"paper"}
  Steps = 2
  FailureStreak = 1
INVARIANTS
  TypeOK
  NothingHalfSettled

  
