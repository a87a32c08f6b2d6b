SPECIFICATION FairSpec
CONSTANTS
  r1 = r1
  d1 = d1
  a = a
  b = b
  Request = {r1}
  Tour = {}
  Day = {d1}
  Instrument = {a}
  Whitelist <- OneListed
  Stake = 2
  BrokerCash = 0
  Kinds = {"halt", "resume", "observer"}
  Cap = 2
  Faults = {}
  StartAutonomy = {"paper"}
  Steps = 3
  FailureStreak = 2
INVARIANTS
  BookFollowsVenue
  CapHolds

  
  
