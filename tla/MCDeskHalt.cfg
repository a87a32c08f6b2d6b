SPECIFICATION Spec
CONSTANTS
  r1 = r1
  d1 = d1
  a = a
  b = b
  Request = {r1}
  Tour = {}
  Day = {d1}
  Instrument = {a}
  Whitelist <- OneListed
  Stake = 1
  BrokerCash = 0
  Kinds = {"halt"}
  Cap = 2
  Faults = {}
  StartAutonomy = {"paper"}
  Steps = 2
  FailureStreak = 2
PROPERTIES
  HaltStopsOrders
