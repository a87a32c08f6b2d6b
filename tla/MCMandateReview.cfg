SPECIFICATION Spec
CONSTANTS
  stock = stock
  coin = coin
  Symbol <- MCSymbol
  Unit = 4
  Mandates <- MCMandates
  Situations <- MCSituations
  Intents <- MCIntents
  Reach <- MCReach
INVARIANTS
  TypeOK
  SizedOrderFits
  LargestThatFits
  ReducingSaleStaysOpen
PROPERTIES
  WiderNeverSendsLess
