SPECIFICATION Spec
CONSTANTS
  stock = stock
  coin = coin
  Symbol <- MCSymbol
  Unit = 2
  Whitelist <- MCWhitelist
  Mandates <- MCMandates
  ThresholdSettings <- MCSettings
  AnswerSet <- MCAnswers
  Prices <- MCPrices
  WarmUp = 2
  HalfSpread = 1
  SlippageBps = 1000
  Stakes <- MCStakes
  MaxDay = 2
  MaxFills = 3
INVARIANTS
  TypeOK
  BookExplained
PROPERTIES
  KeepsTheBooks
  BuyKeepsMandate
  TradingCostsMoney
  LossClosesTheDay
