SPECIFICATION Spec
CONSTANTS
  stock = stock
  coin = coin
  Symbol <- MCSymbol
  Unit = 2
  Whitelist <- MCWhitelist
  Mandates <- MCMandates
  ThresholdSettings <- MCSettings
  AnswerSet <- MCAnswers
  Prices <- MCPrices
  WarmUp = 0
  HalfSpread = 0
  SlippageBps = 0
  Stakes <- MCStakes
  MaxDay = 2
  MaxFills = 3
PROPERTIES
  DrawdownHaltsBuying
