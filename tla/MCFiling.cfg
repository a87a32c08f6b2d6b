SPECIFICATION Spec
CONSTANTS
  x = x
  y = y
  torn = torn
  shop = shop
  gear = gear
  saved = saved
  none = none
  fnac = fnac
  f = f
  g = g
  h1 = h1
  h2 = h2
  Line = {x, y}
  Unreadable = torn
  Category = {shop, gear, saved}
  NoCategory = none
  Transfers <- TheTransfers
  Leaves <- TheLeaves
  Parent <- TheParent
  Pattern <- ThePattern
  NoPattern = none
  Sign <- TheSign
  Savings = {y}
  Hint <- TheHint
  BuiltinRules <- TheBuiltin
  Hand = {h1, h2}
  Upload = {f, g}
  Content <- TwoFiles
  MaxRequests <- TheRequests
  Pickable = {}
  Restarts <- TheRestarts
SYMMETRY HandSymmetry
INVARIANTS
  TypeOK
  OneCopyUnlessAsked
  NeverCollidesAlone
  NoOrphan
PROPERTIES
  CountsAsPromised
  PreviewKeepsItsWord
  ChoiceStands
  StaysTruthful
