SPECIFICATION Spec
CONSTANTS
  s1 = s1
  s2 = s2
  Symbols = {s1, s2}
  Portfolios <- TwoPortfolios
  Prices = {0, 1, 2, 4}
  Scale = 4
  TailParts = 2
  Window = 2
  MaxEvents = 4
INVARIANTS
  VarIsQuantile
  CompoundedMetrics
CHECK_DEADLOCK FALSE
