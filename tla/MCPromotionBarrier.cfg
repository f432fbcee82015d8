SPECIFICATION FairSpec
CONSTANTS
  Executors = {e1, e2}
  Promoters = {p1}
  None = None
INVARIANTS
  TypeOK
  SwapExclusive
  CounterExact
PROPERTIES
  PromotionSettles
