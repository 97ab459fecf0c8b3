SPECIFICATION Spec
CONSTANTS
  Tokens = {"A", "B"}
  Amounts = {0, 1, 2, 3, 5, 7}
  Max = 30
  MINIMUM_LIQUIDITY = 2
  MaxVersion = 2
  NoPair = NoPair
INVARIANT MigratesOnce
