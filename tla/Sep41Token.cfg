SPECIFICATION Spec
CONSTANTS
  Accounts = {"ann", "bob"}
  Spenders = {"bob"}
  Amounts <- MCAmounts
  MaxAmount = 3
  Expiries = {0, 1}
  MaxLedger = 2
  MaxExcess = 3
INVARIANTS TokenTypeOK SupplyBooksBalance DrawsWithinGrant
