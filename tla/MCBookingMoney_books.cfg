SPECIFICATION MoneySpec
CONSTANTS
  N = 2
  Prices = {2}
  NewPrices = {1, 3}
  Openings <- InDebt
  Charges = {0, 1}
  Amounts = {3}
  MaxPayments = 1
  MaxEdits = 1
  LatePayments = FALSE
  KeysReused = FALSE
  Overlaps = FALSE
INVARIANT MoneyTypeOK
INVARIANT MoneyConserved
INVARIANT CarriedMatches
INVARIANT PaidIsConfirmed
 
CHECK_DEADLOCK FALSE
