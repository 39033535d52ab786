\* Three ids, two prices; the bound is on the orders that come to rest.
SPECIFICATION EngineSpec
CONSTANTS
  OrderIds = {a, b, c}
  Prices = {1, 2}
  Quantities = {0, 1, 3}
  MaxOrders = 4
INVARIANTS
  IndexesAgree
  NotCrossed
PROPERTIES
  FilledInTurn
  TradesAllItCan
SYMMETRY IdSymmetry
\* Once MaxOrders have come to rest, the caller is done.
CHECK_DEADLOCK FALSE
