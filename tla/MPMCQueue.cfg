\* Two producers and two consumers, two laps over two cells.
SPECIFICATION FairSpec
CONSTANTS
  Producers = {p1, p2}
  Consumers = {c1, c2}
  Messages = 2
  Capacity = 2
  Nothing = Nothing
INVARIANTS
  CellExclusive
  LiveObjectsOnly
  IInv
PROPERTIES
  ImplementsFifo
  AllConsumed
