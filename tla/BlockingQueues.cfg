\* Twice as many messages as places, so that both sides block.
SPECIFICATION FairTestSpec
CONSTANTS
  Producers = {p1, p2}
  Consumers = {c1, c2}
  Messages = 2
  Capacity = 2
  Nobody = Nobody
  Nothing = Nothing
INVARIANTS
  TypeOK
  NoThreadForgotten
  StopUnblocks
  SlotsApart
PROPERTIES
  ImplementsFifo
  AllPopped
\* All threads end: the consumers when everything is consumed.
CHECK_DEADLOCK FALSE
