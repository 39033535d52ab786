\* More than two laps over four slots.
SPECIFICATION FairTestSpec
CONSTANTS
  Producer = P
  Consumer = C
  Observer = O
  Messages = 9
  Capacity = 4
  SizeRange = 256
  Nothing = Nothing
INVARIANTS
  SlotsApart
  ReceivedInOrder
PROPERTIES
  ImplementsFifo
  AllReceived
