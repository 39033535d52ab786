\* "Race-safe: snapshot of two cursors."
SPECIFICATION TestSpec
CONSTANTS
  Producer = P
  Consumer = C
  Observer = O
  Messages = 2
  Capacity = 2
  SizeRange = 256
  Nothing = Nothing
INVARIANT RaceSafeSize
