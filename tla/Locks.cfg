\* Three threads, twice each: five tickets are drawn before the last, and
\* the numbers wrap around after four.
SPECIFICATION TestSpec
CONSTANTS
  Threads = {t1, t2, t3}
  Rounds = 2
  TicketRange = 4
INVARIANTS
  MutualExclusion
  NoSleeperForgotten
PROPERTIES
  InTurn
  AllJoined
