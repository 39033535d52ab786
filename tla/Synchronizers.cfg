\* Semaphores: more threads than permits; one permit is added.
\* Barrier: three participants, three rounds, and a thread that looks on.
SPECIFICATION FairTestSpec
CONSTANTS
  Threads = {t1, t2, t3}
  Main = main
  Rounds = 2
  Initial = 1
  Extra = 1
  Participants = {t1, t2, t3}
  Observers = {o}
  Laps = 3
INVARIANTS
  TypeOK
  PermitsAccounted
  NoWaiterForgotten
  NoEarlyRelease
  OneCallbackPerRound
PROPERTIES
  ImplementsPermits
  AllJoined
  WaitReturns
