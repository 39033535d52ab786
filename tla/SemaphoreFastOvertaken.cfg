\* Three threads, so that the fast path overtakes the slow one.
SPECIFICATION Spec
CONSTANTS
  Threads = {t1, t2, t3}
  Main = main
  Rounds = 1
  Initial = 1
  Extra = 0
INVARIANT GuaranteedPositive
