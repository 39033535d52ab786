\* Every pool, with three workers, two submitters of two tasks each, and
\* room for one task where there is a capacity.
SPECIFICATION FairSpec
CONSTANTS
  Kinds = {"One", "Two", "Limited", "Pool", "Blocking", "Executor"}
  Workers = {w1, w2, w3}
  Submitters = {s1, s2}
  TasksEach = 2
  MaxCapacity = 1
  None = None
INVARIANTS
  QueueBounded
  NoTaskForgotten
  Drained
PROPERTIES
  ImplementsTaskPool
  Ends
