\* Four subscriptions to two topics, publishes three deep.
SPECIFICATION Spec
CONSTANTS
  Topics = {created, completed}
  MaxIds = 4
  MaxDepth = 3
  None = None
INVARIANTS
  ReferencesValid
  NothingLeftBehind
PROPERTY ImplementsPubSub
\* Without subscribers or ids left, the program has nothing to call.
CHECK_DEADLOCK FALSE
