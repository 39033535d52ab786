\* Two workers and a chunk of two blocks for each.
SPECIFICATION Spec
CONSTANTS
  Clients = {c1, c2}
  Chunks = {{b1, b2}, {b3, b4}}
  Null = Null
  Bytes = Bytes
INVARIANT BlocksApart
