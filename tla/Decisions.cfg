CONSTANTS
  Node = {n1, n2}
  Caller = {c1, c2}
  Key = {k1, k2}
  Content = {x, y}
  Shape = {"valid", "oversized", "unkeyed"}
  Capacity = 1
  MaxRetries = 1
  Partitions = TRUE
  None = None
SPECIFICATION LoadSpec
SYMMETRY Symmetry
PROPERTIES ImplementsLedger RevocationIsFinal
