\* Start-up with any loss, heartbeat 1 and timeouts up to 5, over two terms (the
\* bound on terms stops the model, not the code); and every accepted configuration
\* up to a heartbeat of two, from a settled leader, with two exchanges lost in a row.
CONSTANTS
  Node = {n1, n2, n3}
  None = None
  MaxHeartbeat = 2
  MaxTimeout = 8
  MaxTerm = 2
  MaxLost = 2
  StartHeartbeat = 1
  StartTimeout = 5
SPECIFICATION BoundedSpec
SYMMETRY Symmetry
CHECK_DEADLOCK FALSE
INVARIANTS OneTimerArmed 
PROPERTIES LeaderIsKept ReadyIsSteady
