\* Two callers over two reigns: long enough for an index to be reused while the
\* caller that had it before is still leaving.
CONSTANTS
  Caller = {c1, c2}
  Deadline = {c1, c2}
  MaxLog = 3
  MaxReigns = 2
SPECIFICATION FairSpec
CHECK_DEADLOCK FALSE
INVARIANTS ResultIsOwn LoopNeverBlocks WaitersMatchLog
PROPERTY ProposeReturns
