\* The same daemon, with the one claim about stop that the code does not keep.
CONSTANTS
  p1 = p1
  Paths = {p1}
  MaxBatch = 1
  QueueBound = 1
SPECIFICATION FairSpec
PROPERTIES StopReturns
CHECK_DEADLOCK FALSE
