\* One file is enough: the daemon never looks at a path. Three events overflow a batch of two.
CONSTANTS
  p1 = p1
  Paths = {p1}
  MaxBatch = 2
  QueueBound = 3
SPECIFICATION FairSpec
INVARIANTS TypeOK StatusTruthful
PROPERTIES StoppedForGood ImplementsEventQueue DirtyIsServed
CHECK_DEADLOCK FALSE
