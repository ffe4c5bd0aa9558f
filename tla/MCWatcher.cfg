\* An empty directory and two files: a creation and a rename are three events, more than a batch of
\* the loop takes, while the debouncer's batch holds every path.
CONSTANTS
  p1 = p1
  p2 = p2
  Paths = {p1, p2}
  Indexed = {}
  MaxBatch = 2
  QueueBound = 4
  MaxChanges = 2
SPECIFICATION WFairSpec
INVARIANTS WTypeOK BusyIsVisible
PROPERTIES QueueDrains ChangesAreSeen
CHECK_DEADLOCK FALSE
