\* The same watch: what a burst that removes a file leaves in the index.
CONSTANTS
  p1 = p1
  p2 = p2
  Paths = {p1, p2}
  Indexed = {p1}
  MaxBatch = 2
  QueueBound = 4
  MaxChanges = 2
SPECIFICATION WSpec
INVARIANTS NoRowOfDeletedFile
CHECK_DEADLOCK FALSE
