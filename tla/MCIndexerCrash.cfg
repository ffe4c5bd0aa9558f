\* One worker on one file: the process is killed, or a statement fails, behind the store of the hash.
CONSTANTS
  f1 = f1
  w1 = w1
  Files = {f1}
  Workers = {w1}
  MaxVersion = 2
  Faults = TRUE
SPECIFICATION Spec
INVARIANTS HashedIsIndexed
CHECK_DEADLOCK FALSE
