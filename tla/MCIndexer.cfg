\* Two workers, a file that is edited, deleted and written again, any statement may fail.
CONSTANTS
  f1 = f1
  w1 = w1
  w2 = w2
  Files = {f1}
  Workers = {w1, w2}
  MaxVersion = 2
  Faults = TRUE
SPECIFICATION FairSpec
INVARIANTS TypeOK OnlyThreeWaysToFail RowsHaveHash
PROPERTIES ExactPass HashCatchesUp
CHECK_DEADLOCK FALSE
