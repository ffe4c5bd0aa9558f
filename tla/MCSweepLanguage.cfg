\* Two files of two languages, and a sweep that may be told to look for one of them.
CONSTANTS
  f1 = f1
  f2 = f2
  s = s
  Files = {f1, f2}
  Workers = {s}
  Sweeper = s
  Languages = {{f1}, {f2}}
  MaxVersion = 1
  Faults = FALSE
SPECIFICATION SSpec
PROPERTIES SweepRemovesDeleted
CHECK_DEADLOCK FALSE
