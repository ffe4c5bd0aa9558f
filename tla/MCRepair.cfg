SPECIFICATION FairSpec
CONSTANTS
  Callers = {c, d}
  c = c
  d = d
  Uses <- MCUses
  Binaries = {{}, {2}}
  MaxVersion = 2
  MaxWrites = 2
INVARIANTS RTypeOK CleanIsIndexed WriteAhead
PROPERTIES ClearedIsServed RecoverRepairs QueueSettles
CHECK_DEADLOCK FALSE
