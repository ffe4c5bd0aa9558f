SPECIFICATION FairSpec
CONSTANTS
  Openers = {a, b, c}
  Files = {f}
  Kills = TRUE
INVARIANTS SchemaTypeOK RecordedIsThere OpenIsComplete
PROPERTIES RefusalIsTemporary TornHasCause TornIsForGood
CHECK_DEADLOCK FALSE
