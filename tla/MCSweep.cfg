\* One file, which the sweep lists and hashes at different times while a worker of the daemon and the user
\* are at it; files share no state but the sweep's own loop. Both sweeps find a file of the one language.
CONSTANTS
  f1 = f1
  s = s
  w = w
  Files = {f1}
  Workers = {s, w}
  Sweeper = s
  Languages = {{f1}}
  MaxVersion = 2
  Faults = TRUE
SPECIFICATION SSpec
INVARIANTS STypeOK
PROPERTIES SweepSparesPresent SweepLeavesNoGone SweepIndexesPresent
CHECK_DEADLOCK FALSE
