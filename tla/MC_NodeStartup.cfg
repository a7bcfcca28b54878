\* Every command line of the flags main reads, every constructor failure.
CONSTANTS
  Modules <- MCModules
  LoadFails <- MCLoadFails
  Empty = ""
SPECIFICATION Spec
INVARIANTS ModulesAfterCryptoInit
PROPERTIES UpgradeAfterExecAndStore QueueClosedLast
  
\* main returns after -v, after a panic, and after the deferred shutdown.
CHECK_DEADLOCK FALSE
