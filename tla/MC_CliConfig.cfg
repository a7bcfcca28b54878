CONSTANTS
  Tokens <- MCTokens
  ConfEq <- MCConfEq
  MaxArgs = 3
  Names <- MCNames
  ParaNames <- MCParaNames
  BuildAddrs <- MCBuildAddrs
  Empty = ""
  None = None
SPECIFICATION Spec
INVARIANTS
  ConfigFromArgs
  CommandsUseNodeScheme
CHECK_DEADLOCK FALSE
