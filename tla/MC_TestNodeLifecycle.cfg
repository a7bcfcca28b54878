\* Two test nodes, each created only after the previous one is closed.
CONSTANTS
  n1 = n1  n2 = n2
  secp256k1 = secp256k1  ed25519 = ed25519  plugA = plugA
  Names <- MCNames
  DefaultOn <- MCDefaultOn
  Never = Never
  NoRead = NoRead
  MaxHeight = 1
  Nodes <- MCNodes
  Configs <- MCConfigs
  Sequential = TRUE
  NoCfg = NoCfg
SPECIFICATION Spec
INVARIANTS CloseStopsAllButMockP2P
\* Every node ends closed, returned nil or panicked: the test is over.
CHECK_DEADLOCK FALSE
