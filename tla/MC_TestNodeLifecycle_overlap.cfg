\* Two test nodes alive at once, as a main-chain node and a parachain node.
CONSTANTS
  n1 = n1  n2 = n2
  secp256k1 = secp256k1  ed25519 = ed25519  plugA = plugA
  Names <- MCNames
  DefaultOn <- MCDefaultOn
  Never = Never
  NoRead = NoRead
  MaxHeight = 1
  Nodes <- MCNodes
  Configs <- MCConfigs
  Sequential = FALSE
  NoCfg = NoCfg
SPECIFICATION Spec
INVARIANTS OwnActivation
CHECK_DEADLOCK FALSE
