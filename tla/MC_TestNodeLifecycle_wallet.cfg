\* One test node whose wallet answers SaveSeed or WalletUnLock with a
\* reply that is not IsOk and no error.
CONSTANTS
  n1 = n1  n2 = n2
  secp256k1 = secp256k1  ed25519 = ed25519  plugA = plugA
  Names <- MCNames
  DefaultOn <- MCDefaultOn
  Never = Never
  NoRead = NoRead
  MaxHeight = 1
  Nodes <- MCNodes
  Configs <- MCConfigs
  Sequential = TRUE
  NoCfg = NoCfg
SPECIFICATION Spec
INVARIANTS WalletReady
CHECK_DEADLOCK FALSE
