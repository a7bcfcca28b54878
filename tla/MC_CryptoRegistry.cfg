CONSTANTS
  secp256k1 = secp256k1
  ed25519 = ed25519
  none = none
  secp256k1cgo = secp256k1cgo
  plugA = plugA
  plugB = plugB
  soft = soft
  cgoImpl = cgoImpl
  blob1 = blob1
  blob2 = blob2
  Writers = {w1, w2}
  Readers = {r1}
  NoDriver = NoDriver
  NoOne = NoOne
  NoOp = NoOp
  Never = Never
  NoBlob = NoBlob
  NoRead = NoRead
  NoTypeID = NoTypeID
  MaxOps = 3
  MaxHeight = 2
  Names <- MCNames
  Impls <- MCImpls
  Builtin <- MCBuiltin
  BootImpl = soft
  DefaultOn <- MCDefaultOn
  MaxManualTypeID <- MCMaxManualTypeID
  DeriveTypeID <- MCDeriveTypeID
  TypeIDs <- MCTypeIDs
  Requests <- MCRequests
  Configs <- MCConfigs
SPECIFICATION Spec
INVARIANTS
  TypeOK
  TypeIDUnique
PROPERTIES
  RefinesSpec
