-------------------------- MODULE MC_CryptoRegistry --------------------------
(***************************************************************************)
(* CryptoRegistry instantiated for TLC.  The names, ids and requests are  *)
(* those of crypto_test.go scaled down: secp256k1 (id 1), ed25519 (id 2)  *)
(* and none (id 3 = MaxManualTypeID) are built in; the registrations are  *)
(* the five steps of TestRegister, the plugin of TestInitSubCfg, a second *)
(* plugin whose derived id collides with it, and the two option errors of *)
(* TestWithOption; the configurations are the two of TestInitCfg (heights *)
(* 10 and 100 scaled to 1 and 2) and one that schedules a plugin only     *)
(* through EnableHeight, the case spec.md 9 leaves open.                  *)
(***************************************************************************)
EXTENDS CryptoRegistry, TLC

CONSTANTS secp256k1, ed25519, none, secp256k1cgo, plugA, plugB
CONSTANTS soft, cgoImpl, blob1, blob2

MCNames == {secp256k1, ed25519, none, secp256k1cgo, plugA, plugB}
MCImpls == {soft, cgoImpl}
MCBuiltin == (secp256k1 :> 1) @@ (ed25519 :> 2) @@ (none :> 3)
MCDefaultOn == {secp256k1, ed25519}
MCMaxManualTypeID == 3
\* derived ids above the manual range; plugA and plugB collide
MCDeriveTypeID ==
  (secp256k1 :> 5) @@ (ed25519 :> 6) @@ (none :> 7) @@ (secp256k1cgo :> 8)
  @@ (plugA :> 4) @@ (plugB :> 4)
MCTypeIDs == 1..8

Req(n, impl, id, cgo, init) ==
  [name |-> n, impl |-> impl, typeID |-> id, cgo |-> cgo, init |-> init]

MCRequests ==
  { Req(secp256k1, cgoImpl, 1, FALSE, "none"),     \* TestRegister steps 1, 3
    Req(secp256k1, cgoImpl, 1, TRUE, "none"),      \* step 2: WithOptionCGO
    Req(secp256k1, soft, 2, TRUE, "none"),         \* step 4: id mismatch
    Req(secp256k1cgo, cgoImpl, 1, FALSE, "none"),  \* step 5: duplicate id
    Req(plugA, soft, NoTypeID, FALSE, "fn"),       \* TestInitSubCfg
    Req(plugB, soft, NoTypeID, FALSE, "none"),     \* derived id collides
    Req(plugA, soft, 4, FALSE, "none"),            \* MaxManualTypeID + 1
    Req(plugA, soft, NoTypeID, FALSE, "nil") }     \* WithOptionInitFunc(nil)

Cfg(enabled, heights, sub) == [enabled |-> enabled, heights |-> heights, sub |-> sub]

MCConfigs ==
  { Cfg({}, << >>, << >>),
    Cfg({secp256k1, none}, (ed25519 :> 1) @@ (none :> 2), plugA :> blob1),
    Cfg({}, plugA :> 1, plugA :> blob2) }

=============================================================================
