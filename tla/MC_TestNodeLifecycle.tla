------------------------- MODULE MC_TestNodeLifecycle -------------------------
(***************************************************************************)
(* Two test nodes with the crypto configurations of TestInitCfg, scaled   *)
(* down: the default one, and one that enables a plugin and schedules     *)
(* ed25519 from height 1.                                                 *)
(***************************************************************************)
EXTENDS TestNodeLifecycle, TLC

CONSTANTS n1, n2, secp256k1, ed25519, plugA

MCNodes == {n1, n2}
MCNames == {secp256k1, ed25519, plugA}
MCDefaultOn == {secp256k1, ed25519}

Cfg(enabled, heights) == [enabled |-> enabled, heights |-> heights, sub |-> << >>]

MCConfigs == {Cfg({}, << >>), Cfg({plugA}, ed25519 :> 1)}

=============================================================================
