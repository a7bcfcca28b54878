---------------------------- MODULE MC_TestNodeRPC ----------------------------
(***************************************************************************)
(* Two tests of one package, run one after another: each has a main test  *)
(* node and a para node with one consensus goroutine.  Ports: 1 and 2 are *)
(* the configurations' fixed gRPC and JSON-RPC ports, 3 and 4 ephemeral.  *)
(***************************************************************************)
EXTENDS TestNodeRPC

CONSTANTS m1, m2, c1

MCMains == {m1, m2}
MCCallers == {c1}
MCEphemeral == {3, 4}
MCGrpcFixed == {1}
MCGrpcAny == {1, 0}
MCJrpcAny == {2, 0}

=============================================================================
