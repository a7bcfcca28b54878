------------------------------ MODULE TestNodeRPC ------------------------------
(***************************************************************************)
(* The RPC side of test nodes (util/testnode/testnode.go) composed with   *)
(* the main-chain gRPC client of a parachain (rpc/grpcclient, module      *)
(* MainChainClient).  Tests of a package run one after another in one     *)
(* process.  Each creates a main test node with NewWithRPC and calls      *)
(* Listen, which retries rpc.Listen until both servers report a port and  *)
(* then writes the ports into cfg.RPC.*BindAddr where those end in ":0".  *)
(* The test points a parachain configuration at the main node with        *)
(* ModifyParaClient(cfg, GrpcBindAddr) and runs a para node on it; the    *)
(* para consensus asks NewMainChainClient(cfg, "") for the default        *)
(* client.  The test node's own JSON-RPC calls (SendTxRPC, WaitTx) go     *)
(* through GetJSONC to cfg.RPC.JrpcBindAddr.                              *)
(*                                                                         *)
(* Addresses are represented by their port (0 for ":0"); every test node  *)
(* listens on the same host.  rpc.Listen is outside the sources: it binds *)
(* each server to its configured port, a fixed port if no listener holds  *)
(* it and a free ephemeral port for ":0", and reports 0 for a server it   *)
(* could not bind, holding nothing after such a call.                     *)
(***************************************************************************)
EXTENDS Integers, FiniteSets, Sequences

CONSTANTS
  Mains,       \* the main test nodes, one per test
  GrpcPort,    \* fixed gRPC port of the configurations
  JrpcPort,    \* fixed JSON-RPC port of the configurations
  Ephemeral,   \* ports the system hands out for ":0"
  GrpcBinds,   \* GrpcBindAddr values the tests' configurations use
  JrpcBinds,   \* JrpcBindAddr values the tests' configurations use
  None,
  \* constants of MainChainClient
  Callers, Fallback, Empty, MaxCalls, Nil, NoOne

VARIABLES
  npc,       \* main node -> "off", "new", "ready" or "closed"
  bind,      \* main node -> [grpc, jrpc] ports of cfg.RPC.*BindAddr
  held,      \* main node -> [grpc, jrpc] ports its listeners hold (0: none)
  para,      \* main node -> "none", "live" or "closed": the test's para node
  jsonGot,   \* history: [from, listened, to] of every GetJSONC call
  \* variables of MainChainClient
  cfgAddr, defaultClient, mu, pc, arg, target, dials, got, callsLeft

mccVars == <<cfgAddr, defaultClient, mu, pc, arg, target, dials, got, callsLeft>>
nodeVars == <<npc, bind, held, para, jsonGot>>
vars == <<npc, bind, held, para, jsonGot, cfgAddr, defaultClient, mu, pc, arg,
         target, dials, got, callsLeft>>

Ports == {GrpcPort, JrpcPort} \cup Ephemeral

MCC == INSTANCE MainChainClient WITH Addrs <- Ports

InUse == UNION {{held[m].grpc, held[m].jrpc} : m \in Mains} \ {0}

\* What rpc.Listen can report for a server configured on port p.
Bound(p) ==
  CASE p = 0 /\ Ephemeral \ InUse # {} -> Ephemeral \ InUse
    [] p # 0 /\ p \notin InUse          -> {p}
    [] OTHER                            -> {0}

\* Lines 185-192: an address ending in ":0" gets the listener's port.
Rewrite(p, listened) == IF p = 0 THEN listened ELSE p

\* NewWithRPC, lines 84-93: the node, with an RPC server not yet listening.
NewWithRPC(m) ==
  /\ npc[m] = "off"
  /\ \A o \in Mains : npc[o] \in {"off", "closed"}
  /\ \E g \in GrpcBinds, j \in JrpcBinds :
       bind' = [bind EXCEPT ![m] = [grpc |-> g, jrpc |-> j]]
  /\ npc' = [npc EXCEPT ![m] = "new"]
  /\ UNCHANGED <<held, para, jsonGot>> /\ UNCHANGED mccVars

\* Listen, lines 175-194: rpc.Listen until both ports are non-zero (a
\* call reporting a 0 changes nothing and the loop calls it again), then
\* the ":0" rewrite of both addresses.
Listen(m) ==
  /\ npc[m] = "new"
  /\ \E gp \in Bound(bind[m].grpc), jp \in Bound(bind[m].jrpc) :
       /\ gp = 0 \/ gp # jp
       /\ gp # 0 /\ jp # 0
       /\ held' = [held EXCEPT ![m] = [grpc |-> gp, jrpc |-> jp]]
       /\ bind' = [bind EXCEPT ![m] = [grpc |-> Rewrite(@.grpc, gp),
                                       jrpc |-> Rewrite(@.jrpc, jp)]]
  /\ npc' = [npc EXCEPT ![m] = "ready"]
  /\ UNCHANGED <<para, jsonGot>> /\ UNCHANGED mccVars

\* The listener holding port p: a node and its server, or None.
Listeners == {[node |-> m, srv |-> s] : m \in Mains, s \in {"grpc", "jrpc"}}
Holder(p) ==
  IF \E l \in Listeners : p # 0 /\ held[l.node][l.srv] = p
    THEN CHOOSE l \in Listeners : held[l.node][l.srv] = p
    ELSE None

\* GetJSONC, lines 219-225, called by SendTxRPC and WaitTx: a JSON-RPC
\* call to cfg.RPC.JrpcBindAddr, answered by whoever listens there.
JsonCall(m) ==
  /\ npc[m] \in {"new", "ready"}
  /\ jsonGot' = jsonGot \cup {[from |-> m, listened |-> npc[m] = "ready",
                                to |-> Holder(bind[m].jrpc)]}
  /\ UNCHANGED <<npc, bind, held, para>> /\ UNCHANGED mccVars

\* ModifyParaClient, lines 196-207, with the main node's GrpcBindAddr, and
\* the para node built on that configuration (its consensus runs with the
\* para sub-config, so the guard of line 199 holds).
ModifyParaClient(m) ==
  /\ npc[m] = "ready"
  /\ para[m] = "none"
  /\ cfgAddr' = bind[m].grpc
  /\ para' = [para EXCEPT ![m] = "live"]
  /\ UNCHANGED <<npc, bind, held, jsonGot, defaultClient, mu, pc, arg,
                 target, dials, got, callsLeft>>

\* The para consensus calls NewMainChainClient while its node runs.
ParaCall(c) ==
  /\ \E m \in Mains : para[m] = "live"
  /\ MCC!Call(c)
  /\ UNCHANGED nodeVars

ParaStep(c) ==
  /\ MCC!Lock(c) \/ MCC!CheckCache(c) \/ MCC!Dial(c)
  /\ UNCHANGED nodeVars

\* The para node's Close, once its consensus has returned.
ClosePara(m) ==
  /\ para[m] = "live"
  /\ \A c \in Callers : pc[c] = "idle"
  /\ para' = [para EXCEPT ![m] = "closed"]
  /\ UNCHANGED <<npc, bind, held, jsonGot>> /\ UNCHANGED mccVars

\* Close, lines 319-347: rpc.Close among the modules, its listeners freed.
Close(m) ==
  /\ npc[m] \in {"new", "ready"}
  /\ para[m] # "live"
  /\ npc' = [npc EXCEPT ![m] = "closed"]
  /\ held' = [held EXCEPT ![m] = [grpc |-> 0, jrpc |-> 0]]
  /\ UNCHANGED <<bind, para, jsonGot>> /\ UNCHANGED mccVars

Init ==
  /\ npc = [m \in Mains |-> "off"]
  /\ bind = [m \in Mains |-> [grpc |-> 0, jrpc |-> 0]]
  /\ held = [m \in Mains |-> [grpc |-> 0, jrpc |-> 0]]
  /\ para = [m \in Mains |-> "none"]
  /\ jsonGot = {}
  /\ MCC!Init
  /\ cfgAddr = Empty

Next ==
  \/ \E m \in Mains :
       \/ NewWithRPC(m) \/ Listen(m) \/ JsonCall(m) \/ ModifyParaClient(m)
       \/ ClosePara(m) \/ Close(m)
  \/ \E c \in Callers : ParaCall(c) \/ ParaStep(c)

\* Only safety is claimed, so no fairness.
Spec == Init /\ [][Next]_vars

(***************************************************************************)
(* Properties                                                              *)
(***************************************************************************)

\* A default client the para consensus obtains is connected to the gRPC
\* listener of the main node its test pointed it at with ModifyParaClient,
\* also when an earlier test of the process cached one.
ParaReachesMain ==
  [][\A c \in Callers :
       pc[c] # "idle" /\ pc'[c] = "idle" /\ arg[c] = Empty /\ defaultClient' # Nil
         => \E m \in Mains : para[m] = "live" /\ defaultClient'.addr = held[m].grpc]_vars


=============================================================================
