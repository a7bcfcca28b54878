--------------------------- MODULE TestNodeLifecycle ---------------------------
(***************************************************************************)
(* Construction and shutdown of test nodes (util/testnode/testnode.go).   *)
(* newWithConfigNoLock first calls crypto.Init with the node's crypto     *)
(* configuration, which replaces the process-wide activation table (spec  *)
(* 4.3: a later Init is not cumulative), makes a temporary datadir, then  *)
(* builds the modules in a fixed order, obtains the queue API with         *)
(* client.New (on error it returns nil, leaving what it built running)    *)
(* and creates the RPC server.  NewWithRPC then closes that server and    *)
(* makes another; it dereferences the result without a nil check.  Close  *)
(* closes the modules in another fixed order and removes the datadir.     *)
(* The activation table is the process-wide table of the registry        *)
(* (module CryptoActivation); the node's modules ask it with IsEnable     *)
(* while they validate transactions.                                      *)
(***************************************************************************)
EXTENDS Integers, Sequences, FiniteSets

CONSTANTS
  Nodes,       \* test nodes a test process creates
  Configs,     \* crypto configurations: [enabled, heights, sub]
  Sequential,  \* TRUE: a node is only created once every earlier one is closed
  NoCfg,
  Names, DefaultOn, Never,  \* of the registry, see CryptoActivation
  MaxHeight,   \* largest block height a validation asks about
  NoRead

ASSUME NoCfg \notin Configs /\ Sequential \in BOOLEAN

VARIABLES
  table,        \* the registry's activation table, process-wide
  pc,           \* node -> where its constructor or Close is
  cfg,          \* node -> its configuration
  withRPC,      \* node -> created by NewWithRPC
  open,         \* node -> modules running
  step,         \* node -> position in BuildOrder or CloseOrder
  datadir,      \* node -> "none", "present" or "removed"
  mockAPI,      \* node -> the caller passed its own QueueProtocolAPI
  walletFailed, \* node -> a wallet call of newWalletRealize failed unnoticed
  realP2P,      \* node -> cfg.P2P.Enable: the real p2p manager, else mockP2P
  seen          \* node -> its modules' last IsEnable: [name, height, val]

vars == <<table, pc, cfg, withRPC, open, step, datadir, mockAPI, walletFailed, realP2P,
          seen>>

Reg == INSTANCE CryptoActivation

Modules == {"exec", "store", "chain", "cs", "mem", "p2p", "client", "wallet", "rpc"}

\* newWithConfigNoLock lines 110-141: the modules in the order built.
BuildOrder == <<"exec", "store", "chain", "cs", "mem", "p2p", "client", "wallet">>

\* Mutation: the store is left running.
CloseOrderWithoutStore ==
  <<"p2p", "rpc", "mem", "exec", "cs", "wallet", "chain", "client">>

\* closeNoLock lines 325-342: the modules in the order closed.
CloseOrder == <<"p2p", "rpc", "mem", "exec", "cs", "wallet", "chain", "store", "client">>

Live(n) == pc[n] \in {"build", "client", "wallet", "ready", "closing"}

\* New, NewWithConfig or NewWithRPC, then newWithConfigNoLock lines
\* 100-108: crypto.Init with the node's configuration, and the datadir.
NewNode(n) ==
  /\ pc[n] = "off"
  /\ Sequential => \A m \in Nodes : ~Live(m)
  /\ \E c \in Configs, r \in BOOLEAN, a \in BOOLEAN, p \in BOOLEAN :
       /\ cfg' = [cfg EXCEPT ![n] = c]
       /\ realP2P' = [realP2P EXCEPT ![n] = p]
       /\ mockAPI' = [mockAPI EXCEPT ![n] = a]
       /\ table' = Reg!Activation(c)
       /\ withRPC' = [withRPC EXCEPT ![n] = r]
  /\ datadir' = [datadir EXCEPT ![n] = "present"]
  /\ pc' = [pc EXCEPT ![n] = "build"]
  /\ step' = [step EXCEPT ![n] = 1]
  /\ UNCHANGED <<open, walletFailed, seen>>

\* Lines 110-141: the next module is created and attached to the queue.
Build(n) ==
  /\ pc[n] = "build"
  /\ open' = [open EXCEPT ![n] = @ \cup {BuildOrder[step[n]]}]
  /\ step' = [step EXCEPT ![n] = @ + 1]
  /\ pc' = [pc EXCEPT ![n] = IF step[n] = Len(BuildOrder) THEN "client" ELSE "build"]
  /\ UNCHANGED <<table, cfg, withRPC, datadir, mockAPI, walletFailed, seen, realP2P>>

\* Lines 142-158: a caller's own API is used as it is; otherwise client.New
\* either fails and nil is returned, everything built left running
\* (NewWithRPC then panics on mock.rpc, line 87), or newWalletRealize
\* runs on the new API.
ClientNew(n) ==
  /\ pc[n] = "client"
  /\ \/ /\ mockAPI[n]
        /\ pc' = [pc EXCEPT ![n] = "ready"]
        /\ open' = [open EXCEPT ![n] = @ \cup {"rpc"}]
        /\ UNCHANGED step
     \/ /\ ~mockAPI[n]
        /\ pc' = [pc EXCEPT ![n] = IF withRPC[n] THEN "panicked" ELSE "nil"]
        /\ UNCHANGED <<open, step>>
     \/ /\ ~mockAPI[n]
        /\ pc' = [pc EXCEPT ![n] = "wallet"]
        /\ step' = [step EXCEPT ![n] = 1]
        /\ UNCHANGED open
  /\ UNCHANGED <<table, cfg, withRPC, datadir, mockAPI, walletFailed, seen, realP2P>>

\* newWalletRealize lines 271-297: the ExecWalletFunc calls in order (the
\* imports of the test keys, all alike, as one).
WalletCalls == <<"SaveSeed", "WalletUnLock", "WalletImportPrivkey", "WalletGetAccountList">>

\* What ExecWalletFunc can return: no reply, a reply (IsOk or not; an
\* account for the import), with or without an error.
Replies == {"nil", "ok", "notok"}

\* The calls whose answer is a *types.Reply with an IsOk flag.
ReplyCalls == {"SaveSeed", "WalletUnLock"}

\* Whether the function panics on the call's result: lines 276-283 assert
\* *types.Reply (a nil reply panics) and panic on !IsOk && err != nil; lines
\* 285-290 panic on an error and then assert *types.WalletAccount; lines
\* 292-296 panic on an error.
Panics(call, r, e) ==
  CASE call \in ReplyCalls -> r = "nil" \/ (r = "notok" /\ e)
    [] call = "WalletImportPrivkey" -> e \/ r = "nil"
    [] OTHER                        -> e

\* One wallet call: a panic, or the next call; after the last, lines 154-158
\* create the RPC server and NewWithRPC replaces it.
WalletCall(n) ==
  /\ pc[n] = "wallet"
  /\ \E r \in Replies, e \in BOOLEAN :
       LET call == WalletCalls[step[n]] IN
       IF Panics(call, r, e)
         THEN /\ pc' = [pc EXCEPT ![n] = "panicked"]
              /\ UNCHANGED <<open, step, walletFailed>>
         ELSE /\ walletFailed' = [walletFailed EXCEPT ![n] =
                                  @ \/ e \/ (r = "notok" /\ call \in ReplyCalls)]
              /\ step' = [step EXCEPT ![n] = @ + 1]
              /\ IF step[n] = Len(WalletCalls)
                   THEN /\ pc' = [pc EXCEPT ![n] = "ready"]
                        /\ open' = [open EXCEPT ![n] = @ \cup {"rpc"}]
                   ELSE /\ pc' = [pc EXCEPT ![n] = "wallet"]
                        /\ UNCHANGED open
  /\ UNCHANGED <<table, cfg, withRPC, datadir, mockAPI, seen, realP2P>>

Close(n) ==
  /\ pc[n] = "ready"
  /\ pc' = [pc EXCEPT ![n] = "closing"]
  /\ step' = [step EXCEPT ![n] = 1]
  /\ UNCHANGED <<table, cfg, withRPC, open, datadir, mockAPI, walletFailed, seen, realP2P>>

\* The modules a Close call of closeNoLock stops: mockP2P.Close (line
\* 523) is empty, and its goroutine (501-516) ranges over its own
\* q.Client(), which nothing closes (line 342 closes mock.client only).
Stopped(n, m) == IF m = "p2p" /\ ~realP2P[n] THEN {} ELSE {m}

\* closeNoLock lines 325-342: the next module is closed.
CloseStep(n) ==
  /\ pc[n] = "closing"
  /\ open' = [open EXCEPT ![n] = @ \ Stopped(n, CloseOrder[step[n]])]
  /\ step' = [step EXCEPT ![n] = @ + 1]
  /\ pc' = [pc EXCEPT ![n] = IF step[n] = Len(CloseOrder) THEN "remove" ELSE "closing"]
  /\ UNCHANGED <<table, cfg, withRPC, datadir, mockAPI, walletFailed, seen, realP2P>>

\* Lines 343-347: os.RemoveAll; its error is dropped.
RemoveDatadir(n) ==
  /\ pc[n] = "remove"
  /\ \E ok \in BOOLEAN :
       datadir' = [datadir EXCEPT ![n] = IF ok THEN "removed" ELSE "present"]
  /\ pc' = [pc EXCEPT ![n] = "closed"]
  /\ UNCHANGED <<table, cfg, withRPC, open, step, mockAPI, walletFailed, seen, realP2P>>

\* The node's mempool and executor check a transaction's signature type
\* with IsEnable at a block height (spec.md 4.3), against the table in
\* force.
Validate(n) ==
  /\ pc[n] = "ready"
  /\ \E nm \in Names, h \in 0..MaxHeight :
       seen' = [seen EXCEPT ![n] =
                  [name |-> nm, height |-> h, val |-> Reg!EnabledIn(table, nm, h)]]
  /\ UNCHANGED <<table, pc, cfg, withRPC, open, step, datadir, mockAPI, walletFailed, realP2P>>

Init ==
  /\ table = [nm \in Names |-> Never]
  /\ pc = [n \in Nodes |-> "off"]
  /\ cfg = [n \in Nodes |-> NoCfg]
  /\ withRPC = [n \in Nodes |-> FALSE]
  /\ open = [n \in Nodes |-> {}]
  /\ step = [n \in Nodes |-> 1]
  /\ datadir = [n \in Nodes |-> "none"]
  /\ mockAPI = [n \in Nodes |-> FALSE]
  /\ walletFailed = [n \in Nodes |-> FALSE]
  /\ realP2P = [n \in Nodes |-> FALSE]
  /\ seen = [n \in Nodes |-> NoRead]

Next ==
  \E n \in Nodes :
    NewNode(n) \/ Build(n) \/ ClientNew(n) \/ WalletCall(n) \/ Validate(n) \/ Close(n) \/ CloseStep(n)
      \/ RemoveDatadir(n)

Spec == Init /\ [][Next]_vars

(***************************************************************************)
(* Properties                                                              *)
(***************************************************************************)

\* Every IsEnable answer a node that its constructor returned gets is the
\* one its own crypto configuration defines: no other node's crypto.Init
\* has replaced the process-wide table under it.
OwnActivation ==
  \A n \in Nodes :
    pc[n] = "ready" /\ seen[n] # NoRead =>
      seen[n].val = Reg!EnabledIn(Reg!Activation(cfg[n]), seen[n].name, seen[n].height)

\* Close stops every module the constructor built, NewWithRPC's
\* replacement server included, except mockP2P's queue goroutine, which
\* outlives the node when cfg.P2P.Enable is false.
CloseStopsAllButMockP2P ==
  \A n \in Nodes :
    pc[n] \in {"remove", "closed"} =>
      open[n] = IF realP2P[n] THEN {} ELSE {"p2p"}

\* What the panics of newWalletRealize are for: a test node the constructor
\* returned has a wallet whose seed was saved, which was unlocked and holds
\* the test keys; a wallet call that failed made the constructor panic.
WalletReady ==
  \A n \in Nodes : pc[n] = "ready" => ~walletFailed[n]

=============================================================================
