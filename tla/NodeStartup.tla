------------------------------ MODULE NodeStartup ------------------------------
(***************************************************************************)
(* The node's main routine, RunTuringchain (util/cli/turingchain.go),     *)
(* with the module constructors it calls (consensus/, store/, mempool/).  *)
(* main resolves the configuration path, prepares the process, calls      *)
(* crypto.Init, builds and attaches the modules in a fixed order with     *)
(* chain.Upgrade and chain.Rollbackblock between them, starts the p2p     *)
(* module (real or mock) and the health server, and then blocks in        *)
(* q.Start until the queue is closed (the CLI's "close" command).  Its    *)
(* deferred function then closes the modules in another fixed order and   *)
(* the queue last.  A constructor whose driver name is unknown panics.    *)
(***************************************************************************)
EXTENDS Integers, Sequences

CONSTANTS
  Modules,     \* the queue modules main builds
  LoadFails,   \* modules whose constructor loads a driver by name and may panic
  Empty        \* the empty string

VARIABLES
  pc,          \* where main is
  flags,       \* the command line: [version, path, name, fixtime]
  cfgPath,     \* the configuration file read
  fixTime,     \* cfg.FixTime after the flag
  ntp,         \* fixtimeRoutine: "none", "first", "ticking" or "done"
  hostsUp,     \* the NTP hosts answer GetRealTimeRetry
  corrected,   \* types.SetTimeDelta has been called
  registry,    \* "uninit" or "init": crypto.Init done
  mods,        \* module -> "none", "up" or "closed"
  upgraded,    \* chain.Upgrade done
  queue,       \* "new", "running", "stopped" or "closed"
  step         \* position in StartOrder or CloseOrder

vars == <<pc, flags, cfgPath, fixTime, ntp, hostsUp, corrected, registry, mods,
          upgraded, queue, step>>

Flags == [version : BOOLEAN, path : {Empty, "node.toml"}, name : {Empty, "para"},
          fixtime : BOOLEAN]

\* Lines 73-79: the -f flag, else name.toml, else turingchain.toml.
ConfigPath(f) ==
  CASE f.path # Empty -> f.path
    [] f.name # Empty -> f.name \o ".toml"
    [] OTHER          -> "turingchain.toml"

\* Mutation: chain.Upgrade before the store is attached.
StartOrderUpgradeFirst == <<"mem", "exec", "chain", "upgrade", "store", "cs", "rpc", "wallet">>

\* Lines 163-193: the modules in the order built; chain.Upgrade runs
\* after the store (line 181).
StartOrder == <<"mem", "exec", "chain", "store", "upgrade", "cs", "rpc", "wallet">>

\* Mutation: the deferred function closes the queue first.
CloseOrderQueueFirst ==
  <<"queue", "health", "chain", "mem", "p2p", "exec", "store", "cs", "rpc", "wallet">>

\* Lines 215-237: the deferred close order, the queue last.
CloseOrder ==
  <<"health", "chain", "mem", "p2p", "exec", "store", "cs", "rpc", "wallet", "queue">>

\* Lines 67-79: -v prints the version and returns; otherwise the path.
ParseFlags ==
  /\ pc = "flags"
  /\ \E f \in Flags :
       /\ flags' = f
       /\ cfgPath' = ConfigPath(f)
       /\ pc' = IF f.version THEN "exited" ELSE "setup"
  /\ UNCHANGED <<fixTime, ntp, hostsUp, corrected, registry, mods, upgraded, queue, step>>

\* Lines 80-128: chdir and rlimits (each panics on error), the config
\* with the -fixtime flag able only to turn FixTime on, fixtimeRoutine
\* started when FixTime is set (line 115).
Setup ==
  /\ pc = "setup"
  /\ \E ok \in BOOLEAN, cfgFixTime \in BOOLEAN :
       /\ fixTime' = (cfgFixTime \/ flags.fixtime)
       /\ ntp' = IF ok /\ fixTime' THEN "first" ELSE "none"
       /\ pc' = IF ok THEN "crypto" ELSE "panicked"
  /\ UNCHANGED <<flags, cfgPath, hostsUp, corrected, registry, mods, upgraded, queue,
                 step>>

\* Mutation: crypto.Init left out.
CryptoInitMissing ==
  /\ pc = "crypto"
  /\ pc' = "build"
  /\ step' = 1
  /\ UNCHANGED <<flags, cfgPath, fixTime, ntp, hostsUp, corrected, registry, mods, upgraded, queue>>

\* Line 154.
CryptoInit ==
  /\ pc = "crypto"
  /\ registry' = "init"
  /\ pc' = "build"
  /\ step' = 1
  /\ UNCHANGED <<flags, cfgPath, fixTime, ntp, hostsUp, corrected, mods, upgraded, queue>>

\* consensus.New (and store.New, mempool.New alike): Load(name) either
\* yields the driver or the constructor panics.
LoadOutcomes(m) == IF m \in LoadFails THEN BOOLEAN ELSE {TRUE}

\* Lines 163-193: the next constructor, attached to the queue (a
\* consensus, store or mempool driver that does not load panics); or
\* chain.Upgrade.
Build ==
  /\ pc = "build"
  /\ step <= Len(StartOrder)
  /\ LET m == StartOrder[step] IN
       IF m = "upgrade"
         THEN /\ upgraded' = TRUE
              /\ UNCHANGED mods
              /\ pc' = "build"
         ELSE /\ \E ok \in LoadOutcomes(m) :
                   /\ mods' = IF ok THEN [mods EXCEPT ![m] = "up"] ELSE mods
                   /\ pc' = IF ok THEN "build" ELSE "panicked"
              /\ UNCHANGED upgraded
  /\ step' = step + 1
  /\ UNCHANGED <<flags, cfgPath, fixTime, ntp, hostsUp, corrected, registry, queue>>

\* Lines 195-214: rollback, import/export, the p2p module (or its mock),
\* the health server and metrics.
Network ==
  /\ pc = "build"
  /\ step = Len(StartOrder) + 1
  /\ mods' = [mods EXCEPT !["p2p"] = "up", !["health"] = "up"]
  /\ pc' = "start"
  /\ UNCHANGED <<flags, cfgPath, fixTime, ntp, hostsUp, corrected, registry, upgraded, queue, step>>

\* Line 239: q.Start runs the queue until it is closed.
Start ==
  /\ pc = "start"
  /\ queue = "new"
  /\ queue' = "running"
  /\ UNCHANGED <<pc, flags, cfgPath, fixTime, ntp, hostsUp, corrected, registry, mods,
                 upgraded, step>>

\* The CLI's close command: the queue stops and q.Start returns.
CloseQueue ==
  /\ queue = "running"
  /\ queue' = "stopped"
  /\ UNCHANGED <<pc, flags, cfgPath, fixTime, ntp, hostsUp, corrected, registry, mods,
                 upgraded, step>>

Return ==
  /\ pc = "start"
  /\ queue = "stopped"
  /\ pc' = "closing"
  /\ step' = 1
  /\ UNCHANGED <<flags, cfgPath, fixTime, ntp, hostsUp, corrected, registry, mods, upgraded, queue>>

\* Lines 215-237: the deferred function closes the next module.
CloseStep ==
  /\ pc = "closing"
  /\ LET m == CloseOrder[step] IN
       IF m = "queue"
         THEN /\ queue' = "closed" /\ UNCHANGED mods
         ELSE /\ mods' = [mods EXCEPT ![m] = "closed"] /\ UNCHANGED queue
  /\ step' = step + 1
  /\ pc' = IF step = Len(CloseOrder) THEN "exited" ELSE "closing"
  /\ UNCHANGED <<flags, cfgPath, fixTime, ntp, hostsUp, corrected, registry, upgraded>>

\* The process runs: main has neither returned nor panicked.
Alive == pc \notin {"exited", "panicked"}

FixTimeFirst ==
  /\ Alive
  /\ ntp = "first"
  /\ corrected' = (corrected \/ hostsUp)
  /\ ntp' = "ticking"
  /\ UNCHANGED <<pc, flags, cfgPath, fixTime, hostsUp, registry, mods, upgraded,
                 queue, step>>

\* Lines 282-291: every minute, GetRealTimeRetry again, with the same
\* update on a non-zero answer; the loop never ends while the process runs.
FixTimeTick ==
  /\ Alive
  /\ ntp = "ticking"
  /\ corrected' = (corrected \/ hostsUp)
  /\ UNCHANGED <<pc, flags, cfgPath, fixTime, ntp, hostsUp, registry, mods, upgraded,
                 queue, step>>

\* The environment: unreachable NTP hosts come back (an up host is assumed
\* to answer within GetRealTimeRetry's 10 tries).
HostsRecover ==
  /\ ~hostsUp
  /\ hostsUp' = TRUE
  /\ UNCHANGED <<pc, flags, cfgPath, fixTime, ntp, corrected, registry, mods,
                 upgraded, queue, step>>

Init ==
  /\ pc = "flags"
  /\ flags = [version |-> FALSE, path |-> Empty, name |-> Empty, fixtime |-> FALSE]
  /\ cfgPath = Empty
  /\ fixTime = FALSE
  /\ ntp = "none"
  /\ hostsUp \in BOOLEAN
  /\ corrected = FALSE
  /\ registry = "uninit"
  /\ mods = [m \in Modules |-> "none"]
  /\ upgraded = FALSE
  /\ queue = "new"
  /\ step = 1

Next ==
  \/ ParseFlags \/ Setup \/ CryptoInit \/ Build \/ Network
  \/ Start \/ CloseQueue \/ Return \/ CloseStep
  \/ FixTimeFirst \/ FixTimeTick \/ HostsRecover

\* main is one goroutine: once q.Start has returned, it runs the deferred
\* function to the end.  Nothing forces the CLI to send "close".  The
\* fixtimeRoutine goroutine is scheduled and its ticker fires each minute.
\* The NTP hosts need not ever come back.
Spec == Init /\ [][Next]_vars /\ WF_vars(Return \/ CloseStep)
          /\ WF_vars(FixTimeFirst \/ FixTimeTick)

(***************************************************************************)
(* Properties                                                              *)
(***************************************************************************)

\* No module runs before crypto.Init has installed the node's activation
\* table: the mempool and executor validate signatures from the moment
\* they are attached.
ModulesAfterCryptoInit ==
  (\E m \in Modules : mods[m] # "none") => registry = "init"

\* chain.Upgrade re-executes stored blocks through the executor and the
\* store: it only runs when both are attached and not yet closed.
UpgradeAfterExecAndStore ==
  [][upgraded' /\ ~upgraded => mods["exec"] = "up" /\ mods["store"] = "up"]_vars

\* The queue is closed only after every module main started is closed:
\* no module is left running on a closed queue.
QueueClosedLast ==
  [][queue' = "closed" /\ queue # "closed" =>
       \A m \in Modules : mods'[m] # "up"]_vars

=============================================================================
