------------------------------- MODULE CliConfig -------------------------------
(***************************************************************************)
(* One run of the command-line client, cli.Run (util/cli/cli.go), with    *)
(* the commands that call the node (system/dapp/commands/mempool.go,      *)
(* system/dapp/manage/commands/config.go, the "close" command).  Run      *)
(* scans os.Args for --conf, falls back to name.toml or turingchain.toml, *)
(* loads that file or the default configuration (renamed to the           *)
(* parachain's title when a ParaName is built in), registers it under its *)
(* title, probes the built-in RPC address with testTLS, makes the result  *)
(* the default of --rpc_laddr, and runs the command cobra selects.  The   *)
(* node may start while the CLI runs.                                     *)
(*                                                                         *)
(* An argument is a token; "--conf=" tokens map to their suffix through   *)
(* ConfEq.  An address is a sequence: a scheme token ("http://" or        *)
(* "https://", the 7 and 8 bytes the code slices) or none, then the host  *)
(* characters, then "/" or not.  The node answers testTLS's GET over      *)
(* plain HTTP with 200 when it serves HTTP, and with Go's 400 when it     *)
(* serves TLS; a node that is down makes the GET fail.                    *)
(***************************************************************************)
EXTENDS Integers, Sequences, SequencesExt, FiniteSets

CONSTANTS
  Tokens,      \* command-line tokens after the program name
  ConfEq,      \* "--conf=..." token -> the text after "--conf="
  MaxArgs,     \* bound on the number of tokens
  Names,       \* the name argument of Run ("" from cmd/cli)
  ParaNames,   \* the ParaName built into the binary ("" or a parachain title)
  BuildAddrs,  \* the RPCAddr built into the binary
  Empty,       \* the empty string
  None

\* MempoolCmd: a group needing a subcommand; each subcommand calls the node.
MempoolCommands == {"mempool list", "mempool last_txs", "mempool proper_fee"}

\* ConfigCmd: a group needing a subcommand; query calls the node, config_tx
\* prints a transaction; both have required flags.
ConfigCommands == {"config query", "config config_tx"}

\* closeCmd: calls Turingchain.CloseQueue.
RpcCommands == {"close", "config query"} \cup MempoolCommands

\* The command tree Run builds, the two groups included.
Commands == RpcCommands \cup ConfigCommands \cup {"mempool", "config"}

VARIABLES
  pc,          \* "scan", "load", "tls", "exec", "done" or "exit1"
  args,        \* os.Args
  name,        \* Run's name argument
  paraName,    \* Run's ParaName argument
  built,       \* the RPCAddr built into the binary
  rpcAddr,     \* Run's RPCAddr variable, after testTLS
  configPath,  \* the configuration file Run reads
  title,       \* the title the configuration is registered under
  node,        \* the node: [scheme, up]
  probed,      \* the node as testTLS's GET found it, or None
  calls        \* history: [cmd, explicit, addr] of every RPC call

vars == <<pc, args, name, paraName, built, rpcAddr, configPath, title, node, probed, calls>>

\* Mutation: the scan takes every --conf, the last one wins.
RECURSIVE ScanWithoutBreak(_, _)
ScanWithoutBreak(a, i) ==
  IF i > Len(a) THEN Empty
  ELSE LET rest == ScanWithoutBreak(a, i + 1) IN
       IF rest # Empty THEN rest
       ELSE CASE a[i] = "--conf" /\ i + 1 <= Len(a) -> a[i + 1]
              [] a[i] \in DOMAIN ConfEq             -> ConfEq[a[i]]
              [] OTHER                              -> Empty

\* Lines 27-36: the first "--conf <path>" (the path must exist in os.Args)
\* or "--conf=<path>", os.Args[0] included.
RECURSIVE Scan(_, _)
Scan(a, i) ==
  IF i > Len(a) THEN Empty
  ELSE CASE a[i] = "--conf" /\ i + 1 <= Len(a) -> a[i + 1]
         [] a[i] \in DOMAIN ConfEq             -> ConfEq[a[i]]
         [] OTHER                              -> Scan(a, i + 1)

\* Lines 37-43: no path from the arguments: name.toml, else turingchain.toml.
DefaultPath(p, n) ==
  CASE p # Empty -> p
    [] n # Empty -> n \o ".toml"
    [] OTHER     -> "turingchain.toml"

Schemes == {"http://", "https://"}
Scheme(a) == IF a # <<>> /\ a[1] \in Schemes THEN a[1] ELSE Empty

\* Mutation: RPCAddr[8:], one byte too many.
ToHttpsOffByOne(a) == <<"https://">> \o SubSeq(a, 3, Len(a))

\* "https://" + RPCAddr[7:]: the "http://" prefix replaced.
ToHttps(a) == <<"https://">> \o Tail(a)

\* Lines 121-131: the outcome of http.Get of the address with "/test"
\* appended (after a "/" unless there), which names the node's host.
Probe(n) == [err |-> ~n.up, status |-> IF n.scheme = "http" THEN 200 ELSE 400]

\* testTLS, lines 116-136.
TestTLS(a, n) ==
  CASE Scheme(a) # "http://" -> a
    [] Probe(n).err          -> ToHttps(a)
    [] Probe(n).status = 200 -> a
    [] OTHER                 -> ToHttps(a)

Scanning ==
  /\ pc = "scan"
  /\ configPath' = DefaultPath(Scan(args, 1), name)
  /\ pc' = "load"
  /\ UNCHANGED <<args, name, paraName, built, rpcAddr, title, node, probed, calls>>

\* Lines 45-58: the file if it exists, else the default configuration,
\* whose title becomes ParaName (and FixTime a CoinSymbol line) when one
\* is built in; SetCliSysParam registers it under its title.
Load ==
  /\ pc = "load"
  /\ \E exist \in BOOLEAN :
       title' = CASE exist            -> "file"
                  [] paraName # Empty -> paraName
                  [] OTHER            -> "local"
  /\ pc' = "tls"
  /\ UNCHANGED <<args, name, paraName, built, rpcAddr, configPath, node, probed, calls>>

\* Lines 60-100: the command tree, then RPCAddr = testTLS(RPCAddr).
TLS ==
  /\ pc = "tls"
  /\ rpcAddr' = TestTLS(rpcAddr, node)
  /\ probed' = IF Scheme(rpcAddr) = "http://" THEN node ELSE None
  /\ pc' = "exec"
  /\ UNCHANGED <<args, name, paraName, built, configPath, title, node, calls>>

\* Lines 101-113 and the commands: --rpc_laddr defaults to the probed
\* address unless given; an RPC command calls the node there; config_tx
\* only prints a transaction; a group without a subcommand, or a missing
\* required flag, makes Execute fail and the CLI exit with status 1.
Execute ==
  /\ pc = "exec"
  /\ \E cmd \in Commands, explicit \in {None} \cup BuildAddrs, flagsOk \in BOOLEAN :
       CASE cmd \in {"mempool", "config"} \/ (cmd \in ConfigCommands /\ ~flagsOk)
              -> pc' = "exit1" /\ UNCHANGED calls
         [] cmd \in RpcCommands
              -> /\ calls' = calls \cup
                      {[cmd |-> cmd, explicit |-> explicit,
                        addr |-> IF explicit = None THEN rpcAddr ELSE explicit]}
                 /\ pc' = "done"
         [] OTHER
              -> pc' = "done" /\ UNCHANGED calls
  /\ UNCHANGED <<args, name, paraName, built, rpcAddr, configPath, title, node, probed>>

\* The node starts while the CLI runs.
NodeStart ==
  /\ ~node.up
  /\ node' = [node EXCEPT !.up = TRUE]
  /\ UNCHANGED <<pc, args, name, paraName, built, rpcAddr, configPath, title, probed, calls>>

Init ==
  /\ pc = "scan"
  /\ args \in {<<"cli">> \o s : s \in BoundedSeq(Tokens, MaxArgs)}
  /\ name \in Names
  /\ paraName \in ParaNames
  /\ built \in BuildAddrs
  /\ rpcAddr = built
  /\ configPath = Empty
  /\ title = Empty
  /\ node \in [scheme : {"http", "https"}, up : BOOLEAN]
  /\ probed = None
  /\ calls = {}

Next == Scanning \/ Load \/ TLS \/ Execute \/ NodeStart

Spec == Init /\ [][Next]_vars

(***************************************************************************)
(* Properties                                                              *)
(***************************************************************************)

\* What the comments of lines 28 and 32 promise: the configuration comes
\* from the first "--conf <path>" or "--conf=<path>" on the command line,
\* and otherwise from the name's file or turingchain.toml.
ConfArgAt(a, i) == (a[i] = "--conf" /\ i < Len(a)) \/ a[i] \in DOMAIN ConfEq
ConfValue(a, i) == IF a[i] = "--conf" THEN a[i + 1] ELSE ConfEq[a[i]]
PromisedPath(a, n) ==
  LET I == {i \in 1..Len(a) : ConfArgAt(a, i)} IN
  IF I # {} /\ ConfValue(a, CHOOSE i \in I : \A j \in I : i <= j) # Empty
    THEN ConfValue(a, CHOOSE i \in I : \A j \in I : i <= j)
    ELSE IF n # Empty THEN n \o ".toml" ELSE "turingchain.toml"
ConfigFromArgs == pc # "scan" => configPath = PromisedPath(args, name)

\* A command without an explicit --rpc_laddr calls the node at the built-in
\* host and port, with the scheme the node serves, when the node was up
\* for testTLS's probe of an http:// address.
CommandsUseNodeScheme ==
  \A c \in calls :
    c.explicit = None /\ probed # None /\ probed.up =>
      c.addr = <<IF probed.scheme = "http" THEN "http://" ELSE "https://">> \o Tail(built)

=============================================================================
