--------------------------- MODULE MainChainClient ---------------------------
(***************************************************************************)
(* The process-wide main-chain gRPC client of a parachain node            *)
(* (rpc/grpcclient/client.go, NewMainChainClient).  Goroutines of the     *)
(* parachain consensus and RPC layers call NewMainChainClient(cfg, addr)  *)
(* concurrently.  An empty addr asks for the shared default client, which *)
(* is dialled once, to the configured ParaRemoteGrpcClient or else to the *)
(* fallback address, and cached in defaultClient; an explicit addr always *)
(* dials a fresh connection and never touches the cache.  Everything runs *)
(* under the package mutex mu.  ModifyParaClient (util/testnode) rewrites *)
(* the configured address at any time.                                    *)
(***************************************************************************)
EXTENDS Integers, FiniteSets

CONSTANTS
  Callers,    \* goroutines calling NewMainChainClient
  Addrs,      \* explicit or configured addresses
  Fallback,   \* "127.0.0.1:9672"
  Empty,      \* the empty string
  MaxCalls,   \* bound on the number of calls
  Nil, NoOne

ASSUME Fallback \notin Addrs /\ Empty \notin Addrs \cup {Fallback}

VARIABLES
  cfgAddr,        \* config.consensus.sub.para.ParaRemoteGrpcClient
  defaultClient,  \* the cached default connection, or Nil
  mu,             \* caller holding mu, or NoOne
  pc,             \* caller -> where it is in its call
  arg,            \* caller -> the grpcaddr it passed
  target,         \* caller -> the address it is dialling
  dials,          \* connections created so far (connection ids)
  got,            \* history: every [caller, arg, conn] a call returned
  callsLeft

vars == <<cfgAddr, defaultClient, mu, pc, arg, target, dials, got, callsLeft>>

Conns == [id : 1..MaxCalls, addr : Addrs \cup {Fallback}]

\* Mutation: lines 30-32 missing, no fallback address.
DialAddressNoFallback(a, configured) == IF a # Empty THEN a ELSE configured

\* Lines 26-32: the explicit address, else the configured one, else the
\* fallback.
DialAddress(a, configured) ==
  CASE a # Empty          -> a
    [] configured # Empty -> configured
    [] OTHER              -> Fallback

Call(c) ==
  /\ pc[c] = "idle"
  /\ callsLeft > 0
  /\ \E a \in Addrs \cup {Empty} : arg' = [arg EXCEPT ![c] = a]
  /\ pc' = [pc EXCEPT ![c] = "lock"]
  /\ callsLeft' = callsLeft - 1
  /\ UNCHANGED <<cfgAddr, defaultClient, mu, target, dials, got>>

Lock(c) ==
  /\ pc[c] = "lock"
  /\ mu = NoOne
  /\ mu' = c
  /\ pc' = [pc EXCEPT ![c] = "check"]
  /\ UNCHANGED <<cfgAddr, defaultClient, arg, target, dials, got, callsLeft>>

Return(c, conn) ==
  /\ got' = got \cup {[caller |-> c, arg |-> arg[c], conn |-> conn]}
  /\ mu' = NoOne
  /\ pc' = [pc EXCEPT ![c] = "idle"]

\* Mutation: line 23 tests only defaultClient != nil.
CheckCacheIgnoringArg(c) ==
  /\ pc[c] = "check"
  /\ \/ /\ defaultClient # Nil
        /\ Return(c, defaultClient)
        /\ UNCHANGED target
     \/ /\ defaultClient = Nil
        /\ target' = [target EXCEPT ![c] = DialAddress(arg[c], cfgAddr)]
        /\ pc' = [pc EXCEPT ![c] = "dial"]
        /\ UNCHANGED <<mu, got>>
  /\ UNCHANGED <<cfgAddr, defaultClient, arg, dials, callsLeft>>

\* Lines 23-32: return the cached default, or settle the dial address.
CheckCache(c) ==
  /\ pc[c] = "check"
  /\ \/ /\ arg[c] = Empty /\ defaultClient # Nil
        /\ Return(c, defaultClient)
        /\ UNCHANGED target
     \/ /\ ~(arg[c] = Empty /\ defaultClient # Nil)
        /\ target' = [target EXCEPT ![c] = DialAddress(arg[c], cfgAddr)]
        /\ pc' = [pc EXCEPT ![c] = "dial"]
        /\ UNCHANGED <<mu, got>>
  /\ UNCHANGED <<cfgAddr, defaultClient, arg, dials, callsLeft>>

\* Mutation: mu.Unlock() not deferred, so the error return keeps mu.
DialLeakingLockOnError(c) ==
  /\ pc[c] = "dial"
  /\ \/ /\ got' = got \cup {[caller |-> c, arg |-> arg[c], conn |-> Nil]}
        /\ pc' = [pc EXCEPT ![c] = "idle"]
        /\ UNCHANGED <<defaultClient, dials, mu>>
     \/ LET conn == [id |-> dials + 1, addr |-> target[c]] IN
          /\ dials' = dials + 1
          /\ defaultClient' = IF arg[c] = Empty THEN conn ELSE defaultClient
          /\ Return(c, conn)
  /\ UNCHANGED <<cfgAddr, arg, target, callsLeft>>

Dial(c) ==
  /\ pc[c] = "dial"
  /\ \/ /\ Return(c, Nil)
        /\ UNCHANGED <<defaultClient, dials>>
     \/ LET conn == [id |-> dials + 1, addr |-> target[c]] IN
          /\ dials' = dials + 1
          /\ defaultClient' = IF arg[c] = Empty THEN conn ELSE defaultClient
          /\ Return(c, conn)
  /\ UNCHANGED <<cfgAddr, arg, target, callsLeft>>

\* testnode.ModifyParaClient: rewrites the configured address of the para
\* consensus sub-config.
ModifyParaClient ==
  /\ \E a \in Addrs : cfgAddr' = a
  /\ UNCHANGED <<defaultClient, mu, pc, arg, target, dials, got, callsLeft>>

Init ==
  /\ cfgAddr \in Addrs \cup {Empty}
  /\ defaultClient = Nil
  /\ mu = NoOne
  /\ pc = [c \in Callers |-> "idle"]
  /\ arg = [c \in Callers |-> Empty]
  /\ target = [c \in Callers |-> Fallback]
  /\ dials = 0
  /\ got = {}
  /\ callsLeft = MaxCalls

Next ==
  \/ \E c \in Callers : Call(c) \/ Lock(c) \/ CheckCache(c) \/ Dial(c)
  \/ ModifyParaClient

\* mu is a sync.Mutex, whose starvation mode hands the lock to a waiter
\* that keeps failing to get it: strong fairness for Lock; a goroutine
\* holding mu runs on (weak fairness).
Fairness ==
  \A c \in Callers :
    /\ SF_vars(Lock(c))
    /\ WF_vars(CheckCache(c))
    /\ WF_vars(Dial(c))

Spec == Init /\ [][Next]_vars /\ Fairness

(***************************************************************************)
(* Properties                                                              *)
(***************************************************************************)

TypeOK ==
  /\ cfgAddr \in Addrs \cup {Empty}
  /\ defaultClient \in Conns \cup {Nil}
  /\ mu \in Callers \cup {NoOne}
  /\ pc \in [Callers -> {"idle", "lock", "check", "dial"}]
  /\ arg \in [Callers -> Addrs \cup {Empty}]
  /\ dials \in 0..MaxCalls
  /\ got \subseteq [caller : Callers, arg : Addrs \cup {Empty}, conn : Conns \cup {Nil}]

ExplicitAddressHonoured ==
  \A g \in got : g.arg # Empty /\ g.conn # Nil => g.conn.addr = g.arg

\* Every call returns: no caller waits on mu forever.
CallsReturn == \A c \in Callers : pc[c] # "idle" ~> pc[c] = "idle"

=============================================================================
