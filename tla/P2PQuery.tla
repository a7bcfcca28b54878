------------------------------- MODULE P2PQuery -------------------------------
(***************************************************************************)
(* P2PEnv.QueryModule (system/p2p/dht/protocol/protocol.go).  The p2p     *)
(* protocol handlers share one queue client; each query makes a message  *)
(* for another module (blockchain, mempool, ...), sends it with a reply  *)
(* expected, and waits for the reply at most 10 seconds.                 *)
(*                                                                         *)
(* The queue and the modules queried are outside the sources.  The other *)
(* module is the environment: it takes the messages in its channel in    *)
(* order and replies with data, replies with an error, or never replies.  *)
(* A reply is stored in the message's reply slot without blocking, and    *)
(* WaitTimeout returns it or times out.                                   *)
(***************************************************************************)
EXTENDS Integers, Sequences, FiniteSets

CONSTANTS
  Handlers,    \* goroutines of the p2p protocol calling QueryModule
  MaxMsgs,     \* bound on the messages created
  NoMsg

VARIABLES
  msgs,      \* message id -> [from, reply] (reply: "none", "data" or "error")
  inbox,     \* ids waiting in the queried module's channel
  pc,        \* handler -> "idle" or "wait"
  cur        \* handler -> the message it waits on

vars == <<msgs, inbox, pc, cur>>

NextId == Len(msgs) + 1

\* Lines 65-69: NewMessage, then Send(msg, true); a failed Send returns
\* its error at once and the handler is idle again.
Query(h) ==
  /\ pc[h] = "idle"
  /\ NextId <= MaxMsgs
  /\ msgs' = Append(msgs, [from |-> h, reply |-> "none"])
  /\ \/ /\ inbox' = Append(inbox, NextId)
        /\ cur' = [cur EXCEPT ![h] = NextId]
        /\ pc' = [pc EXCEPT ![h] = "wait"]
     \/ UNCHANGED <<inbox, cur, pc>>

\* The queried module takes the oldest message and replies with data,
\* replies with an error, or drops it.
Respond ==
  /\ inbox # <<>>
  /\ \E r \in {"data", "error", "none"} :
       msgs' = [msgs EXCEPT ![Head(inbox)].reply = r]
  /\ inbox' = Tail(inbox)
  /\ UNCHANGED <<pc, cur>>

\* Lines 70-74: WaitTimeout yields the reply; an error reply is returned
\* as the error, anything else as resp.Data.
Receive(h) ==
  /\ pc[h] = "wait"
  /\ msgs[cur[h]].reply # "none"
  /\ pc' = [pc EXCEPT ![h] = "idle"]
  /\ UNCHANGED <<msgs, inbox, cur>>

\* Mutation: WaitTimeout with no deadline.
TimeoutNever(h) == FALSE

\* Lines 70-72: after 10 seconds WaitTimeout returns ErrQueueTimeout.
Timeout(h) ==
  /\ pc[h] = "wait"
  /\ pc' = [pc EXCEPT ![h] = "idle"]
  /\ UNCHANGED <<msgs, inbox, cur>>

Init ==
  /\ msgs = <<>>
  /\ inbox = <<>>
  /\ pc = [h \in Handlers |-> "idle"]
  /\ cur = [h \in Handlers |-> NoMsg]

Next ==
  \/ Respond
  \/ \E h \in Handlers : Query(h) \/ Receive(h) \/ Timeout(h)

\* The timer of a waiting handler always fires unless the reply came
\* first; the queried module need not ever reply.
Spec ==
  /\ Init /\ [][Next]_vars
  /\ \A h \in Handlers : WF_vars(Receive(h)) /\ WF_vars(Timeout(h))

(***************************************************************************)
(* Properties                                                              *)
(***************************************************************************)

\* Every QueryModule call returns, whatever the queried module does with
\* the message, including never replying to it.
QueryReturns == \A h \in Handlers : pc[h] = "wait" ~> pc[h] = "idle"

=============================================================================
