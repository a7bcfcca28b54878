------------------------------ MODULE TestNodeTx ------------------------------
(***************************************************************************)
(* The transaction path of the test node (util/testnode/testnode.go):     *)
(* test goroutines send transactions with SendTx, SendTxRPC, SendAndSign  *)
(* or SendHot, and wait for them with Wait, WaitTx and WaitHeight, while  *)
(* the node's consensus packs the mempool into blocks.                    *)
(*                                                                         *)
(* The hash of the last transaction sent is kept in mock.lastsend, a Go   *)
(* slice.  SetLastSend writes it under mock.mu; SendTxRPC writes it and   *)
(* Wait reads it (twice) without mu.  A slice header is two words (data   *)
(* pointer and length) written by separate stores, so an unsynchronised   *)
(* read can see one word of the new header and one of the old: each      *)
(* write of lastsend is two steps, the two halves in either order.        *)
(* A header with a nil pointer compares equal to nil; a header with a     *)
(* pointer and length 0 is an empty, non-nil hash.                        *)
(*                                                                         *)
(* The mempool is the "timeline" driver (system/mempool/timeline): a FIFO *)
(* queue of PoolCacheSize transactions; a full queue rejects a send.  A   *)
(* block takes a prefix of the queue.                                     *)
(***************************************************************************)
EXTENDS Integers, Sequences, SequencesExt, FiniteSets

CONSTANTS
  Goroutines,        \* test goroutines using the mock node
  Txs,               \* distinct transactions (a transaction is its hash)
  CfgPoolCacheSize,  \* types.Mempool.PoolCacheSize
  SubPoolCacheSize,  \* the timeline sub-config's PoolCacheSize (0: unset)
  HashLen,           \* length of a transaction hash
  MaxHeight,         \* largest height WaitHeight is asked for
  MaxOps,            \* bound on the number of calls the goroutines make
  Nil, NoOne

ASSUME Nil \notin Txs /\ HashLen > 0

VARIABLES
  mempool,   \* the timeline queue, oldest first
  chain,     \* transactions packed into blocks
  height,    \* height of the last block
  lastsend,  \* mock.lastsend: [ptr, len]
  mu,        \* goroutine holding mock.mu, or NoOne
  pc,        \* goroutine -> where it is
  wval,      \* goroutine -> the hash it is writing into lastsend
  hash,      \* goroutine -> the hash WaitTx polls for
  target,    \* goroutine -> the height WaitHeight waits for
  then,      \* goroutine -> what follows SetLastSend: return, or Wait (SendHot)
  unsent,    \* transactions not yet sent
  accepted,  \* history: transactions the mempool accepted
  covered,   \* history: accepted before the last completed write of lastsend
  opsLeft

vars == <<mempool, chain, height, lastsend, mu, pc, wval, hash, target, then,
          unsent, accepted, covered, opsLeft>>

NilSlice == [ptr |-> Nil, len |-> 0]
Slice(tx) == [ptr |-> tx, len |-> HashLen]
Headers == [ptr : Txs \cup {Nil}, len : {0, HashLen}]

\* timeline.New lines 21-23: the sub-config's size, else the mempool's.
PoolCacheSize ==
  IF SubPoolCacheSize = 0 THEN CfgPoolCacheSize ELSE SubPoolCacheSize

\* Mutation: the fullness test is off by one.
SubmitOffByOne(tx) ==
  /\ unsent' = unsent \ {tx}
  /\ IF Len(mempool) <= PoolCacheSize
       THEN /\ mempool' = Append(mempool, tx)
            /\ accepted' = accepted \cup {tx}
       ELSE UNCHANGED <<mempool, accepted>>

\* api.SendTx: the queue accepts tx unless it is full.
Submit(tx) ==
  /\ unsent' = unsent \ {tx}
  /\ IF Len(mempool) < PoolCacheSize
       THEN /\ mempool' = Append(mempool, tx)
            /\ accepted' = accepted \cup {tx}
       ELSE UNCHANGED <<mempool, accepted>>

Accepted(tx) == Len(mempool) < PoolCacheSize

Begin(g) ==
  /\ pc[g] = "idle"
  /\ opsLeft > 0
  /\ opsLeft' = opsLeft - 1

\* Mutation: the hash is recorded whatever the mempool answered.
SendTxIgnoringReply(g) ==
  /\ Begin(g)
  /\ \E tx \in unsent, hot \in {"return", "wait"} :
       /\ Submit(tx)
       /\ wval' = [wval EXCEPT ![g] = tx]
       /\ then' = [then EXCEPT ![g] = hot]
       /\ pc' = [pc EXCEPT ![g] = "lock"]
  /\ UNCHANGED <<chain, height, lastsend, mu, hash, target, covered>>

\* SendTx (lines 394-402), and SendHot (386-392) when followed by Wait:
\* a rejected transaction panics the goroutine; an accepted one goes on
\* to SetLastSend with the hash of the reply.
SendTx(g) ==
  /\ Begin(g)
  /\ \E tx \in unsent, hot \in {"return", "wait"} :
       /\ Submit(tx)
       /\ wval' = [wval EXCEPT ![g] = tx]
       /\ then' = [then EXCEPT ![g] = hot]
       /\ pc' = [pc EXCEPT ![g] = IF Accepted(tx) THEN "lock" ELSE "panicked"]
  /\ UNCHANGED <<chain, height, lastsend, mu, hash, target, covered>>

\* SendTxRPC (lines 411-425): the same send through the JSON-RPC server,
\* then lastsend written without mu.
SendTxRPC(g) ==
  /\ Begin(g)
  /\ \E tx \in unsent :
       /\ Submit(tx)
       /\ wval' = [wval EXCEPT ![g] = tx]
       /\ then' = [then EXCEPT ![g] = "return"]
       /\ pc' = [pc EXCEPT ![g] = IF Accepted(tx) THEN "write1" ELSE "panicked"]
  /\ UNCHANGED <<chain, height, lastsend, mu, hash, target, covered>>

\* SendAndSign (lines 229-246) and SendAndSignNonce (249-269, the same with
\* the nonce and chain id set): the error is returned, lastsend untouched.
SendAndSign(g) ==
  /\ Begin(g)
  /\ \E tx \in unsent : Submit(tx)
  /\ UNCHANGED <<chain, height, lastsend, mu, pc, wval, hash, target, then,
                 covered>>

\* SetLastSend line 405: mu.Lock().
LockMu(g) ==
  /\ pc[g] = "lock"
  /\ mu = NoOne
  /\ mu' = g
  /\ pc' = [pc EXCEPT ![g] = "write1"]
  /\ UNCHANGED <<mempool, chain, height, lastsend, wval, hash, target, then,
                 unsent, accepted, covered, opsLeft>>

\* mock.lastsend = hash (lines 406 and 422), first store: the pointer
\* word or the length word.
WriteFirst(g) ==
  /\ pc[g] = "write1"
  /\ \/ lastsend' = [lastsend EXCEPT !.ptr = wval[g]]
     \/ lastsend' = [lastsend EXCEPT !.len = HashLen]
  /\ pc' = [pc EXCEPT ![g] = "write2"]
  /\ UNCHANGED <<mempool, chain, height, mu, wval, hash, target, then,
                 unsent, accepted, covered, opsLeft>>

\* Second store; SetLastSend then unlocks mu (line 407).  SendHot goes on
\* to Wait.
WriteSecond(g) ==
  /\ pc[g] = "write2"
  /\ lastsend' = Slice(wval[g])
  /\ covered' = accepted
  /\ mu' = IF mu = g THEN NoOne ELSE mu
  /\ pc' = [pc EXCEPT ![g] = IF then[g] = "wait" THEN "wait" ELSE "idle"]
  /\ UNCHANGED <<mempool, chain, height, wval, hash, target, then,
                 unsent, accepted, opsLeft>>

\* A call of Wait by the test.
CallWait(g) ==
  /\ Begin(g)
  /\ pc' = [pc EXCEPT ![g] = "wait"]
  /\ UNCHANGED <<mempool, chain, height, lastsend, mu, wval, hash, target,
                 then, unsent, accepted, covered>>

\* Wait line 428: the first read of lastsend, compared with nil.
WaitCheck(g) ==
  /\ pc[g] = "wait"
  /\ pc' = [pc EXCEPT ![g] = IF lastsend.ptr = Nil THEN "idle" ELSE "reread"]
  /\ UNCHANGED <<mempool, chain, height, lastsend, mu, wval, hash, target,
                 then, unsent, accepted, covered, opsLeft>>

\* Wait line 431 reads lastsend again and calls WaitTx, which returns at
\* once for a nil hash (lines 366-368).
WaitRead(g) ==
  /\ pc[g] = "reread"
  /\ hash' = [hash EXCEPT ![g] = lastsend]
  /\ pc' = [pc EXCEPT ![g] = IF lastsend.ptr = Nil THEN "idle" ELSE "waittx"]
  /\ UNCHANGED <<mempool, chain, height, lastsend, mu, wval, target,
                 then, unsent, accepted, covered, opsLeft>>

\* QueryTx finds the transaction of a full hash once it is in a block.
Found(h) == h.len = HashLen /\ h.ptr \in chain

\* WaitTx lines 369-382: QueryTx is retried every 100ms while it fails;
\* once it succeeds, the JSON-RPC query is made and WaitTx returns.
WaitTxPoll(g) ==
  /\ pc[g] = "waittx"
  /\ Found(hash[g])
  /\ pc' = [pc EXCEPT ![g] = "idle"]
  /\ UNCHANGED <<mempool, chain, height, lastsend, mu, wval, hash, target,
                 then, unsent, accepted, covered, opsLeft>>

\* WaitHeight (lines 350-362): polls the last header until it reaches the
\* height asked for.
CallWaitHeight(g) ==
  /\ Begin(g)
  /\ \E h \in 1..MaxHeight : target' = [target EXCEPT ![g] = h]
  /\ pc' = [pc EXCEPT ![g] = "waitheight"]
  /\ UNCHANGED <<mempool, chain, height, lastsend, mu, wval, hash, then,
                 unsent, accepted, covered>>

\* Mutation: the loop breaks only once the header is past the height.
WaitHeightPollStrict(g) ==
  /\ pc[g] = "waitheight"
  /\ height > target[g]
  /\ pc' = [pc EXCEPT ![g] = "idle"]
  /\ UNCHANGED <<mempool, chain, height, lastsend, mu, wval, hash, target,
                 then, unsent, accepted, covered, opsLeft>>

WaitHeightPoll(g) ==
  /\ pc[g] = "waitheight"
  /\ height >= target[g]
  /\ pc' = [pc EXCEPT ![g] = "idle"]
  /\ UNCHANGED <<mempool, chain, height, lastsend, mu, wval, hash, target,
                 then, unsent, accepted, covered, opsLeft>>

\* Mutation: a block takes any transactions of the queue (a priority
\* queue in place of the FIFO SimpleQueue).
NewBlockAnyOrder ==
  /\ mempool # <<>>
  /\ \E k \in 1..Len(mempool) :
       /\ chain' = chain \cup {mempool[k]}
       /\ mempool' = RemoveAt(mempool, k)
  /\ height' = height + 1
  /\ UNCHANGED <<lastsend, mu, pc, wval, hash, target, then, unsent,
                 accepted, covered, opsLeft>>

\* Consensus packs a block from the timeline queue (timeline.New line 30:
\* a SimpleQueue, FIFO): a non-empty prefix of the queue.
NewBlock ==
  /\ mempool # <<>>
  /\ \E k \in 1..Len(mempool) :
       /\ chain' = chain \cup ToSet(SubSeq(mempool, 1, k))
       /\ mempool' = SubSeq(mempool, k + 1, Len(mempool))
  /\ height' = height + 1
  /\ UNCHANGED <<lastsend, mu, pc, wval, hash, target, then, unsent,
                 accepted, covered, opsLeft>>

Init ==
  /\ mempool = <<>>
  /\ chain = {}
  /\ height = 0
  /\ lastsend = NilSlice
  /\ mu = NoOne
  /\ pc = [g \in Goroutines |-> "idle"]
  /\ wval = [g \in Goroutines |-> Nil]
  /\ hash = [g \in Goroutines |-> NilSlice]
  /\ target = [g \in Goroutines |-> 0]
  /\ then = [g \in Goroutines |-> "return"]
  /\ unsent = Txs
  /\ accepted = {}
  /\ covered = {}
  /\ opsLeft = MaxOps

Step(g) ==
  \/ SendTx(g) \/ SendTxRPC(g) \/ SendAndSign(g)
  \/ LockMu(g) \/ WriteFirst(g) \/ WriteSecond(g)
  \/ CallWait(g) \/ WaitCheck(g) \/ WaitRead(g) \/ WaitTxPoll(g)
  \/ CallWaitHeight(g) \/ WaitHeightPoll(g)

Next == NewBlock \/ \E g \in Goroutines : Step(g)

\* The consensus loop keeps packing; a goroutine keeps running, and gets
\* mu when it keeps asking (sync.Mutex starvation mode); the wait loops
\* poll every 100ms.
Fairness ==
  /\ WF_vars(NewBlock)
  /\ \A g \in Goroutines :
       /\ SF_vars(LockMu(g))
       /\ WF_vars(WriteFirst(g) \/ WriteSecond(g) \/ WaitCheck(g) \/ WaitRead(g))
       /\ WF_vars(WaitTxPoll(g))
       /\ WF_vars(WaitHeightPoll(g))

Spec == Init /\ [][Next]_vars /\ Fairness

(***************************************************************************)
(* Properties                                                              *)
(***************************************************************************)

TypeOK ==
  /\ mempool \in Seq(Txs) /\ Len(mempool) <= PoolCacheSize
  /\ chain \subseteq Txs
  /\ lastsend \in Headers
  /\ mu \in Goroutines \cup {NoOne}
  /\ pc \in [Goroutines -> {"idle", "lock", "write1", "write2", "wait",
                            "reread", "waittx", "waitheight", "panicked"}]
  /\ hash \in [Goroutines -> Headers]
  /\ covered \subseteq accepted /\ accepted \subseteq Txs

\* WaitTx is only ever left polling for the full hash of a transaction the
\* mempool accepted: Wait never hands WaitTx a hash nobody sent, which
\* QueryTx would never find.
WaitOnlyForSentTx ==
  \A g \in Goroutines :
    pc[g] = "waittx" => hash[g].len = HashLen /\ hash[g].ptr \in accepted

\* When Wait returns, every transaction accepted before the last write of
\* lastsend is in a block: Wait waits for all earlier sends, not only the
\* last one.
WaitCoversEarlierSends ==
  [][\A g \in Goroutines :
       pc[g] \in {"wait", "reread", "waittx"} /\ pc'[g] = "idle"
         => covered \subseteq chain']_vars

\* Every Wait returns.
WaitReturns ==
  \A g \in Goroutines : pc[g] \in {"wait", "reread", "waittx"} ~> pc[g] = "idle"

\* WaitHeight, which has no timeout, returns when it waits for at most
\* the next block and a transaction is pending in the mempool: consensus
\* may pack all pending transactions into that one block, so no more than
\* one block can be counted on.
WaitHeightNextBlock ==
  \A g \in Goroutines :
    pc[g] = "waitheight" /\ target[g] <= height + 1 /\ mempool # <<>>
      ~> pc[g] = "idle"

=============================================================================
