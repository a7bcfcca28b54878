\* One test goroutine driving the node, as the tests do.
CONSTANTS
  g1 = g1  g2 = g2  t1 = t1  t2 = t2  t3 = t3
  Goroutines <- MCGoroutines
  Txs <- MCTxs
  CfgPoolCacheSize = 2
  SubPoolCacheSize = 0
  HashLen = 32
  MaxHeight = 2
  MaxOps = 5
  Nil = Nil
  NoOne = NoOne
SPECIFICATION Spec
INVARIANTS TypeOK
PROPERTIES WaitCoversEarlierSends WaitReturns WaitHeightNextBlock
\* The goroutine finishes its calls; WaitHeight may outwait the chain.
CHECK_DEADLOCK FALSE
