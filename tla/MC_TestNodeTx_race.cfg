\* Two test goroutines: one sends while the other waits.
CONSTANTS
  g1 = g1  g2 = g2  t1 = t1  t2 = t2  t3 = t3
  Goroutines <- MCGoroutinesRacing
  Txs <- MCTxs
  CfgPoolCacheSize = 2
  SubPoolCacheSize = 0
  HashLen = 32
  MaxHeight = 1
  MaxOps = 3
  Nil = Nil
  NoOne = NoOne
SPECIFICATION Spec
INVARIANTS WaitOnlyForSentTx
CHECK_DEADLOCK FALSE
