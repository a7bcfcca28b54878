---------------------------- MODULE MC_TestNodeTx ----------------------------
EXTENDS TestNodeTx, TLC

CONSTANTS g1, g2, t1, t2, t3

MCGoroutines == {g1}
MCGoroutinesRacing == {g1, g2}
MCTxs == {t1, t2, t3}

=============================================================================
