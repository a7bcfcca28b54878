---------------------------- MODULE MC_NodeStartup ----------------------------
EXTENDS NodeStartup, TLC

MCModules == {"mem", "exec", "chain", "store", "cs", "rpc", "wallet", "p2p", "health"}
MCLoadFails == {"mem", "store", "cs"}

=============================================================================
