----------------------------- MODULE MC_P2PQuery -----------------------------
EXTENDS P2PQuery

CONSTANTS h1, h2

MCHandlers == {h1, h2}

=============================================================================
