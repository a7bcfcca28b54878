--------------------------- MODULE CryptoActivation ---------------------------
(***************************************************************************)
(* The activation table of the crypto registry (spec.md 4.3): what the    *)
(* table installed by Init for one configuration is, and how IsEnable     *)
(* answers from a table.  Shared by the registry's abstract specification *)
(* and by the test nodes, which each call Init with their configuration.  *)
(* A configuration is a record: the names of EnableTypes, the heights of  *)
(* EnableHeight, and the raw sub-configurations.                          *)
(***************************************************************************)
EXTENDS Integers

CONSTANTS
  Names,      \* the driver names
  DefaultOn,  \* names enabled when the configuration leaves them out
  Never       \* the table's entry for a name that is never enabled

\* The height from which the configuration cfg enables name n: an entry of
\* EnableHeight wins; otherwise default-on and EnableTypes names are on
\* from height 0; every other name is never enabled.
ActivationHeight(cfg, n) ==
  CASE n \in DOMAIN cfg.heights        -> cfg.heights[n]
    [] n \in DefaultOn \cup cfg.enabled -> 0
    [] OTHER                           -> Never

Activation(cfg) == [n \in Names |-> ActivationHeight(cfg, n)]

\* IsEnable(name, height) against the table t.
EnabledIn(t, n, h) == t[n] # Never /\ h >= t[n]

=============================================================================
