---------------------------- MODULE MCNodeChain -----------------------------
(* Every wiring of a few nodes, chains longer than the bound among them.   *)
EXTENDS NodeChain
=============================================================================
