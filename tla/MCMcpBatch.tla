----------------------------- MODULE MCMcpBatch -----------------------------
(* Instances of McpBatch for TLC. *)
EXTENDS McpBatch

CONSTANTS w1, w2
=============================================================================
