------------------------------- MODULE MCTianshu -------------------------------
(* The task service of MinerU with two jobs of different priority.           *)
EXTENDS Tianshu, TLC

CONSTANTS low, high
MCPriority == (low :> 0) @@ (high :> 1)
=============================================================================
