---------------------------- MODULE MCAgentReply ----------------------------
(* Small instances of AgentReply for TLC. *)
EXTENDS AgentReply, TLC

CONSTANTS w1, w2, w3, t1, t2

WorkerSymmetry == Permutations(Worker)
=============================================================================
