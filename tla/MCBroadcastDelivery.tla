------------------------ MODULE MCBroadcastDelivery ------------------------
(* Small instances of BroadcastDelivery for TLC. *)
EXTENDS BroadcastDelivery, TLC

CONSTANTS w1, w2, b1, p1, p2

WorkerSymmetry == Permutations(Worker)
=============================================================================
