--------------------------- MODULE MCWebhookQueue ---------------------------
(* Small instances of WebhookQueue for TLC. *)
EXTENDS WebhookQueue, TLC

CONSTANTS w1, w2, w3, c1, c2, c3, m1, m2

\* Every claim is a delivery of one provider message.
SameMessage == [c \in Claim |-> m1]
AllMessages == [c \in Claim |-> "message"]

\* c1 is a message of its own; the others are other deliveries.
OwnMessages == [c \in Claim |-> IF c = c1 THEN m1 ELSE m2]

\* A message, and a raw that is no envelope.
MessageAndJunk == c1 :> "message" @@ c2 :> "malformed"

WorkerSymmetry == Permutations(Worker)
BothSymmetry == Permutations(Worker) \cup Permutations(Claim)
=============================================================================
