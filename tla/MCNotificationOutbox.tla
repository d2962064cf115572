------------------------ MODULE MCNotificationOutbox ------------------------
(* Small instances of NotificationOutbox for TLC. *)
EXTENDS NotificationOutbox, TLC

CONSTANTS w1, w2, i1, i2

\* Workers are interchangeable, and so are intents: Init gives them every
\* combination of purposes.
Symmetry == Permutations(Worker) \cup Permutations(Intent)
=============================================================================
