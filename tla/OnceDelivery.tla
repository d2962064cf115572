---------------------------- MODULE OnceDelivery ----------------------------
(***************************************************************************)
(* What the senders of this system promise about an external effect they   *)
(* cannot make exactly once: it happens at most once, a record that says   *)
(* it happened or did not happen is true, and a doubtful one is never      *)
(* tried again.  AgentReply, BroadcastDelivery and NotificationOutbox      *)
(* implement it.                                                           *)
(***************************************************************************)
EXTENDS Naturals

CONSTANT Item  \* the effects to be made, each once

VARIABLES
    phase,  \* what the ledger says of each item
    taken   \* how often the outside world really took it

vars == <<phase, taken>>

Phase == {"absent", "waiting", "sending", "accepted", "unknown", "refused"}

Init ==
    /\ phase = [i \in Item |-> "absent"]
    /\ taken = [i \in Item |-> 0]

\* The ledger's entry moves; the world does not.
Move(i, from, to) ==
    /\ phase[i] \in from /\ phase'[i] = to
    /\ taken'[i] = taken[i]

\* An intent is recorded, perhaps as one that will not be carried out.
Record(i) == Move(i, {"absent"}, "waiting") \/ Move(i, {"absent"}, "refused")

Begin(i) == Move(i, {"waiting"}, "sending")

\* Only an effect that did not happen is tried again or given up.
Withdraw(i) == taken[i] = 0 /\ Move(i, {"sending"}, "waiting")
Refuse(i) == taken[i] = 0 /\ Move(i, {"waiting", "sending"}, "refused")

\* Only an effect that happened is recorded as accepted.
Accept(i) == taken[i] = 1 /\ Move(i, {"sending"}, "accepted")

\* A doubtful attempt is given up for good.
Doubt(i) == Move(i, {"sending"}, "unknown")

\* The world takes the effect, perhaps after the ledger gave the attempt up.
Take(i) ==
    /\ phase[i] \in {"sending", "unknown"} /\ phase'[i] = phase[i]
    /\ taken[i] = 0 /\ taken'[i] = 1

Step(i) == Record(i) \/ Begin(i) \/ Withdraw(i) \/ Refuse(i) \/ Accept(i)
           \/ Doubt(i) \/ Take(i)

\* One transaction may move several entries.
Next ==
    /\ phase' \in [Item -> Phase]
    /\ taken' \in [Item -> 0 .. 1]
    /\ \A i \in Item : Step(i) \/ UNCHANGED <<phase[i], taken[i]>>

Spec == Init /\ [][Next]_vars
=============================================================================
