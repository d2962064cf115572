------------------------- MODULE BroadcastDelivery -------------------------
(***************************************************************************)
(* Scheduled and immediate WhatsApp broadcasts of one church: the panel    *)
(* route that creates them (routers/broadcasts.py), the ledger             *)
(* (services/broadcast_delivery.py), the worker and its shutdown gate      *)
(* (workers/broadcast_worker.py) and the classified results of             *)
(* services/evolution.py.                                                  *)
(*                                                                         *)
(* A database transaction is one step, except those that settle deliveries *)
(* and then count what is left of the execution: PostgreSQL runs them at   *)
(* READ COMMITTED, so two of them may both miss the other's last delivery. *)
(* They are two steps, the count and the commit, with their rows locked.   *)
(***************************************************************************)
EXTENDS Naturals, FiniteSets

CONSTANTS
    Worker,     \* broadcast workers; a restarted one is the same member
    Broadcast,  \* broadcasts, one per idempotency key
    Person,     \* the people of the audience, one phone each
    MaxSeq,     \* bound: occurrences materialised per broadcast
    MaxCrash,   \* bound: crashes
    Faults,     \* what the environment may do, see FaultKind
    NoDelivery

\* crash: a worker process dies and is restarted.  stall: a live worker
\* outlasts its lease.  db: a transaction fails.  stop: shutdown is
\* requested, or the heartbeat is lost.
FaultKind == {"crash", "stall", "db", "stop"}

Execution == Broadcast \X (1 .. MaxSeq)
Delivery == Execution \X Person
Of(e) == {d \in Delivery : d[1] = e}

ASSUME BroadcastAssumption ==
    /\ MaxSeq \in Nat \ {0}
    /\ MaxCrash \in Nat
    /\ Faults \subseteq FaultKind
    /\ NoDelivery \notin Delivery

VARIABLES
    repeats,   \* broadcasts.repeticao is not "once"
    status,    \* broadcasts.status, "none" before it exists
    slot,      \* broadcasts.proxima_execucao: null, in the future, or due
    seq,       \* occurrences materialised so far
    execution, \* broadcast_execucoes: absent, open, or finalizada_em set
    delivery,  \* broadcast_entregas.status
    holder,    \* claim_por of a delivery, {} or one worker
    lease,     \* lease_ate: whether it is still in the future
    eligible,  \* the person consents, is not archived and kept the phone
    online,    \* an official instance is connected
    pc,        \* where each worker is
    job,       \* the delivery it claimed
    outcome,   \* the result it is about to record
    write,     \* its open transaction: the rows it changed and their status
    close,     \* its open transaction: the executions it counted as done
    accepted,  \* history: requests the provider took, per delivery
    crashes    \* history: crashes so far

panel == <<repeats, status, slot, seq>>
ledger == <<execution, delivery, holder, lease>>
world == <<eligible, online>>
local == <<pc, job, outcome, write, close>>
history == <<accepted, crashes>>
vars == <<panel, ledger, world, local, history>>

-----------------------------------------------------------------------------
Work == {"pendente", "em_envio", "falhou_retentavel"}
Claimable == {"pendente", "falhou_retentavel"}
Settled == {"aceito", "falhou_permanente", "desconhecido", "suprimido"}

\* A result of send_text_classificado.
Outcome == Settled \cup {"falhou_retentavel"}

NoWrite == [d \in {} |-> "pendente"]

\* The type of every variable.
TypeOK ==
    /\ repeats \in [Broadcast -> BOOLEAN]
    /\ status \in [Broadcast -> {"none", "rascunho", "agendado", "enviado"}]
    /\ slot \in [Broadcast -> {"null", "future", "due"}]
    /\ seq \in [Broadcast -> 0 .. MaxSeq]
    /\ execution \in [Execution -> {"none", "open", "done"}]
    /\ delivery \in [Delivery -> {"none"} \cup Work \cup Settled]
    /\ holder \in [Delivery -> SUBSET Worker]
    /\ lease \in [Delivery -> BOOLEAN]
    /\ eligible \in [Person -> BOOLEAN]
    /\ online \in BOOLEAN
    /\ pc \in [Worker -> {"idle", "scan", "gate", "fence", "post", "record",
                          "commit", "reaping"}]
    /\ job \in [Worker -> Delivery \cup {NoDelivery}]
    /\ outcome \in [Worker -> Outcome]
    /\ \A w \in Worker : DOMAIN write[w] \subseteq Delivery
                         /\ \A d \in DOMAIN write[w] : write[w][d] \in Outcome
    /\ close \in [Worker -> SUBSET Execution]
    /\ accepted \in [Delivery -> 0 .. 2]
    /\ crashes \in 0 .. MaxCrash

Init ==
    /\ repeats = [b \in Broadcast |-> FALSE]
    /\ status = [b \in Broadcast |-> "none"]
    /\ slot = [b \in Broadcast |-> "null"]
    /\ seq = [b \in Broadcast |-> 0]
    /\ execution = [e \in Execution |-> "none"]
    /\ delivery = [d \in Delivery |-> "none"]
    /\ holder = [d \in Delivery |-> {}]
    /\ lease = [d \in Delivery |-> FALSE]
    /\ eligible \in [Person -> BOOLEAN]
    /\ online = TRUE
    /\ pc = [w \in Worker |-> "idle"]
    /\ job = [w \in Worker |-> NoDelivery]
    /\ outcome = [w \in Worker |-> "desconhecido"]
    /\ write = [w \in Worker |-> NoWrite]
    /\ close = [w \in Worker |-> {}]
    /\ accepted = [d \in Delivery |-> 0]
    /\ crashes = 0

-----------------------------------------------------------------------------
(* Helpers. *)
Goto(w, place) ==
    /\ pc' = [pc EXCEPT ![w] = place]
    /\ UNCHANGED <<job, outcome, write, close>>

\* Forget the claim and go on.
Leave(w, place) ==
    /\ pc' = [pc EXCEPT ![w] = place]
    /\ job' = [job EXCEPT ![w] = NoDelivery]
    /\ outcome' = [outcome EXCEPT ![w] = "desconhecido"]
    /\ write' = [write EXCEPT ![w] = NoWrite]
    /\ close' = [close EXCEPT ![w] = {}]

\* Rows another transaction has changed and not yet committed.
Locked == UNION {DOMAIN write[w] : w \in Worker}

\* What the ledger will say of d once this transaction commits.
After(changes, d) == IF d \in DOMAIN changes THEN changes[d] ELSE delivery[d]

\* Mutant: an attempt in flight is not counted as work.
Finished_InFlight(changes, e) == \A d \in Of(e) : After(changes, d) \notin Claimable

\* _finalize_execution_if_done: nothing left in the states of work.
Finished(changes, e) == \A d \in Of(e) : After(changes, d) \notin Work

\* Open a transaction that changes these rows and counts these executions.
Change(w, place, changes, counted) ==
    /\ pc' = [pc EXCEPT ![w] = place]
    /\ write' = [write EXCEPT ![w] = changes]
    /\ close' = [close EXCEPT ![w] = {e \in counted : Finished(changes, e)}]
    /\ UNCHANGED <<job, outcome>>

\* The executions in closed are finalised; a broadcast without a next
\* occurrence is then "enviado".
Finalise(closed) ==
    /\ execution' = [e \in Execution |->
            IF e \in closed /\ execution[e] = "open" THEN "done" ELSE execution[e]]
    /\ status' = [b \in Broadcast |->
            IF /\ \E e \in closed : e[1] = b
               /\ status[b] = "agendado" /\ slot[b] = "null"
            THEN "enviado" ELSE status[b]]

\* The audience of an occurrence, one delivery per person.
Audience == {p \in Person : eligible[p]}
Materialised(e) == [d \in Delivery |->
    IF d[1] = e /\ d[2] \in Audience THEN "pendente" ELSE delivery[d]]

-----------------------------------------------------------------------------
(* The panel. *)

\* create_broadcast, modo = "agora": the reviewed audience is stored at once.
\* A second POST with the key finds the first and changes nothing.
CreateNow(b) ==
    /\ status[b] = "none"
    /\ \/ /\ Audience = {}
          /\ status' = [status EXCEPT ![b] = "rascunho"]
          /\ UNCHANGED <<seq, execution, delivery>>
       \/ /\ Audience # {} /\ online
          /\ status' = [status EXCEPT ![b] = "agendado"]
          /\ seq' = [seq EXCEPT ![b] = 1]
          /\ execution' = [execution EXCEPT ![<<b, 1>>] = "open"]
          /\ delivery' = Materialised(<<b, 1>>)
    /\ UNCHANGED <<repeats, slot, holder, lease, world, local, history>>

\* create_broadcast, modo = "agendado".
Schedule(b) ==
    /\ status[b] = "none" /\ Audience # {}
    /\ status' = [status EXCEPT ![b] = "agendado"]
    /\ slot' = [slot EXCEPT ![b] = "future"]
    /\ repeats' \in {[repeats EXCEPT ![b] = r] : r \in BOOLEAN}
    /\ UNCHANGED <<seq, ledger, world, local, history>>

SlotDue(b) ==
    /\ slot[b] = "future"
    /\ slot' = [slot EXCEPT ![b] = "due"]
    /\ UNCHANGED <<repeats, status, seq, ledger, world, local, history>>

\* Opt-out, consent, archiving and phone changes, at any time.
ChangePerson(p) ==
    /\ eligible' = [eligible EXCEPT ![p] = ~@]
    /\ UNCHANGED <<panel, ledger, online, local, history>>

Reconnect ==
    /\ online' = ~online
    /\ UNCHANGED <<panel, ledger, eligible, local, history>>

-----------------------------------------------------------------------------
(* The worker's cycle: reap, materialise, dispatch. *)

\* Mutant: an orphaned attempt is put back instead of quarantined.
Reap_Retries(w) ==
    LET expired == {d \in Delivery \ Locked : delivery[d] = "em_envio" /\ ~lease[d]}
    IN  /\ pc[w] = "idle" /\ expired # {}
        /\ Change(w, "reaping", [d \in expired |-> "falhou_retentavel"],
                  {d[1] : d \in expired})
        /\ UNCHANGED <<panel, ledger, world, history>>

\* reap_orphaned_deliveries: every expired delivery is quarantined.
Reap(w) ==
    LET expired == {d \in Delivery \ Locked : delivery[d] = "em_envio" /\ ~lease[d]}
    IN  /\ pc[w] = "idle" /\ expired # {}
        /\ Change(w, "reaping", [d \in expired |-> "desconhecido"],
                  {d[1] : d \in expired})
        /\ UNCHANGED <<panel, ledger, world, history>>

\* _materialize_one.  The claim columns are set and cleared in the same
\* transaction, so no other session ever sees them set.
Materialise(w, b) ==
    /\ pc[w] = "idle"
    /\ status[b] = "agendado" /\ slot[b] = "due" /\ seq[b] < MaxSeq
    /\ LET e == <<b, seq[b] + 1>>
       IN  /\ seq' = [seq EXCEPT ![b] = @ + 1]
           /\ delivery' = Materialised(e)
           /\ execution' = [execution EXCEPT ![e] = IF Audience = {} THEN "done" ELSE "open"]
           /\ slot' = [slot EXCEPT ![b] = IF repeats[b] THEN "future" ELSE "null"]
           /\ status' = [status EXCEPT ![b] =
                            IF Audience = {} /\ ~repeats[b] THEN "enviado" ELSE @]
    /\ UNCHANGED <<repeats, holder, lease, world, local, history>>

\* _discover_delivery_tenants: the church has work in an open execution.
Discover(w) ==
    /\ pc[w] = "idle"
    /\ \E d \in Delivery : delivery[d] \in Claimable /\ execution[d[1]] = "open"
    /\ Goto(w, "scan")
    /\ UNCHANGED <<panel, ledger, world, history>>

\* _claim_next_delivery: a revalidated target and a lease.  A retry whose
\* next_attempt_at lies ahead is not taken, so every order of claims occurs.
Claim(w, d) ==
    /\ pc[w] = "scan"
    /\ delivery[d] \in Claimable /\ execution[d[1]] = "open" /\ d \notin Locked
    /\ \/ /\ ~eligible[d[2]]
          /\ Change(w, "commit", [x \in {d} |-> "suprimido"], {d[1]})
          /\ UNCHANGED <<delivery, holder, lease>>
       \/ /\ eligible[d[2]] /\ ~online
          /\ Goto(w, "idle")
          /\ UNCHANGED <<delivery, holder, lease>>
       \/ /\ eligible[d[2]] /\ online
          /\ delivery' = [delivery EXCEPT ![d] = "em_envio"]
          /\ holder' = [holder EXCEPT ![d] = {w}]
          /\ lease' = [lease EXCEPT ![d] = TRUE]
          /\ pc' = [pc EXCEPT ![w] = "gate"]
          /\ job' = [job EXCEPT ![w] = d]
          /\ UNCHANGED <<outcome, write, close>>
    /\ UNCHANGED <<panel, execution, world, history>>

\* Nothing to claim, or another claim has the rows locked: every execution
\* that is done is finalised, and the church is left alone for this cycle.
ClaimNothing(w) ==
    /\ pc[w] = "scan"
    /\ \/ \A d \in Delivery : delivery[d] = "pendente" => d \in Locked
       \/ \E v \in Worker \ {w} : pc[v] = "scan"
    /\ Finalise({e \in Execution : execution[e] = "open" /\ Finished(NoWrite, e)})
    /\ Goto(w, "idle")
    /\ UNCHANGED <<repeats, slot, seq, delivery, holder, lease, world, history>>

\* The loop ends: the batch limit, a failed claim, or a shutdown.
LeaveScan(w) ==
    /\ pc[w] = "scan" /\ Faults \cap {"stop", "db"} # {}
    /\ Goto(w, "idle")
    /\ UNCHANGED <<panel, ledger, world, history>>

\* _transport_gate and can_continue.  A cancelled claim is put back.
Gate(w) ==
    /\ pc[w] = "gate"
    /\ \/ Goto(w, "fence")
       \/ /\ "stop" \in Faults
          /\ pc' = [pc EXCEPT ![w] = "record"]
          /\ outcome' = [outcome EXCEPT ![w] = "falhou_retentavel"]
          /\ UNCHANGED <<job, write, close>>
    /\ UNCHANGED <<panel, ledger, world, history>>

\* The conditions under which a worker still owns its delivery.
Owns(w, d) == delivery[d] = "em_envio" /\ holder[d] = {w} /\ lease[d]

\* _renew_delivery_transport_fence; a lost or failed fence sends nothing.
Fence(w) ==
    /\ pc[w] = "fence" /\ job[w] \notin Locked
    /\ \/ Owns(w, job[w]) /\ Goto(w, "post")
       \/ ~Owns(w, job[w]) /\ Leave(w, "scan")
       \/ "db" \in Faults /\ Leave(w, "scan")
    /\ UNCHANGED <<panel, ledger, world, history>>

\* send_text_classificado.  Only a failure before the request is retryable;
\* a timeout or 5xx may hide that the provider took it.
Post(w) ==
    /\ pc[w] = "post"
    /\ pc' = [pc EXCEPT ![w] = "record"]
    /\ \E o \in Outcome, took \in BOOLEAN :
        /\ o = "aceito" => took
        /\ took => o \in {"aceito", "desconhecido"}
        /\ outcome' = [outcome EXCEPT ![w] = o]
        /\ accepted' = [accepted EXCEPT ![job[w]] = IF took THEN @ + 1 ELSE @]
    /\ UNCHANGED <<panel, ledger, world, job, write, close, crashes>>

\* Mutant: a result is recorded whoever holds the delivery by now.
Record_Late(w) ==
    /\ pc[w] = "record" /\ job[w] \notin Locked
    /\ \/ Change(w, "commit", [x \in {job[w]} |-> outcome[w]], {job[w][1]})
       \/ "db" \in Faults /\ Leave(w, "idle")
    /\ UNCHANGED <<panel, ledger, world, history>>

\* _record_delivery_result.  A late result is dropped; no classified result
\* consumes the retry budget, so a retryable one is always put back.
Record(w) ==
    /\ pc[w] = "record" /\ job[w] \notin Locked
    /\ \/ /\ Owns(w, job[w])
          /\ Change(w, "commit", [x \in {job[w]} |-> outcome[w]], {job[w][1]})
       \/ ~Owns(w, job[w]) /\ Leave(w, "scan")
       \/ "db" \in Faults /\ Leave(w, "idle")
    /\ UNCHANGED <<panel, ledger, world, history>>

\* The transaction commits, or fails and changes nothing.
Commit(w) ==
    /\ pc[w] \in {"commit", "reaping"}
    /\ \/ /\ delivery' = [d \in Delivery |-> After(write[w], d)]
          /\ holder' = [d \in Delivery |-> IF d \in DOMAIN write[w] THEN {} ELSE holder[d]]
          /\ lease' = [d \in Delivery |-> d \notin DOMAIN write[w] /\ lease[d]]
          /\ Finalise(close[w])
          /\ Leave(w, IF pc[w] = "commit" THEN "scan" ELSE "idle")
       \/ /\ "db" \in Faults
          /\ Leave(w, "idle")
          /\ UNCHANGED <<delivery, holder, lease, execution, status>>
    /\ UNCHANGED <<repeats, slot, seq, world, history>>

-----------------------------------------------------------------------------
(* The environment. *)

\* A process dies; PostgreSQL rolls its transaction back.  One that dies in
\* the provider call may have been heard.
Crash(w) ==
    /\ "crash" \in Faults /\ crashes < MaxCrash /\ pc[w] # "idle"
    /\ crashes' = crashes + 1
    /\ Leave(w, "idle")
    /\ \/ UNCHANGED accepted
       \/ pc[w] = "post" /\ accepted' = [accepted EXCEPT ![job[w]] = @ + 1]
    /\ UNCHANGED <<panel, ledger, world>>

\* Without a stall a lease outlives the worker that works under it.
LeaseExpires(d) ==
    /\ delivery[d] = "em_envio" /\ lease[d]
    /\ "stall" \in Faults \/ \A w \in Worker : job[w] # d
    /\ lease' = [lease EXCEPT ![d] = FALSE]
    /\ UNCHANGED <<panel, execution, delivery, holder, world, local, history>>

Panel == \E b \in Broadcast : CreateNow(b) \/ Schedule(b) \/ SlotDue(b)

Cycle(w) ==
    \/ Reap(w) \/ Discover(w) \/ ClaimNothing(w) \/ LeaveScan(w)
    \/ Gate(w) \/ Fence(w) \/ Post(w) \/ Record(w) \/ Commit(w)
    \/ \E b \in Broadcast : Materialise(w, b)
    \/ \E d \in Delivery : Claim(w, d)

Next ==
    \/ Panel
    \/ Reconnect
    \/ \E p \in Person : ChangePerson(p)
    \/ \E w \in Worker : Cycle(w) \/ Crash(w)
    \/ \E d \in Delivery : LeaseExpires(d)

Spec == Init /\ [][Next]_vars

-----------------------------------------------------------------------------
(* Properties. *)

\* A delivery as OnceDelivery sees it.
PhaseOf(s) ==
    CASE s = "none" -> "absent"
      [] s \in Claimable -> "waiting"
      [] s = "em_envio" -> "sending"
      [] s = "aceito" -> "accepted"
      [] s = "desconhecido" -> "unknown"
      [] OTHER -> "refused"

Once == INSTANCE OnceDelivery WITH
            Item <- Delivery,
            phase <- [d \in Delivery |-> PhaseOf(delivery[d])],
            taken <- accepted

\* Every delivery is sent at most once and its ledger entry is true, whatever
\* workers crash, stall or lose: aceito means the provider took it, suprimido
\* and falhou_permanente that it did not, desconhecido is never tried again.
DeliversAtMostOnce == Once!Spec

\* Two workers never hold the transport of one delivery: the fence of the
\* second would have to pass while the first may still post.
OneTransport ==
    \A v, w \in Worker :
        v # w /\ pc[v] = "post" /\ pc[w] = "post" => job[v] # job[w]

\* A finalised execution has no delivery left to do, and a broadcast called
\* enviado has no execution left open and no occurrence to come.
ClosedMeansSettled ==
    /\ \A e \in Execution : execution[e] = "done" =>
            \A d \in Of(e) : delivery[d] \notin Work
    /\ \A b \in Broadcast : status[b] = "enviado" =>
            /\ slot[b] = "null"
            /\ \A e \in Execution : e[1] = b => execution[e] # "open"
=============================================================================
