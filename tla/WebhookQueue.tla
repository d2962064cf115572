---------------------------- MODULE WebhookQueue ----------------------------
(***************************************************************************)
(* The Redis queue that carries inbound WhatsApp webhooks to the worker    *)
(* processes (backend/app/workers/queue_worker.py): the ready list, one    *)
(* private processing list per worker, the scheduled retries, the dead     *)
(* letters, worker leases and the worker registry, the canonical retry     *)
(* state of every claim, and the idempotency marker of every provider      *)
(* message.  Each Redis command or Lua script is one atomic step, and so   *)
(* is each database transaction; everything else a worker does may be      *)
(* interleaved with the steps of every other worker.                       *)
(*                                                                         *)
(* The agent turn is one step with the outcomes run_agent_for_message can  *)
(* have; module AgentReply models its inside.                              *)
(***************************************************************************)
EXTENDS Naturals, FiniteSets

CONSTANTS
    Worker,       \* worker processes: run() draws a fresh id, never reused
    Claim,        \* claim ids, one per webhook delivery put on the queue
    Provider,     \* provider message ids; a redelivery repeats one
    ProviderOf,   \* the provider id inside a claim's payload
    Payload,      \* what a claim's payload turns out to be, see PayloadKind
    MaxAttempts,  \* MAX_ATTEMPTS
    Faults,       \* what the environment may do, see FaultKind
    NoWorker, NoRaw, Absent, Done

\* "message" is an inbound message; "echo" one the church sent, persisted but
\* never answered; "foreign" is parsed but dropped by the ingestion
\* (unregistered instance, the church's own number, a deleted event);
\* "ignored" parses to nothing; "malformed" is not even an envelope.
PayloadKind == {"message", "echo", "foreign", "ignored", "malformed"}

\* crash: a process dies between two steps.  stall: a live process outlives
\* its lease.  redis: a call times out, executed or not.  lua: a command
\* inside a script fails and the script stops half way.  db: an ingestion
\* transaction fails.  commit: it fails after PostgreSQL committed it.
\* agent: the turn raises.  ttl: an idempotency marker expires.  skew: a
\* worker's clock is behind the one that promoted a retry.
FaultKind == {"crash", "stall", "redis", "lua", "db", "commit", "agent", "ttl",
              "skew"}

ASSUME QueueAssumption ==
    /\ ProviderOf \in [Claim -> Provider]
    /\ Payload \in [Claim -> PayloadKind]
    /\ MaxAttempts \in Nat \ {0}
    /\ Faults \subseteq FaultKind
    /\ NoWorker \notin Worker
    /\ Absent \notin Claim /\ Done \notin Claim /\ Absent # Done
    /\ NoRaw \notin [claim : Claim, attempts : 0 .. MaxAttempts]

VARIABLES
    ready,         \* WEBHOOK_QUEUE: how many copies of each raw it holds
    processing,    \* PROCESSING_QUEUE:<worker>, the private lists
    scheduled,     \* SCHEDULED_RETRY_QUEUE
    dead,          \* DEAD_LETTER_QUEUE
    retry,         \* RETRY_STATE_PREFIX<claim>, the canonical retry state
    lease,         \* workers whose lease key exists
    registry,      \* WORKER_REGISTRY
    recoveryLock,  \* per owner, the worker draining its abandoned list
    marker,        \* PROCESSED_PREFIX<provider id>
    persisted,     \* provider ids with a committed messages row
    pc,            \* where each worker process is
    held,          \* the raw a worker is working on
    resumed,       \* workers whose ProcessingClaim is RESUMED
    unverified,    \* workers with _own_claims_unverified set
    target,        \* the owner a worker is recovering
    enqueued,      \* history: claims put on the queue
    acked,         \* history: claims acknowledged
    turns,         \* history: claims under which an agent turn was started
    answered       \* history: claims whose agent turn completed

lists == <<ready, processing, scheduled, dead>>
owners == <<lease, registry, recoveryLock>>
local == <<held, resumed, unverified, target>>
history == <<enqueued, acked, turns, answered>>
vars == <<lists, retry, owners, marker, persisted, pc, local, history>>

-----------------------------------------------------------------------------
(* The envelope as it lies in Redis.  transition_failed_claim is the only  *)
(* writer of a new one, under the same claim id with attempts + 1, so the  *)
(* two fields identify the JSON text.                                      *)
Raw == [claim : Claim, attempts : 0 .. MaxAttempts]

\* A hash that does not exist has status "none".
Status == {"none", "ready", "scheduled", "processing", "dead", "done"}
RetryState == [status : Status, attempts : 0 .. MaxAttempts,
               owner : Worker \cup {NoWorker}]
NoState == [status |-> "none", attempts |-> 0, owner |-> NoWorker]

Marker == Claim \cup {Absent, Done}

PC == {"off", "loop", "renewed", "recovering", "drained", "popped", "handle",
       "marker", "getmarker", "ingest", "commit", "release", "guard", "agent",
       "finish", "ack", "failed", "retryable", "exit", "gone"}

\* The raw the retry state of claim c calls canonical.
Canonical(c) == [claim |-> c, attempts |-> retry[c].attempts]

\* The type of every variable.
TypeOK ==
    /\ ready \in [Raw -> Nat]
    /\ processing \in [Worker -> SUBSET Raw]
    /\ scheduled \subseteq Raw
    /\ dead \subseteq Raw
    /\ retry \in [Claim -> RetryState]
    /\ lease \subseteq Worker
    /\ registry \subseteq Worker
    /\ recoveryLock \in [Worker -> Worker \cup {NoWorker}]
    /\ marker \in [Provider -> Marker]
    /\ persisted \subseteq Provider
    /\ pc \in [Worker -> PC]
    /\ held \in [Worker -> Raw \cup {NoRaw}]
    /\ resumed \subseteq Worker
    /\ unverified \subseteq Worker
    /\ target \in [Worker -> Worker \cup {NoWorker}]
    /\ enqueued \subseteq Claim
    /\ acked \subseteq Claim
    /\ turns \subseteq Claim
    /\ answered \subseteq Claim

Init ==
    /\ ready = [r \in Raw |-> 0]
    /\ processing = [w \in Worker |-> {}]
    /\ scheduled = {} /\ dead = {}
    /\ retry = [c \in Claim |-> NoState]
    /\ lease = {} /\ registry = {}
    /\ recoveryLock = [w \in Worker |-> NoWorker]
    /\ marker = [m \in Provider |-> Absent]
    /\ persisted = {}
    /\ pc = [w \in Worker |-> "off"]
    /\ held = [w \in Worker |-> NoRaw]
    /\ resumed = {}
    /\ unverified = {}
    /\ target = [w \in Worker |-> NoWorker]
    /\ enqueued = {} /\ acked = {} /\ turns = {} /\ answered = {}

-----------------------------------------------------------------------------
(* Helpers on the lists. *)
Push(r) == [ready EXCEPT ![r] = @ + 1]
PushIfAbsent(r) == IF ready[r] = 0 THEN Push(r) ELSE ready
Pop(r) == [ready EXCEPT ![r] = @ - 1]
Take(w, r) == [processing EXCEPT ![w] = @ \cup {r}]
Remove(w, r) == [processing EXCEPT ![w] = @ \ {r}]

Goto(w, place) == pc' = [pc EXCEPT ![w] = place]

ClaimOf(w) == held[w].claim
ProviderHeld(w) == ProviderOf[ClaimOf(w)]

\* The lease key holds the worker's id and its private list holds the raw.
HoldsRaw(w, r) == w \in lease /\ r \in processing[w]

\* _OWNS_CLAIM_SCRIPT, _FENCE_CLAIM_SCRIPT: a live lease, the raw in the
\* private list, and, once a retry state exists, its canonical owner.
Owns_AnyOwner(w, r) ==
    /\ HoldsRaw(w, r)
    /\ \/ retry[r.claim].status = "none"
       \/ /\ retry[r.claim].status = "processing"
          /\ retry[r.claim].attempts = r.attempts
Owns(w, r) ==
    /\ HoldsRaw(w, r)
    /\ \/ retry[r.claim].status = "none"
       \/ /\ retry[r.claim].status = "processing"
          /\ retry[r.claim].attempts = r.attempts
          /\ retry[r.claim].owner = w

\* What a worker forgets with the raw it worked on, and with its process.
Forget(w) ==
    /\ held' = [held EXCEPT ![w] = NoRaw]
    /\ resumed' = resumed \ {w}
ForgetAll(w) ==
    /\ Forget(w)
    /\ unverified' = unverified \ {w}
    /\ target' = [target EXCEPT ![w] = NoWorker]

\* A worker whose _running flag was cleared, or whose process ended with an
\* uncaught error, leaves through the finally block of run().
Leave(w) == Goto(w, "exit") /\ ForgetAll(w)

\* Back to the top of the loop, with the private list trusted or not.
NextClaim(w) == Goto(w, "loop") /\ Forget(w) /\ UNCHANGED <<unverified, target>>
NextUnverified(w) ==
    /\ Goto(w, "loop") /\ Forget(w)
    /\ unverified' = unverified \cup {w}
    /\ target' = [target EXCEPT ![w] = NoWorker]

-----------------------------------------------------------------------------
(* The webhook router and the life of a worker process. *)

\* WebhookQueue.enqueue, called by the webhook route for each delivery.
Enqueue(c) ==
    /\ c \notin enqueued
    /\ enqueued' = enqueued \cup {c}
    /\ ready' = Push([claim |-> c, attempts |-> 0])
    /\ UNCHANGED <<processing, scheduled, dead, retry, owners, marker,
                   persisted, pc, local, acked, turns, answered>>

\* register_worker; the list of a fresh id is empty.
Register(w) ==
    /\ pc[w] = "off"
    /\ lease' = lease \cup {w}
    /\ registry' = registry \cup {w}
    /\ Goto(w, "loop")
    /\ UNCHANGED <<lists, retry, recoveryLock, marker, persisted, local, history>>

\* SIGTERM or the heartbeat thread clears _running; the loop notices.
Shutdown(w) ==
    /\ pc[w] = "loop"
    /\ Leave(w)
    /\ UNCHANGED <<lists, retry, owners, marker, persisted, history>>

\* unregister_worker in the finally block: the lease goes, the registry
\* entry only when the private list is empty.  A transient error loses both
\* (or only the second: then the lease is gone as if it had expired).
Unregister_Always(w) ==
    /\ pc[w] = "exit"
    /\ Goto(w, "gone")
    /\ lease' = lease \ {w}
    /\ registry' = registry \ {w}
    /\ UNCHANGED <<lists, retry, recoveryLock, marker, persisted, local, history>>
Unregister(w) ==
    /\ pc[w] = "exit"
    /\ Goto(w, "gone")
    /\ \/ /\ lease' = lease \ {w}
          /\ registry' = IF processing[w] = {} THEN registry \ {w} ELSE registry
       \/ "redis" \in Faults /\ UNCHANGED <<lease, registry>>
    /\ UNCHANGED <<lists, retry, recoveryLock, marker, persisted, local, history>>

\* The process dies; nothing in Redis changes.
Crash(w) ==
    /\ "crash" \in Faults
    /\ pc[w] \notin {"off", "gone"}
    /\ Goto(w, "gone")
    /\ ForgetAll(w)
    /\ UNCHANGED <<lists, retry, owners, marker, persisted, history>>

\* The lease key expires.  The heartbeat renews it while the process runs,
\* so a live process loses it only in a stall.
LeaseExpires(w) ==
    /\ w \in lease
    /\ pc[w] = "gone" \/ "stall" \in Faults
    /\ lease' = lease \ {w}
    /\ UNCHANGED <<lists, retry, registry, recoveryLock, marker, persisted, pc,
                   local, history>>

RecoveryLockExpires(o) ==
    /\ recoveryLock[o] # NoWorker
    /\ pc[recoveryLock[o]] = "gone" \/ "stall" \in Faults
    /\ recoveryLock' = [recoveryLock EXCEPT ![o] = NoWorker]
    /\ UNCHANGED <<lists, retry, lease, registry, marker, persisted, pc, local,
                   history>>

\* PROCESSED_TTL_SECONDS ran out, or Redis lost the key.
MarkerExpires(m) ==
    /\ "ttl" \in Faults
    /\ marker[m] # Absent
    /\ marker' = [marker EXCEPT ![m] = Absent]
    /\ UNCHANGED <<lists, retry, owners, persisted, pc, local, history>>

-----------------------------------------------------------------------------
(* _claim_next: renew the lease, requeue unverified claims, recover the    *)
(* lists of dead workers, promote due retries, pop, reconcile.             *)

\* refresh_worker_lease, SET XX: never revives an expired lease.
RenewLease(w) ==
    /\ pc[w] = "loop"
    /\ \/ w \in lease /\ Goto(w, "renewed") /\ UNCHANGED local
       \/ w \notin lease /\ Leave(w)
    /\ UNCHANGED <<lists, retry, owners, marker, persisted, history>>

\* A call of _claim_next that did not execute: wait, then start over with
\* the private list unverified.
ClaimNextError(w) ==
    /\ "redis" \in Faults
    /\ \/ pc[w] \in {"loop", "renewed"}
       \/ pc[w] = "popped" /\ Payload[ClaimOf(w)] # "malformed"
    /\ NextUnverified(w)
    /\ UNCHANGED <<lists, retry, owners, marker, persisted, history>>

\* requeue_own_claims: one LMOVE per item, then the flag is cleared.
RequeueOwnClaims_Drop(w) ==
    /\ pc[w] = "renewed" /\ w \in unverified
    /\ \/ \E r \in processing[w] :
            /\ processing' = Remove(w, r)
            /\ UNCHANGED <<ready, unverified>>
       \/ /\ processing[w] = {}
          /\ unverified' = unverified \ {w}
          /\ UNCHANGED <<ready, processing>>
    /\ UNCHANGED <<scheduled, dead, retry, owners, marker, persisted, pc, held,
                   resumed, target, history>>
RequeueOwnClaims(w) ==
    /\ pc[w] = "renewed" /\ w \in unverified
    /\ \/ \E r \in processing[w] :
            /\ processing' = Remove(w, r)
            /\ ready' = Push(r)
            /\ UNCHANGED unverified
       \/ /\ processing[w] = {}
          /\ unverified' = unverified \ {w}
          /\ UNCHANGED <<ready, processing>>
    /\ UNCHANGED <<scheduled, dead, retry, owners, marker, persisted, pc, held,
                   resumed, target, history>>

\* recover_pending, one owner: its lease is gone and the lock is free.  An
\* expired lease never comes back, so the check after the lock repeats the
\* one before it.
BeginRecovery(w, o) ==
    /\ pc[w] = "renewed" /\ w \notin unverified
    /\ o \in registry /\ o # w
    /\ o \notin lease
    /\ recoveryLock[o] = NoWorker
    /\ recoveryLock' = [recoveryLock EXCEPT ![o] = w]
    /\ target' = [target EXCEPT ![w] = o]
    /\ Goto(w, "recovering")
    /\ UNCHANGED <<lists, retry, lease, registry, marker, persisted, held,
                   resumed, unverified, history>>

\* RPOPLPUSH until it returns nil.
DrainOne(w) ==
    /\ pc[w] = "recovering"
    /\ \/ \E r \in processing[target[w]] :
            /\ processing' = Remove(target[w], r)
            /\ ready' = Push(r)
            /\ UNCHANGED pc
       \/ /\ processing[target[w]] = {}
          /\ Goto(w, "drained")
          /\ UNCHANGED <<ready, processing>>
    /\ UNCHANGED <<scheduled, dead, retry, owners, marker, persisted, local, history>>

ReleaseLock(w) ==
    recoveryLock' = IF recoveryLock[target[w]] = w
                    THEN [recoveryLock EXCEPT ![target[w]] = NoWorker]
                    ELSE recoveryLock

\* SREM, then the lock goes by compare-and-delete.
EndRecovery(w) ==
    /\ pc[w] = "drained"
    /\ registry' = registry \ {target[w]}
    /\ ReleaseLock(w)
    /\ target' = [target EXCEPT ![w] = NoWorker]
    /\ Goto(w, "renewed")
    /\ UNCHANGED <<lists, retry, lease, marker, persisted, held, resumed,
                   unverified, history>>

\* A transient error inside recover_pending; its finally block releases the
\* lock unless that call is lost as well.
RecoveryError(w) ==
    /\ "redis" \in Faults
    /\ pc[w] \in {"recovering", "drained"}
    /\ ReleaseLock(w) \/ UNCHANGED recoveryLock
    /\ NextUnverified(w)
    /\ UNCHANGED <<lists, retry, lease, registry, marker, persisted, history>>

\* _MOVE_DUE_RETRIES_SCRIPT: a due member is copied before ZREM.  Deadlines
\* are real time: any scheduled retry may be the next to fall due.  A failed
\* LPUSH or ZREM ends the process; the latter leaves both copies.
PromoteDueRetry(w, r) ==
    /\ pc[w] = "renewed" /\ w \notin unverified
    /\ r \in scheduled
    /\ \/ /\ ready' = PushIfAbsent(r)
          /\ scheduled' = scheduled \ {r}
          /\ UNCHANGED <<pc, local>>
       \/ /\ "lua" \in Faults
          /\ ready' \in {ready, PushIfAbsent(r)}
          /\ Leave(w)
          /\ UNCHANGED scheduled
    /\ UNCHANGED <<processing, dead, retry, owners, marker, persisted, history>>

\* BRPOPLPUSH.  The reply may be lost after Redis moved the item.
PopReady(w, r) ==
    /\ pc[w] = "renewed" /\ w \notin unverified
    /\ ready[r] > 0
    /\ ready' = Pop(r)
    /\ processing' = Take(w, r)
    /\ \/ /\ Goto(w, "popped")
          /\ held' = [held EXCEPT ![w] = r]
          /\ UNCHANGED <<resumed, unverified, target>>
       \/ "redis" \in Faults /\ NextUnverified(w)
    /\ UNCHANGED <<scheduled, dead, retry, owners, marker, persisted, history>>

\* The block times out on an empty list.
PopNothing(w) ==
    /\ pc[w] = "renewed" /\ w \notin unverified
    /\ \A r \in Raw : ready[r] = 0
    /\ Goto(w, "loop")
    /\ UNCHANGED <<lists, retry, owners, marker, persisted, local, history>>

-----------------------------------------------------------------------------
(* _RECONCILE_RETRY_CLAIM_SCRIPT, on the raw just popped: the canonical    *)
(* retry state decides whether this copy may run.                          *)

OwnerLive(c) ==
    /\ retry[c].owner \in lease
    /\ Canonical(c) \in processing[retry[c].owner]

\* The script leaves everything as it is and the worker keeps the raw.
KeepsClaim(w, r) ==
    \/ ~HoldsRaw(w, r)
    \/ retry[r.claim].status = "none"
    \/ /\ retry[r.claim].status = "processing" /\ OwnerLive(r.claim)
       /\ Canonical(r.claim) = r /\ retry[r.claim].owner = w

\* The raw is canonical and nobody live owns it.
AdoptsClaim_Settled(w, r) ==
    /\ ~KeepsClaim(w, r)
    /\ Canonical(r.claim) = r
    /\ retry[r.claim].status = "processing" => ~OwnerLive(r.claim)
AdoptsClaim(w, r) ==
    /\ ~KeepsClaim(w, r)
    /\ Canonical(r.claim) = r
    /\ \/ retry[r.claim].status \in {"ready", "scheduled"}
       \/ retry[r.claim].status = "processing" /\ ~OwnerLive(r.claim)

\* A retry popped before its deadline on this worker's clock.
NotDue(w, r) ==
    /\ "skew" \in Faults
    /\ AdoptsClaim(w, r) /\ retry[r.claim].status = "scheduled"

\* The canonical raw goes back where its status says it belongs, unless a
\* copy is there already.  An expired owner's claim becomes ready again.
RestoreCanonical(c) ==
    LET canonical == Canonical(c)
        status == retry[c].status
        orphaned == status = "processing" /\ ~OwnerLive(c)
    IN  /\ ready' = IF status = "ready" \/ orphaned
                    THEN PushIfAbsent(canonical) ELSE ready
        /\ scheduled' = IF status = "scheduled" /\ ready[canonical] = 0
                        THEN scheduled \cup {canonical} ELSE scheduled
        /\ dead' = IF status = "dead" THEN dead \cup {canonical} ELSE dead

\* The retry state after that: only an orphaned claim changes.
Restored(c) ==
    IF retry[c].status = "processing" /\ ~OwnerLive(c)
    THEN [retry EXCEPT ![c].status = "ready", ![c].owner = NoWorker]
    ELSE retry

\* The script stopped after the status and before the owner.
HalfRestored(c) ==
    IF retry[c].status = "processing" /\ ~OwnerLive(c)
    THEN [retry EXCEPT ![c].status = "ready"]
    ELSE retry

Reconcile(w) ==
    /\ pc[w] = "popped" /\ Payload[ClaimOf(w)] # "malformed"
    /\ LET r == held[w]
           c == ClaimOf(w)
           adopted == [retry EXCEPT ![c].status = "processing", ![c].owner = w]
       IN \/ /\ KeepsClaim(w, r)
             /\ Goto(w, "handle")
             /\ UNCHANGED <<lists, retry, local>>
          \/ /\ AdoptsClaim(w, r)
             /\ retry' = adopted
             /\ \/ Goto(w, "handle") /\ UNCHANGED local
                \/ "redis" \in Faults /\ NextUnverified(w)
                \/ "lua" \in Faults /\ Leave(w)
             /\ UNCHANGED lists
          \/ /\ (~KeepsClaim(w, r) /\ ~AdoptsClaim(w, r)) \/ NotDue(w, r)
             /\ RestoreCanonical(c)
             /\ \/ /\ retry' = Restored(c)
                   /\ processing' = Remove(w, r)
                   /\ NextClaim(w) \/ ("redis" \in Faults /\ NextUnverified(w))
                \/ /\ "lua" \in Faults
                   /\ retry' \in {retry, HalfRestored(c), Restored(c)}
                   /\ Leave(w)
                   /\ UNCHANGED processing
          \/ /\ "lua" \in Faults /\ ~KeepsClaim(w, r)
             /\ Leave(w)
             /\ UNCHANGED <<lists, retry>>
    /\ UNCHANGED <<owners, marker, persisted, history>>

\* A raw that is not an envelope is acknowledged by a plain LREM.
DiscardMalformed(w) ==
    /\ pc[w] = "popped" /\ Payload[ClaimOf(w)] = "malformed"
    /\ \/ /\ held[w] \in processing[w]
          /\ processing' = Remove(w, held[w])
          /\ acked' = acked \cup {ClaimOf(w)}
          /\ NextClaim(w) \/ ("redis" \in Faults /\ NextUnverified(w))
       \/ /\ held[w] \notin processing[w] \/ "redis" \in Faults
          /\ NextUnverified(w)
          /\ UNCHANGED <<processing, acked>>
    /\ UNCHANGED <<ready, scheduled, dead, retry, owners, marker, persisted,
                   enqueued, turns, answered>>
-----------------------------------------------------------------------------
(* _handle_raw and handle_envelope: fence, idempotency marker, ingestion,  *)
(* agent turn, finalisation.                                               *)

\* assert_claim_owned raises, or could not be verified: neither ack nor
\* requeue, the worker stops.
FenceFails(w) ==
    /\ ~Owns(w, held[w]) \/ "redis" \in Faults
    /\ Leave(w)

\* The first fence; a payload parsed to nothing is acknowledged.
Fence(w) ==
    /\ pc[w] = "handle"
    /\ \/ /\ Owns(w, held[w])
          /\ Goto(w, IF Payload[ClaimOf(w)] = "ignored" THEN "ack" ELSE "marker")
          /\ UNCHANGED local
       \/ FenceFails(w)
    /\ UNCHANGED <<lists, retry, owners, marker, persisted, history>>

\* claim_processing, SET NX.  A lost reply is an ordinary failure.
ClaimMarker(w) ==
    /\ pc[w] = "marker"
    /\ \/ /\ marker[ProviderHeld(w)] = Absent
          /\ marker' = [marker EXCEPT ![ProviderHeld(w)] = ClaimOf(w)]
          /\ Goto(w, "ingest") \/ ("redis" \in Faults /\ Goto(w, "failed"))
       \/ /\ marker[ProviderHeld(w)] # Absent
          /\ Goto(w, "getmarker")
          /\ UNCHANGED marker
       \/ "redis" \in Faults /\ Goto(w, "failed") /\ UNCHANGED marker
    /\ UNCHANGED <<lists, retry, owners, persisted, local, history>>

\* claim_processing, GET: the same claim resumes, any other is rejected and
\* acknowledged as a duplicate.
ReadMarker_ResumesAny(w) ==
    /\ pc[w] = "getmarker"
    /\ Goto(w, "ingest") /\ resumed' = resumed \cup {w}
    /\ UNCHANGED <<lists, retry, owners, marker, persisted, held, unverified,
                   target, history>>
ReadMarker(w) ==
    /\ pc[w] = "getmarker"
    /\ \/ /\ marker[ProviderHeld(w)] = ClaimOf(w)
          /\ Goto(w, "ingest")
          /\ resumed' = resumed \cup {w}
       \/ /\ marker[ProviderHeld(w)] # ClaimOf(w)
          /\ Goto(w, "ack")
          /\ UNCHANGED resumed
       \/ "redis" \in Faults /\ Goto(w, "failed") /\ UNCHANGED resumed
    /\ UNCHANGED <<lists, retry, owners, marker, persisted, held, unverified,
                   target, history>>

\* The fences inside the ingestion, up to the last one before COMMIT.
Ingest(w) ==
    /\ pc[w] = "ingest"
    /\ \/ Owns(w, held[w]) /\ Goto(w, "commit") /\ UNCHANGED local
       \/ "db" \in Faults /\ Goto(w, "release") /\ UNCHANGED local
       \/ FenceFails(w)
    /\ UNCHANGED <<lists, retry, owners, marker, persisted, history>>

\* The outcome decides what follows: only a new inbound row, or the row of a
\* resumed claim, goes to the agent.
AfterIngestion_NewOnly(w, duplicate) ==
    IF Payload[ClaimOf(w)] = "message" /\ ~duplicate THEN "guard" ELSE "finish"
AfterIngestion(w, duplicate) ==
    IF Payload[ClaimOf(w)] = "message" /\ (duplicate => w \in resumed)
    THEN "guard" ELSE "finish"

\* COMMIT; the unique index on the provider id turns a second one into a
\* duplicate.
Commit(w) ==
    /\ pc[w] = "commit"
    /\ LET m == ProviderHeld(w)
           writes == Payload[ClaimOf(w)] \in {"message", "echo"} /\ m \notin persisted
       IN \/ /\ persisted' = IF writes THEN persisted \cup {m} ELSE persisted
             /\ Goto(w, AfterIngestion(w, ~writes))
          \/ "db" \in Faults /\ Goto(w, "release") /\ UNCHANGED persisted
          \/ /\ "commit" \in Faults /\ writes
             /\ persisted' = persisted \cup {m}
             /\ Goto(w, "release")
    /\ UNCHANGED <<lists, retry, owners, marker, local, history>>

\* release_processed_if_owned after a failed ingestion.
Release(w) ==
    /\ pc[w] = "release"
    /\ LET m == ProviderHeld(w)
           released == Owns(w, held[w]) /\ marker[m] = ClaimOf(w)
       IN \/ /\ released
             /\ marker' = [marker EXCEPT ![m] = Absent]
             /\ \/ Goto(w, "failed") /\ UNCHANGED local
                \/ "redis" \in Faults /\ Leave(w)
          \/ /\ ~released \/ "redis" \in Faults
             /\ Leave(w)
             /\ UNCHANGED marker
    /\ UNCHANGED <<lists, retry, owners, persisted, history>>

\* The fence before the turn, then the durable execution lease: another
\* process still inside a turn of this claim answers IN_FLIGHT.
StartTurn(w) ==
    /\ pc[w] = "guard"
    /\ \/ /\ Owns(w, held[w])
          /\ \/ /\ \A v \in Worker : pc[v] = "agent" => ClaimOf(v) # ClaimOf(w)
                /\ Goto(w, "agent")
                /\ turns' = turns \cup {ClaimOf(w)}
                /\ UNCHANGED local
             \/ /\ \E v \in Worker : pc[v] = "agent" /\ ClaimOf(v) = ClaimOf(w)
                /\ Leave(w)
                /\ UNCHANGED turns
       \/ FenceFails(w) /\ UNCHANGED turns
    /\ UNCHANGED <<lists, retry, owners, marker, persisted, enqueued, acked, answered>>

\* run_agent_for_message completes, asks for a timed retry
\* (AgentReplyRetryable), fails, or meets a fence it does not pass.
AgentTurn(w) ==
    /\ pc[w] = "agent"
    /\ \/ /\ Goto(w, "finish")
          /\ answered' = answered \cup {ClaimOf(w)}
          /\ UNCHANGED local
       \/ /\ "agent" \in Faults
          /\ Goto(w, "failed") \/ Goto(w, "retryable")
          /\ UNCHANGED <<local, answered>>
       \/ FenceFails(w) /\ UNCHANGED answered
    /\ UNCHANGED <<lists, retry, owners, marker, persisted, enqueued, acked, turns>>

\* mark_processed_if_owned.
Finish(w) ==
    /\ pc[w] = "finish"
    /\ LET m == ProviderHeld(w)
           owned == Owns(w, held[w]) /\ marker[m] = ClaimOf(w)
       IN \/ /\ owned
             /\ marker' = [marker EXCEPT ![m] = Done]
             /\ Goto(w, "ack") \/ ("redis" \in Faults /\ Goto(w, "failed"))
             /\ UNCHANGED local
          \/ ~owned /\ Leave(w) /\ UNCHANGED marker
          \/ /\ "redis" \in Faults /\ Goto(w, "failed")
             /\ UNCHANGED <<marker, local>>
    /\ UNCHANGED <<lists, retry, owners, persisted, history>>

-----------------------------------------------------------------------------
(* The end of a claim: _ACK_CLAIM_SCRIPT or _MOVE_FAILED_CLAIM_SCRIPT. *)

MayAck(w, r) ==
    /\ HoldsRaw(w, r)
    /\ \/ retry[r.claim].status = "none"
       \/ /\ retry[r.claim].attempts = r.attempts
          /\ \/ retry[r.claim].status = "processing" /\ retry[r.claim].owner = w
             \/ retry[r.claim].status = "done"

\* A claim that never failed has no retry state to close.
Closed(c) ==
    IF retry[c].status = "none" THEN retry
    ELSE [retry EXCEPT ![c].status = "done", ![c].owner = NoWorker]

Ack(w) ==
    /\ pc[w] = "ack"
    /\ \/ /\ MayAck(w, held[w])
          /\ retry' = Closed(ClaimOf(w))
          /\ acked' = acked \cup {ClaimOf(w)}
          /\ \/ /\ processing' = Remove(w, held[w])
                /\ NextClaim(w) \/ ("redis" \in Faults /\ NextUnverified(w))
             \/ /\ "lua" \in Faults /\ retry[ClaimOf(w)].status # "none"
                /\ NextUnverified(w)
                /\ UNCHANGED processing
       \/ /\ ~MayAck(w, held[w]) \/ {"redis", "lua"} \cap Faults # {}
          /\ NextUnverified(w)
          /\ UNCHANGED <<processing, retry, acked>>
    /\ UNCHANGED <<ready, scheduled, dead, owners, marker, persisted, enqueued,
                   turns, answered>>

MayFail_Unfenced(w, r) == held[w] = r
MayFail(w, r) ==
    /\ HoldsRaw(w, r)
    /\ \/ retry[r.claim].status = "none"
       \/ /\ retry[r.claim].attempts = r.attempts
          /\ retry[r.claim].status = "processing"
          /\ retry[r.claim].owner \in {w, NoWorker}

\* Where a failed attempt goes: dead letter, schedule or ready list.
Destination_OneMore(place, attempts) ==
    IF attempts > MaxAttempts THEN "dead"
    ELSE IF place = "retryable" THEN "scheduled" ELSE "ready"
Destination(place, attempts) ==
    IF attempts >= MaxAttempts THEN "dead"
    ELSE IF place = "retryable" THEN "scheduled" ELSE "ready"

\* The replacement is pushed unless the destination holds it already.
Deliver(status, r) ==
    /\ ready' = IF status = "ready" THEN PushIfAbsent(r) ELSE ready
    /\ scheduled' = IF status = "scheduled" THEN scheduled \cup {r} ELSE scheduled
    /\ dead' = IF status = "dead" THEN dead \cup {r} ELSE dead

\* transition_failed_claim: state first, then destination, then source; a
\* script that stops half way, or an unknown result, stops the worker.
Fail_SourceFirst(w) ==
    /\ pc[w] \in {"failed", "retryable"}
    /\ LET r == held[w]
           next == [r EXCEPT !.attempts = @ + 1]
           status == Destination(pc[w], next.attempts)
           saved == [retry EXCEPT ![r.claim] =
                       [status |-> status, attempts |-> next.attempts, owner |-> NoWorker]]
       IN \/ /\ MayFail(w, r) /\ retry' = saved /\ processing' = Remove(w, r)
             /\ \/ Deliver(status, next) /\ NextClaim(w)
                \/ "lua" \in Faults /\ Leave(w) /\ UNCHANGED <<ready, scheduled, dead>>
          \/ /\ ~MayFail(w, r) /\ Leave(w)
             /\ UNCHANGED <<lists, retry>>
    /\ UNCHANGED <<owners, marker, persisted, history>>
Fail(w) ==
    /\ pc[w] \in {"failed", "retryable"}
    /\ LET r == held[w]
           next == [r EXCEPT !.attempts = @ + 1]
           status == Destination(pc[w], next.attempts)
           saved(owner) == [retry EXCEPT ![r.claim] =
               [status |-> status, attempts |-> next.attempts, owner |-> owner]]
       IN \/ /\ MayFail(w, r)
             /\ retry' = saved(NoWorker)
             /\ Deliver(status, next)
             /\ \/ processing' = Remove(w, r) /\ NextClaim(w)
                \/ "redis" \in Faults /\ processing' = Remove(w, r) /\ Leave(w)
                \/ "lua" \in Faults /\ Leave(w) /\ UNCHANGED processing
          \/ /\ "lua" \in Faults /\ MayFail(w, r)
             /\ retry' \in {saved(retry[r.claim].owner), saved(NoWorker)}
             /\ Leave(w)
             /\ UNCHANGED lists
          \/ /\ ~MayFail(w, r) \/ {"redis", "lua"} \cap Faults # {}
             /\ Leave(w)
             /\ UNCHANGED <<lists, retry>>
    /\ UNCHANGED <<owners, marker, persisted, history>>

-----------------------------------------------------------------------------
(* What one worker does on its own account, in any order with the others. *)
ClaimStep(w) ==
    \/ RenewLease(w) \/ ClaimNextError(w) \/ RequeueOwnClaims(w)
    \/ \E o \in Worker : BeginRecovery(w, o)
    \/ DrainOne(w) \/ EndRecovery(w) \/ RecoveryError(w)
    \/ \E r \in Raw : PromoteDueRetry(w, r) \/ PopReady(w, r)
    \/ PopNothing(w) \/ Reconcile(w) \/ DiscardMalformed(w)

HandleStep(w) ==
    \/ Fence(w) \/ ClaimMarker(w) \/ ReadMarker(w) \/ Ingest(w) \/ Commit(w)
    \/ Release(w) \/ StartTurn(w) \/ AgentTurn(w) \/ Finish(w) \/ Ack(w) \/ Fail(w)

Environment ==
    \/ \E c \in Claim : Enqueue(c)
    \/ \E w \in Worker : Register(w) \/ Shutdown(w) \/ Crash(w) \/ LeaseExpires(w)
                         \/ RecoveryLockExpires(w)
    \/ \E m \in Provider : MarkerExpires(m)

Next ==
    \/ Environment
    \/ \E w \in Worker : ClaimStep(w) \/ HandleStep(w) \/ Unregister(w)

Spec == Init /\ [][Next]_vars
-----------------------------------------------------------------------------
(* Fairness.  A live worker keeps taking steps; the finally block of run() *)
(* is reached; keys with an expiry expire.  recover_pending and            *)
(* _promote_due_retries run on every pass of _claim_next (recovery after   *)
(* its interval), ahead of the blocking pop, so a pass that could recover  *)
(* or promote cannot come round for ever without doing it: strong          *)
(* fairness.  Redis does not reject the acknowledgements of a worker for   *)
(* ever.  The process supervisor starts every worker it has left.          *)
(* Crashes, shutdowns and new deliveries are never forced.                 *)
Fairness ==
    /\ \A w \in Worker :
         /\ WF_vars(Register(w)) /\ WF_vars(Unregister(w))
         /\ WF_vars(ClaimStep(w)) /\ WF_vars(HandleStep(w))
         /\ SF_vars(\E o \in Worker : BeginRecovery(w, o))
         /\ SF_vars(\E r \in Raw : PromoteDueRetry(w, r))
         /\ SF_vars(\E r \in Raw : PopReady(w, r))
         /\ SF_vars(Ack(w) /\ ClaimOf(w) \in acked')
         /\ WF_vars(LeaseExpires(w)) /\ WF_vars(RecoveryLockExpires(w))

FairSpec == Spec /\ Fairness

-----------------------------------------------------------------------------
(* Safety. *)

CopiesOf(c) == {r \in Raw : r.claim = c}

\* Some list of Redis holds an envelope of claim c.
HasCopy(c) ==
    \E r \in CopiesOf(c) :
        \/ ready[r] > 0 \/ r \in scheduled \/ r \in dead
        \/ \E w \in Worker : r \in processing[w]

\* At-least-once delivery (recover_pending, "the item is never between
\* lists"; _MOVE_FAILED_CLAIM_SCRIPT, "a failed claim must never
\* disappear"): whatever crashes, stalls, lost replies and half-executed
\* scripts happen, a claim that was put on the queue and not acknowledged
\* still has an envelope in Redis.
NothingLost == \A c \in enqueued \ acked : HasCopy(c)

\* At most one worker can pass the fence of a claim, however many copies of
\* its envelope partial transitions and recoveries have left behind.
FenceExclusive ==
    \A w, v \in Worker : \A r, q \in Raw :
        Owns(w, r) /\ Owns(v, q) /\ r.claim = q.claim => w = v /\ r = q

\* "A stale duplicate can never ACK after the canonical owner changed or
\* after it already reached a terminal state": once a claim is acknowledged
\* or dead-lettered nobody passes its fence again, copies or not.
SettledStaysSettled ==
    \A c \in Claim : c \in acked \/ retry[c].status = "dead" =>
        \A w \in Worker : \A r \in CopiesOf(c) : ~Owns(w, r)

\* No step takes a claim's retry state back to an earlier attempt, and dead
\* and done are final; so the number of attempts is bounded by MAX_ATTEMPTS.
RetryAdvances ==
    [][\A c \in Claim :
         /\ retry'[c].attempts >= retry[c].attempts
         /\ retry[c].status \in {"dead", "done"} =>
              /\ retry'[c].status = retry[c].status
              /\ retry'[c].attempts = retry[c].attempts]_vars

\* A list a worker left behind can be found by the others, which look only
\* at the worker registry ("Stop consuming so this raw claim remains
\* discoverable"; unregister_worker, "preserving orphan discovery").
OrphansDiscoverable ==
    \A w \in Worker :
        pc[w] = "gone" /\ processing[w] # {} => w \in registry

\* Two deliveries of one provider message never both reach the agent
\* (MSG-IDEMP-1: "so the caller never double-runs the agent for it").
OneTurnPerMessage ==
    \A c, d \in turns : ProviderOf[c] = ProviderOf[d] => c = d

\* A provider message marked done that was stored as inbound was answered:
\* an agent turn for it completed, under some delivery.
DoneMeansAnswered ==
    \A m \in Provider :
        /\ marker[m] = Done
        /\ \A c \in Claim : ProviderOf[c] = m => Payload[c] = "message"
        => \E c \in answered : ProviderOf[c] = m

\* Without half-executed scripts the envelope the retry state calls
\* canonical is always where a worker, or an operator, will find it.
CanonicalPresent ==
    \A c \in Claim :
        LET r == Canonical(c)
            listed == ready[r] > 0 \/ \E w \in Worker : r \in processing[w]
        IN  /\ retry[c].status \in {"ready", "processing"} => listed
            /\ retry[c].status = "scheduled" => listed \/ r \in scheduled
            /\ retry[c].status = "dead" => r \in dead

-----------------------------------------------------------------------------
(* Liveness. *)

Settled(c) == c \in acked \/ retry[c].status = "dead"

\* Every delivery is acknowledged or dead-lettered, unless every worker
\* process has ended.
EventuallySettled ==
    \A c \in Claim :
        c \in enqueued ~> (Settled(c) \/ \A w \in Worker : pc[w] = "gone")
-----------------------------------------------------------------------------
(* The inductive invariant behind the safety properties, in named parts.   *)

Busy == {"popped", "handle", "marker", "getmarker", "ingest", "commit", "release",
         "guard", "agent", "finish", "ack", "failed", "retryable"}

\* Somewhere in Redis, outside the dead letters or inside them.
Live(r) == ready[r] > 0 \/ r \in scheduled \/ \E w \in Worker : r \in processing[w]
Present(r) == Live(r) \/ r \in dead

\* A worker past the pop has a raw in hand, one past the reconciliation has
\* an envelope, and one that recovers has an owner to recover.
LocalsMeanSomething ==
    \A w \in Worker :
        /\ pc[w] \in Busy => held[w] \in Raw
        /\ pc[w] \in Busy \ {"popped"} => Payload[held[w].claim] # "malformed"
        /\ pc[w] \in {"recovering", "drained"} => target[w] \in Worker

\* Only the dead letters hold an envelope that used up its attempts.
BelowLimit ==
    /\ \A r \in Raw : Live(r) => r.attempts < MaxAttempts
    /\ \A w \in Worker : held[w] \in Raw => held[w].attempts < MaxAttempts
    /\ \A c \in Claim : retry[c].status # "dead" => retry[c].attempts < MaxAttempts

\* Raw r of claim c is a first attempt, not yet acknowledged, and lies in
\* one place only.
OnePlace(c, r) ==
    /\ r \notin scheduled /\ r \notin dead
    /\ ready[r] <= 1
    /\ Live(r) => r.attempts = 0 /\ c \in enqueued \ acked
    /\ ready[r] > 0 => \A w \in Worker : r \notin processing[w]
    /\ \A w, v \in Worker : r \in processing[w] /\ r \in processing[v] => w = v

\* A claim that never failed has one envelope at most, in one place, until
\* it is acknowledged; then it has none.
FirstAttemptUnique ==
    \A c \in Claim : retry[c].status = "none" =>
        /\ retry[c] = NoState
        /\ \A r \in CopiesOf(c) : OnePlace(c, r)

\* The retry state and the acknowledgements agree.
AckMatchesState ==
    \A c \in Claim :
        /\ retry[c].status = "done" => c \in acked
        /\ c \in acked /\ retry[c].status # "none" => retry[c].status = "done"
        /\ Payload[c] = "malformed" => retry[c].status = "none"

\* Envelopes, retry states and acknowledgements belong to deliveries made.
NothingInvented ==
    /\ acked \subseteq enqueued
    /\ \A c \in Claim : retry[c].status # "none" => c \in enqueued
    /\ \A r \in Raw : Live(r) => r.claim \in enqueued

\* Inductive: every step preserves it, and it implies the safety properties.
QueueInv ==
    /\ TypeOK /\ LocalsMeanSomething /\ BelowLimit /\ NothingInvented
    /\ FirstAttemptUnique /\ AckMatchesState /\ NothingLost
=============================================================================
