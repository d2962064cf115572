----------------------------- MODULE AgentReply -----------------------------
(***************************************************************************)
(* One agent turn per claim, from the reservation of its reply row to the  *)
(* WhatsApp transport (run_agent_for_message and the functions it calls in *)
(* backend/app/workers/queue_worker.py; the handoff fence of               *)
(* services/conversation_handoff.py; the send ownership of                 *)
(* services/private_deletion.py; the results of services/evolution.py).    *)
(*                                                                         *)
(* The turns are those of one conversation.  Each is driven by the worker  *)
(* that owns its queue claim; a worker that lost the claim may still be    *)
(* running.  Module WebhookQueue models how claims change hands: here a    *)
(* claim has one owner at a time (FenceExclusive there) and a retry budget.*)
(* Every Redis fence, database transaction and provider call is one step.  *)
(***************************************************************************)
EXTENDS Naturals

CONSTANTS
    Worker,       \* worker processes
    Turn,         \* turns of one conversation, one per inbound message and claim
    MaxAttempts,  \* MAX_ATTEMPTS
    Faults,       \* what the environment may do, see FaultKind
    NoWorker, NoTurn

\* crash: a process dies.  stall: it loses its claim to a recovery and goes
\* on.  redis: the claim cannot be verified or settled.  db: a transaction
\* fails.  commit: it fails after PostgreSQL committed it.  drop: the
\* connection that holds an advisory lock is lost.  expire: a send outlasts
\* its ownership, or a deletion moves the generation.  agent: the runtime
\* raises.  late: a timeout or 5xx hides an accepted POST.  revoke: the reply
\* is no longer authorised or current.
FaultKind == {"crash", "stall", "redis", "db", "commit", "drop", "expire",
              "agent", "late", "revoke"}

ASSUME ReplyAssumption ==
    /\ MaxAttempts \in Nat \ {0}
    /\ Faults \subseteq FaultKind
    /\ NoWorker \notin Worker
    /\ NoTurn \notin Turn

VARIABLES
    row,       \* messages.agent_reply_state of the turn's outbound row
    send,      \* its row in private_deletion_sends
    lock,      \* the advisory execution lock and its holder
    estado,    \* conversations.estado
    optout,    \* pessoas.optout
    owner,     \* the worker whose Redis fence passes for the turn's claim
    claim,     \* the claim as the queue sees it
    attempts,  \* failed attempts of the claim
    pc,        \* where each worker is
    turn,      \* the turn it works on
    result,    \* how run_agent_for_message is about to end
    tools,     \* history: how often the agent ran for the turn
    posts,     \* history: provider requests made
    accepted   \* history: provider requests the provider accepted

ledger == <<row, send>>
conversation == <<estado, optout>>
queue == <<owner, claim, attempts>>
local == <<pc, turn, result>>
history == <<tools, posts, accepted>>
vars == <<ledger, lock, conversation, queue, local, history>>

-----------------------------------------------------------------------------
\* "none" before the row exists; the others are AGENT_REPLY_STATES.
Unsent == {"RESERVED", "EXECUTING", "PENDING"}
Terminal == {"CONFIRMED", "AMBIGUOUS", "EXECUTION_AMBIGUOUS", "FAILED",
             "SUPPRESSED", "NO_RESPONSE"}
ReplyState == {"none", "IN_FLIGHT"} \cup Unsent \cup Terminal

\* An ownership row is live for 60 seconds and blocks a second one for ever.
SendState == {"none", "live", "expired"}

\* The tools have not run yet, and the row was moved to EXECUTING.
BeforeTools == {"toolsGuard", "unbegin", "tools"}
AfterTools == {"afterGuard", "silent", "prepare"}

\* From the row's move to IN_FLIGHT to the record of what happened.
Transport == {"precheck", "preGuard", "status", "lastCheck", "renew", "postGuard",
              "post", "unsend", "accepted", "confirm", "release", "quarantine",
              "discard", "reject"}

PC == {"idle", "guard", "reserve", "acquire", "reload", "beginGuard", "begin",
       "reread", "abort", "check", "sendGuard", "send", "missed", "finish",
       "unlock", "end", "gone"}
      \cup BeforeTools \cup AfterTools \cup Transport

\* completed: AgentRunDisposition.COMPLETED.  retryable: AgentReplyRetryable.
\* failed: any other exception.  lost: ClaimOwnershipLost, or IN_FLIGHT.
Result == {"completed", "retryable", "failed", "lost"}

\* The type of every variable.
TypeOK ==
    /\ row \in [Turn -> ReplyState]
    /\ send \in [Turn -> SendState]
    /\ lock \in [Turn -> Worker \cup {NoWorker}]
    /\ estado \in {"ia", "humano"}
    /\ optout \in BOOLEAN
    /\ owner \in [Turn -> Worker \cup {NoWorker}]
    /\ claim \in [Turn -> {"open", "done", "dead"}]
    /\ attempts \in [Turn -> 0 .. MaxAttempts]
    /\ pc \in [Worker -> PC]
    /\ turn \in [Worker -> Turn \cup {NoTurn}]
    /\ result \in [Worker -> Result]
    /\ tools \in [Turn -> Nat]
    /\ posts \in [Turn -> Nat]
    /\ accepted \in [Turn -> Nat]

Init ==
    /\ row = [t \in Turn |-> "none"]
    /\ send = [t \in Turn |-> "none"]
    /\ lock = [t \in Turn |-> NoWorker]
    /\ estado = "ia" /\ optout = FALSE
    /\ owner = [t \in Turn |-> NoWorker]
    /\ claim = [t \in Turn |-> "open"]
    /\ attempts = [t \in Turn |-> 0]
    /\ pc = [w \in Worker |-> "idle"]
    /\ turn = [w \in Worker |-> NoTurn]
    /\ result = [w \in Worker |-> "completed"]
    /\ tools = [t \in Turn |-> 0]
    /\ posts = [t \in Turn |-> 0]
    /\ accepted = [t \in Turn |-> 0]

-----------------------------------------------------------------------------
(* Helpers. *)
Row(w) == row[turn[w]]

Goto(w, place) ==
    /\ pc' = [pc EXCEPT ![w] = place]
    /\ UNCHANGED <<turn, result>>

\* Continue at place; the turn will end with result r.
Ending(w, place, r) ==
    /\ pc' = [pc EXCEPT ![w] = place]
    /\ result' = [result EXCEPT ![w] = r]
    /\ UNCHANGED turn

\* assert_claim_owned: passes for the owner, and raises ClaimOwnershipLost
\* when the claim moved on or Redis cannot say.
Guard(w, pass, fail) ==
    \/ owner[turn[w]] = w /\ Goto(w, pass)
    \/ (owner[turn[w]] # w \/ "redis" \in Faults) /\ Ending(w, fail, "lost")

\* The database raised: nothing was written.
Raises == "db" \in Faults

\* Bug: the fence treats a reply in transport like one that was not sent.
Fenced_InFlight(rows) ==
    [t \in Turn |-> IF rows[t] \in Unsent \cup {"IN_FLIGHT"} THEN "SUPPRESSED" ELSE rows[t]]

\* fence_agent_replies_for_handoff, on every row of the conversation.
Fenced(rows) ==
    [t \in Turn |-> IF rows[t] \in Unsent THEN "SUPPRESSED"
                    ELSE IF rows[t] = "IN_FLIGHT" THEN "AMBIGUOUS" ELSE rows[t]]

\* Bug: the update forgets the expected state.
CanMove_Blind(w, expected) == expected = "IN_FLIGHT" => send[turn[w]] = "live"

\* The row may leave state expected; out of IN_FLIGHT only with a current
\* send ownership.
CanMove(w, expected) ==
    /\ Row(w) = expected
    /\ expected = "IN_FLIGHT" => send[turn[w]] = "live"

\* _transition_agent_reply_intent: compare and set.  Moved, refused and
\* raised say how the caller goes on.
Transition(w, expected, target, moved, refused, raised) ==
    \/ /\ CanMove(w, expected)
       /\ row' = [row EXCEPT ![turn[w]] = target]
       /\ moved \/ ("commit" \in Faults /\ raised)
    \/ ~CanMove(w, expected) /\ refused /\ UNCHANGED row
    \/ Raises /\ raised /\ UNCHANGED row

\* _suppress_agent_reply_after_handoff: fence the conversation when a human
\* has it or the contact opted out; suppress a reply no longer authorised;
\* otherwise proceed if the row is still where it was expected.
Suppress(w, expected, proceed, blocked, raised) ==
    LET closed == estado = "humano" \/ optout
    IN  \/ /\ closed
           /\ row' = Fenced(row)
           /\ blocked \/ ("commit" \in Faults /\ raised)
        \/ /\ ~closed /\ "revoke" \in Faults
           /\ row' = [row EXCEPT ![turn[w]] = IF @ = expected THEN "SUPPRESSED" ELSE @]
           /\ blocked \/ ("commit" \in Faults /\ raised)
        \/ /\ ~closed
           /\ IF Row(w) = expected THEN proceed ELSE blocked
           /\ UNCHANGED row
        \/ Raises /\ raised /\ UNCHANGED row

\* What the steps that only touch the ledger leave alone.
others == <<lock, conversation, queue, history>>

-----------------------------------------------------------------------------
(* The claim. *)

\* The queue hands the claim out: it is free, or a recovery takes it from a
\* worker that stalled.
Take(w, t) ==
    /\ pc[w] = "idle"
    /\ claim[t] = "open"
    /\ owner[t] = NoWorker \/ "stall" \in Faults
    /\ owner' = [owner EXCEPT ![t] = w]
    /\ turn' = [turn EXCEPT ![w] = t]
    /\ result' = [result EXCEPT ![w] = "completed"]
    /\ pc' = [pc EXCEPT ![w] = "guard"]
    /\ UNCHANGED <<ledger, lock, conversation, claim, attempts, history>>

\* Bug: one attempt too many.
Exhausted_Late(t) == attempts[t] >= MaxAttempts

\* The attempt that fails now is the last one.
Exhausted(t) == attempts[t] + 1 >= MaxAttempts

\* Bug: the claim stays with its worker.
Disowned_Never(w) == owner

\* The worker's claim goes back to the queue: acknowledged, scheduled for
\* another attempt, or recovered.
Disowned(w) == [owner EXCEPT ![turn[w]] = IF @ = w THEN NoWorker ELSE @]

\* The caller of run_agent_for_message.  COMPLETED is finalised and
\* acknowledged, an exception (of the finalisation too) consumes an attempt;
\* both need the claim.  A worker that lost the claim or cannot reach Redis
\* stops, and so does one that found the turn in flight.
End(w) ==
    LET t == turn[w]
        owned == owner[t] = w
    IN  /\ pc[w] = "end"
        /\ \/ /\ result[w] = "completed" /\ owned
              /\ claim' = [claim EXCEPT ![t] = "done"]
              /\ pc' = [pc EXCEPT ![w] = "idle"]
              /\ UNCHANGED attempts
           \/ /\ result[w] \in {"retryable", "failed"}
                 \/ (result[w] = "completed" /\ "redis" \in Faults)
              /\ owned
              /\ attempts' = [attempts EXCEPT ![t] = @ + 1]
              /\ claim' = [claim EXCEPT ![t] = IF Exhausted(t) THEN "dead" ELSE @]
              /\ pc' = [pc EXCEPT ![w] = "idle"]
           \/ /\ result[w] = "lost" \/ ~owned \/ "redis" \in Faults
              /\ pc' = [pc EXCEPT ![w] = "gone"]
              /\ UNCHANGED <<claim, attempts>>
        /\ owner' = Disowned(w)
        /\ turn' = [turn EXCEPT ![w] = NoTurn]
        /\ UNCHANGED <<ledger, lock, conversation, result, history>>

-----------------------------------------------------------------------------
(* run_agent_for_message: reserve, lock, execute once. *)

\* A claim check at place: go on, or end the turn as lost.
GuardAt(w, place, pass, fail) ==
    /\ pc[w] = place
    /\ Guard(w, pass, fail)
    /\ UNCHANGED <<ledger, others>>

FirstGuard(w) == GuardAt(w, "guard", "reserve", "end")

\* Bug: the row is created without looking at the conversation.
Reserved_Blind(w) == [row EXCEPT ![turn[w]] = IF @ = "none" THEN "RESERVED" ELSE @]

\* _reserve_agent_reply_intent: a human conversation is fenced, otherwise
\* the row is created unless it exists.
Reserved(w) ==
    IF estado = "humano" THEN Fenced(row)
    ELSE [row EXCEPT ![turn[w]] = IF @ = "none" THEN "RESERVED" ELSE @]

Reserve(w) ==
    LET rows == Reserved(w)
    IN  /\ pc[w] = "reserve"
        /\ \/ /\ row' = rows
              /\ \/ Goto(w, IF rows[turn[w]] = "none" THEN "end" ELSE "acquire")
                 \/ "commit" \in Faults /\ Ending(w, "end", "failed")
           \/ Raises /\ Ending(w, "end", "failed") /\ UNCHANGED row
        /\ UNCHANGED <<send, others>>

\* Bug: the lock does not exclude.
LockFree_Always(t) == TRUE

\* _AgentExecutionLease.acquire, pg_try_advisory_lock.
LockFree(t) == lock[t] = NoWorker

Acquire(w) ==
    LET t == turn[w]
    IN  /\ pc[w] = "acquire"
        /\ \/ /\ LockFree(t)
              /\ lock' = [lock EXCEPT ![t] = w]
              /\ Goto(w, "reload")
           \/ ~LockFree(t) /\ Ending(w, "end", "lost") /\ UNCHANGED lock
           \/ Raises /\ Ending(w, "end", "failed") /\ UNCHANGED lock
        /\ UNCHANGED <<ledger, conversation, queue, history>>

\* _load_agent_reply_intent under the lock.
Reload(w) ==
    /\ pc[w] = "reload"
    /\ \/ Row(w) = "EXECUTING" /\ Goto(w, "abort")
       \/ Row(w) = "RESERVED" /\ Goto(w, "beginGuard")
       \/ Row(w) = "PENDING" /\ Goto(w, "check")
       \/ Row(w) \notin Unsent /\ Goto(w, "unlock")
       \/ Raises /\ Ending(w, "unlock", "failed")
    /\ UNCHANGED <<ledger, others>>

BeginGuard(w) == GuardAt(w, "beginGuard", "begin", "unlock")

\* RESERVED to EXECUTING: the right to run the agent.
Begin(w) ==
    /\ pc[w] = "begin"
    /\ Transition(w, "RESERVED", "EXECUTING", Goto(w, "toolsGuard"),
                  Goto(w, "reread"), Ending(w, "unlock", "failed"))
    /\ UNCHANGED <<send, others>>

\* The row had moved: deliver whatever is there.
Reread(w) ==
    /\ pc[w] = "reread"
    /\ \/ Goto(w, IF Row(w) = "PENDING" THEN "check" ELSE "unlock")
       \/ Raises /\ Ending(w, "unlock", "failed")
    /\ UNCHANGED <<ledger, others>>

ToolsGuard(w) == GuardAt(w, "toolsGuard", "tools", "unbegin")

\* _release_agent_execution_reservation.
Unbegin(w) ==
    /\ pc[w] = "unbegin"
    /\ Transition(w, "EXECUTING", "RESERVED", Goto(w, "unlock"),
                  Goto(w, "unlock"), Goto(w, "unlock"))
    /\ UNCHANGED <<send, others>>

\* process_inbound_message: tools run, and may hand the conversation over,
\* which fences its replies, or record an opt-out, which fences them when the
\* contact's words are explicit.  It may raise after any of it.
RunTools(w) ==
    /\ pc[w] = "tools"
    /\ tools' = [tools EXCEPT ![turn[w]] = @ + 1]
    /\ \/ UNCHANGED <<row, conversation>>
       \/ estado' = "humano" /\ row' = Fenced(row) /\ UNCHANGED optout
       \/ optout' = TRUE /\ row' \in {row, Fenced(row)} /\ UNCHANGED estado
    /\ \/ Goto(w, "afterGuard")
       \/ "agent" \in Faults /\ Ending(w, "abort", "failed")
    /\ UNCHANGED <<send, lock, queue, posts, accepted>>

\* Then the agent answered or stayed silent.
AfterGuard(w) == \E next \in {"prepare", "silent"} : GuardAt(w, "afterGuard", next, "abort")

\* No response: EXECUTING to NO_RESPONSE.
Silent(w) ==
    /\ pc[w] = "silent"
    /\ Transition(w, "EXECUTING", "NO_RESPONSE", Goto(w, "unlock"),
                  Goto(w, "unlock"), Ending(w, "unlock", "failed"))
    /\ UNCHANGED <<send, others>>

\* _prepare_agent_reply_intent: the answer becomes PENDING, unless a human
\* took the conversation.
Prepared(w) ==
    IF estado = "humano" THEN Fenced(row)
    ELSE [row EXCEPT ![turn[w]] =
             IF @ \in {"none", "RESERVED", "EXECUTING"} THEN "PENDING" ELSE @]

Prepare(w) ==
    LET rows == Prepared(w)
    IN  /\ pc[w] = "prepare"
        /\ \/ /\ row' = rows
              /\ \/ Goto(w, IF rows[turn[w]] = "PENDING" THEN "check" ELSE "unlock")
                 \/ "commit" \in Faults /\ Ending(w, "abort", "failed")
           \/ Raises /\ Ending(w, "abort", "failed") /\ UNCHANGED row
        /\ UNCHANGED <<send, others>>

\* Bug: an interrupted execution is released for another run.
Abort_Retries(w) ==
    /\ pc[w] = "abort"
    /\ Transition(w, "EXECUTING", "RESERVED", Goto(w, "unlock"),
                  Goto(w, "unlock"), Goto(w, "unlock"))
    /\ UNCHANGED <<send, others>>

\* _quarantine_agent_execution: tools may have run.
Abort(w) ==
    /\ pc[w] = "abort"
    /\ Transition(w, "EXECUTING", "EXECUTION_AMBIGUOUS", Goto(w, "unlock"),
                  Goto(w, "unlock"), Goto(w, "unlock"))
    /\ UNCHANGED <<send, others>>

\* _AgentExecutionLease.close.  It raises when the connection is lost.
Unlock(w) ==
    LET t == turn[w]
    IN  /\ pc[w] = "unlock"
        /\ lock' = [lock EXCEPT ![t] = IF @ = w THEN NoWorker ELSE @]
        /\ \/ lock[t] = w /\ Goto(w, "end")
           \/ (lock[t] # w \/ Raises) /\ Ending(w, "end", "failed")
        /\ UNCHANGED <<ledger, conversation, queue, history>>

-----------------------------------------------------------------------------
(* _deliver_agent_reply_intent: at most one transport of a PENDING row. *)

\* The handoff check before the row is claimed for transport.
Check(w) ==
    /\ pc[w] = "check"
    /\ Suppress(w, "PENDING", Goto(w, "sendGuard"), Goto(w, "unlock"),
                Ending(w, "unlock", "failed"))
    /\ UNCHANGED <<send, others>>

SendGuard(w) == GuardAt(w, "sendGuard", "send", "unlock")

\* Bug: the state read before the update decides, not the update.
MaySend_Stale(w) == Row(w) \in {"PENDING", "IN_FLIGHT"}

\* PENDING to IN_FLIGHT and the insert of the send ownership, in one
\* transaction: a leftover ownership row makes the insert fail.
MaySend(w) == Row(w) = "PENDING" /\ send[turn[w]] = "none"

Send(w) ==
    LET t == turn[w]
    IN  /\ pc[w] = "send"
        /\ \/ /\ MaySend(w)
              /\ row' = [row EXCEPT ![t] = "IN_FLIGHT"]
              /\ send' = [send EXCEPT ![t] = "live"]
              /\ Goto(w, "precheck") \/ ("commit" \in Faults /\ Ending(w, "unlock", "failed"))
           \/ ~MaySend(w) /\ Row(w) # "PENDING" /\ Goto(w, "missed") /\ UNCHANGED ledger
           \/ /\ (~MaySend(w) /\ Row(w) = "PENDING") \/ Raises
              /\ Ending(w, "unlock", "failed")
              /\ UNCHANGED ledger
        /\ UNCHANGED others

\* The row had moved: suppress it if the conversation was closed.
Missed(w) ==
    /\ pc[w] = "missed"
    /\ Suppress(w, "PENDING", Goto(w, "unlock"), Goto(w, "unlock"),
                Ending(w, "unlock", "failed"))
    /\ UNCHANGED <<send, others>>

\* The second handoff check, inside the try whose finally is Finish.
Precheck(w) ==
    /\ pc[w] = "precheck"
    /\ Suppress(w, "IN_FLIGHT", Goto(w, "preGuard"), Goto(w, "finish"),
                Ending(w, "finish", "failed"))
    /\ UNCHANGED <<send, others>>

PreGuard(w) == GuardAt(w, "preGuard", "status", "unsend")

\* send_agent_text up to before_send: sends may be blocked, the status
\* request may fail or find the instance offline.
Status(w) ==
    /\ pc[w] = "status"
    /\ \E next \in {"lastCheck", "release", "reject", "discard"} : Goto(w, next)
    /\ UNCHANGED <<ledger, others>>

\* before_transport, first half: the handoff check after the status request.
LastCheck(w) ==
    /\ pc[w] = "lastCheck"
    /\ Suppress(w, "IN_FLIGHT", Goto(w, "renew"), Goto(w, "discard"), Goto(w, "quarantine"))
    /\ UNCHANGED <<send, others>>

\* before_transport, second half: renew_agent_send.
Renew(w) ==
    /\ pc[w] = "renew"
    /\ \/ Goto(w, IF send[turn[w]] = "live" THEN "postGuard" ELSE "discard")
       \/ Raises /\ Goto(w, "quarantine")
    /\ UNCHANGED <<ledger, others>>

PostGuard(w) == GuardAt(w, "postGuard", "post", "unsend")

\* send_text_classificado and how send_agent_text classifies it: where the
\* worker goes, and whether the provider got the request and accepted it.
PostOutcome ==
    [next: {"accepted"}, sent: {1}, taken: {1}]           \* aceito
    \cup [next: {"release"}, sent: {0, 1}, taken: {0}]    \* no connection, 429, 5xx
    \cup (IF "late" \in Faults                            \* read timeout, 408, 5xx
          THEN [next: {"release"}, sent: {1}, taken: {1}] ELSE {})
    \cup [next: {"quarantine"}, sent: {1}, taken: {0, 1}] \* desconhecido
    \cup [next: {"reject"}, sent: {1}, taken: {0}]        \* falhou_permanente
    \cup [next: {"discard"}, sent: {0}, taken: {0}]       \* suprimido

Post(w) ==
    /\ pc[w] = "post"
    /\ \E o \in PostOutcome :
          /\ Goto(w, o.next)
          /\ posts' = [posts EXCEPT ![turn[w]] = @ + o.sent]
          /\ accepted' = [accepted EXCEPT ![turn[w]] = @ + o.taken]
    /\ UNCHANGED <<ledger, lock, conversation, queue, tools>>

\* The claim was lost before the request: back to PENDING, best effort.
Unsend(w) ==
    /\ pc[w] = "unsend"
    /\ Transition(w, "IN_FLIGHT", "PENDING", Goto(w, "finish"),
                  Goto(w, "finish"), Goto(w, "finish"))
    /\ UNCHANGED <<send, others>>

\* A stale owner does not confirm: the row stays IN_FLIGHT.
AcceptedGuard(w) == GuardAt(w, "accepted", "confirm", "finish")

\* IN_FLIGHT to CONFIRMED.  An offer of the secretariat that the contact
\* accepted early hands the conversation over in the same transaction.
Confirm(w) ==
    LET t == turn[w]
        rows == [row EXCEPT ![t] = "CONFIRMED"]
    IN  /\ pc[w] = "confirm"
        /\ \/ /\ CanMove(w, "IN_FLIGHT")
              /\ \/ row' = rows /\ UNCHANGED estado
                 \/ row' = Fenced(rows) /\ estado' = "humano"
              /\ Goto(w, "finish") \/ ("commit" \in Faults /\ Goto(w, "quarantine"))
           \/ /\ ~CanMove(w, "IN_FLIGHT") \/ Raises
              /\ Goto(w, "quarantine")
              /\ UNCHANGED <<row, estado>>
        /\ UNCHANGED <<send, lock, optout, queue, history>>

\* falhou_retentavel: back to PENDING for the next attempt.
Release(w) ==
    /\ pc[w] = "release"
    /\ Transition(w, "IN_FLIGHT", "PENDING", Ending(w, "finish", "retryable"),
                  Goto(w, "finish"), Goto(w, "quarantine"))
    /\ UNCHANGED <<send, others>>

\* Bug: an unknown outcome counts as delivered.
Quarantine_Confirms(w) ==
    /\ pc[w] = "quarantine"
    /\ Transition(w, "IN_FLIGHT", "CONFIRMED", Goto(w, "finish"),
                  Goto(w, "finish"), Goto(w, "finish"))
    /\ UNCHANGED <<send, others>>

\* Bug: an unknown outcome is sent again.
Quarantine_Resends(w) ==
    /\ pc[w] = "quarantine"
    /\ Transition(w, "IN_FLIGHT", "PENDING", Ending(w, "finish", "retryable"),
                  Goto(w, "finish"), Goto(w, "finish"))
    /\ UNCHANGED <<send, others>>

\* _quarantine_agent_reply, best effort.
Quarantine(w) ==
    /\ pc[w] = "quarantine"
    /\ Transition(w, "IN_FLIGHT", "AMBIGUOUS", Goto(w, "finish"),
                  Goto(w, "finish"), Goto(w, "finish"))
    /\ UNCHANGED <<send, others>>

\* suprimido: IN_FLIGHT to SUPPRESSED.
Discard(w) ==
    /\ pc[w] = "discard"
    /\ Transition(w, "IN_FLIGHT", "SUPPRESSED", Goto(w, "finish"),
                  Goto(w, "finish"), Goto(w, "quarantine"))
    /\ UNCHANGED <<send, others>>

\* falhou_permanente: IN_FLIGHT to FAILED.
Reject(w) ==
    /\ pc[w] = "reject"
    /\ Transition(w, "IN_FLIGHT", "FAILED", Goto(w, "finish"),
                  Goto(w, "finish"), Goto(w, "quarantine"))
    /\ UNCHANGED <<send, others>>

\* finish_agent_send deletes the ownership; a failure is swallowed and
\* leaves it, or not.
Finish(w) ==
    /\ pc[w] = "finish"
    /\ \/ send' = [send EXCEPT ![turn[w]] = "none"]
       \/ Raises /\ UNCHANGED send
    /\ Goto(w, "unlock")
    /\ UNCHANGED <<row, others>>

-----------------------------------------------------------------------------
(* The environment. *)

\* The process dies: the database drops its advisory lock and the queue will
\* recover its claim.  A request under way may or may not be accepted.
Crash(w) ==
    LET t == turn[w]
    IN  /\ "crash" \in Faults
        /\ pc[w] \notin {"idle", "gone"}
        /\ pc' = [pc EXCEPT ![w] = "gone"]
        /\ turn' = [turn EXCEPT ![w] = NoTurn]
        /\ lock' = [lock EXCEPT ![t] = IF @ = w THEN NoWorker ELSE @]
        /\ owner' = Disowned(w)
        /\ \/ UNCHANGED <<posts, accepted>>
           \/ /\ pc[w] = "post"
              /\ posts' = [posts EXCEPT ![t] = @ + 1]
              /\ \E taken \in {0, 1} : accepted' = [accepted EXCEPT ![t] = @ + taken]
        /\ UNCHANGED <<ledger, conversation, claim, attempts, result, tools>>

\* The connection that holds the advisory lock is lost; its holder learns of
\* it when it unlocks.
DropLock(t) ==
    /\ "drop" \in Faults
    /\ lock[t] # NoWorker
    /\ lock' = [lock EXCEPT ![t] = NoWorker]
    /\ UNCHANGED <<ledger, conversation, queue, local, history>>

\* expires_at passes.
ExpireSend(t) ==
    /\ "expire" \in Faults
    /\ send[t] = "live"
    /\ send' = [send EXCEPT ![t] = "expired"]
    /\ UNCHANGED <<row, others, local>>

\* Staff take the conversation, or the contact asks for a person.
Handoff ==
    /\ estado' = "humano"
    /\ row' = Fenced(row)
    /\ UNCHANGED <<send, lock, optout, queue, local, history>>

\* Staff give it back.
ReturnToIA ==
    /\ estado = "humano"
    /\ estado' = "ia"
    /\ UNCHANGED <<ledger, lock, optout, queue, local, history>>

\* The contact opts out through another message.
OptOut ==
    /\ optout' = TRUE
    /\ row' = Fenced(row)
    /\ UNCHANGED <<send, lock, estado, queue, local, history>>

\* reactivate_communications: staff undo the opt-out.
Reactivate ==
    /\ optout
    /\ optout' = FALSE
    /\ UNCHANGED <<ledger, lock, estado, queue, local, history>>

-----------------------------------------------------------------------------
Execute(w) ==
    \/ FirstGuard(w) \/ Reserve(w) \/ Acquire(w) \/ Reload(w)
    \/ BeginGuard(w) \/ Begin(w) \/ Reread(w) \/ ToolsGuard(w) \/ Unbegin(w)
    \/ RunTools(w) \/ AfterGuard(w) \/ Silent(w) \/ Prepare(w) \/ Abort(w)
    \/ Unlock(w) \/ End(w)

Deliver(w) ==
    \/ Check(w) \/ SendGuard(w) \/ Send(w) \/ Missed(w)
    \/ Precheck(w) \/ PreGuard(w) \/ Status(w) \/ LastCheck(w) \/ Renew(w)
    \/ PostGuard(w) \/ Post(w) \/ Unsend(w) \/ AcceptedGuard(w) \/ Confirm(w)
    \/ Release(w) \/ Quarantine(w) \/ Discard(w) \/ Reject(w) \/ Finish(w)

Step(w) == Execute(w) \/ Deliver(w)

Next ==
    \/ \E w \in Worker : Step(w) \/ Crash(w)
    \/ \E w \in Worker, t \in Turn : Take(w, t)
    \/ \E t \in Turn : DropLock(t) \/ ExpireSend(t)
    \/ Handoff \/ ReturnToIA \/ OptOut \/ Reactivate

Spec == Init /\ [][Next]_vars

\* A worker process keeps running, and takes work while there is some.
FairSpec ==
    /\ Spec
    /\ \A w \in Worker :
          /\ WF_vars(Step(w))
          /\ WF_vars(\E t \in Turn : owner[t] = NoWorker /\ Take(w, t))

-----------------------------------------------------------------------------
(* Properties. *)

\* The agent's tools run at most once per inbound message, whatever crashes,
\* stalls, retries and lost advisory locks happen (the RESERVED to EXECUTING
\* move and the quarantine of an interrupted execution).
ToolsAtMostOnce == \A t \in Turn : tools[t] <= 1

\* Two workers are never between the claim of a row for transport and the
\* release of its send ownership, even after the advisory lock was lost
\* (_transition_agent_reply_intent, private_deletion_sends).
InTransport(w, t) == turn[w] = t /\ pc[w] \in Transport \cup {"finish"}

SingleTransport ==
    \A t \in Turn, v, w \in Worker :
        InTransport(v, t) /\ InTransport(w, t) => v = w

\* While a provider request is made its row is IN_FLIGHT, or AMBIGUOUS when
\* a handoff overtook it: no recovery, revocation or late release by another
\* worker moved it elsewhere in the meantime.
PostUnderFence ==
    \A w \in Worker : pc[w] = "post" => Row(w) \in {"IN_FLIGHT", "AMBIGUOUS"}

\* While a human has the conversation none of its replies can still start or
\* be in transport (fence_agent_replies_for_handoff, and the checks under the
\* conversation lock when rows are created and prepared).
HumanMeansFenced ==
    estado = "humano" => \A t \in Turn : row[t] \notin Unsent \cup {"IN_FLIGHT"}

\* A terminal reply state is never left: giving the conversation back to the
\* agent, or a late worker, revives nothing.
TerminalFinal ==
    [][\A t \in Turn : row[t] \in Terminal => row'[t] = row[t]]_vars

\* CONFIRMED is only recorded for a reply the provider accepted.
ConfirmedMeansAccepted == \A t \in Turn : row[t] = "CONFIRMED" => accepted[t] >= 1

\* A suppressed or failed reply never reached the contact ("rows which never
\* reached transport are safe to suppress").
SuppressedMeansUnsent ==
    \A t \in Turn : row[t] \in {"SUPPRESSED", "FAILED"} => accepted[t] = 0

\* The reply of a turn as OnceDelivery sees it.  An execution whose tools may
\* have run is given up with no reply sent.
PhaseOf(s) ==
    CASE s = "none" -> "absent"
      [] s \in Unsent -> "waiting"
      [] s = "IN_FLIGHT" -> "sending"
      [] s = "CONFIRMED" -> "accepted"
      [] s = "AMBIGUOUS" -> "unknown"
      [] OTHER -> "refused"

Once == INSTANCE OnceDelivery WITH
            Item <- Turn,
            phase <- [t \in Turn |-> PhaseOf(row[t])],
            taken <- accepted

\* The provider accepts a reply at most once and its row is true, whatever
\* crashes, stalls, handoffs and lost locks happen: only a reply that was not
\* accepted goes back to PENDING, is suppressed or fails, and a doubtful one is
\* never sent again (_deliver_agent_reply_intent).
RepliesAtMostOnce == Once!Spec

\* An acknowledged claim leaves no execution unaccounted for and no prepared
\* reply unsent: the advisory lock is held through transport and any release
\* to PENDING.  (A stalled worker may still leave a RESERVED row behind.)
CompletedMeansSettled ==
    \A t \in Turn : claim[t] = "done" => row[t] \notin {"EXECUTING", "PENDING"}

\* Every claim is eventually acknowledged or dead-lettered, unless no worker
\* is left.
EventuallyClosed ==
    \A t \in Turn :
        <>(claim[t] # "open" \/ \A w \in Worker : pc[w] = "gone")

=============================================================================
