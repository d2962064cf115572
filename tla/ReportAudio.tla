----------------------------- MODULE ReportAudio -----------------------------
(***************************************************************************)
(* Voice reports of a cell leader and the erasure of what they leave       *)
(* behind (services/cell_report_audio_service.py, private_deletion.py,     *)
(* private_upload_witness.py).                                             *)
(*                                                                         *)
(* A captured audio is a durable row.  A cron worker claims it once, and   *)
(* between short transactions downloads it, uploads it to private storage, *)
(* reserves budget, pays for a transcription and stages a reply.  Meanwhile*)
(* the leader revokes consent, a human takes the conversation, an          *)
(* administrator erases it, uploads land late and processes die.           *)
(*                                                                         *)
(* One leader, one conversation, one meeting and one budget day.  Row      *)
(* locks are short and skipped over when taken: contention is a step that  *)
(* is not taken, or one that gives up.  The deadline of a claim is its     *)
(* lease.  Money is counted in units of one call's estimate: a call is     *)
(* billed nothing, its estimate, or more than that.                        *)
(***************************************************************************)
EXTENDS Integers, Sequences, FiniteSets

CONSTANTS
    Input,        \* audio messages
    Legacy,       \* those captured and stored under the first consent text
    Worker,       \* processes that dispatch audio (two overlap in a deploy)
    MaxCommands,  \* bound: consent texts the leader writes
    MaxCrashes,   \* bound: process losses
    MaxAudios,    \* ceiling of audios of one report (3 in the code)
    DailyLimit,   \* ceiling of the day's budget, in call estimates
    None

ASSUME BoundsAssumption ==
    /\ Legacy \subseteq Input
    /\ MaxCommands \in Nat \ {0}
    /\ MaxCrashes \in Nat
    /\ MaxAudios \in Nat
    /\ DailyLimit \in Nat
    /\ None \notin Worker \cup Input

VARIABLES
    row,      \* the durable audio row of each input
    out,      \* ledger state of the reply derived from it
    res,      \* its transcription reservation
    ext,      \* its extraction reservation
    budget,   \* the day's reserved and settled units
    spent,    \* units the provider has billed
    overrun,  \* units of those that were above their call's estimate
    calls,    \* paid transcriptions started per input
    human,    \* the conversation was handed to a human
    erased,   \* the conversation was erased
    gate,     \* release gate, privilege, meeting, credential, connection
    blob,     \* an object stands at the input's storage path
    post,     \* the upload request of the input
    owner,    \* upload ownership held for the input
    task,     \* storage task of the erasure receipt
    seen,     \* inputs whose upload the witness has read as committed
    said,     \* consent texts in the order they were stored
    heard,    \* those recorded as consent events
    notice,   \* [state, at]: the consent notice and what had been said by then
    worker,   \* where each dispatcher is; tried: it has upload ownership behind it,
              \* ok: authorised for the next boundary, cost: what its last call billed
    purger,   \* [at, job]: where the retention pass is
    crashes

vars == <<row, out, res, ext, budget, spent, overrun, calls, human, erased, gate, blob,
          post, owner, task, seen, said, heard, notice, worker, purger, crashes>>

money == <<res, ext, budget, spent, overrun, calls>>
storage == <<blob, post, owner, task, seen>>
talk == <<said, heard, notice>>
world == <<erased, gate, crashes>>

Live == {"aguardando_aceite", "pendente", "processando", "transcrita"}
Ended == {"cancelada", "ambigua", "purgada"}
Absent == {"nova", "apagada"}
Unsent == {"reservada", "pendente", "em_transporte"}
Steps == {"idle", "download", "begin", "post", "posting", "reserve", "transcribe",
          "settle", "stage", "extract", "complete", "deny", "denied", "fail", "failed"}
Boundary == {"download", "begin", "reserve", "transcribe", "extract"}

NoRow == [state |-> "nova", version |-> "none", consent |-> 0, lease |-> "none",
          token |-> None, expired |-> FALSE, purge |-> "ativa", reason |-> "none"]
OldRow == [NoRow EXCEPT !.state = "transcrita", !.version = "v1"]
Idle == [at |-> "idle", job |-> None, tried |-> FALSE, ok |-> FALSE, cost |-> 0]
Resting == [at |-> "idle", job |-> None]

\* The leader has accepted the current text, or has not been asked yet; an
\* older audio may be on file.
Init ==
    /\ row = [i \in Input |-> IF i \in Legacy THEN OldRow ELSE NoRow]
    /\ out = [i \in Input |-> IF i \in Legacy THEN "enviada" ELSE "nenhuma"]
    /\ res = [i \in Input |-> "nenhuma"]
    /\ ext = [i \in Input |-> "nenhuma"]
    /\ budget = [reserved |-> 0, settled |-> 0]
    /\ spent = 0
    /\ overrun = 0
    /\ calls = [i \in Input |-> 0]
    /\ human = FALSE
    /\ erased = FALSE
    /\ gate = TRUE
    /\ blob = [i \in Input |-> i \in Legacy]
    /\ post = [i \in Input |-> "none"]
    /\ owner = [i \in Input |-> FALSE]
    /\ task = [i \in Input |-> "nenhuma"]
    /\ seen = {}
    /\ \/ /\ said = <<"accept">> /\ heard = {1}
          /\ notice = [state |-> "entregue", at |-> 0]
       \/ /\ said = <<>> /\ heard = {}
          /\ notice = [state |-> "none", at |-> 0]
    /\ worker = [w \in Worker |-> Idle]
    /\ purger = Resting
    /\ crashes = 0

-----------------------------------------------------------------------------
(* Consent *)

Later(S, k) == {j \in S : j > k}

\* _active_audio_consent: the event latest by the time its text was stored,
\* when it is an acceptance; 0 when there is none.
ActiveConsent ==
    IF \E k \in heard : Later(heard, k) = {} /\ said[k] = "accept"
    THEN CHOOSE k \in heard : Later(heard, k) = {}
    ELSE 0

\* _terminalize_audio_input
Terminal(r, state, reason, expire) ==
    [r EXCEPT !.state = state, !.token = None, !.lease = "none",
              !.reason = reason, !.expired = @ \/ expire]

\* Mutant: what a worker already holds is left to it.
Cancelled_Waiting(reason) ==
    [i \in Input |->
        IF row[i].state \in Live \ {"processando"}
        THEN Terminal(row[i], "cancelada", reason, TRUE)
        ELSE row[i]]

\* cancel_audio_inputs_for_conversation: every live audio ends, an unfinished
\* one as ambiguous ...
Cancelled(reason) ==
    [i \in Input |->
        IF row[i].state \in Live
        THEN Terminal(row[i], IF row[i].state = "processando" THEN "ambigua"
                                                             ELSE "cancelada", reason, TRUE)
        ELSE row[i]]

\* ... and _cancel_audio_output_for_input silences the reply of each of S.
Silenced(S) ==
    [i \in Input |-> IF i \in S /\ out[i] \in Unsent THEN "sem_resposta" ELSE out[i]]

LiveInputs == {i \in Input : row[i].state \in Live}

\* fence_agent_replies_for_handoff: what may have left stays ambiguous.
Fenced ==
    [i \in Input |-> CASE out[i] \in {"reservada", "pendente"} -> "suprimida"
                       [] out[i] = "em_transporte" -> "ambigua"
                       [] OTHER -> out[i]]

\* mark_conversation_for_handoff_locked, then the caller ends its own row.
HandOff(i, state, reason) ==
    /\ human' = TRUE
    /\ out' = Fenced
    /\ row' = [Cancelled("handoff") EXCEPT ![i] = Terminal(row[i], state, reason, TRUE)]

\* The leader writes a consent text; the ingest stores it.
Say ==
    /\ ~erased /\ Len(said) < MaxCommands
    /\ \E c \in {"accept", "revoke"} : said' = Append(said, c)
    /\ UNCHANGED <<row, out, money, human, world, storage, heard, notice, worker, purger>>

\* record_audio_consent_command of an acceptance: only after a delivered notice.
Accept(k) ==
    /\ k \in DOMAIN said \ heard /\ said[k] = "accept" /\ ~erased
    /\ notice.state = "entregue" /\ notice.at < k
    /\ heard' = heard \cup {k}
    /\ UNCHANGED <<row, out, money, human, world, storage, said, notice, worker, purger>>

\* A revocation, recorded once and applied again when its text is retried.
Revoke(k) ==
    /\ k \in DOMAIN said /\ said[k] = "revoke" /\ ~erased
    /\ heard' = heard \cup {k}
    /\ row' = Cancelled("revogado")
    /\ out' = Silenced(LiveInputs)
    /\ notice' = IF notice.state = "preparado" /\ k \notin heard
                 THEN [notice EXCEPT !.state = "cancelado"] ELSE notice
    /\ UNCHANGED <<money, human, world, storage, said, worker, purger>>

\* prepare_audio_consent_notice, for an audio that waits for consent.
PrepareNotice ==
    /\ notice.state \in {"none", "cancelado"} /\ ~erased
    /\ ActiveConsent = 0
    /\ \E i \in Input : row[i].state = "aguardando_aceite"
    /\ notice' = [notice EXCEPT !.state = "preparado"]
    /\ UNCHANGED <<row, out, money, human, world, storage, said, heard, worker, purger>>

\* mark_audio_consent_notice_delivered / invalidate_audio_consent_notice
SettleNotice ==
    /\ notice.state = "preparado" /\ ~erased
    /\ \/ notice' = [state |-> "entregue", at |-> Len(said)]
       \/ notice' = [notice EXCEPT !.state = "cancelado"]
    /\ UNCHANGED <<row, out, money, human, world, storage, said, heard, worker, purger>>

\* enqueue_audio_input_after_inbound
Capture(i) ==
    /\ row[i].state = "nova" /\ ~erased /\ ~human /\ gate
    /\ \/ row' = [row EXCEPT ![i] = Terminal([@ EXCEPT !.consent = ActiveConsent,
                    !.version = IF ActiveConsent = 0 THEN "none" ELSE "v2"],
                    "cancelada", "mime", FALSE)]
       \/ row' = [row EXCEPT ![i].consent = ActiveConsent,
                             ![i].version = IF ActiveConsent = 0 THEN "none" ELSE "v2",
                             ![i].state = IF ActiveConsent = 0 THEN "aguardando_aceite"
                                                               ELSE "pendente"]
    /\ UNCHANGED <<out, money, human, world, storage, talk, worker, purger>>

\* The gates of a claim: rollout, privilege, meeting, credential, connection.
TurnGate ==
    /\ gate' = ~gate
    /\ UNCHANGED <<row, out, money, human, erased, crashes, storage, talk, worker, purger>>

\* Twenty-four hours pass over a row; three minutes over a claim.
Expire(i) ==
    /\ row[i].state \notin Absent /\ ~row[i].expired
    /\ row' = [row EXCEPT ![i].expired = TRUE]
    /\ UNCHANGED <<out, money, human, world, storage, talk, worker, purger>>

LeaseLapses(i) ==
    /\ row[i].lease = "live"
    /\ row' = [row EXCEPT ![i].lease = "lapsed"]
    /\ UNCHANGED <<out, money, human, world, storage, talk, worker, purger>>

-----------------------------------------------------------------------------
(* The dispatcher *)

Go(w, at) == worker' = [worker EXCEPT ![w].at = at, ![w].ok = FALSE]
Rest(w) == worker' = [worker EXCEPT ![w] = Idle]
Job(w) == worker[w].job

\* What every claim rests on: rollout, privilege, meeting, credential and
\* connection (gate), a conversation the agent still leads, a row within its
\* day, and the very acceptance it was captured under.
Allowed(i) ==
    /\ gate /\ ~human /\ ~erased /\ ~row[i].expired
    /\ ActiveConsent # 0 /\ ActiveConsent = row[i].consent

\* _claim_next_audio_input: the claim, or the end of a row no longer allowed.
Claim(w, i) ==
    /\ worker[w] = Idle /\ row[i].state = "pendente" /\ row[i].purge = "ativa"
    /\ IF Allowed(i)
       THEN /\ row' = [row EXCEPT ![i].state = "processando", ![i].lease = "live",
                                  ![i].token = w]
            /\ worker' = [worker EXCEPT ![w] = [Idle EXCEPT !.at = "download", !.job = i]]
       ELSE /\ row' = [row EXCEPT ![i] = Terminal(@, "cancelada", "contexto", FALSE)]
            /\ UNCHANGED worker
    /\ UNCHANGED <<out, money, human, world, storage, talk, purger>>

\* This worker still owns the claimed row.
Owns(w) == row[Job(w)].state = "processando" /\ row[Job(w)].token = w

\* Mutant: a claim once taken is not looked at again.
InContext_Trusted(w) == row[Job(w)].state \notin Absent

\* _lock_audio_claim_context
InContext(w) == Owns(w) /\ row[Job(w)].lease = "live" /\ Allowed(Job(w))

\* _audio_claim_still_authorized, asked in a transaction of its own before
\* every boundary; what it answers may be stale when the boundary is crossed.
Authorise(w) ==
    /\ worker[w].at \in Boundary /\ ~worker[w].ok /\ InContext(w)
    /\ worker' = [worker EXCEPT ![w].ok = TRUE]
    /\ UNCHANGED <<row, out, money, human, world, storage, talk, purger>>

\* A refused claim is ended where it stands; one refused before the extractor,
\* or that met only locks until its deadline, fails towards a human.
Refuse(w) ==
    /\ worker[w].at \in Boundary /\ ~worker[w].ok
    /\ \/ ~InContext(w) /\ Go(w, IF worker[w].at = "extract" THEN "fail" ELSE "deny")
       \/ row[Job(w)].lease # "live" /\ Go(w, "fail")
    /\ UNCHANGED <<row, out, money, human, world, storage, talk, purger>>

\* The media is fetched from the provider and decoded.
Download(w) ==
    /\ worker[w].at = "download" /\ worker[w].ok
    /\ Go(w, "begin") \/ Go(w, "fail")
    /\ UNCHANGED <<row, out, money, human, world, storage, talk, purger>>

\* private_storage_begin_upload_attempt: ownership under the conversation's
\* generation, committed before the request that carries its token.
Begin(w) ==
    LET i == Job(w) IN
    /\ worker[w].at = "begin" /\ worker[w].ok
    /\ IF ~erased /\ ~owner[i]
       THEN /\ owner' = [owner EXCEPT ![i] = TRUE]
            /\ worker' = [worker EXCEPT ![w].at = "post", ![w].ok = FALSE, ![w].tried = TRUE]
       ELSE Go(w, "deny") /\ UNCHANGED owner
    /\ UNCHANGED <<row, out, money, human, world, blob, post, task, seen, talk, purger>>

Post(w) ==
    /\ worker[w].at = "post"
    /\ post' = [post EXCEPT ![Job(w)] = "flying"]
    /\ Go(w, "posting")
    /\ UNCHANGED <<row, out, money, human, world, blob, owner, task, seen, talk, purger>>

\* Storage commits the object, or never will; either may come long after the
\* caller gave up.
Land(i) ==
    /\ post[i] = "flying"
    /\ \/ post' = [post EXCEPT ![i] = "landed"] /\ blob' = [blob EXCEPT ![i] = TRUE]
       \/ post' = [post EXCEPT ![i] = "dropped"] /\ UNCHANGED blob
    /\ UNCHANGED <<row, out, money, human, world, owner, task, seen, talk, worker, purger>>

\* reopen_late_audio_upload: cleanup starts again where a receipt exists.
Reopened(i) == [task EXCEPT ![i] = IF @ = "nenhuma" THEN @ ELSE "pendente"]

\* _upload_owned_audio on a confirmed write: cleanup is reopened and the
\* ownership given up in one transaction.  A success past the deadline still
\* fails the chain, and so does a commit that is lost.
Finish(w) ==
    LET i == Job(w) IN
    /\ worker[w].at = "posting" /\ post[i] = "landed"
    /\ \/ /\ task' = Reopened(i)
          /\ owner' = [owner EXCEPT ![i] = FALSE]
          /\ Go(w, "reserve") \/ Go(w, "fail")
       \/ Go(w, "fail") /\ UNCHANGED <<task, owner>>
    /\ UNCHANGED <<row, out, money, human, world, blob, post, seen, talk, purger>>

\* A timeout or an error answer proves nothing: the ownership stays.
Unknown(w) ==
    /\ worker[w].at = "posting"
    /\ Go(w, "fail")
    /\ UNCHANGED <<row, out, money, human, world, storage, talk, purger>>

Reservations == Cardinality({i \in Input : res[i] # "nenhuma"})
DayHasRoom == budget.reserved + budget.settled + 1 <= DailyLimit
Reserved == [budget EXCEPT !.reserved = @ + 1]
Settled(cost) == [budget EXCEPT !.reserved = @ - 1, !.settled = @ + cost]

\* reserve_audio_transcription_budget, under its own look at the context.
Reserve(w) ==
    LET i == Job(w) IN
    /\ worker[w].at = "reserve" /\ worker[w].ok
    /\ CASE ~InContext(w) -> Go(w, "fail") /\ UNCHANGED <<row, res, budget>>
         [] InContext(w) /\ Reservations < MaxAudios /\ DayHasRoom ->
              /\ res' = [res EXCEPT ![i] = "reservada"]
              /\ budget' = Reserved
              /\ Go(w, "transcribe")
              /\ UNCHANGED row
         [] OTHER ->
              /\ row' = [row EXCEPT ![i] = Terminal(@, "cancelada", "orcamento", FALSE)]
              /\ Go(w, "fail")
              /\ UNCHANGED <<res, budget>>
    /\ UNCHANGED <<out, ext, spent, overrun, calls, human, world, storage, talk, purger>>

Above(cost) == IF cost > 1 THEN cost - 1 ELSE 0

\* Mutant: a call without an answer is made again under a new authorisation.
Paid_Again(w, next) ==
    \E cost \in 0..2 :
        /\ spent' = spent + cost
        /\ overrun' = overrun + Above(cost)
        /\ \/ worker' = [worker EXCEPT ![w].at = next, ![w].ok = FALSE, ![w].cost = cost]
           \/ Go(w, worker[w].at)

\* A paid call is billed whether or not its answer arrives, and by what the
\* provider measured: the estimate was made from the audio decoded here.
Paid(w, next) ==
    \E cost \in 0..2 :
        /\ spent' = spent + cost
        /\ overrun' = overrun + Above(cost)
        /\ \/ worker' = [worker EXCEPT ![w].at = next, ![w].ok = FALSE, ![w].cost = cost]
           \/ Go(w, "fail")

Transcribe(w) ==
    /\ worker[w].at = "transcribe" /\ worker[w].ok
    /\ calls' = [calls EXCEPT ![Job(w)] = @ + 1]
    /\ Paid(w, "settle")
    /\ UNCHANGED <<row, out, res, ext, budget, human, world, storage, talk, purger>>

\* Mutant: a bill above its estimate is settled like any other.
Settle_AnyBill(w) ==
    LET i == Job(w) IN
    /\ worker[w].at = "settle"
    /\ IF res[i] = "reservada"
       THEN /\ res' = [res EXCEPT ![i] = "liquidada"]
            /\ budget' = Settled(worker[w].cost)
            /\ Go(w, "stage")
       ELSE Go(w, "fail") /\ UNCHANGED <<res, budget>>
    /\ UNCHANGED <<row, out, ext, spent, overrun, calls, human, world, storage, talk, purger>>

\* _settle_audio_transcription_budget: the reservation becomes its cost.  A bill
\* above the estimate is not settled: the reservation stands and the chain fails.
Settle(w) ==
    LET i == Job(w) IN
    /\ worker[w].at = "settle"
    /\ IF res[i] = "reservada" /\ worker[w].cost <= 1
       THEN /\ res' = [res EXCEPT ![i] = "liquidada"]
            /\ budget' = Settled(worker[w].cost)
            /\ Go(w, "stage")
       ELSE Go(w, "fail") /\ UNCHANGED <<res, budget>>
    /\ UNCHANGED <<row, out, ext, spent, overrun, calls, human, world, storage, talk, purger>>

\* The row and its reply leave the dispatcher together.
Transcribed(i, reply) ==
    /\ row' = [row EXCEPT ![i].state = "transcrita", ![i].lease = "none", ![i].token = None]
    /\ out' = [out EXCEPT ![i] = reply]
    /\ UNCHANGED human

\* _stage_audio_transcript: out of context; a transcript that asks for a human
\* or to opt out; one that says nothing of a report; one that makes a summary;
\* one that needs the paid extractor, whose budget is taken here.
Stage(w) ==
    LET i == Job(w) IN
    /\ worker[w].at = "stage"
    /\ \/ /\ ~InContext(w)
          /\ \/ /\ Owns(w)
                /\ row' = [row EXCEPT ![i] = Terminal(@, "cancelada", "contexto", TRUE)]
             \/ UNCHANGED row
          /\ Rest(w)
          /\ UNCHANGED <<out, human, ext, budget>>
       \/ /\ InContext(w)
          /\ HandOff(i, "cancelada", "transcricao") /\ Rest(w)
          /\ UNCHANGED <<ext, budget>>
       \/ /\ InContext(w)
          /\ Transcribed(i, "sem_resposta") \/ Transcribed(i, "pendente")
          /\ Rest(w)
          /\ UNCHANGED <<ext, budget>>
       \/ /\ InContext(w)
          /\ IF DayHasRoom
             THEN /\ ext' = [ext EXCEPT ![i] = "reservada"]
                  /\ budget' = Reserved
                  /\ out' = [out EXCEPT ![i] = "reservada"]
                  /\ Go(w, "extract")
             ELSE Go(w, "fail") /\ UNCHANGED <<ext, budget, out>>
          /\ UNCHANGED <<row, human>>
    /\ UNCHANGED <<res, spent, overrun, calls, world, storage, talk, purger>>

\* The paid extractor.
Extract(w) ==
    /\ worker[w].at = "extract" /\ worker[w].ok
    /\ Paid(w, "complete")
    /\ UNCHANGED <<row, out, res, ext, budget, calls, human, world, storage, talk, purger>>

\* _complete_audio_extraction_after_provider: the answer is used only in
\* context and while its reply still waits; otherwise the row is left to the
\* recovery of its lease and the reservation stays taken, as it does when the
\* bill is above its estimate and the conversation goes to a human.
Complete(w) ==
    LET i == Job(w) IN
    /\ worker[w].at = "complete"
    /\ IF InContext(w) /\ out[i] = "reservada"
       THEN \/ /\ worker[w].cost <= 1
               /\ ext' = [ext EXCEPT ![i] = "liquidada"]
               /\ budget' = Settled(worker[w].cost)
               /\ Transcribed(i, "pendente") \/ HandOff(i, "cancelada", "extracao")
            \/ HandOff(i, "cancelada", "extracao") /\ UNCHANGED <<ext, budget>>
       ELSE UNCHANGED <<row, out, human, ext, budget>>
    /\ Rest(w)
    /\ UNCHANGED <<res, spent, overrun, calls, world, storage, talk, purger>>

\* _reopen_audio_purge_after_late_upload, the first half of both ways out: a
\* row that was erased meanwhile has its cleanup task opened again.
Reopen(w) ==
    /\ worker[w].at \in {"deny", "fail"}
    /\ IF worker[w].tried /\ row[Job(w)].state = "apagada"
       THEN task' = Reopened(Job(w))
       ELSE UNCHANGED task
    /\ Go(w, IF worker[w].at = "deny" THEN "denied" ELSE "failed")
    /\ UNCHANGED <<row, out, money, human, world, blob, post, owner, seen, talk, purger>>

\* _terminalize_audio_claim, or its row locks were taken and it gave up.
Denied(w) ==
    LET i == Job(w) IN
    /\ worker[w].at = "denied"
    /\ \/ Owns(w) /\ row' = [row EXCEPT ![i] =
                                Terminal(@, "cancelada", "contexto", worker[w].tried)]
       \/ UNCHANGED row
    /\ Rest(w)
    /\ UNCHANGED <<out, money, human, world, storage, talk, purger>>

\* _handoff_audio_claim_failure: whoever still owns the row hands the
\* conversation to a human; past the deadline it leaves that to the recovery.
Failed(w) ==
    LET i == Job(w) IN
    /\ worker[w].at = "failed"
    /\ \/ /\ Owns(w)
          /\ \E state \in {"cancelada", "ambigua"} : HandOff(i, state, "falha")
       \/ /\ ~Owns(w) \/ row[i].lease # "live"
          /\ UNCHANGED <<row, out, human>>
    /\ Rest(w)
    /\ UNCHANGED <<money, world, storage, talk, purger>>

\* Mutant: a row past its day is passed over.
Recover_Fresh(i) ==
    /\ row[i].state = "processando" /\ row[i].purge = "ativa" /\ row[i].lease = "lapsed"
    /\ ~row[i].expired
    /\ HandOff(i, "cancelada", "perdida")
    /\ UNCHANGED <<money, world, storage, talk, worker, purger>>

\* _recover_expired_audio_handoff: only the human fence is retried, never I/O.
Recover(i) ==
    /\ row[i].state = "processando" /\ row[i].purge = "ativa" /\ row[i].lease = "lapsed"
    /\ HandOff(i, "cancelada", "perdida")
    /\ UNCHANGED <<money, world, storage, talk, worker, purger>>

Crash(w) ==
    /\ worker[w] # Idle /\ crashes < MaxCrashes
    /\ crashes' = crashes + 1
    /\ Rest(w)
    /\ UNCHANGED <<row, out, money, human, erased, gate, storage, talk, purger>>

-----------------------------------------------------------------------------
(* The reply and the official report *)

\* audio_summary_still_authorized, asked when the reply is about to leave.
Speaks(i) ==
    /\ row[i].state = "transcrita" /\ row[i].purge = "ativa" /\ Allowed(i)

SendReply(i) ==
    /\ out[i] = "pendente" /\ Speaks(i)
    /\ out' = [out EXCEPT ![i] = "em_transporte"]
    /\ UNCHANGED <<row, money, human, world, storage, talk, worker, purger>>

\* The provider's answer: delivered, unknown, or refused and to be tried again.
ReplyAnswered(i) ==
    /\ out[i] = "em_transporte" /\ ~erased
    /\ \E state \in {"enviada", "ambigua", "pendente"} : out' = [out EXCEPT ![i] = state]
    /\ UNCHANGED <<row, money, human, world, storage, talk, worker, purger>>

\* _load_audio_pending_reply and invalidate_undelivered_proposal: a reply that
\* lost its authority takes every live audio of the conversation with it.
SuppressReply(i) ==
    /\ out[i] = "pendente" /\ row[i].state = "transcrita" /\ ~row[i].expired /\ ~Speaks(i)
    /\ row' = Cancelled("revogado")
    /\ out' = Silenced(LiveInputs)
    /\ UNCHANGED <<money, human, world, storage, talk, worker, purger>>

\* clear_audio_transcript_after_official_report: the leader confirmed a summary
\* and the report was filed; every audio that fed it ends.
OfficialReport(i) ==
    LET fed == {j \in Input : res[j] # "nenhuma" /\ row[j].state \notin Absent \cup {"purgada"}} IN
    /\ out[i] = "enviada" /\ row[i].state = "transcrita" /\ ~human /\ ~erased /\ fed # {}
    /\ out' = Silenced(fed)
    /\ row' = [j \in Input |->
                  IF j \in fed
                  THEN Terminal(row[j], IF row[j].state = "processando" THEN "ambigua"
                                        ELSE "cancelada", "relatorio", TRUE)
                  ELSE row[j]]
    /\ UNCHANGED <<money, human, world, storage, talk, worker, purger>>

-----------------------------------------------------------------------------
(* Retention and erasure *)

\* _claim_audio_purge: only what was captured under an older consent text.
PurgeClaim(i) ==
    /\ purger = Resting
    /\ row[i].state \notin Absent \cup {"processando"}
    /\ row[i].purge \in {"ativa", "pendente"} /\ row[i].expired /\ row[i].version # "v2"
    /\ row' = [row EXCEPT ![i] =
                  [(IF @.state \in Ended THEN @ ELSE Terminal(@, "cancelada", "retencao", FALSE))
                      EXCEPT !.purge = "pendente"]]
    /\ purger' = [at |-> "remove", job |-> i]
    /\ UNCHANGED <<out, money, human, world, storage, talk, worker>>

\* The object is removed between two transactions, or the call fails.
PurgeRemove ==
    /\ purger.at = "remove"
    /\ \/ blob' = [blob EXCEPT ![purger.job] = FALSE] /\ purger' = [purger EXCEPT !.at = "finish"]
       \/ UNCHANGED blob /\ purger' = Resting
    /\ UNCHANGED <<row, out, money, human, world, post, owner, task, seen, talk, worker>>

\* _finish_audio_purge, or the process was lost before it.
PurgeFinish ==
    LET i == purger.job IN
    /\ purger.at = "finish"
    /\ \/ /\ row[i].state \notin Absent /\ row[i].purge = "pendente"
          /\ row' = [row EXCEPT ![i].state = "purgada", ![i].purge = "purgada"]
       \/ UNCHANGED row
    /\ purger' = Resting
    /\ UNCHANGED <<out, money, human, world, storage, talk, worker>>

\* Mutant: a task only for the objects that stand at the time of the erasure.
Erase_Standing ==
    /\ ~erased
    /\ erased' = TRUE
    /\ LET gone == {i \in Input : row[i].state \notin Absent} IN
       /\ row' = [i \in Input |-> IF i \in gone THEN [NoRow EXCEPT !.state = "apagada"] ELSE row[i]]
       /\ out' = [i \in Input |-> "nenhuma"]
       /\ task' = [i \in Input |-> IF i \in gone /\ blob[i] THEN "pendente" ELSE task[i]]
       /\ res' = [i \in Input |-> "nenhuma"]
       /\ ext' = [i \in Input |-> "nenhuma"]
    /\ UNCHANGED <<budget, spent, overrun, calls, human, gate, crashes, blob, post, owner, seen,
                   talk, worker, purger>>

\* private_delete_content: rows, replies and reservations go with the
\* conversation, a task per storage path stays; ownership is not touched.
Erase ==
    /\ ~erased
    /\ erased' = TRUE
    /\ LET gone == {i \in Input : row[i].state \notin Absent} IN
       /\ row' = [i \in Input |-> IF i \in gone THEN [NoRow EXCEPT !.state = "apagada"] ELSE row[i]]
       /\ out' = [i \in Input |-> "nenhuma"]
       /\ task' = [i \in Input |-> IF i \in gone THEN "pendente" ELSE task[i]]
       /\ res' = [i \in Input |-> "nenhuma"]
       /\ ext' = [i \in Input |-> "nenhuma"]
    /\ UNCHANGED <<budget, spent, overrun, calls, human, gate, crashes, blob, post, owner, seen,
                   talk, worker, purger>>

\* Mutant: the cleanup does not ask who owns an upload.
Clean_Unfenced(i, committed) ==
    /\ task[i] = "pendente"
    /\ blob' = [blob EXCEPT ![i] = FALSE]
    /\ task' = IF committed THEN [task EXCEPT ![i] = "concluida"] ELSE task
    /\ UNCHANGED <<row, out, money, human, world, post, owner, seen, talk, worker, purger>>

\* process_storage_tasks: not while an upload is owned.  A process lost before
\* the commit leaves the task, and a failed removal leaves everything.
Clean(i, committed) ==
    /\ task[i] = "pendente" /\ ~owner[i]
    /\ blob' = [blob EXCEPT ![i] = FALSE]
    /\ task' = IF committed THEN [task EXCEPT ![i] = "concluida"] ELSE task
    /\ UNCHANGED <<row, out, money, human, world, post, owner, seen, talk, worker, purger>>

\* reconcile_upload_attempts reads the token of an owned upload ...
WitnessRead(i) ==
    /\ task[i] = "pendente" /\ owner[i] /\ post[i] = "landed" /\ blob[i] /\ i \notin seen
    /\ seen' = seen \cup {i}
    /\ UNCHANGED <<row, out, money, human, world, blob, post, owner, task, talk, worker, purger>>

\* Mutant: the ownership is found through the row it was taken for.
WitnessRelease_ByRow(i) ==
    /\ i \in seen
    /\ seen' = seen \ {i}
    /\ owner' = IF row[i].state \notin Absent THEN [owner EXCEPT ![i] = FALSE] ELSE owner
    /\ UNCHANGED <<row, out, money, human, world, blob, post, task, talk, worker, purger>>

\* ... and gives the ownership up in a later transaction.
WitnessRelease(i) ==
    /\ i \in seen
    /\ seen' = seen \ {i}
    /\ owner' = IF task[i] = "pendente" THEN [owner EXCEPT ![i] = FALSE] ELSE owner
    /\ UNCHANGED <<row, out, money, human, world, blob, post, task, talk, worker, purger>>

-----------------------------------------------------------------------------
WorkerStep(w) ==
    \/ Authorise(w) \/ Refuse(w) \/ Download(w) \/ Begin(w) \/ Post(w) \/ Finish(w)
    \/ Unknown(w) \/ Reserve(w) \/ Transcribe(w) \/ Settle(w) \/ Stage(w)
    \/ Extract(w) \/ Complete(w) \/ Reopen(w) \/ Denied(w) \/ Failed(w)

Next ==
    \/ Say \/ PrepareNotice \/ SettleNotice \/ TurnGate \/ PurgeRemove \/ PurgeFinish \/ Erase
    \/ \E k \in 1..MaxCommands : Accept(k) \/ Revoke(k)
    \/ \E w \in Worker : WorkerStep(w) \/ Crash(w)
    \/ \E w \in Worker, i \in Input : Claim(w, i)
    \/ \E i \in Input :
        \/ Capture(i) \/ Expire(i) \/ LeaseLapses(i) \/ Land(i) \/ Recover(i)
        \/ SendReply(i) \/ ReplyAnswered(i) \/ SuppressReply(i) \/ OfficialReport(i)
        \/ PurgeClaim(i) \/ Clean(i, TRUE) \/ Clean(i, FALSE) \/ WitnessRead(i) \/ WitnessRelease(i)

Spec == Init /\ [][Next]_vars

\* What the cron goes on doing: leases run out, the recovery pass, the witness
\* and the cleanup take their turns, and Storage answers one day.
Upkeep ==
    \A i \in Input :
        /\ WF_vars(LeaseLapses(i)) /\ WF_vars(Recover(i))
        /\ WF_vars(WitnessRead(i)) /\ WF_vars(WitnessRelease(i)) /\ WF_vars(Clean(i, TRUE))

FairSpec == Spec /\ Upkeep

-----------------------------------------------------------------------------
(* Properties *)

\* The shapes the tables and the running processes may take.
TypeOK ==
    /\ row \in [Input -> [state : Live \cup Ended \cup Absent, version : {"none", "v1", "v2"},
                          consent : 0..MaxCommands, lease : {"none", "live", "lapsed"},
                          token : Worker \cup {None}, expired : BOOLEAN,
                          purge : {"ativa", "pendente", "purgada"},
                          reason : {"none", "mime", "contexto", "orcamento", "transcricao",
                                    "extracao", "falha", "perdida", "handoff", "revogado",
                                    "relatorio", "retencao"}]]
    /\ out \in [Input -> Unsent \cup {"nenhuma", "enviada", "ambigua", "sem_resposta",
                                      "suprimida"}]
    /\ res \in [Input -> {"nenhuma", "reservada", "liquidada"}]
    /\ ext \in [Input -> {"nenhuma", "reservada", "liquidada"}]
    /\ budget \in [reserved : 0..DailyLimit, settled : 0..DailyLimit]
    /\ spent \in Nat /\ overrun \in Nat
    /\ calls \in [Input -> Nat]
    /\ human \in BOOLEAN /\ erased \in BOOLEAN /\ gate \in BOOLEAN
    /\ blob \in [Input -> BOOLEAN]
    /\ post \in [Input -> {"none", "flying", "landed", "dropped"}]
    /\ owner \in [Input -> BOOLEAN]
    /\ task \in [Input -> {"nenhuma", "pendente", "concluida"}]
    /\ seen \subseteq Input
    /\ said \in Seq({"accept", "revoke"}) /\ Len(said) <= MaxCommands
    /\ heard \subseteq DOMAIN said
    /\ notice \in [state : {"none", "preparado", "entregue", "cancelado"}, at : 0..MaxCommands]
    /\ worker \in [Worker -> [at : Steps, job : Input \cup {None}, tried : BOOLEAN,
                              ok : BOOLEAN, cost : 0..2]]
    /\ purger \in [at : {"idle", "remove", "finish"}, job : Input \cup {None}]
    /\ crashes \in 0..MaxCrashes

\* An audio is paid for at most once, whatever dies, lapses or is recovered:
\* the claim is the boundary that is never crossed twice
\* (_claim_next_audio_input, _recover_expired_audio_handoff).
PaidOnce == \A i \in Input : calls[i] <= 1

\* The ledger answers for every bill up to its estimate, whichever workers
\* reserve, whatever is erased or lost in between, and although a bill above its
\* estimate is refused: its reservation is never given back.  Reserved and settled
\* money together stay under the day's ceiling; what was billed above an estimate
\* is in neither (reserve_ and _settle_audio_transcription_budget,
\* settle_v1a_extraction_budget).
LedgerCoversEstimates ==
    /\ spent - overrun <= budget.reserved + budget.settled
    /\ budget.reserved + budget.settled <= DailyLimit

\* A finished cleanup task is the truth: no object of the erased audio stands,
\* and no upload can still put one there (private_deletion_uploads).
ErasedForGood ==
    \A i \in Input : task[i] = "concluida" => ~blob[i] /\ post[i] # "flying"

\* Every object in storage has something that will still remove or keep it: a
\* row not purged, or an open cleanup task.
NoStrandedObject ==
    \A i \in Input :
        blob[i] => row[i].state \notin Absent \cup {"purgada"} \/ task[i] = "pendente"

\* Nothing captured under an acceptance outlives a later recorded revocation:
\* no audio waits or runs and no reply is left to send, in whatever order the
\* texts were recorded and whoever was half way through a chain.
RevokedMeansSilent ==
    \A i \in Input, k \in heard :
        said[k] = "revoke" /\ k > row[i].consent =>
            row[i].state \notin {"pendente", "processando"} /\ out[i] \notin Unsent

\* An ended audio stays ended: a worker that comes back from a provider, or a
\* late extraction, revives nothing (lease token of every write).
EndedStays ==
    [][\A i \in Input : row[i].state \in Ended => row'[i].state \in Ended \cup {"apagada"}]_vars

\* A claimed audio is settled in the end, also when its worker is gone.
ClaimSettles ==
    \A i \in Input : row[i].state = "processando" ~> row[i].state # "processando"

\* An erasure whose upload is not in doubt runs to its end, though the uploader
\* died holding the ownership.
ErasureEnds ==
    \A i \in Input :
        task[i] = "pendente" /\ (owner[i] => post[i] = "landed") ~> task[i] = "concluida"
=============================================================================
