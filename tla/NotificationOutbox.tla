------------------------- MODULE NotificationOutbox -------------------------
(***************************************************************************)
(* The shared outbox of WhatsApp notices (services/notification_outbox.py) *)
(* seen from one recipient and one family of purposes.  Every transaction  *)
(* on a recipient's rows first locks the conversations and the person      *)
(* (_lock_notification_recipient_prefix), so each transaction is one step  *)
(* and recipients do not interact; families share only the refusal, which  *)
(* treats the rows of each alike.                                          *)
(*                                                                         *)
(* Time is the São Paulo day and whether its sending window (08:00 to      *)
(* 21:00) is open; the night belongs to the day before.  A delay within a  *)
(* day is not counted: any claim may come late.  What the transaction      *)
(* re-reads of the world (release gates, source, consent, connection,      *)
(* phone) may change at any time, so its answer is a free choice; the      *)
(* reminder preferences, which this code writes, are state.                *)
(***************************************************************************)
EXTENDS Naturals, FiniteSets

CONSTANTS
    Worker,    \* cron workers; a restarted one is the same member
    Intent,    \* intents, one per unique outbox key
    MaxDay,    \* bound: days
    Cap,       \* transports per family and day; 2 in the code
    Retries,   \* len(_RETRY_DELAYS); 2 in the code
    Faults,    \* what the environment may do, see FaultKind
    NoIntent

\* crash: a worker dies and is restarted, or its transaction fails, which
\* looks the same.  stall: a live worker outlasts its lease.
FaultKind == {"crash", "stall"}

ASSUME OutboxAssumption ==
    /\ MaxDay \in Nat \ {0}
    /\ Cap \in Nat \ {0} /\ Retries \in Nat
    /\ Faults \subseteq FaultKind /\ NoIntent \notin Intent

Purpose == {"agenda_reminder", "agenda_evt7", "cell_report", "consolidation"}
FamilyOf(p) == IF p \in {"agenda_reminder", "agenda_evt7"} THEN "agenda" ELSE p

VARIABLES
    purpose,   \* of each intent, fixed; one family
    state,     \* notification_outbox.state, "none" before the row exists
    attempts,  \* proven failures before the send
    reserved,  \* delivery_reservation_day, 0 when null
    due,       \* the day of due_at
    last,      \* the last day its fixed bound allows; of a report, its first day
    late,      \* that bound has passed
    holder,    \* claimed_by and claim_token, {} or one worker
    lease,     \* claimed_until lies ahead
    started,   \* the day of transport_started_at, 0 when null
    preference,\* whatsapp_reminder_preferences of the family
    day, open, \* the clock
    pc, job, outcome,  \* each worker: where it is, its claim, the result
    accepted   \* history: requests the provider took, per intent

row == <<state, attempts, reserved, due, last, late, holder, lease, started>>
clock == <<day, open>>
local == <<pc, job, outcome>>
vars == <<purpose, row, preference, clock, local, accepted>>

-----------------------------------------------------------------------------
Pending == {"pendente", "retry"}
Live == Pending \cup {"em_envio"}
Final == {"enviado", "ambiguo", "cancelado", "obsoleto"}

\* A result of send_text_classificado; "suprimido" ends a row as
\* "falhou_permanente" does.
Outcome == {"aceito", "falhou_permanente", "falhou_retentavel", "desconhecido"}

\* The type of every variable.
TypeOK ==
    /\ purpose \in [Intent -> Purpose]
    /\ state \in [Intent -> {"none"} \cup Live \cup Final]
    /\ attempts \in [Intent -> 0 .. Retries]
    /\ reserved \in [Intent -> 0 .. MaxDay]
    /\ due \in [Intent -> 0 .. MaxDay + 1]
    /\ last \in [Intent -> 0 .. MaxDay + 1]
    /\ late \in [Intent -> BOOLEAN]
    /\ holder \in [Intent -> SUBSET Worker]
    /\ lease \in [Intent -> BOOLEAN]
    /\ started \in [Intent -> 0 .. MaxDay]
    /\ preference \in {"none", "active", "disabled"}
    /\ day \in 1 .. MaxDay /\ open \in BOOLEAN
    /\ pc \in [Worker -> {"idle", "fence", "post", "record"}]
    /\ job \in [Worker -> Intent \cup {NoIntent}]
    /\ outcome \in [Worker -> Outcome]
    /\ accepted \in [Intent -> 0 .. 2]

Init ==
    /\ purpose \in [Intent -> Purpose]
    /\ \A i, j \in Intent : FamilyOf(purpose[i]) = FamilyOf(purpose[j])
    /\ state = [i \in Intent |-> "none"]
    /\ attempts = [i \in Intent |-> 0]
    /\ reserved = [i \in Intent |-> 0]
    /\ due = [i \in Intent |-> 0]
    /\ last = [i \in Intent |-> 0]
    /\ late = [i \in Intent |-> FALSE]
    /\ holder = [i \in Intent |-> {}]
    /\ lease = [i \in Intent |-> FALSE]
    /\ started = [i \in Intent |-> 0]
    /\ preference = "none"
    /\ day = 1 /\ open = TRUE
    /\ pc = [w \in Worker |-> "idle"]
    /\ job = [w \in Worker |-> NoIntent]
    /\ outcome = [w \in Worker |-> "desconhecido"]
    /\ accepted = [i \in Intent |-> 0]

-----------------------------------------------------------------------------
(* Helpers. *)
Kind(i) == FamilyOf(purpose[i])

\* The preference checks of _recipient_transport_context: Agenda and
\* consolidation need an opt-in, the cell report only the lack of a refusal.
Allowed(i) ==
    IF Kind(i) = "cell_report" THEN preference # "disabled" ELSE preference = "active"

\* next_transport_window: the day of the next instant that may send.
NextWindow == IF open THEN day ELSE day + 1

Forget(w) ==
    /\ pc' = [pc EXCEPT ![w] = "idle"]
    /\ job' = [job EXCEPT ![w] = NoIntent]
    /\ outcome' = [outcome EXCEPT ![w] = "desconhecido"]

\* _terminalize and _clear_claim; also every other end of a claim.
Settle(i, s) ==
    /\ state' = [state EXCEPT ![i] = s]
    /\ holder' = [holder EXCEPT ![i] = {}]
    /\ lease' = [lease EXCEPT ![i] = FALSE]

\* A row that does not exist yet is inserted.
Insert(i, s, when, until) ==
    /\ state[i] = "none"
    /\ state' = [state EXCEPT ![i] = s]
    /\ due' = [due EXCEPT ![i] = when]
    /\ last' = [last EXCEPT ![i] = until]
    /\ UNCHANGED <<purpose, attempts, reserved, late, holder, lease, started,
                   clock, local, accepted>>

\* _pre_send_retry_allowed and the occurrence of a reminder: may this row
\* still be put off to that day?  A cell report has no bound before the fence.
MayWait(i, when) == purpose[i] = "cell_report" \/ (~late[i] /\ when <= last[i])

\* The row waits for that day, or its bound ends it there.
PutOff(i, s, when) ==
    \/ /\ MayWait(i, when)
       /\ Settle(i, s) /\ due' = [due EXCEPT ![i] = when]
    \/ /\ purpose[i] # "cell_report"
       /\ Settle(i, IF purpose[i] = "agenda_reminder" THEN "obsoleto" ELSE "cancelado")
       /\ ~MayWait(i, when) \/ when = day
       /\ UNCHANGED due

-----------------------------------------------------------------------------
(* Producers. *)

\* execute_agenda_reminder_subscription: a confirmed offer opts in and
\* appends the reminder of a later occurrence.
Subscribe(i) ==
    /\ purpose[i] = "agenda_reminder"
    /\ \E when \in day .. MaxDay, until \in day .. MaxDay :
        when <= until /\ Insert(i, "pendente", when, until)
    /\ preference' = "active"

\* execute_consolidation_reminder_subscription: only the opt-in.
OptIn ==
    /\ \E i \in Intent : Kind(i) = "consolidation"
    /\ preference' = "active"
    /\ UNCHANGED <<purpose, row, clock, local, accepted>>

\* enqueue_evt7_for_confirmed_event, for this recipient.
EnqueueEvt7(i) ==
    /\ purpose[i] = "agenda_evt7" /\ Allowed(i)
    /\ Insert(i, "pendente", NextWindow, NextWindow)
    /\ UNCHANGED preference

\* _schedule_cell_report_tenant: one row per leader and rolling day, stored
\* as cancelado when the gate, the consent or the refusal says so.
ScheduleReport(i) ==
    /\ purpose[i] = "cell_report"
    /\ \A j \in Intent : last[j] # day
    /\ \/ Allowed(i) /\ Insert(i, "pendente", day, day)
       \/ Insert(i, "cancelado", day, day)
    /\ UNCHANGED preference

\* _materialize_consolidation_intent: due at its occurrence, dead a day later.
MaterialiseConsolidation(i) ==
    /\ purpose[i] = "consolidation" /\ Allowed(i)
    /\ \E when \in day .. MaxDay, more \in 0 .. 1 :
        Insert(i, "pendente", when, when + more)
    /\ UNCHANGED preference

\* _cancel_pending_consolidation_notifications, after an observed closed gate.
CancelConsolidation ==
    LET closed == {i \in Intent : purpose[i] = "consolidation" /\ state[i] \in Pending}
    IN  /\ closed # {}
        /\ state' = [i \in Intent |-> IF i \in closed THEN "cancelado" ELSE state[i]]
        /\ UNCHANGED <<purpose, attempts, reserved, due, last, late, holder, lease,
                       started, preference, clock, local, accepted>>

\* Mutant: the refusal overlooks what is in flight.
Stop_WaitingOnly ==
    /\ preference' = "disabled"
    /\ state' = [i \in Intent |-> IF state[i] \in Pending THEN "cancelado" ELSE state[i]]
    /\ UNCHANGED <<purpose, holder, lease, attempts, reserved, due, last, late, started,
                   clock, local, accepted>>

\* disable_whatsapp_reminders: every family is refused, what waits is
\* cancelled, and what may have reached the provider becomes ambiguous.
Stop ==
    /\ preference' = "disabled"
    /\ state' = [i \in Intent |->
            IF state[i] \in Pending THEN "cancelado"
            ELSE IF state[i] = "em_envio" THEN "ambiguo" ELSE state[i]]
    /\ holder' = [i \in Intent |-> {}]
    /\ lease' = [i \in Intent |-> FALSE]
    /\ UNCHANGED <<purpose, attempts, reserved, due, last, late, started, clock,
                   local, accepted>>

-----------------------------------------------------------------------------
(* Maintenance and dispatch. *)

\* Mutant: an expired lease is put back instead of quarantined.
Sweep_Retries(i) ==
    {state[i]} \cup (IF state[i] = "em_envio" /\ ~lease[i] THEN {"retry"} ELSE {})
               \cup (IF state[i] \in Pending THEN {"cancelado"} ELSE {})

\* What one sweep may make of a row: it quarantines an expired lease, cancels
\* what is expired or behind a closed gate, drops a reminder whose event
\* changed, and keeps what is locked or beyond its limit.
Sweep(i) ==
    {state[i]} \cup (IF state[i] = "em_envio" /\ ~lease[i] THEN {"ambiguo"} ELSE {})
               \cup (IF state[i] \in Pending THEN {"cancelado"} ELSE {})
               \cup (IF state[i] \in Pending /\ purpose[i] = "agenda_reminder"
                     THEN {"obsoleto"} ELSE {})

\* _maintain_notification_tenant.
Maintain ==
    /\ \E next \in [Intent -> UNION {Sweep(i) : i \in Intent}] :
        /\ \A i \in Intent : next[i] \in Sweep(i)
        /\ next # state /\ state' = next
    /\ holder' = [i \in Intent |-> IF state'[i] # state[i] THEN {} ELSE holder[i]]
    /\ UNCHANGED <<purpose, attempts, reserved, due, last, late, lease, started,
                   preference, clock, local, accepted>>

\* Mutant: an ambiguous send gives its slot of the day back.
Reserving_Certain(f) ==
    Live \cup {"enviado", "obsoleto"}
         \cup (IF f = "consolidation" THEN {"cancelado"} ELSE {})

\* The states that keep a reservation of a day, per family.
Reserving(f) ==
    Live \cup {"enviado", "ambiguo", "obsoleto"}
         \cup (IF f = "consolidation" THEN {"cancelado"} ELSE {})

\* _notification_quota_rank: the reservations of today with this row.
Rank(i) ==
    Cardinality({i} \cup {j \in Intent : /\ reserved[j] = day
                                         /\ state[j] \in Reserving(Kind(i))})

\* A row keeps its day unless it is a proven retry.
QuotaInvalid(i) == reserved[i] \notin {0, day} /\ state[i] # "retry"

Lease(w, i) ==
    /\ state' = [state EXCEPT ![i] = "em_envio"]
    /\ holder' = [holder EXCEPT ![i] = {w}]
    /\ lease' = [lease EXCEPT ![i] = TRUE]
    /\ pc' = [pc EXCEPT ![w] = "fence"]
    /\ job' = [job EXCEPT ![w] = i]
    /\ UNCHANGED outcome

Due(w, i) == pc[w] = "idle" /\ state[i] \in Pending /\ due[i] <= day

\* _evt7_pre_send_expired and _consolidation_expired.
Expired(i) == late[i] /\ purpose[i] \in {"agenda_evt7", "consolidation"}

\* _claim_next_notification of a row that can no longer be sent.
ClaimEnds(w, i) ==
    /\ Due(w, i)
    /\ \/ Settle(i, "obsoleto")  \* pessoa_ausente
       \/ Expired(i) /\ Settle(i, "cancelado")
    /\ UNCHANGED <<purpose, attempts, reserved, due, last, late, started, preference,
                   clock, local, accepted>>

\* _reschedule_outside_window.
ClaimAtNight(w, i) ==
    /\ Due(w, i) /\ ~Expired(i) /\ ~open
    /\ PutOff(i, "pendente", NextWindow)
    /\ UNCHANGED <<purpose, attempts, reserved, last, late, started, preference,
                   clock, local, accepted>>

\* The claim under the daily cap.
ClaimUnderCap(w, i) ==
    /\ Due(w, i) /\ ~Expired(i) /\ open
    /\ \/ /\ Kind(i) = "cell_report"
          /\ Lease(w, i)
          /\ UNCHANGED <<reserved, due>>
       \/ /\ Kind(i) # "cell_report" /\ QuotaInvalid(i)
          /\ Settle(i, "obsoleto")
          /\ UNCHANGED <<reserved, due, local>>
       \/ /\ Kind(i) # "cell_report" /\ ~QuotaInvalid(i) /\ Rank(i) <= Cap
          /\ Lease(w, i)
          /\ reserved' = [reserved EXCEPT ![i] = day]
          /\ UNCHANGED due
       \/ /\ Kind(i) = "agenda" /\ ~QuotaInvalid(i) /\ Rank(i) > Cap
          /\ Settle(i, "cancelado")
          /\ reserved' = [reserved EXCEPT ![i] = day]
          /\ UNCHANGED <<due, local>>
       \/ /\ Kind(i) = "consolidation" /\ ~QuotaInvalid(i) /\ Rank(i) > Cap
          /\ PutOff(i, "pendente", day + 1)
          /\ UNCHANGED <<reserved, local>>
    /\ UNCHANGED <<purpose, attempts, last, late, started, preference, clock,
                   accepted>>

\* The conditions under which a worker still owns its row.
Owns(w, i) == state[i] = "em_envio" /\ holder[i] = {w} /\ lease[i]

\* _renew_notification_transport_fence: everything is read again.  A busy
\* source, an offline instance or a closed window releases the row; a closed
\* gate, a changed source, a revoked context or another phone ends it.
Fence(w) ==
    LET i == job[w]
    IN  /\ pc[w] = "fence"
        /\ \/ /\ Owns(w, i) /\ open /\ Allowed(i) /\ ~late[i]
              /\ started' = [started EXCEPT ![i] = day]
              /\ pc' = [pc EXCEPT ![w] = "post"]
              /\ UNCHANGED <<state, holder, lease, due, job, outcome>>
           \/ /\ Owns(w, i)
              /\ Forget(w) /\ PutOff(i, "retry", NextWindow)
              /\ UNCHANGED started
           \/ /\ Owns(w, i)
              /\ Forget(w)
              /\ \E s \in {"cancelado", "obsoleto"} : Settle(i, s)
              /\ UNCHANGED <<due, started>>
           \/ /\ ~Owns(w, i)
              /\ Forget(w)
              /\ UNCHANGED <<state, holder, lease, due, started>>
        /\ UNCHANGED <<purpose, attempts, reserved, last, late, preference, clock, accepted>>

\* send_text_classificado.  Only a proven failure before the request is
\* retryable; a timeout or 5xx may hide that the provider took it.
Post(w) ==
    /\ pc[w] = "post"
    /\ pc' = [pc EXCEPT ![w] = "record"]
    /\ \E o \in Outcome, took \in BOOLEAN :
        /\ o = "aceito" => took
        /\ took => o \in {"aceito", "desconhecido"}
        /\ outcome' = [outcome EXCEPT ![w] = o]
        /\ accepted' = [accepted EXCEPT ![job[w]] = IF took THEN @ + 1 ELSE @]
    /\ UNCHANGED <<purpose, row, preference, clock, job>>

\* Mutant: one retry too many.
Result_OneMore(o, tried) ==
    CASE o = "aceito" -> "enviado"
      [] o = "falhou_retentavel" /\ tried <= Retries -> "retry"
      [] o = "falhou_permanente" \/ (o = "falhou_retentavel" /\ tried > Retries) -> "cancelado"
      [] OTHER -> "ambiguo"

\* result_transition.
Result(o, tried) ==
    CASE o = "aceito" -> "enviado"
      [] o = "falhou_retentavel" /\ tried < Retries -> "retry"
      [] o = "falhou_permanente" \/ (o = "falhou_retentavel" /\ tried >= Retries) -> "cancelado"
      [] OTHER -> "ambiguo"

\* _record_notification_result; a late result is dropped.  A consolidation
\* retry that would start after its bound is cancelled.
Record(w) ==
    LET i == job[w]
        s == Result(outcome[w], attempts[i])
    IN  /\ pc[w] = "record"
        /\ \/ /\ Owns(w, i)
              /\ \/ Settle(i, s)
                 \/ s = "retry" /\ purpose[i] = "consolidation" /\ Settle(i, "cancelado")
              /\ attempts' = [attempts EXCEPT ![i] = IF s = "retry" THEN @ + 1 ELSE @]
           \/ /\ ~Owns(w, i)
              /\ UNCHANGED <<state, holder, lease, attempts>>
        /\ Forget(w)
        /\ UNCHANGED <<purpose, reserved, due, last, late, started, preference,
                       clock, accepted>>

-----------------------------------------------------------------------------
(* The environment. *)

\* A process dies.  One that dies in the provider call may have been heard.
Crash(w) ==
    /\ "crash" \in Faults /\ pc[w] # "idle"
    /\ Forget(w)
    /\ \/ UNCHANGED accepted
       \/ /\ pc[w] = "post"
          /\ accepted' = [accepted EXCEPT ![job[w]] = @ + 1]
    /\ UNCHANGED <<purpose, row, preference, clock>>

\* Without a stall a lease outlives the worker that works under it.
LeaseExpires(i) ==
    /\ state[i] = "em_envio" /\ lease[i]
    /\ "stall" \in Faults \/ \A w \in Worker : job[w] # i
    /\ lease' = [lease EXCEPT ![i] = FALSE]
    /\ UNCHANGED <<purpose, state, attempts, reserved, due, last, late, holder,
                   started, preference, clock, local, accepted>>

\* The grace of an event notice or the day of a consolidation notice ends.
Deadline(i) ==
    /\ state[i] \in Live /\ ~late[i] /\ last[i] = day /\ Kind(i) # "cell_report"
    /\ late' = [late EXCEPT ![i] = TRUE]
    /\ UNCHANGED <<purpose, state, attempts, reserved, due, last, holder, lease,
                   started, preference, clock, local, accepted>>

WindowCloses ==
    /\ open /\ open' = FALSE
    /\ UNCHANGED <<purpose, row, preference, day, local, accepted>>

\* The night is longer than any lease.
NextDay ==
    /\ ~open /\ day < MaxDay
    /\ "stall" \in Faults \/ \A w \in Worker : pc[w] = "idle"
    /\ day' = day + 1 /\ open' = TRUE
    /\ lease' = [i \in Intent |-> FALSE]
    /\ late' = [i \in Intent |-> late[i] \/ (state[i] \in Live /\ last[i] <= day
                                                  /\ Kind(i) # "cell_report")]
    /\ UNCHANGED <<purpose, state, attempts, reserved, due, last, holder, started,
                   preference, local, accepted>>

Produce ==
    \/ OptIn \/ Stop \/ CancelConsolidation
    \/ \E i \in Intent : Subscribe(i) \/ EnqueueEvt7(i) \/ ScheduleReport(i)
                         \/ MaterialiseConsolidation(i)

Dispatch(w) ==
    \/ \E i \in Intent : ClaimEnds(w, i) \/ ClaimAtNight(w, i) \/ ClaimUnderCap(w, i)
    \/ Fence(w) \/ Post(w) \/ Record(w)

Environment ==
    \/ WindowCloses \/ NextDay
    \/ \E i \in Intent : LeaseExpires(i) \/ Deadline(i)
    \/ \E w \in Worker : Crash(w)

Next == Produce \/ Maintain \/ (\E w \in Worker : Dispatch(w)) \/ Environment

Spec == Init /\ [][Next]_vars

-----------------------------------------------------------------------------
(* Properties. *)

\* A row as OnceDelivery sees it.
PhaseOf(s) ==
    CASE s = "none" -> "absent"
      [] s \in Pending -> "waiting"
      [] s = "em_envio" -> "sending"
      [] s = "enviado" -> "accepted"
      [] s = "ambiguo" -> "unknown"
      [] OTHER -> "refused"

Once == INSTANCE OnceDelivery WITH
            Item <- Intent,
            phase <- [i \in Intent |-> PhaseOf(state[i])],
            taken <- accepted

\* Every notice reaches the provider at most once and its row is true,
\* whatever workers, refusals and sweeps interleave: enviado means taken,
\* cancelado and obsoleto mean never taken, ambiguo is never tried again.
NotifiesAtMostOnce == Once!Spec

\* Once a person has refused reminders none of that person's rows can still be
\* claimed, fenced or put back, until the person opts in again: the refusal
\* meets rows at every point of their life, and none comes back afterwards.
StoppedMeansFenced ==
    preference = "disabled" => \A i \in Intent : state[i] \notin Live

\* No more than Cap notices of a capped family reach the person whose
\* transport started on one day, retries and moved reservations included.
DailyCap ==
    \A d \in 1 .. MaxDay :
        Cardinality({i \in Intent : /\ Kind(i) # "cell_report" /\ accepted[i] > 0
                                    /\ started[i] = d}) <= Cap
=============================================================================
