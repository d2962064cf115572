--------------------------- MODULE MonthlyBilling ---------------------------
(***************************************************************************)
(* The monthly fee of one church: the invoices Asaas issues, the snapshot  *)
(* of the current one kept on the subscription row, the durable operations *)
(* that recover a reversed invoice, and the access gate of the church      *)
(* (routers/subscription.py, services/billing.py).                         *)
(*                                                                         *)
(* An invoice is named by its cycle, which is also its due date.  A step   *)
(* is one database transaction (the code locks operation, then             *)
(* subscription) or one call to Asaas; between them anything may happen.   *)
(* The external side (invoices, charges, notices) is modelled from how     *)
(* this code uses it.  Amounts, links and the set-up fee are left out.     *)
(***************************************************************************)
EXTENDS Naturals, FiniteSets

CONSTANTS
    Request,     \* HTTP requests of the owner, each run again and again
    MaxCycle,    \* bound: invoices issued
    MaxTrouble,  \* bound: reversals, and writes Asaas refuses with a 4xx
    Faults       \* what Asaas may do, see FaultKind

\* deletes: an open invoice may be deleted, which is what a restoration undoes.
\* late: a deletion notice may come after the invoice was restored.
\* again: a restored invoice may be reversed again.
FaultKind == {"deletes", "late", "again"}

ASSUME BillingAssumption ==
    /\ Faults \subseteq FaultKind
    /\ MaxCycle \in Nat \ {0} /\ MaxTrouble \in Nat

Cycle == 1 .. MaxCycle
\* Bound: an operation is opened for a reversal, which Asaas tells twice, in an
\* answer and in a notice, or after a refusal; one more is never used.
Op == 1 .. 2 * MaxTrouble + 1

Remote == {"none", "pending", "overdue", "paid", "refunded", "deleted"}
Reversal == {"refunded", "deleted"}
OpenStatus == {"prepared", "creating", "reconciling", "created"}
OpStatus == OpenStatus \cup {"none", "paid", "reversed", "failed"}

VARIABLES
    invoice,  \* Asaas: the recurring invoice of each cycle
    charge,   \* Asaas: the one-time charge of each operation's key
    posted,   \* Asaas: how many charges carry that key
    restored, \* Asaas: invoices once deleted and restored
    flight,   \* operations whose POST has left and has not arrived
    notices,  \* webhook events no receipt acknowledges yet
    book,     \* the local rows
    req,      \* each request: where it is and what it has read
    budget    \* troubles left

vars == <<invoice, charge, posted, restored, flight, notices, book, req, budget>>

asaas == <<invoice, charge, posted, restored, flight, notices>>

Place == {"idle", "snapshot", "restore_get", "restore_claim",
          "restore_post", "restore_reread", "restore_finish", "ensure",
          "claim", "post", "wait", "reconcile", "adopt", "tracked", "apply"}

Book == [status : {"pendente", "ativa", "inadimplente"},
         cur : Cycle,                        \* asaas_invoice_payment_id
         rev : Reversal \cup {"none"},       \* asaas_invoice_reversal
         gate : BOOLEAN,                     \* igrejas.status is ativa
         st : [Op -> OpStatus],
         src : [Op -> Cycle \cup {0}],       \* source_payment_id
         pays : [Op -> {"none", "own", "source"}]]  \* asaas_payment_id

NoticeOfInvoice(c, s) == [of |-> "invoice", id |-> c, status |-> s]
NoticeOfCharge(o, s) == [of |-> "charge", id |-> o, status |-> s]

IdleReq == [at |-> "idle", op |-> 0, src |-> 0, seen |-> "none"]

(* What a session computes from the rows *)

\* map_payment_status, with a reversal counted as default.
Mapped(s) == CASE s = "pending" -> "pendente"
               [] s = "paid" -> "ativa"
               [] OTHER -> "inadimplente"

OpenOps(b) == {o \in Op : b.st[o] \in OpenStatus}
OpenFor(b, c) == {o \in OpenOps(b) : b.src[o] = c}
Settled(b, c) == \E o \in Op : b.st[o] = "paid" /\ b.src[o] = c

NewOp(b) == CHOOSE o \in Op : b.st[o] = "none"

\* Bound: a transaction that may insert an operation still has one to insert.
Room(b) == {o \in Op : b.st[o] = "none"} # {}

Insert(b, c) ==
    LET o == NewOp(b) IN [b EXCEPT !.st[o] = "prepared", !.src[o] = c]

\* _stage_monthly_recovery: the debt of a reversed invoice becomes a row.
Stage(b, c) == IF OpenFor(b, c) = {} THEN Insert(b, c) ELSE b

\* billing_payment_operations_open_uidx: a transaction that would leave two
\* open operations of one source fails, its request ends, its notice returns.
Unique(b) == \A o, q \in OpenOps(b) : b.src[o] = b.src[q] => o = q

\* Mutant: a paid cycle opens the gate over an older debt.
Reopen_CurrentOnly(b) ==
    IF b.status = "ativa" /\ b.rev = "none" THEN [b EXCEPT !.gate = TRUE] ELSE b

\* The gate opens only when the invoice is paid and no debt is left.
Reopen(b) ==
    IF b.status = "ativa" /\ b.rev = "none" /\ OpenOps(b) = {}
    THEN [b EXCEPT !.gate = TRUE] ELSE b

\* _apply_monthly_payment_link: follow the current invoice.
Link(b, c, s) ==
    IF s \in Reversal THEN [b EXCEPT !.cur = c, !.rev = s]
    ELSE IF c = b.cur THEN b ELSE [b EXCEPT !.cur = c, !.rev = "none"]

\* _is_stale_cycle_event.
Stale(b, c) == c < b.cur

\* An unresolved reversal is not superseded by a late answer of the same
\* invoice, nor by another invoice while no row stands for the debt.
Blocked(b, c, s) ==
    /\ b.rev # "none"
    /\ IF c = b.cur THEN s \notin Reversal ELSE OpenOps(b) = {}

\* The common tail of the webhook and of the snapshot: row, link, debt, gate.
Follow(b, c, s, status) ==
    LET linked == [Link(b, c, s) EXCEPT !.status = status]
        owed == IF s \in Reversal THEN Stage(linked, c) ELSE linked
    IN CASE Mapped(s) = "ativa" -> Reopen(owed)
         [] Mapped(s) = "inadimplente" -> [owed EXCEPT !.gate = FALSE]
         [] OTHER -> owed

\* Mutant: a late reversal of a source already settled counts again.
InvoiceEvent_Unsettled(b, c, s) ==
    IF Blocked(b, c, s) THEN b
    ELSE IF ~Stale(b, c) THEN Follow(b, c, s, Mapped(s))
    ELSE IF s \in Reversal THEN [Stage(b, c) EXCEPT !.gate = FALSE]
    ELSE b

\* _apply_asaas_webhook on an invoice that no operation owns.
InvoiceEvent(b, c, s) ==
    IF Blocked(b, c, s) \/ (s \in Reversal /\ Settled(b, c)) THEN b
    ELSE IF ~Stale(b, c) THEN Follow(b, c, s, Mapped(s))
    ELSE IF s \in Reversal THEN [Stage(b, c) EXCEPT !.gate = FALSE]
    ELSE b

\* _apply_monthly_payment_snapshot: an answer read without a lock.
Snapshot(b, c, s) ==
    IF Blocked(b, c, s) \/ Stale(b, c) \/ (s \in Reversal /\ Settled(b, c)) THEN b
    ELSE Follow(b, c, s,
                IF s = "pending" /\ c = b.cur /\ b.status = "ativa"
                THEN b.status ELSE Mapped(s))

\* The recovery o is paid: it clears the reversal of its own source only.
PaidOp(b, o) ==
    LET paid == [b EXCEPT !.st[o] = "paid"]
    IN Reopen(IF b.src[o] = b.cur /\ b.rev # "none"
              THEN [paid EXCEPT !.status = "ativa", !.rev = "none"] ELSE paid)

\* The recovery o was refunded or deleted: the debt of its source is back.
ReversedOp(b, o) ==
    LET again == [Insert([b EXCEPT !.st[o] = "reversed"], b.src[o]) EXCEPT !.gate = FALSE]
    IN IF b.src[o] = b.cur
       THEN [again EXCEPT !.status = "inadimplente", !.rev = "refunded"] ELSE again

\* _apply_operation_event, and _apply_payment_operation_snapshot, which adds
\* the status of a charge that is neither paid nor reversed.
OperationEvent(b, o, s) ==
    CASE s = "paid" /\ b.st[o] # "reversed" -> PaidOp(b, o)
      [] s \in Reversal /\ b.st[o] # "reversed" -> ReversedOp(b, o)
      [] OTHER -> b

\* The last transaction of recover_invoice after a restoration was asked
\* for: c the source, o its operation or 0, s what Asaas now says.
Restored(b, o, c, s) ==
    LET open == o # 0 /\ b.st[o] \in OpenStatus
        bound == IF s \notin Reversal /\ open
                 THEN [b EXCEPT !.pays[o] = "source",
                                !.st[o] = IF s = "paid" THEN "paid" ELSE "created"]
                 ELSE IF s \in Reversal /\ o = 0 THEN Stage(b, c) ELSE b
        moved == b.cur # c \/ b.rev # "deleted"
    IN CASE moved ->
              IF s = "paid" /\ o # 0 /\ b.status # "inadimplente" /\ b.rev = "none"
                 /\ OpenOps(bound) = {}
              THEN [bound EXCEPT !.gate = TRUE] ELSE bound
         [] ~moved /\ s \in Reversal ->
              LET reset == IF o # 0 /\ b.st[o] = "creating"
                           THEN [bound EXCEPT !.st[o] =
                                   IF s = "refunded" THEN "prepared" ELSE "reconciling"]
                           ELSE bound
              IN [reset EXCEPT !.status = "inadimplente", !.rev = s, !.gate = FALSE]
         [] OTHER ->
              Reopen([bound EXCEPT !.status = Mapped(s), !.rev = "none"])

TypeOK ==
    /\ invoice \in [Cycle -> Remote]
    /\ charge \in [Op -> Remote]
    /\ posted \in [Op -> 0 .. 1]
    /\ restored \subseteq Cycle /\ flight \subseteq Op
    /\ \A n \in notices : n.status \in Remote
    /\ book \in Book
    /\ req \in [Request -> [at : Place, op : Op \cup {0}, src : Cycle \cup {0},
                            seen : Remote \cup OpStatus]]
    /\ budget \in 0 .. MaxTrouble

\* A contracted subscription: its first invoice is issued and tracked.
Init ==
    /\ invoice = [c \in Cycle |-> IF c = 1 THEN "pending" ELSE "none"]
    /\ charge = [o \in Op |-> "none"]
    /\ posted = [o \in Op |-> 0]
    /\ restored = {} /\ flight = {} /\ notices = {}
    /\ book = [status |-> "pendente", cur |-> 1, rev |-> "none", gate |-> TRUE,
               st |-> [o \in Op |-> "none"], src |-> [o \in Op |-> 0],
               pays |-> [o \in Op |-> "none"]]
    /\ req = [r \in Request |-> IdleReq]
    /\ budget = MaxTrouble

(* Asaas and the payer (external) *)

\* What may become of a payment.
Turn(from, to) ==
    \/ from \in {"pending", "overdue"} /\ to \in {"paid", "deleted"}
    \/ from = "paid" /\ to = "refunded"

Spend(to) ==
    IF to \in Reversal THEN budget > 0 /\ budget' = budget - 1 ELSE UNCHANGED budget

IssueInvoice(c) ==
    /\ invoice[c] = "none" /\ invoice[c - 1] # "none"
    /\ invoice' = [invoice EXCEPT ![c] = "pending"]
    /\ notices' = notices \cup {NoticeOfInvoice(c, "pending")}
    /\ UNCHANGED <<charge, posted, restored, flight, book, req, budget>>

TurnInvoice(c, to) ==
    /\ Turn(invoice[c], to) \/ (invoice[c] = "pending" /\ to = "overdue")
    /\ to = "deleted" => "deletes" \in Faults
    /\ c \in restored /\ to \in Reversal => "again" \in Faults
    /\ Spend(to)
    /\ invoice' = [invoice EXCEPT ![c] = to]
    /\ notices' = notices \cup {NoticeOfInvoice(c, to)}
    /\ UNCHANGED <<charge, posted, restored, flight, book, req>>

TurnCharge(o, to) ==
    /\ Turn(charge[o], to) /\ Spend(to)
    /\ charge' = [charge EXCEPT ![o] = to]
    /\ notices' = notices \cup {NoticeOfCharge(o, to)}
    /\ UNCHANGED <<invoice, posted, restored, flight, book, req>>

\* A POST /payments arrives, perhaps after its sender gave up.
Arrive(o) ==
    /\ o \in flight
    /\ flight' = flight \ {o}
    /\ charge' = [charge EXCEPT ![o] = "pending"]
    /\ posted' = [posted EXCEPT ![o] = @ + 1]
    /\ UNCHANGED <<invoice, restored, notices, book, req, budget>>

(* The webhook: receipt and effect in one transaction, so a repeated event *)
(* finds its receipt and a failed one comes again                          *)

\* find_operation_for_payment: a bound payment id, else a key not yet bound.
Owners(n) ==
    {o \in Op :
        \/ n.of = "invoice" /\ book.pays[o] = "source" /\ book.src[o] = n.id
        \/ n.of = "charge" /\ o = n.id /\ book.pays[o] # "source"}

Webhook(n) ==
    /\ Room(book)
    /\ notices' = notices \ {n}
    /\ book' =
         IF Owners(n) # {}
         THEN LET o == CHOOSE q \in Owners(n) : TRUE
                  known == IF book.pays[o] = "none"
                           THEN [book EXCEPT !.pays[o] = "own"] ELSE book
              IN OperationEvent(known, o, n.status)
         ELSE IF n.of = "invoice" THEN InvoiceEvent(book, n.id, n.status)
         ELSE book  \* the key is bound to another payment: acknowledged
    /\ Unique(book')
    /\ UNCHANGED <<invoice, charge, posted, restored, flight, req, budget>>

(* Requests of the owner *)

Go(r, at) == req' = [req EXCEPT ![r].at = at]
Leave(r) == req' = [req EXCEPT ![r] = IdleReq]

\* claim_transition and finish_operation: an UPDATE with the old status in
\* its WHERE.
Cas(b, o, from, to) == IF b.st[o] \in from THEN [b EXCEPT !.st[o] = to] ELSE b

\* GET /subscription asks for the tracked invoice, a resumed checkout for the
\* newest one; the answer is applied later, under the lock.
ReadInvoice(r, c) ==
    /\ req[r].at = "idle"
    /\ c = book.cur \/ (invoice[c] # "none" /\ \A d \in Cycle : d > c => invoice[d] = "none")
    /\ req' = [req EXCEPT ![r] = [IdleReq EXCEPT !.at = "snapshot", !.src = c,
                                                !.seen = invoice[c]]]
    /\ UNCHANGED <<asaas, book, budget>>

\* get_subscription also applies what it reads of an open recovery's charge,
\* but closes the session without a commit, so nothing of that is kept.
ApplySnapshot(r) ==
    /\ req[r].at = "snapshot" /\ Room(book)
    /\ book' = Snapshot(book, req[r].src, req[r].seen)
    /\ Leave(r)
    /\ UNCHANGED <<asaas, budget>>

\* recover_invoice: the reversed current invoice comes first, else any debt.
Recover(r) ==
    /\ req[r].at = "idle"
    /\ \/ /\ book.rev = "deleted"
          /\ LET mine == OpenFor(book, book.cur)
                 o == IF mine = {} THEN 0 ELSE CHOOSE q \in mine : TRUE
             IN req' = [req EXCEPT ![r] =
                  [at |-> "restore_get", op |-> o, src |-> book.cur,
                   seen |-> IF o = 0 THEN "none" ELSE book.st[o]]]
       \/ /\ book.rev = "refunded"
          /\ req' = [req EXCEPT ![r] = [IdleReq EXCEPT !.at = "ensure", !.src = book.cur]]
       \/ /\ book.rev = "none"
          /\ \E o \in OpenOps(book) :
                req' = [req EXCEPT ![r] = [IdleReq EXCEPT !.at = "ensure", !.src = book.src[o]]]
    /\ UNCHANGED <<asaas, book, budget>>

\* A deleted invoice: unless it is back already, record the debt first.
RestoreGet(r) ==
    LET c == req[r].src IN
    /\ req[r].at = "restore_get" /\ Room(book)
    /\ \/ /\ invoice[c] = "deleted"
          /\ IF req[r].op # 0 THEN Go(r, "restore_claim") /\ UNCHANGED book
             ELSE LET b == Stage(book, c)
                      o == CHOOSE q \in OpenFor(b, c) : TRUE
                  IN /\ book' = b
                     /\ req' = [req EXCEPT ![r].at = "restore_claim", ![r].op = o,
                                            ![r].seen = b.st[o]]
       \/ /\ invoice[c] # "deleted"
          /\ req' = [req EXCEPT ![r].at = "restore_finish", ![r].seen = invoice[c]]
          /\ UNCHANGED book
    /\ UNCHANGED <<asaas, budget>>

\* One request wins the right to restore; the others look once more.
RestoreClaim(r) ==
    LET c == req[r].src
        o == req[r].op
        won == req[r].seen = "prepared" /\ book.st[o] = "prepared"
    IN
    /\ req[r].at = "restore_claim"
    /\ book' = IF won THEN Cas(book, o, {"prepared"}, "creating") ELSE book
    /\ IF won THEN Go(r, "restore_post")
       ELSE IF invoice[c] = "deleted" THEN Leave(r)
       ELSE req' = [req EXCEPT ![r].at = "restore_finish", ![r].seen = invoice[c]]
    /\ UNCHANGED <<asaas, budget>>

\* POST /payments/{id}/restore takes effect.
Restoring(c) ==
    /\ invoice[c] = "deleted"
    /\ "late" \in Faults \/ NoticeOfInvoice(c, "deleted") \notin notices
    /\ invoice' = [invoice EXCEPT ![c] = "pending"]
    /\ restored' = restored \cup {c}
    /\ UNCHANGED <<charge, posted, flight, notices>>

RestorePost(r) ==
    LET c == req[r].src
        o == req[r].op
    IN
    /\ req[r].at = "restore_post"
    /\ \/ \* answered, or suppressed by the outbound guard
          /\ Restoring(c) \/ UNCHANGED asaas
          /\ Go(r, "restore_reread")
          /\ UNCHANGED <<book, budget>>
       \/ \* writes disabled: nothing left this process
          /\ book' = Cas(book, o, {"creating"}, "prepared")
          /\ Leave(r)
          /\ UNCHANGED <<asaas, budget>>
       \/ \* refused with a 4xx and still deleted
          /\ invoice[c] = "deleted" /\ budget > 0
          /\ book' = Cas(book, o, {"creating"}, "failed")
          /\ budget' = budget - 1
          /\ Leave(r)
          /\ UNCHANGED asaas
       \/ \* no usable answer
          /\ Restoring(c) \/ UNCHANGED asaas
          /\ book' = Cas(book, o, {"creating"}, "reconciling")
          /\ Leave(r)
          /\ UNCHANGED budget

RestoreReread(r) ==
    /\ req[r].at = "restore_reread"
    /\ req' = [req EXCEPT ![r].at = "restore_finish", ![r].seen = invoice[req[r].src]]
    /\ UNCHANGED <<asaas, book, budget>>

\* The payment id is unique among operations: a source restored a second
\* time is already bound to the reversed operation, and the commit fails.
RestoreFinish(r) ==
    LET c == req[r].src
        o == req[r].op
        after == Restored(book, o, c, req[r].seen)
        taken == \E q \in Op \ {o} : book.src[q] = c /\ book.pays[q] = "source"
    IN
    /\ req[r].at = "restore_finish" /\ Room(book)
    /\ book' = IF taken /\ after.pays # book.pays THEN book ELSE after
    /\ Leave(r)
    /\ UNCHANGED <<asaas, budget>>

\* A refunded invoice, or the debt of an older one: revalidate under the
\* locks, then ensure_payment_operation finds or inserts the operation.
Ensure(r) ==
    LET c == req[r].src
        owed == OpenFor(book, c) # {} \/ (book.rev # "none" /\ book.cur = c)
        b == Stage(book, c)
        o == CHOOSE q \in OpenFor(b, c) : TRUE
    IN
    /\ req[r].at = "ensure" /\ Room(book)
    /\ IF Settled(book, c) \/ ~owed THEN Leave(r) /\ UNCHANGED book
       ELSE /\ book' = b
            /\ req' = [req EXCEPT ![r].op = o, ![r].at =
                         CASE b.st[o] = "prepared" -> "claim"
                           [] b.st[o] = "created" -> "tracked"
                           [] OTHER -> "reconcile"]
    /\ UNCHANGED <<asaas, budget>>

\* Only the winner of prepared -> creating may call POST /payments.
Claim(r) ==
    LET o == req[r].op IN
    /\ req[r].at = "claim"
    /\ IF book.st[o] = "prepared"
       THEN book' = Cas(book, o, {"prepared"}, "creating") /\ Go(r, "post")
       ELSE Leave(r) /\ UNCHANGED book
    /\ UNCHANGED <<asaas, budget>>

Post(r) ==
    LET o == req[r].op IN
    /\ req[r].at = "post"
    /\ flight' = flight \cup {o}
    /\ Go(r, "wait")
    /\ UNCHANGED <<invoice, charge, posted, restored, notices, book, budget>>

\* Writes disabled or suppressed: nothing left, the intent is free again.
PostDisabled(r) ==
    /\ req[r].at = "post"
    /\ book' = Cas(book, req[r].op, {"creating"}, "prepared")
    /\ Leave(r)
    /\ UNCHANGED <<asaas, budget>>

\* The answer of a POST that arrived.
PostAnswered(r) ==
    LET o == req[r].op IN
    /\ req[r].at = "wait" /\ o \notin flight
    /\ book' = IF book.st[o] \in {"creating", "reconciling"}
               THEN [book EXCEPT !.st[o] = "created", !.pays[o] = "own"] ELSE book
    /\ Leave(r)
    /\ UNCHANGED <<asaas, budget>>

\* Asaas refused it: nothing was created.
PostRejected(r) ==
    LET o == req[r].op IN
    /\ req[r].at = "wait" /\ o \in flight /\ budget > 0
    /\ flight' = flight \ {o}
    /\ budget' = budget - 1
    /\ book' = Cas(book, o, {"creating"}, "failed")
    /\ Leave(r)
    /\ UNCHANGED <<invoice, charge, posted, restored, notices>>

\* Time-out or 5xx: it may have arrived, or may still arrive.
PostAmbiguous(r) ==
    /\ req[r].at = "wait"
    /\ book' = Cas(book, req[r].op, {"creating"}, "reconciling")
    /\ Leave(r)
    /\ UNCHANGED <<asaas, budget>>

\* Mutant: nothing found frees the intent for another POST.
Reconcile_Repost(r) ==
    LET o == req[r].op IN
    /\ req[r].at = "reconcile"
    /\ \/ /\ charge[o] # "none"
          /\ req' = [req EXCEPT ![r].at = "adopt", ![r].seen = charge[o]]
          /\ UNCHANGED book
       \/ /\ book' = Cas(book, o, {"creating", "reconciling"}, "prepared")
          /\ Leave(r)
    /\ UNCHANGED <<asaas, budget>>

\* _reconcile_payment_operation: look for the key; nothing found, which a
\* slow index may also answer, is never a reason to post again.
Reconcile(r) ==
    LET o == req[r].op IN
    /\ req[r].at = "reconcile"
    /\ \/ /\ charge[o] # "none"
          /\ req' = [req EXCEPT ![r].at = "adopt", ![r].seen = charge[o]]
          /\ UNCHANGED book
       \/ /\ book' = Cas(book, o, {"creating"}, "reconciling")
          /\ Leave(r)
    /\ UNCHANGED <<asaas, budget>>

Adopt(r) ==
    LET o == req[r].op
        mine == [book EXCEPT !.pays[o] = "own", !.st[o] = "created"]
    IN
    /\ req[r].at = "adopt" /\ Room(book)
    /\ book' = IF book.st[o] \in {"creating", "reconciling"}
               THEN OperationEvent(mine, o, req[r].seen) ELSE book
    /\ Unique(book')
    /\ Leave(r)
    /\ UNCHANGED <<asaas, budget>>

\* A charge already tracked is read again: its webhook may have been lost.
ReadTracked(r) ==
    LET o == req[r].op IN
    /\ req[r].at = "tracked"
    /\ req' = [req EXCEPT ![r].at = "apply", ![r].seen =
                 IF book.pays[o] = "source" THEN invoice[req[r].src] ELSE charge[o]]
    /\ UNCHANGED <<asaas, book, budget>>

ApplyTracked(r) ==
    LET o == req[r].op IN
    /\ req[r].at = "apply" /\ Room(book)
    /\ book' = IF book.st[o] = "created"
               THEN OperationEvent(book, o, req[r].seen) ELSE book
    /\ Unique(book')
    /\ Leave(r)
    /\ UNCHANGED <<asaas, budget>>

\* The process dies, or a GET fails, which leaves the rows alike.
Abort(r) ==
    /\ req[r].at # "idle"
    /\ Leave(r)
    /\ UNCHANGED <<asaas, book, budget>>

External ==
    \/ \E c \in Cycle \ {1} : IssueInvoice(c)
    \/ \E c \in Cycle, to \in Remote : TurnInvoice(c, to)
    \/ \E o \in Op, to \in Remote : TurnCharge(o, to)
    \/ \E o \in Op : Arrive(o)

Reading(r) ==
    \/ \E c \in Cycle : ReadInvoice(r, c)
    \/ ApplySnapshot(r)

Recovering(r) ==
    \/ Recover(r) \/ RestoreGet(r) \/ RestoreClaim(r) \/ RestorePost(r)
    \/ RestoreReread(r) \/ RestoreFinish(r)
    \/ Ensure(r) \/ Claim(r) \/ Post(r) \/ PostDisabled(r) \/ PostAnswered(r)
    \/ PostRejected(r) \/ PostAmbiguous(r) \/ Reconcile(r) \/ Adopt(r)
    \/ ReadTracked(r) \/ ApplyTracked(r)

Next ==
    \/ External
    \/ \E n \in notices : Webhook(n)
    \/ \E r \in Request : Reading(r) \/ Recovering(r) \/ Abort(r)

Spec == Init /\ [][Next]_vars

Live == {"pending", "overdue", "paid"}
LiveCharges(c) == {o \in Op : book.src[o] = c /\ charge[o] \in Live}

\* One month is never payable twice: no operation key is posted twice, of the
\* recovery charges of a source at most one can be paid or is paid, and beside
\* it the invoice itself is dead, whichever request dies and whichever answer
\* is lost or late (ensure_payment_operation, recover_invoice).
MonthBilledOnce ==
    /\ \A o \in Op : posted[o] <= 1
    /\ \A c \in Cycle :
          /\ Cardinality(LiveCharges(c)) <= 1
          /\ invoice[c] \in Live => LiveCharges(c) = {}

\* Asaas refused the restoration or the recovery charge of c.
Refused(b, c) == \E o \in Op : b.src[o] = c /\ b.st[o] = "failed"

\* Access is never open over a debt: while it is, no reversal is unresolved,
\* and every source of a recovery is settled with none of its operations open.
\* A refusal ends an operation without settling its source
\* (_apply_asaas_webhook, _apply_operation_event, recover_invoice).
GateMeansNoDebt ==
    book.gate =>
        /\ book.rev = "none"
        /\ \A o \in Op : book.src[o] # 0 =>
              \/ Refused(book, book.src[o])
              \/ Settled(book, book.src[o]) /\ OpenFor(book, book.src[o]) = {}

Standing == OpenStatus \cup {"paid"}

\* One claim per source: an invoice never has two operations that are open or
\* paid.  While the owner's calls do not overlap, no reversal told twice or late,
\* in a notice or in an answer, opens a settled debt anew, wherever a call dies
\* (find_settled_recovery).  Racing calls keep it for refunds, where the unique
\* index and the check under the locks decide; with deletions they do not:
\* RestoreGet stages for a request that looked for operations before another
\* one's recovery was paid, and does not ask for a settled one.
OneClaimPerSource ==
    \A o, q \in Op :
        o # q /\ book.src[o] # 0 /\ book.src[o] = book.src[q] =>
            ~({book.st[o], book.st[q]} \subseteq Standing)
=============================================================================
