------------------------ MODULE MonthlyBillingProofs ------------------------
(***************************************************************************)
(* What MonthlyBilling guarantees for any number of requests, cycles and   *)
(* troubles: whichever requests race, die or come back late, the key of a  *)
(* recovery operation is posted at most once.                              *)
(*                                                                         *)
(* A request that may still write to Asaas for an operation holds a token. *)
(* PostInv says that tokens are exclusive and that an operation free to be *)
(* claimed has none, nothing in flight and nothing posted.  The one path   *)
(* that frees a claim it does not own, a restored invoice found refunded,  *)
(* is closed by HistoryInv, which needs that a restored invoice is not     *)
(* reversed again.                                                         *)
(***************************************************************************)
EXTENDS MonthlyBilling, TLAPS

Status == Remote \cup OpStatus
Req == [at : Place, op : Op \cup {0}, src : Cycle \cup {0}, seen : Status]
Notice == [of : {"invoice"}, id : Cycle, status : Remote]
          \cup [of : {"charge"}, id : Op, status : Remote]

\* The places where a request works on a cycle, and on an operation.
OnCycle == {"snapshot", "restore_get", "restore_claim", "restore_post", "restore_reread",
            "restore_finish", "ensure", "tracked"}
OnOp == {"restore_claim", "restore_post", "restore_reread", "claim", "post", "wait",
         "reconcile", "adopt", "tracked", "apply"}

\* The invoice was deleted at some time.
WasDeleted(c) == invoice[c] = "deleted" \/ c \in restored

AsaasType ==
    /\ invoice \in [Cycle -> Remote]
    /\ charge \in [Op -> Remote]
    /\ posted \in [Op -> 0 .. 1]
    /\ restored \subseteq Cycle /\ flight \subseteq Op
    /\ notices \subseteq Notice
    /\ budget \in 0 .. MaxTrouble

\* The rows: every operation has its source, every bound payment its
\* operation, and a deletion on record happened.
BookOK(b) ==
    /\ b \in Book
    /\ \A o \in Op : b.st[o] # "none" => b.src[o] \in Cycle
    /\ \A o \in Op : b.pays[o] # "none" => b.st[o] # "none"
    /\ b.rev = "deleted" => WasDeleted(b.cur)

\* A request knows what it works on, and what it has seen happened.
ReqOK(q, b) ==
    /\ q \in Req
    /\ q.at \in OnCycle => q.src \in Cycle
    /\ q.at \in OnOp => q.op \in Op
    /\ q.op # 0 => b.st[q.op] # "none"
    /\ q.at \in {"snapshot", "restore_finish"} /\ q.seen = "deleted" => WasDeleted(q.src)
    /\ q.at = "restore_finish" /\ q.seen = "refunded" => invoice[q.src] = "refunded"

ReqInv ==
    /\ req \in [Request -> Req]
    /\ \A r \in Request : ReqOK(req[r], book)

\* A notice tells what happened, of a charge that was made, and a restored
\* invoice lives.
HistoryInv ==
    /\ \A n \in notices : /\ n.of = "invoice" /\ n.status = "deleted" => WasDeleted(n.id)
                          /\ n.of = "charge" => posted[n.id] = 1
    /\ \A c \in restored : invoice[c] \in Live

Token(q, o) == q.at \in {"post", "restore_post"} /\ q.op = o

\* A restored invoice is not reversed again, if there is one.
StaysRestored == "again" \notin Faults \/ restored = {}

\* Nobody is about to write for o, or has.
Untouched(o) == o \notin flight /\ posted[o] = 0

PostInv ==
    /\ \A o \in Op : charge[o] # "none" => posted[o] = 1
    /\ \A o \in flight : posted[o] = 0
    /\ \A o \in Op : book.st[o] \in {"none", "prepared"} =>
          Untouched(o) /\ \A r \in Request : ~Token(req[r], o)
    /\ \A o \in Op, r \in Request : Token(req[r], o) =>
          Untouched(o) /\ \A q \in Request : Token(req[q], o) => q = r

BillInv == AsaasType /\ BookOK(book) /\ ReqInv /\ HistoryInv /\ PostInv


-----------------------------------------------------------------------------
(* What a transaction of this code does to the rows *)

\* n follows b: operations are only inserted, and only an operation not yet
\* used or its own claim holder makes one claimable; a deletion comes on
\* record only for a cycle of D.
Kept(b, n, D) ==
    /\ n \in Book
    /\ \A o \in Op :
          \/ n.st[o] = b.st[o] /\ n.src[o] = b.src[o]
          \/ b.st[o] = "none" /\ n.st[o] # "none" /\ n.src[o] \in Cycle
          \/ b.st[o] # "none" /\ n.st[o] \notin {"none", "prepared"} /\ n.src[o] = b.src[o]
    /\ \A o \in Op : n.pays[o] = b.pays[o] \/ n.st[o] # "none"
    /\ n.rev = "deleted" => (b.rev = "deleted" /\ n.cur = b.cur) \/ n.cur \in D

\* The cycles of which an answer s about c tells the deletion.
Told(c, s) == IF s = "deleted" THEN {c} ELSE {}

LEMMA KeptSame == ASSUME NEW b \in Book, NEW D PROVE Kept(b, b, D)
  BY DEF Kept

LEMMA KeptTrans ==
  ASSUME NEW a, NEW b, NEW n, NEW D, Kept(a, b, D), Kept(b, n, D)
  PROVE  Kept(a, n, D)
  <1>1. \A o \in Op :
          \/ n.st[o] = a.st[o] /\ n.src[o] = a.src[o]
          \/ a.st[o] = "none" /\ n.st[o] # "none" /\ n.src[o] \in Cycle
          \/ a.st[o] # "none" /\ n.st[o] \notin {"none", "prepared"} /\ n.src[o] = a.src[o]
    BY DEF Kept
  <1>2. \A o \in Op : n.pays[o] = a.pays[o] \/ n.st[o] # "none"
    BY DEF Kept
  <1>3. QED  BY <1>1, <1>2 DEF Kept

LEMMA KeptOK ==
  ASSUME NEW b, NEW n, NEW D, BookOK(b), Kept(b, n, D), \A c \in D : WasDeleted(c)
  PROVE  BookOK(n)
  <1>1. \A o \in Op : n.st[o] # "none" => n.src[o] \in Cycle
    BY DEF Kept, BookOK
  <1>2. \A o \in Op : n.pays[o] # "none" => n.st[o] # "none"
    BY DEF Kept, BookOK
  <1>3. QED  BY <1>1, <1>2 DEF Kept, BookOK

LEMMA CycleNotZero == 0 \notin Cycle /\ Cycle \subseteq Nat /\ 0 \notin Op /\ Op \subseteq Nat
  BY BillingAssumption DEF Cycle, Op

LEMMA NewOpFree ==
  ASSUME NEW b, Room(b)
  PROVE  NewOp(b) \in Op /\ b.st[NewOp(b)] = "none"
  BY DEF Room, NewOp

LEMMA InsertKept ==
  ASSUME NEW b \in Book, NEW c \in Cycle, NEW D, Room(b)
  PROVE  /\ Kept(b, Insert(b, c), D)
         /\ NewOp(b) \in OpenFor(Insert(b, c), c)
         /\ Insert(b, c).cur = b.cur
  <1> DEFINE o == NewOp(b)
             n == [b EXCEPT !.st[o] = "prepared", !.src[o] = c]
  <1>1. o \in Op /\ b.st[o] = "none"  BY NewOpFree
  <1>2. n \in Book  BY <1>1 DEF Book, OpStatus, OpenStatus
  <1>3. /\ n.st = [b.st EXCEPT ![o] = "prepared"] /\ n.src = [b.src EXCEPT ![o] = c]
        /\ n.pays = b.pays /\ n.rev = b.rev /\ n.cur = b.cur
        /\ b.st \in [Op -> OpStatus] /\ b.src \in [Op -> Cycle \cup {0}]
    BY <1>1 DEF Book
  <1> HIDE DEF o
  <1>4. Insert(b, c) = n  BY DEF Insert, o
  <1>5. Kept(b, n, D)  BY <1>1, <1>2, <1>3 DEF Kept
  <1>6. o \in OpenFor(n, c)  BY <1>1, <1>3 DEF OpenFor, OpenOps, OpenStatus
  <1>7. QED  BY <1>3, <1>4, <1>5, <1>6 DEF o

LEMMA StageKept ==
  ASSUME NEW b \in Book, NEW c \in Cycle, NEW D, Room(b)
  PROVE  /\ Kept(b, Stage(b, c), D)
         /\ OpenFor(Stage(b, c), c) # {}
         /\ Stage(b, c).cur = b.cur
  BY InsertKept, KeptSame DEF Stage

LEMMA ReopenKept ==
  ASSUME NEW b \in Book, NEW D
  PROVE  Kept(b, Reopen(b), D)
  BY DEF Reopen, Kept, Book

LEMMA CasKept ==
  ASSUME NEW b \in Book, NEW o \in Op, NEW from, NEW to \in OpStatus \ {"none", "prepared"},
         "none" \notin from, NEW D
  PROVE  Kept(b, Cas(b, o, from, to), D)
  BY KeptSame DEF Cas, Kept, Book

LEMMA LinkKept ==
  ASSUME NEW b \in Book, NEW c \in Cycle, NEW s
  PROVE  Kept(b, Link(b, c, s), Told(c, s)) /\ Link(b, c, s).st = b.st
  <1>1. CASE s \in Reversal
    BY <1>1 DEF Link, Kept, Told, Book
  <1>2. CASE s \notin Reversal
    BY <1>2 DEF Link, Kept, Told, Book, Reversal
  <1>3. QED  BY <1>1, <1>2


LEMMA MappedType == ASSUME NEW s PROVE Mapped(s) \in {"pendente", "ativa", "inadimplente"}
  BY DEF Mapped

LEMMA FollowKept ==
  ASSUME NEW b \in Book, NEW c \in Cycle, NEW s, Room(b),
         NEW status \in {"pendente", "ativa", "inadimplente"}
  PROVE  Kept(b, Follow(b, c, s, status), Told(c, s))
  <1> DEFINE D == Told(c, s)
             linked == [Link(b, c, s) EXCEPT !.status = status]
             owed == IF s \in Reversal THEN Stage(linked, c) ELSE linked
             closed == [owed EXCEPT !.gate = FALSE]
  <1>1. Kept(b, Link(b, c, s), D) /\ Link(b, c, s).st = b.st  BY LinkKept
  <1>2. Kept(b, linked, D) /\ linked.st = b.st
    <2>1. Link(b, c, s) \in Book  BY <1>1 DEF Kept
    <2>2. /\ linked \in Book /\ linked.st = b.st
          /\ linked.src = Link(b, c, s).src /\ linked.pays = Link(b, c, s).pays
          /\ linked.rev = Link(b, c, s).rev /\ linked.cur = Link(b, c, s).cur
      BY <1>1, <2>1 DEF Book
    <2> HIDE DEF linked
    <2>3. QED  BY <1>1, <2>2 DEF Kept
  <1> HIDE DEF linked
  <1>3. Kept(linked, owed, D)
    <2>1. linked \in Book /\ Room(linked)  BY <1>2 DEF Kept, Room
    <2>2. QED  BY <2>1, StageKept, KeptSame
  <1>4. owed \in Book  BY <1>3 DEF Kept
  <1> HIDE DEF owed
  <1>5. Kept(owed, Reopen(owed), D)  BY <1>4, ReopenKept
  <1>6. Kept(owed, closed, D)  BY <1>4 DEF Kept, Book
  <1>7. Kept(owed, owed, D)  BY <1>4, KeptSame
  <1>8. Follow(b, c, s, status) \in {Reopen(owed), closed, owed}
    <2>1. Follow(b, c, s, status) = CASE Mapped(s) = "ativa" -> Reopen(owed)
                                      [] Mapped(s) = "inadimplente" -> closed
                                      [] OTHER -> owed
      BY DEF Follow, owed, linked
    <2>2. QED  BY <2>1
  <1> HIDE DEF D, closed
  <1>9. QED  BY <1>2, <1>3, <1>5, <1>6, <1>7, <1>8, KeptTrans DEF D

LEMMA InvoiceEventKept ==
  ASSUME NEW b \in Book, NEW c \in Cycle, NEW s, Room(b)
  PROVE  Kept(b, InvoiceEvent(b, c, s), Told(c, s))
  <1> DEFINE D == Told(c, s)
             staged == Stage(b, c)
  <1>1. Kept(b, b, D)  BY KeptSame
  <1>2. Kept(b, Follow(b, c, s, Mapped(s)), D)  BY FollowKept, MappedType
  <1>3. Kept(b, [staged EXCEPT !.gate = FALSE], D)
    <2>1. Kept(b, staged, D)  BY StageKept
    <2>2. staged \in Book  BY <2>1 DEF Kept
    <2> HIDE DEF staged
    <2>3. Kept(staged, [staged EXCEPT !.gate = FALSE], D)  BY <2>2 DEF Kept, Book
    <2> HIDE DEF D
    <2>4. QED  BY <2>1, <2>3, KeptTrans
  <1>4. QED  BY <1>1, <1>2, <1>3 DEF InvoiceEvent

LEMMA SnapshotKept ==
  ASSUME NEW b \in Book, NEW c \in Cycle, NEW s, Room(b)
  PROVE  Kept(b, Snapshot(b, c, s), Told(c, s))
  <1>1. Kept(b, b, Told(c, s))  BY KeptSame
  <1>2. b.status \in {"pendente", "ativa", "inadimplente"}  BY DEF Book
  <1>3. QED  BY <1>1, <1>2, FollowKept, MappedType DEF Snapshot

LEMMA PaidOpKept ==
  ASSUME NEW b \in Book, NEW o \in Op, b.st[o] # "none", NEW D
  PROVE  Kept(b, PaidOp(b, o), D)
  <1> DEFINE paid == [b EXCEPT !.st[o] = "paid"]
             clear == [paid EXCEPT !.status = "ativa", !.rev = "none"]
  <1>1. paid \in Book /\ Kept(b, paid, D)  BY DEF Kept, Book, OpStatus, OpenStatus
  <1> HIDE DEF paid
  <1>2. clear \in Book /\ Kept(paid, clear, D)  BY <1>1 DEF Kept, Book
  <1> HIDE DEF clear
  <1>3. Kept(paid, Reopen(paid), D) /\ Kept(clear, Reopen(clear), D)
    BY <1>1, <1>2, ReopenKept
  <1>4. PaidOp(b, o) \in {Reopen(clear), Reopen(paid)}  BY DEF PaidOp, clear, paid
  <1>5. QED  BY <1>1, <1>2, <1>3, <1>4, KeptTrans

LEMMA ReversedOpKept ==
  ASSUME NEW b \in Book, NEW o \in Op, b.st[o] # "none", b.src[o] \in Cycle, Room(b), NEW D
  PROVE  Kept(b, ReversedOp(b, o), D)
  <1> DEFINE back == [b EXCEPT !.st[o] = "reversed"]
             owed == Insert(back, b.src[o])
             again == [owed EXCEPT !.gate = FALSE]
             mine == [again EXCEPT !.status = "inadimplente", !.rev = "refunded"]
  <1>1. back \in Book /\ Kept(b, back, D) /\ Room(back)
    BY DEF Kept, Book, OpStatus, OpenStatus, Room
  <1> HIDE DEF back
  <1>2. owed \in Book /\ Kept(back, owed, D)  BY <1>1, InsertKept DEF Kept
  <1> HIDE DEF owed
  <1>3. again \in Book /\ Kept(owed, again, D)  BY <1>2 DEF Kept, Book
  <1> HIDE DEF again
  <1>4. mine \in Book /\ Kept(again, mine, D)  BY <1>3 DEF Kept, Book, Reversal
  <1> HIDE DEF mine
  <1>5. ReversedOp(b, o) \in {mine, again}  BY DEF ReversedOp, mine, again, owed, back
  <1>6. Kept(b, again, D)  BY <1>1, <1>2, <1>3, KeptTrans
  <1>7. QED  BY <1>4, <1>5, <1>6, KeptTrans

LEMMA OperationEventKept ==
  ASSUME NEW b \in Book, NEW o \in Op, NEW s, b.st[o] # "none", b.src[o] \in Cycle,
         Room(b), NEW D
  PROVE  Kept(b, OperationEvent(b, o, s), D)
  <1>1. Kept(b, PaidOp(b, o), D)  BY PaidOpKept
  <1>2. Kept(b, ReversedOp(b, o), D)  BY ReversedOpKept
  <1>3. Kept(b, b, D)  BY KeptSame
  <1>4. OperationEvent(b, o, s) \in {PaidOp(b, o), ReversedOp(b, o), b}
    BY DEF OperationEvent, Reversal
  <1>5. QED  BY <1>1, <1>2, <1>3, <1>4

\* The end of a restoration frees a claim it may not own only when a deleted
\* invoice turns out refunded; otherwise it keeps the rows.
LEMMA RestoredKept ==
  ASSUME NEW b \in Book, NEW o \in Op \cup {0}, NEW c \in Cycle, NEW s, Room(b),
         ~(b.cur = c /\ b.rev = "deleted" /\ s = "refunded")
  PROVE  Kept(b, Restored(b, o, c, s), Told(c, s))
  <1> DEFINE D == Told(c, s)
             open == o # 0 /\ b.st[o] \in OpenStatus
             tied == [b EXCEPT !.pays[o] = "source",
                               !.st[o] = IF s = "paid" THEN "paid" ELSE "created"]
             bound == IF s \notin Reversal /\ open THEN tied
                      ELSE IF s \in Reversal /\ o = 0 THEN Stage(b, c) ELSE b
             freed == [bound EXCEPT !.st[o] =
                         IF s = "refunded" THEN "prepared" ELSE "reconciling"]
             reset == IF o # 0 /\ b.st[o] = "creating" THEN freed ELSE bound
             shut == [reset EXCEPT !.status = "inadimplente", !.rev = s, !.gate = FALSE]
             alive == [bound EXCEPT !.status = Mapped(s), !.rev = "none"]
             admit == [bound EXCEPT !.gate = TRUE]
             moved == b.cur # c \/ b.rev # "deleted"
  <1>0. open => o \in Op /\ b.st[o] # "none"  BY DEF OpenStatus
  <1>1. open => Kept(b, tied, D)
    BY <1>0 DEF Kept, Book, OpStatus, OpenStatus
  <1>2. Kept(b, bound, D)  BY <1>1, StageKept, KeptSame
  <1>3. bound \in Book  BY <1>2 DEF Kept
  <1>4. s \in Reversal /\ o # 0 => bound = b  OBVIOUS
  <1>5. /\ Kept(bound, admit, D)
        /\ alive \in Book /\ Kept(bound, alive, D)
    <2> HIDE DEF bound
    <2>1. QED  BY <1>3, MappedType DEF Kept, Book
  <1>6. Kept(alive, Reopen(alive), D)
    <2> HIDE DEF alive
    <2>1. QED  BY <1>5, ReopenKept
  <1>7. s = "deleted" /\ ~moved => Kept(b, shut, D)
    <2> SUFFICES ASSUME s = "deleted", ~moved PROVE Kept(b, shut, D)  OBVIOUS
    <2>1. s \in Reversal /\ s # "refunded"  BY DEF Reversal
    <2>2. CASE o # 0 /\ b.st[o] = "creating"
      <3>1. o \in Op  BY <2>2
      <3>2. reset = [b EXCEPT !.st[o] = "reconciling"]  BY <2>1, <2>2, <1>4
      <3>3. reset \in Book /\ Kept(b, reset, D) /\ reset.cur = c
        BY <2>2, <3>1, <3>2 DEF Kept, Book, OpStatus, OpenStatus
      <3> HIDE DEF reset
      <3>4. Kept(reset, shut, D)  BY <3>3, <2>1 DEF Kept, Book, Told
      <3> HIDE DEF shut, D
      <3>5. QED  BY <3>3, <3>4, KeptTrans
    <2>3. CASE ~(o # 0 /\ b.st[o] = "creating")
      <3>1. reset = bound  BY <2>3
      <3>2. bound.cur = c  BY StageKept, <2>1
      <3> HIDE DEF reset, bound
      <3>3. Kept(bound, shut, D)
        BY <1>3, <3>1, <3>2, <2>1 DEF Kept, Book, Told
      <3> HIDE DEF shut, D
      <3>4. QED  BY <1>2, <3>3, KeptTrans
    <2>4. QED  BY <2>2, <2>3
  <1>8. /\ Kept(b, admit, D)
        /\ Kept(b, Reopen(alive), D)
    <2> HIDE DEF bound, admit, alive, D
    <2>1. QED  BY <1>2, <1>5, <1>6, KeptTrans
  <1>9. \/ Restored(b, o, c, s) \in {bound, admit, Reopen(alive)}
        \/ ~moved /\ s \in Reversal /\ Restored(b, o, c, s) = shut
    <2>1. CASE moved  BY <2>1 DEF Restored
    <2>2. CASE ~moved /\ s \in Reversal  BY <2>2 DEF Restored
    <2>3. CASE ~moved /\ s \notin Reversal  BY <2>3 DEF Restored
    <2>4. QED  BY <2>1, <2>2, <2>3
  <1>10. ~moved /\ s \in Reversal => s = "deleted"  BY DEF Reversal
  <1> HIDE DEF bound, admit, alive, shut, D, moved
  <1>11. QED  BY <1>2, <1>7, <1>8, <1>9, <1>10 DEF D


-----------------------------------------------------------------------------
(* Steps by their effect *)

\* The rows and the requests after a step that keeps the rows, forgets
\* nothing that happened, and leaves each request as it was or well.
LEMMA Local ==
  ASSUME BillInv, NEW D, Kept(book, book', D), \A c \in D : WasDeleted(c),
         \A c \in Cycle : WasDeleted(c) => WasDeleted(c)',
         \A c \in Cycle : invoice[c] = "refunded" => invoice'[c] = "refunded",
         req' \in [Request -> Req],
         \A q \in Request : req'[q] = req[q] \/ ReqOK(req[q], book)'
  PROVE  BookOK(book)' /\ ReqInv'
  <1>1. BookOK(book)'
    <2>1. BookOK(book')  BY KeptOK DEF BillInv
    <2>2. book'.cur \in Cycle  BY <2>1 DEF BookOK, Book
    <2>3. QED  BY <2>1, <2>2 DEF BookOK
  <1>2. ASSUME NEW q \in Request, req'[q] = req[q] PROVE ReqOK(req[q], book)'
    <2>1. ReqOK(req[q], book)  BY DEF BillInv, ReqInv
    <2>2. req[q].op # 0 => book'.st[req[q].op] # "none"
      <3>1. req[q].op # 0 => req[q].op \in Op /\ book.st[req[q].op] # "none"
        BY <2>1 DEF ReqOK, Req
      <3>2. QED  BY <3>1 DEF Kept
    <2>3. req[q].at \in {"snapshot", "restore_finish"} => req[q].src \in Cycle
      BY <2>1 DEF ReqOK, OnCycle
    <2>4. QED  BY <1>2, <2>1, <2>2, <2>3 DEF ReqOK
  <1>3. QED  BY <1>1, <1>2 DEF ReqInv

\* A step that only keeps the rows, reads notices and moves requests that
\* take no token.
LEMMA Quiet ==
  ASSUME BillInv, NEW D, Kept(book, book', D), \A c \in D : WasDeleted(c),
         UNCHANGED <<invoice, charge, posted, restored, flight>>,
         notices' \subseteq notices, budget' \in 0 .. MaxTrouble,
         req' \in [Request -> Req],
         \A q \in Request : \/ req'[q] = req[q]
                            \/ /\ ReqOK(req'[q], book')
                               /\ req'[q].at \notin {"post", "restore_post"}
  PROVE  BillInv'
  <1>1. \A c \in Cycle : WasDeleted(c)' <=> WasDeleted(c)  BY DEF WasDeleted
  <1>2. \A q \in Request : req'[q] = req[q] \/ ReqOK(req[q], book)'
    <2>1. ASSUME NEW q \in Request, ReqOK(req'[q], book') PROVE ReqOK(req[q], book)'
      <3>1. req'[q].at \in {"snapshot", "restore_finish"} => req'[q].src \in Cycle
        BY <2>1 DEF ReqOK, OnCycle
      <3>2. QED  BY <2>1, <3>1, <1>1 DEF ReqOK
    <2>2. QED  BY <2>1
  <1>3. BookOK(book)' /\ ReqInv'  BY <1>1, <1>2, Local
  <1>4. AsaasType'  BY DEF BillInv, AsaasType
  <1>5. HistoryInv'
    <2>1. \A n \in notices : n.of = "invoice" => n.id \in Cycle
      BY DEF BillInv, AsaasType, Notice
    <2>2. QED  BY <1>1, <2>1 DEF BillInv, HistoryInv
  <1>6. PostInv'
    <2>1. \A o \in Op, q \in Request : Token(req'[q], o) => Token(req[q], o)
      BY DEF Token
    <2>2. \A o \in Op : book'.st[o] \in {"none", "prepared"} => book.st[o] \in {"none", "prepared"}
      BY DEF Kept
    <2>3. \A o \in Op : Untouched(o) => Untouched(o)'  BY DEF Untouched
    <2>4. \A o \in Op : charge'[o] # "none" => posted'[o] = 1  BY DEF BillInv, PostInv
    <2>5. \A o \in flight' : posted'[o] = 0  BY DEF BillInv, PostInv
    <2>6. \A o \in Op : book'.st[o] \in {"none", "prepared"} =>
            Untouched(o)' /\ \A q \in Request : ~Token(req'[q], o)
      BY <2>1, <2>2, <2>3 DEF BillInv, PostInv
    <2>7. \A o \in Op, r \in Request : Token(req'[r], o) =>
            Untouched(o)' /\ \A q \in Request : Token(req'[q], o) => q = r
      BY <2>1, <2>3 DEF BillInv, PostInv
    <2>8. QED  BY <2>4, <2>5, <2>6, <2>7 DEF PostInv
  <1>7. QED  BY <1>3, <1>4, <1>5, <1>6 DEF BillInv

\* A request takes the token of an operation that was free to be claimed.
LEMMA Taking ==
  ASSUME BillInv, NEW r \in Request, NEW o \in Op, NEW q,
         book.st[o] = "prepared", book' = Cas(book, o, {"prepared"}, "creating"),
         req' = [req EXCEPT ![r] = q], ReqOK(q, book), q.op = o,
         UNCHANGED <<asaas, budget>>
  PROVE  BillInv'
  <1>1. Kept(book, book', {}) /\ book'.st[o] = "creating"
    <2>1. book \in Book  BY DEF BillInv, BookOK
    <2>2. Kept(book, book', {})
      BY <2>1, CasKept DEF OpStatus, OpenStatus
    <2>3. QED  BY <2>1, <2>2 DEF Cas, Book
  <1>2. \A c \in Cycle : WasDeleted(c)' <=> WasDeleted(c)  BY DEF WasDeleted, asaas
  <1>3. q \in Req /\ req \in [Request -> Req] /\ req' \in [Request -> Req]
    BY DEF ReqOK, BillInv, ReqInv
  <1>4. ReqOK(req[r], book)'
    <2>1. req'[r] = q  BY <1>3
    <2>2. q.at \in {"snapshot", "restore_finish"} => q.src \in Cycle
      BY DEF ReqOK, OnCycle
    <2>3. QED  BY <1>1, <1>2, <2>1, <2>2, CycleNotZero DEF ReqOK, asaas
  <1>5. BookOK(book)' /\ ReqInv'
    <2>1. \A p \in Request : req'[p] = req[p] \/ p = r  BY <1>3
    <2>2. invoice' = invoice  BY DEF asaas
    <2>3. QED  BY <1>1, <1>2, <1>3, <1>4, <2>1, <2>2, Local
  <1>6. AsaasType'  BY DEF BillInv, AsaasType, asaas
  <1>7. HistoryInv'
    <2>1. \A n \in notices : n.of = "invoice" => n.id \in Cycle
      BY DEF BillInv, AsaasType, Notice
    <2>2. QED  BY <1>2, <2>1 DEF BillInv, HistoryInv, asaas
  <1>8. PostInv'
    <2>1. \A p \in Request, x \in Op : Token(req'[p], x) => Token(req[p], x) \/ (p = r /\ x = o)
      BY <1>3 DEF Token
    <2>2. \A x \in Op : book'.st[x] \in {"none", "prepared"} =>
             x # o /\ book.st[x] \in {"none", "prepared"}
      BY <1>1 DEF Kept
    <2>3. \A x \in Op : Untouched(x) => Untouched(x)'  BY DEF Untouched, asaas
    <2>4. Untouched(o) /\ \A p \in Request : ~Token(req[p], o)  BY DEF BillInv, PostInv
    <2>5. \A x \in Op : book'.st[x] \in {"none", "prepared"} =>
            Untouched(x)' /\ \A p \in Request : ~Token(req'[p], x)
      BY <2>1, <2>2, <2>3 DEF BillInv, PostInv
    <2>6. \A x \in Op, p \in Request : Token(req'[p], x) =>
            Untouched(x)' /\ \A p2 \in Request : Token(req'[p2], x) => p2 = p
      BY <2>1, <2>3, <2>4 DEF BillInv, PostInv
    <2>7. QED  BY <2>5, <2>6 DEF PostInv, BillInv, asaas
  <1>9. QED  BY <1>5, <1>6, <1>7, <1>8 DEF BillInv

\* The holder of a token that wrote nothing frees the claim and leaves.
LEMMA Freeing ==
  ASSUME BillInv, NEW r \in Request, NEW o \in Op, Token(req[r], o),
         book' = Cas(book, o, {"creating"}, "prepared"), Leave(r),
         UNCHANGED <<asaas, budget>>
  PROVE  BillInv'
  <1>1. book \in Book /\ req \in [Request -> Req] /\ IdleReq \in Req
    BY DEF BillInv, BookOK, ReqInv, IdleReq, Req, Place, Status, Remote
  <1>2. /\ req' \in [Request -> Req]
        /\ req'[r] = IdleReq /\ \A q \in Request \ {r} : req'[q] = req[q]
    BY <1>1 DEF Leave
  <1>3. /\ book' \in Book
        /\ book'.src = book.src /\ book'.pays = book.pays
        /\ book'.cur = book.cur /\ book'.rev = book.rev
        /\ \A x \in Op \ {o} : book'.st[x] = book.st[x]
        /\ book'.st[o] = book.st[o] \/ (book.st[o] = "creating" /\ book'.st[o] = "prepared")
    BY <1>1 DEF Cas, Book, OpStatus, OpenStatus
  <1>4. \A c \in Cycle : WasDeleted(c)' <=> WasDeleted(c)  BY DEF WasDeleted, asaas
  <1>5. \A x \in Op : (book'.st[x] = "none") <=> (book.st[x] = "none")  BY <1>3
  <1>6. BookOK(book)'
    <2>1. book.cur \in Cycle  BY <1>1 DEF Book
    <2>2. QED  BY <1>3, <1>4, <1>5, <2>1 DEF BillInv, BookOK
  <1>7. ReqInv'
    <2>1. ReqOK(req[r], book)'
      BY <1>1, <1>2 DEF ReqOK, IdleReq, OnCycle, OnOp
    <2>2. ASSUME NEW q \in Request, q # r PROVE ReqOK(req[q], book)'
      <3>1. ReqOK(req[q], book) /\ req'[q] = req[q]  BY <1>2, <2>2 DEF BillInv, ReqInv
      <3>2. req[q].op # 0 => req[q].op \in Op  BY <1>1 DEF Req
      <3>3. req[q].at \in {"snapshot", "restore_finish"} => req[q].src \in Cycle
        BY <3>1 DEF ReqOK, OnCycle
      <3>4. QED  BY <1>4, <1>5, <3>1, <3>2, <3>3 DEF ReqOK, asaas
    <2>3. QED  BY <1>2, <2>1, <2>2 DEF ReqInv
  <1>8. AsaasType'  BY DEF BillInv, AsaasType, asaas
  <1>9. HistoryInv'
    <2>1. \A n \in notices : n.of = "invoice" => n.id \in Cycle
      BY DEF BillInv, AsaasType, Notice
    <2>2. QED  BY <1>4, <2>1 DEF BillInv, HistoryInv, asaas
  <1>10. PostInv'
    <2>1. Untouched(o) /\ \A q \in Request : Token(req[q], o) => q = r
      BY DEF BillInv, PostInv
    <2>2. \A q \in Request, x \in Op : Token(req'[q], x) => q # r /\ Token(req[q], x)
      BY <1>2 DEF Token, IdleReq
    <2>3. \A x \in Op : Untouched(x) => Untouched(x)'  BY DEF Untouched, asaas
    <2>4. \A x \in Op : book'.st[x] \in {"none", "prepared"} =>
            Untouched(x)' /\ \A q \in Request : ~Token(req'[q], x)
      BY <1>3, <2>1, <2>2, <2>3 DEF BillInv, PostInv
    <2>5. \A x \in Op, p \in Request : Token(req'[p], x) =>
            Untouched(x)' /\ \A q \in Request : Token(req'[q], x) => q = p
      BY <2>2, <2>3 DEF BillInv, PostInv
    <2>6. QED  BY <2>4, <2>5 DEF PostInv, BillInv, asaas
  <1>11. QED  BY <1>6, <1>7, <1>8, <1>9, <1>10 DEF BillInv


\* What a step of r may rely on.
LEMMA Facts ==
  ASSUME BillInv, NEW r \in Request
  PROVE  /\ book \in Book /\ BookOK(book)
         /\ req \in [Request -> Req] /\ req[r] \in Req /\ ReqOK(req[r], book)
         /\ invoice \in [Cycle -> Remote] /\ charge \in [Op -> Remote]
         /\ notices \subseteq Notice /\ budget \in 0 .. MaxTrouble
  BY DEF BillInv, BookOK, ReqInv, AsaasType

LEMMA IdleOK == ASSUME NEW b PROVE ReqOK(IdleReq, b)
  BY DEF ReqOK, IdleReq, Req, Place, Status, Remote, OnCycle, OnOp

\* A quiet step of one request.
LEMMA Moving ==
  ASSUME BillInv, NEW r \in Request, NEW D, Kept(book, book', D), \A c \in D : WasDeleted(c),
         UNCHANGED asaas, budget' \in 0 .. MaxTrouble,
         \A p \in Request \ {r} : req'[p] = req[p], req' \in [Request -> Req],
         ReqOK(req'[r], book'), req'[r].at \notin {"post", "restore_post"}
  PROVE  BillInv'
  <1>1. \A p \in Request : \/ req'[p] = req[p]
                           \/ /\ ReqOK(req'[p], book')
                              /\ req'[p].at \notin {"post", "restore_post"}
    OBVIOUS
  <1>2. UNCHANGED <<invoice, charge, posted, restored, flight>> /\ notices' \subseteq notices
    BY DEF asaas
  <1>3. QED  BY <1>1, <1>2, Quiet

LEMMA Leaving ==
  ASSUME BillInv, NEW r \in Request, NEW D, Kept(book, book', D), \A c \in D : WasDeleted(c),
         UNCHANGED asaas, budget' \in 0 .. MaxTrouble, Leave(r)
  PROVE  BillInv'
  <1>1. /\ req' = [req EXCEPT ![r] = IdleReq] /\ IdleReq.at \notin {"post", "restore_post"}
        /\ req \in [Request -> Req]
    BY Facts DEF Leave, IdleReq
  <1>2. IdleReq \in Req /\ ReqOK(IdleReq, book')  BY IdleOK DEF ReqOK
  <1>3. req' \in [Request -> Req] /\ req'[r] = IdleReq /\ \A p \in Request \ {r} : req'[p] = req[p]
    BY <1>1, <1>2
  <1>4. QED  BY <1>1, <1>2, <1>3, Moving

-----------------------------------------------------------------------------
(* Asaas and the payer *)

LEMMA IssueStep ==
  ASSUME BillInv, NEW c \in Cycle, IssueInvoice(c)
  PROVE  BillInv'
  <1>1. /\ invoice \in [Cycle -> Remote] /\ notices \subseteq Notice
        /\ invoice[c] = "none" /\ invoice' = [invoice EXCEPT ![c] = "pending"]
        /\ notices' = notices \cup {NoticeOfInvoice(c, "pending")}
        /\ UNCHANGED <<charge, posted, restored, flight, book, req, budget>>
    BY DEF IssueInvoice, BillInv, AsaasType
  <1>2. \A d \in Cycle : invoice'[d] = invoice[d] \/ (invoice[d] = "none" /\ invoice'[d] = "pending")
    BY <1>1
  <1>3. \A d \in Cycle : WasDeleted(d) => WasDeleted(d)'  BY <1>1, <1>2 DEF WasDeleted
  <1>4. \A d \in Cycle : invoice[d] = "refunded" => invoice'[d] = "refunded"  BY <1>2
  <1>5. Kept(book, book', {}) /\ req' \in [Request -> Req] /\ \A q \in Request : req'[q] = req[q]
    BY <1>1, KeptSame DEF BillInv, BookOK, ReqInv
  <1>6. BookOK(book)' /\ ReqInv'  BY <1>3, <1>4, <1>5, Local
  <1>7. NoticeOfInvoice(c, "pending") \in Notice /\ NoticeOfInvoice(c, "pending").of = "invoice"
        /\ NoticeOfInvoice(c, "pending").status = "pending"
    BY DEF NoticeOfInvoice, Notice, Remote
  <1>8. AsaasType'
    <2>1. invoice' \in [Cycle -> Remote] /\ notices' \subseteq Notice  BY <1>1, <1>7 DEF Remote
    <2>2. QED  BY <1>1, <2>1 DEF BillInv, AsaasType
  <1>9. HistoryInv'
    <2>1. \A n \in notices : n.of = "invoice" => n.id \in Cycle  BY <1>1 DEF Notice
    <2>2. \A d \in restored : d \in Cycle  BY DEF BillInv, AsaasType
    <2>3. \A d \in restored' : invoice'[d] \in Live
      BY <1>1, <1>2, <2>2 DEF BillInv, HistoryInv, Live
    <2>4. \A n \in notices' : n.of = "invoice" /\ n.status = "deleted" => WasDeleted(n.id)'
      BY <1>1, <1>3, <1>7, <2>1 DEF BillInv, HistoryInv
    <2>5. \A n \in notices' : n.of = "charge" => posted'[n.id] = 1
      BY <1>1, <1>7 DEF BillInv, HistoryInv
    <2>6. QED  BY <2>3, <2>4, <2>5 DEF HistoryInv
  <1>10. PostInv'  BY <1>1 DEF BillInv, PostInv, Untouched
  <1>11. QED  BY <1>6, <1>8, <1>9, <1>10 DEF BillInv

\* A restored invoice is not reversed again.
LEMMA TurnInvoiceStep ==
  ASSUME BillInv, StaysRestored, NEW c \in Cycle, NEW to \in Remote,
         TurnInvoice(c, to)
  PROVE  BillInv'
  <1>1. /\ invoice \in [Cycle -> Remote] /\ notices \subseteq Notice
        /\ invoice' = [invoice EXCEPT ![c] = to]
        /\ notices' = notices \cup {NoticeOfInvoice(c, to)}
        /\ UNCHANGED <<charge, posted, restored, flight, book, req>>
        /\ invoice[c] \notin {"deleted", "refunded", "none"}
        /\ to \in {"paid", "deleted", "refunded", "overdue"}
        /\ c \in restored => to \notin Reversal
    BY DEF TurnInvoice, Turn, StaysRestored, BillInv, AsaasType
  <1>2. budget' \in 0 .. MaxTrouble
    <2>1. budget \in 0 .. MaxTrouble /\ MaxTrouble \in Nat
      BY BillingAssumption DEF BillInv, AsaasType
    <2>2. QED  BY <2>1 DEF TurnInvoice, Spend
  <1>3. \A d \in Cycle : invoice'[d] = invoice[d] \/ (d = c /\ invoice'[d] = to)  BY <1>1
  <1>4. \A d \in Cycle : WasDeleted(d) => WasDeleted(d)'  BY <1>1, <1>3 DEF WasDeleted
  <1>5. \A d \in Cycle : invoice[d] = "refunded" => invoice'[d] = "refunded"  BY <1>1, <1>3
  <1>6. Kept(book, book', {}) /\ req' \in [Request -> Req] /\ \A q \in Request : req'[q] = req[q]
    BY <1>1, KeptSame DEF BillInv, BookOK, ReqInv
  <1>7. BookOK(book)' /\ ReqInv'  BY <1>4, <1>5, <1>6, Local
  <1>8. NoticeOfInvoice(c, to) \in Notice /\ NoticeOfInvoice(c, to).of = "invoice"
        /\ NoticeOfInvoice(c, to).status = to /\ NoticeOfInvoice(c, to).id = c
    BY DEF NoticeOfInvoice, Notice
  <1>9. AsaasType'
    <2>1. invoice' \in [Cycle -> Remote] /\ notices' \subseteq Notice  BY <1>1, <1>8
    <2>2. QED  BY <1>1, <1>2, <2>1 DEF BillInv, AsaasType
  <1>10. HistoryInv'
    <2>1. \A n \in notices : n.of = "invoice" => n.id \in Cycle  BY <1>1 DEF Notice
    <2>2. \A d \in restored : d \in Cycle  BY DEF BillInv, AsaasType
    <2>3. \A d \in restored' : invoice'[d] \in Live
      BY <1>1, <1>3, <2>2 DEF BillInv, HistoryInv, Live, Reversal
    <2>4. to = "deleted" => WasDeleted(c)'  BY <1>1 DEF WasDeleted
    <2>5. \A n \in notices' : n.of = "invoice" /\ n.status = "deleted" => WasDeleted(n.id)'
      BY <1>1, <1>4, <1>8, <2>1, <2>4 DEF BillInv, HistoryInv
    <2>6. \A n \in notices' : n.of = "charge" => posted'[n.id] = 1
      BY <1>1, <1>8 DEF BillInv, HistoryInv
    <2>7. QED  BY <2>3, <2>5, <2>6 DEF HistoryInv
  <1>11. PostInv'  BY <1>1 DEF BillInv, PostInv, Untouched
  <1>12. QED  BY <1>7, <1>9, <1>10, <1>11 DEF BillInv

LEMMA TurnChargeStep ==
  ASSUME BillInv, NEW o \in Op, NEW to \in Remote, TurnCharge(o, to)
  PROVE  BillInv'
  <1>1. /\ charge \in [Op -> Remote] /\ notices \subseteq Notice
        /\ charge' = [charge EXCEPT ![o] = to] /\ charge[o] # "none"
        /\ notices' = notices \cup {NoticeOfCharge(o, to)}
        /\ UNCHANGED <<invoice, posted, restored, flight, book, req>>
    BY DEF TurnCharge, Turn, BillInv, AsaasType
  <1>2. budget' \in 0 .. MaxTrouble
    <2>1. budget \in 0 .. MaxTrouble /\ MaxTrouble \in Nat
      BY BillingAssumption DEF BillInv, AsaasType
    <2>2. QED  BY <2>1 DEF TurnCharge, Spend
  <1>3. \A d \in Cycle : WasDeleted(d)' <=> WasDeleted(d)  BY <1>1 DEF WasDeleted
  <1>4. Kept(book, book', {}) /\ req' \in [Request -> Req] /\ \A q \in Request : req'[q] = req[q]
    BY <1>1, KeptSame DEF BillInv, BookOK, ReqInv
  <1>5. BookOK(book)' /\ ReqInv'  BY <1>1, <1>3, <1>4, Local
  <1>6. NoticeOfCharge(o, to) \in Notice /\ NoticeOfCharge(o, to).of = "charge"
        /\ NoticeOfCharge(o, to).id = o
    BY DEF NoticeOfCharge, Notice
  <1>7. posted[o] = 1  BY <1>1 DEF BillInv, PostInv
  <1>8. AsaasType'
    <2>1. charge' \in [Op -> Remote] /\ notices' \subseteq Notice  BY <1>1, <1>6
    <2>2. QED  BY <1>1, <1>2, <2>1 DEF BillInv, AsaasType
  <1>9. HistoryInv'
    <2>1. \A n \in notices : n.of = "invoice" => n.id \in Cycle  BY <1>1 DEF Notice
    <2>2. \A n \in notices' : n.of = "invoice" /\ n.status = "deleted" => WasDeleted(n.id)'
      BY <1>1, <1>3, <1>6, <2>1 DEF BillInv, HistoryInv
    <2>3. \A n \in notices' : n.of = "charge" => posted'[n.id] = 1
      BY <1>1, <1>6, <1>7 DEF BillInv, HistoryInv
    <2>4. QED  BY <1>1, <2>2, <2>3 DEF HistoryInv, BillInv
  <1>10. PostInv'
    <2>1. \A x \in Op : charge'[x] # "none" => posted'[x] = 1
      BY <1>1, <1>7 DEF BillInv, PostInv
    <2>2. QED  BY <1>1, <2>1 DEF BillInv, PostInv, Untouched
  <1>11. QED  BY <1>5, <1>8, <1>9, <1>10 DEF BillInv

LEMMA ArriveStep ==
  ASSUME BillInv, NEW o \in Op, Arrive(o)
  PROVE  BillInv'
  <1>1. /\ o \in flight /\ flight' = flight \ {o}
        /\ charge' = [charge EXCEPT ![o] = "pending"]
        /\ posted' = [posted EXCEPT ![o] = @ + 1]
        /\ UNCHANGED <<invoice, restored, notices, book, req, budget>>
        /\ charge \in [Op -> Remote] /\ posted \in [Op -> 0 .. 1]
    BY DEF Arrive, BillInv, AsaasType
  <1>2. posted[o] = 0  BY <1>1 DEF BillInv, PostInv
  <1>3. posted'[o] = 1 /\ \A x \in Op \ {o} : posted'[x] = posted[x] /\ charge'[x] = charge[x]
    BY <1>1, <1>2
  <1>4. \A d \in Cycle : WasDeleted(d)' <=> WasDeleted(d)  BY <1>1 DEF WasDeleted
  <1>5. Kept(book, book', {}) /\ req' \in [Request -> Req] /\ \A q \in Request : req'[q] = req[q]
    BY <1>1, KeptSame DEF BillInv, BookOK, ReqInv
  <1>6. BookOK(book)' /\ ReqInv'  BY <1>1, <1>4, <1>5, Local
  <1>7. AsaasType'
    <2>1. charge' \in [Op -> Remote]  BY <1>1 DEF Remote
    <2>2. posted' \in [Op -> 0 .. 1]  BY <1>1, <1>2
    <2>3. QED  BY <1>1, <2>1, <2>2 DEF BillInv, AsaasType
  <1>8. HistoryInv'
    <2>1. \A n \in notices : /\ n.of = "invoice" => n.id \in Cycle
                             /\ n.of = "charge" => n.id \in Op
      BY DEF BillInv, AsaasType, Notice
    <2>2. QED  BY <1>1, <1>3, <1>4, <2>1 DEF BillInv, HistoryInv
  <1>9. PostInv'
    <2>1. ~Untouched(o)  BY <1>1 DEF Untouched
    <2>2. book.st[o] \notin {"none", "prepared"} /\ \A q \in Request : ~Token(req[q], o)
      BY <2>1 DEF BillInv, PostInv
    <2>3. \A x \in Op \ {o} : Untouched(x) => Untouched(x)'  BY <1>1, <1>3 DEF Untouched
    <2>4. \A x \in Op : charge'[x] # "none" => posted'[x] = 1
      BY <1>3 DEF BillInv, PostInv
    <2>5. \A x \in flight' : posted'[x] = 0
      BY <1>1, <1>3 DEF BillInv, PostInv, AsaasType
    <2>6. \A x \in Op : book'.st[x] \in {"none", "prepared"} =>
            Untouched(x)' /\ \A q \in Request : ~Token(req'[q], x)
      BY <1>1, <2>2, <2>3 DEF BillInv, PostInv
    <2>7. \A x \in Op, p \in Request : Token(req'[p], x) =>
            Untouched(x)' /\ \A q \in Request : Token(req'[q], x) => q = p
      BY <1>1, <2>2, <2>3 DEF BillInv, PostInv
    <2>8. QED  BY <2>4, <2>5, <2>6, <2>7 DEF PostInv
  <1>10. QED  BY <1>6, <1>7, <1>8, <1>9 DEF BillInv

LEMMA WebhookStep ==
  ASSUME BillInv, NEW n \in notices, Webhook(n)
  PROVE  BillInv'
  <1> DEFINE D == IF n.of = "invoice" THEN Told(n.id, n.status) ELSE {}
  <1>1. /\ book \in Book /\ BookOK(book) /\ Room(book) /\ n \in Notice
        /\ notices' \subseteq notices /\ req \in [Request -> Req]
        /\ UNCHANGED <<invoice, charge, posted, restored, flight, req, budget>>
        /\ budget \in 0 .. MaxTrouble
    BY DEF Webhook, BillInv, BookOK, ReqInv, AsaasType
  <1>2. \A c \in D : WasDeleted(c)
    BY DEF Told, BillInv, HistoryInv
  <1>3. CASE Owners(n) # {}
    <2> DEFINE o == CHOOSE q \in Owners(n) : TRUE
               known == IF book.pays[o] = "none" THEN [book EXCEPT !.pays[o] = "own"] ELSE book
    <2>1. o \in Owners(n)  BY <1>3
    <2> HIDE DEF o
    <2>2. o \in Op  BY <2>1 DEF Owners
    <2>3. book.st[o] # "none"
      <3>1. CASE n.of = "invoice" /\ book.pays[o] = "source"
        BY <3>1, <2>2, <1>1 DEF BookOK
      <3>2. CASE n.of = "charge" /\ o = n.id
        <4>1. posted[o] = 1  BY <3>2 DEF BillInv, HistoryInv
        <4>2. QED  BY <4>1, <2>2 DEF BillInv, PostInv, Untouched
      <3>3. QED  BY <2>1, <3>1, <3>2 DEF Owners
    <2>4. book.src[o] \in Cycle  BY <1>1, <2>2, <2>3 DEF BookOK
    <2>5. /\ known \in Book /\ Kept(book, known, D) /\ Room(known)
          /\ known.st[o] # "none" /\ known.src[o] \in Cycle
      BY <1>1, <2>2, <2>3, <2>4 DEF Kept, Book, Room
    <2>6. book' = OperationEvent(known, o, n.status)  BY <1>3 DEF Webhook, o
    <2> HIDE DEF known, D
    <2>7. Kept(known, book', D)  BY <2>2, <2>5, <2>6, OperationEventKept
    <2>8. QED  BY <2>5, <2>7, KeptTrans, <1>1, <1>2, Quiet
  <1>4. CASE Owners(n) = {} /\ n.of = "invoice"
    <2>1. n.id \in Cycle  BY <1>1, <1>4 DEF Notice
    <2>2. book' = InvoiceEvent(book, n.id, n.status)  BY <1>4 DEF Webhook
    <2>3. Kept(book, book', Told(n.id, n.status))  BY <1>1, <2>1, <2>2, InvoiceEventKept
    <2>4. Kept(book, book', D)  BY <2>3, <1>4
    <2> HIDE DEF D
    <2>5. QED  BY <2>4, <1>1, <1>2, Quiet
  <1>5. CASE Owners(n) = {} /\ n.of # "invoice"
    <2>1. book' = book  BY <1>5 DEF Webhook
    <2>2. Kept(book, book', D)  BY <2>1, <1>1, KeptSame
    <2> HIDE DEF D
    <2>3. QED  BY <2>2, <1>1, <1>2, Quiet
  <1>6. QED  BY <1>3, <1>4, <1>5


-----------------------------------------------------------------------------
(* The requests *)

LEMMA ReadInvoiceStep ==
  ASSUME BillInv, NEW r \in Request, NEW c \in Cycle, ReadInvoice(r, c)
  PROVE  BillInv'
  <1> DEFINE q == [IdleReq EXCEPT !.at = "snapshot", !.src = c, !.seen = invoice[c]]
  <1>1. req' = [req EXCEPT ![r] = q] /\ UNCHANGED <<asaas, book, budget>>
    BY DEF ReadInvoice
  <1>2. q \in Req /\ q.at = "snapshot" /\ q.op = 0 /\ q.src = c /\ q.seen = invoice[c]
    BY Facts DEF IdleReq, Req, Place, Status, Remote
  <1> HIDE DEF q
  <1>3. ReqOK(q, book)
    BY <1>2, Facts DEF ReqOK, OnCycle, OnOp, WasDeleted
  <1>4. Kept(book, book', {}) /\ ReqOK(q, book') /\ budget' \in 0 .. MaxTrouble
    BY <1>1, <1>3, KeptSame, Facts
  <1>5. q.at \notin {"post", "restore_post"}  BY <1>2
  <1>6. /\ req' \in [Request -> Req] /\ req'[r] = q
        /\ \A p \in Request \ {r} : req'[p] = req[p]
    BY <1>1, <1>4, <1>5, Facts DEF ReqOK
  <1>7. QED  BY <1>1, <1>4, <1>5, <1>6, Moving

LEMMA ApplySnapshotStep ==
  ASSUME BillInv, NEW r \in Request, ApplySnapshot(r)
  PROVE  BillInv'
  <1> DEFINE D == Told(req[r].src, req[r].seen)
  <1>1. /\ req[r].at = "snapshot" /\ Room(book) /\ Leave(r)
        /\ book' = Snapshot(book, req[r].src, req[r].seen) /\ UNCHANGED <<asaas, budget>>
    BY DEF ApplySnapshot
  <1>2. req[r].src \in Cycle /\ \A c \in D : WasDeleted(c)
    BY <1>1, Facts DEF ReqOK, OnCycle, Told
  <1>3. Kept(book, book', D)  BY <1>1, <1>2, Facts, SnapshotKept
  <1> HIDE DEF D
  <1>4. QED  BY <1>1, <1>2, <1>3, Facts, Leaving

LEMMA RecoverStep ==
  ASSUME BillInv, NEW r \in Request, Recover(r)
  PROVE  BillInv'
  <1>1. /\ book \in Book /\ BookOK(book) /\ book' = book /\ UNCHANGED asaas
        /\ budget' \in 0 .. MaxTrouble /\ Kept(book, book', {}) /\ book.cur \in Cycle
    BY Facts, KeptSame DEF Recover, Book
  <1>2. ASSUME book.rev = "deleted",
               NEW o, o = (LET mine == OpenFor(book, book.cur)
                           IN IF mine = {} THEN 0 ELSE CHOOSE q \in mine : TRUE),
               req' = [req EXCEPT ![r] = [at |-> "restore_get", op |-> o, src |-> book.cur,
                         seen |-> IF o = 0 THEN "none" ELSE book.st[o]]]
        PROVE  BillInv'
    <2>1. o = 0 \/ (o \in Op /\ book.st[o] # "none")
      BY <1>2 DEF OpenFor, OpenOps, OpenStatus
    <2> DEFINE q == [at |-> "restore_get", op |-> o, src |-> book.cur,
                     seen |-> IF o = 0 THEN "none" ELSE book.st[o]]
    <2>2. q.seen \in Status  BY <1>1, <2>1 DEF Status, Remote, Book
    <2>3. ReqOK(q, book')
      BY <1>1, <2>1, <2>2 DEF ReqOK, Req, Place, OnCycle, OnOp
    <2>4. req' = [req EXCEPT ![r] = q] /\ q.at \notin {"post", "restore_post"}  BY <1>2
    <2> HIDE DEF q
    <2>5. /\ req' \in [Request -> Req] /\ req'[r] = q
          /\ \A p \in Request \ {r} : req'[p] = req[p]
      BY <1>1, <2>3, <2>4, Facts DEF ReqOK
    <2>6. QED  BY <1>1, <2>3, <2>4, <2>5, Moving
  <1>3. ASSUME NEW c \in Cycle,
               req' = [req EXCEPT ![r] = [IdleReq EXCEPT !.at = "ensure", !.src = c]]
        PROVE  BillInv'
    <2> DEFINE q == [IdleReq EXCEPT !.at = "ensure", !.src = c]
    <2>1. q \in Req /\ q.at = "ensure" /\ q.op = 0 /\ q.src = c
      BY DEF IdleReq, Req, Place, Status, Remote
    <2>2. ReqOK(q, book')
      BY <2>1 DEF ReqOK, OnCycle, OnOp
    <2>3. req' = [req EXCEPT ![r] = q] /\ q.at \notin {"post", "restore_post"}
      BY <1>3, <2>1
    <2> HIDE DEF q
    <2>4. /\ req' \in [Request -> Req] /\ req'[r] = q
          /\ \A p \in Request \ {r} : req'[p] = req[p]
      BY <1>1, <2>2, <2>3, Facts DEF ReqOK
    <2>5. QED  BY <1>1, <2>2, <2>3, <2>4, Moving
  <1>4. \A o \in OpenOps(book) : book.src[o] \in Cycle
    BY <1>1 DEF OpenOps, OpenStatus, BookOK
  <1>5. QED  BY <1>1, <1>2, <1>3, <1>4 DEF Recover

LEMMA RestoreGetStep ==
  ASSUME BillInv, NEW r \in Request, RestoreGet(r)
  PROVE  BillInv'
  <1> DEFINE c == req[r].src
  <1>1. /\ book \in Book /\ BookOK(book) /\ req \in [Request -> Req] /\ req[r] \in Req
        /\ ReqOK(req[r], book) /\ invoice \in [Cycle -> Remote]
        /\ req[r].at = "restore_get" /\ Room(book)
        /\ UNCHANGED asaas /\ budget' \in 0 .. MaxTrouble
    BY Facts DEF RestoreGet
  <1>2. c \in Cycle  BY <1>1 DEF ReqOK, OnCycle
  <1>3. CASE invoice[c] = "deleted" /\ req[r].op # 0
    <2> DEFINE q == [req[r] EXCEPT !.at = "restore_claim"]
    <2>1. book' = book /\ req' = [req EXCEPT ![r] = q]
      BY <1>1, <1>3 DEF RestoreGet, Go
    <2>2. /\ q \in Req /\ q.at = "restore_claim" /\ q.op = req[r].op
          /\ q.src = c /\ q.seen = req[r].seen
      BY <1>1 DEF Req, Place
    <2> HIDE DEF q
    <2>3. ReqOK(q, book')
      BY <1>1, <1>2, <1>3, <2>1, <2>2 DEF ReqOK, OnCycle, OnOp, Req
    <2>4. Kept(book, book', {})  BY <1>1, <2>1, KeptSame
    <2>5. q.at \notin {"post", "restore_post"}  BY <2>2
    <2>6. /\ req' \in [Request -> Req] /\ req'[r] = q
          /\ \A p \in Request \ {r} : req'[p] = req[p]
      BY <1>1, <2>1, <2>3, <2>4, <2>5, Facts DEF ReqOK
    <2>7. QED  BY <1>1, <2>1, <2>3, <2>4, <2>5, <2>6, Moving
  <1>4. CASE invoice[c] = "deleted" /\ req[r].op = 0
    <2> DEFINE b == Stage(book, c)
               o == CHOOSE x \in OpenFor(b, c) : TRUE
               q == [req[r] EXCEPT !.at = "restore_claim", !.op = o, !.seen = b.st[o]]
    <2>1. Kept(book, b, {}) /\ OpenFor(b, c) # {}  BY <1>1, <1>2, StageKept
    <2>2. b \in Book  BY <2>1 DEF Kept
    <2>3. /\ book' = b
          /\ req' = [req EXCEPT ![r].at = "restore_claim", ![r].op = o, ![r].seen = b.st[o]]
      BY <1>1, <1>4 DEF RestoreGet
    <2> HIDE DEF b
    <2>4. o \in OpenFor(b, c)  BY <2>1
    <2> HIDE DEF o
    <2>5. o \in Op /\ b.st[o] # "none" /\ b.st[o] \in Status
      BY <2>2, <2>4 DEF OpenFor, OpenOps, OpenStatus, Book, Status
    <2>6. /\ req' = [req EXCEPT ![r] = q]
          /\ q \in Req /\ q.at = "restore_claim" /\ q.op = o /\ q.src = c
      BY <1>1, <2>3, <2>5 DEF Req, Place
    <2> HIDE DEF q
    <2>7. ReqOK(q, b)
      BY <1>2, <2>5, <2>6 DEF ReqOK, OnCycle, OnOp
    <2>8. q.at \notin {"post", "restore_post"}  BY <2>6
    <2>9. /\ req' \in [Request -> Req] /\ req'[r] = q
          /\ \A p \in Request \ {r} : req'[p] = req[p]
      BY <1>1, <2>6
    <2>10. QED  BY <1>1, <2>1, <2>3, <2>6, <2>7, <2>8, <2>9, Moving
  <1>5. CASE invoice[c] # "deleted"
    <2> DEFINE q == [req[r] EXCEPT !.at = "restore_finish", !.seen = invoice[c]]
    <2>1. book' = book /\ req' = [req EXCEPT ![r].at = "restore_finish", ![r].seen = invoice[c]]
      BY <1>1, <1>5 DEF RestoreGet
    <2>2. req' = [req EXCEPT ![r] = q]  BY <1>1, <2>1
    <2>3. /\ q \in Req /\ q.at = "restore_finish" /\ q.op = req[r].op
          /\ q.src = c /\ q.seen = invoice[c]
      BY <1>1, <1>2 DEF Req, Place, Status
    <2> HIDE DEF q
    <2>4. ReqOK(q, book')
      BY <1>1, <1>2, <1>5, <2>1, <2>3 DEF ReqOK, OnCycle, OnOp
    <2>5. Kept(book, book', {})  BY <1>1, <2>1, KeptSame
    <2>6. q.at \notin {"post", "restore_post"}  BY <2>3
    <2>7. /\ req' \in [Request -> Req] /\ req'[r] = q
          /\ \A p \in Request \ {r} : req'[p] = req[p]
      BY <1>1, <2>1, <2>2, <2>4, <2>5, <2>6, Facts DEF ReqOK
    <2>8. QED  BY <1>1, <2>1, <2>2, <2>4, <2>5, <2>6, <2>7, Moving
  <1>6. QED  BY <1>3, <1>4, <1>5

\* The view q of a request that has just read the invoice of its cycle.
LEMMA Seeing ==
  ASSUME BillInv, NEW r \in Request, req[r].src \in Cycle,
         UNCHANGED <<asaas, book, budget>>,
         req' = [req EXCEPT ![r].at = "restore_finish", ![r].seen = invoice[req[r].src]]
  PROVE  BillInv'
  <1> DEFINE c == req[r].src
             q == [req[r] EXCEPT !.at = "restore_finish", !.seen = invoice[c]]
  <1>1. /\ req \in [Request -> Req] /\ req[r] \in Req /\ ReqOK(req[r], book)
        /\ invoice \in [Cycle -> Remote] /\ book \in Book /\ budget \in 0 .. MaxTrouble
    BY Facts
  <1>2. req' = [req EXCEPT ![r] = q]  BY <1>1
  <1>3. /\ q \in Req /\ q.at = "restore_finish" /\ q.op = req[r].op
        /\ q.src = c /\ q.seen = invoice[c]
    BY <1>1 DEF Req, Place, Status
  <1> HIDE DEF q
  <1>4. ReqOK(q, book')
    BY <1>1, <1>3 DEF ReqOK, OnCycle, OnOp, WasDeleted
  <1>5. Kept(book, book', {}) /\ budget' \in 0 .. MaxTrouble  BY <1>1, KeptSame
  <1>6. q.at \notin {"post", "restore_post"}  BY <1>3
  <1>7. /\ req' \in [Request -> Req] /\ req'[r] = q
        /\ \A p \in Request \ {r} : req'[p] = req[p]
    BY <1>1, <1>2, <1>3
  <1>8. QED  BY <1>2, <1>4, <1>5, <1>6, <1>7, Moving

LEMMA RestoreClaimStep ==
  ASSUME BillInv, NEW r \in Request, RestoreClaim(r)
  PROVE  BillInv'
  <1> DEFINE c == req[r].src
             o == req[r].op
             won == req[r].seen = "prepared" /\ book.st[o] = "prepared"
  <1>1. /\ book \in Book /\ req \in [Request -> Req] /\ req[r] \in Req
        /\ ReqOK(req[r], book) /\ budget \in 0 .. MaxTrouble
        /\ req[r].at = "restore_claim" /\ UNCHANGED <<asaas, budget>>
    BY Facts DEF RestoreClaim
  <1>2. c \in Cycle /\ o \in Op  BY <1>1 DEF ReqOK, OnCycle, OnOp
  <1>3. CASE won
    <2> DEFINE q == [req[r] EXCEPT !.at = "restore_post"]
    <2>1. book' = Cas(book, o, {"prepared"}, "creating") /\ req' = [req EXCEPT ![r] = q]
      BY <1>3 DEF RestoreClaim, Go
    <2>2. /\ q \in Req /\ q.at = "restore_post" /\ q.op = o
          /\ q.src = c /\ q.seen = req[r].seen
      BY <1>1 DEF Req, Place
    <2> HIDE DEF q
    <2>3. ReqOK(q, book)  BY <1>1, <1>2, <2>2 DEF ReqOK, OnCycle, OnOp
    <2>4. QED  BY <1>1, <1>2, <1>3, <2>1, <2>2, <2>3, Taking
  <1>4. CASE ~won /\ invoice[c] = "deleted"
    <2>1. book' = book /\ Leave(r)  BY <1>4 DEF RestoreClaim
    <2>2. Kept(book, book', {}) /\ budget' \in 0 .. MaxTrouble  BY <1>1, <2>1, KeptSame
    <2>3. QED  BY <1>1, <2>1, <2>2, Leaving
  <1>5. CASE ~won /\ invoice[c] # "deleted"
    <2>1. book' = book
          /\ req' = [req EXCEPT ![r].at = "restore_finish", ![r].seen = invoice[c]]
      BY <1>5 DEF RestoreClaim
    <2>2. QED  BY <1>1, <1>2, <2>1, Seeing
  <1>6. QED  BY <1>3, <1>4, <1>5

LEMMA RestoreRereadStep ==
  ASSUME BillInv, NEW r \in Request, RestoreReread(r)
  PROVE  BillInv'
  <1>1. req[r].src \in Cycle  BY Facts DEF RestoreReread, ReqOK, OnCycle
  <1>2. QED  BY <1>1, Seeing DEF RestoreReread


\* The claim holder asks Asaas to restore the invoice.
LEMMA RestorePostStep ==
  ASSUME BillInv, NEW r \in Request, RestorePost(r)
  PROVE  BillInv'
  <1> DEFINE c == req[r].src
             o == req[r].op
  <1>1. /\ book \in Book /\ BookOK(book) /\ req \in [Request -> Req] /\ req[r] \in Req
        /\ ReqOK(req[r], book) /\ invoice \in [Cycle -> Remote] /\ notices \subseteq Notice
        /\ budget \in 0 .. MaxTrouble /\ req[r].at = "restore_post"
    BY Facts DEF RestorePost
  <1>2. c \in Cycle /\ o \in Op /\ book.st[o] # "none"
    BY <1>1, CycleNotZero DEF ReqOK, OnCycle, OnOp
  <1>3. Token(req[r], o)  BY <1>1 DEF Token
  <1> DEFINE back == [req[r] EXCEPT !.at = "restore_reread"]
  <1>4. /\ back \in Req /\ back.at = "restore_reread" /\ back.op = o /\ back.src = c
    BY <1>1 DEF Req, Place
  <1>5. IdleReq \in Req /\ IdleReq.at = "idle"  BY IdleOK DEF ReqOK, IdleReq
  <1> HIDE DEF back
  \* How the request goes on, and with which rows.
  <1>7. ASSUME Kept(book, book', {}),
               req' = [req EXCEPT ![r] = back] \/ req' = [req EXCEPT ![r] = IdleReq]
        PROVE  /\ req' \in [Request -> Req] /\ ReqOK(req'[r], book')
               /\ req'[r].at \notin {"post", "restore_post", "snapshot", "restore_finish"}
               /\ \A p \in Request \ {r} : req'[p] = req[p]
    <2>1. book'.st[o] # "none"  BY <1>2, <1>7 DEF Kept
    <2>2. CASE req' = [req EXCEPT ![r] = back]
      <3>1. req'[r] = back  BY <1>1, <2>2
      <3>2. ReqOK(req'[r], book')  BY <1>2, <1>4, <2>1, <3>1 DEF ReqOK, OnCycle, OnOp
      <3>3. req' \in [Request -> Req] /\ \A p \in Request \ {r} : req'[p] = req[p]
        BY <1>1, <1>4, <2>2
      <3>4. QED  BY <1>4, <3>1, <3>2, <3>3
    <2>3. CASE req' = [req EXCEPT ![r] = IdleReq]
      <3>1. req'[r] = IdleReq  BY <1>1, <2>3
      <3>2. req' \in [Request -> Req] /\ \A p \in Request \ {r} : req'[p] = req[p]
        BY <1>1, <1>5, <2>3
      <3>3. ReqOK(req'[r], book')  BY <3>1, IdleOK DEF ReqOK, IdleReq, OnCycle, OnOp
      <3>4. QED  BY <1>5, <3>1, <3>2, <3>3
    <2>4. QED  BY <1>7, <2>2, <2>3
  <1>8. ASSUME UNCHANGED asaas, Kept(book, book', {}), budget' \in 0 .. MaxTrouble,
               req' = [req EXCEPT ![r] = back] \/ req' = [req EXCEPT ![r] = IdleReq]
        PROVE  BillInv'
    BY <1>7, <1>8, Moving
  <1>9. ASSUME Restoring(c), Kept(book, book', {}), budget' = budget,
               req' = [req EXCEPT ![r] = back] \/ req' = [req EXCEPT ![r] = IdleReq]
        PROVE  BillInv'
    <2>1. /\ invoice[c] = "deleted" /\ invoice' = [invoice EXCEPT ![c] = "pending"]
          /\ restored' = restored \cup {c} /\ UNCHANGED <<charge, posted, flight, notices>>
      BY <1>9 DEF Restoring
    <2>2. \A d \in Cycle : WasDeleted(d) => WasDeleted(d)'
      BY <1>1, <2>1 DEF WasDeleted
    <2>3. \A d \in Cycle : invoice[d] = "refunded" => invoice'[d] = "refunded"
      BY <1>1, <2>1
    <2>4. /\ req' \in [Request -> Req] /\ ReqOK(req'[r], book')
          /\ req'[r].at \notin {"post", "restore_post", "snapshot", "restore_finish"}
          /\ \A p \in Request \ {r} : req'[p] = req[p]
      BY <1>7, <1>9
    <2>5. ReqOK(req[r], book)'  BY <2>4 DEF ReqOK
    <2>6. BookOK(book)' /\ ReqInv'
      <3>1. \A p \in Request : req'[p] = req[p] \/ ReqOK(req[p], book)'  BY <2>4, <2>5
      <3>2. QED  BY <1>9, <2>2, <2>3, <2>4, <3>1, Local
    <2>7. AsaasType'
      <3>1. invoice' \in [Cycle -> Remote] /\ restored' \subseteq Cycle
        BY <1>1, <1>2, <2>1 DEF Remote, BillInv, AsaasType
      <3>2. QED  BY <1>9, <2>1, <3>1 DEF BillInv, AsaasType
    <2>8. HistoryInv'
      <3>1. \A n \in notices : n.of = "invoice" => n.id \in Cycle  BY <1>1 DEF Notice
      <3>2. \A d \in restored' : invoice'[d] \in Live
        BY <1>1, <1>2, <2>1 DEF BillInv, HistoryInv, AsaasType, Live
      <3>3. QED  BY <2>1, <2>2, <3>1, <3>2 DEF BillInv, HistoryInv
    <2>9. PostInv'
      <3>1. \A x \in Op, q \in Request : Token(req'[q], x) => Token(req[q], x)
        BY <2>4 DEF Token
      <3>2. \A x \in Op : book'.st[x] \in {"none", "prepared"} => book.st[x] \in {"none", "prepared"}
        BY <1>9 DEF Kept
      <3>3. \A x \in Op : Untouched(x) => Untouched(x)'  BY <2>1 DEF Untouched
      <3>4. \A x \in Op : book'.st[x] \in {"none", "prepared"} =>
              Untouched(x)' /\ \A q \in Request : ~Token(req'[q], x)
        BY <3>1, <3>2, <3>3 DEF BillInv, PostInv
      <3>5. \A x \in Op, p \in Request : Token(req'[p], x) =>
              Untouched(x)' /\ \A q \in Request : Token(req'[q], x) => q = p
        BY <3>1, <3>3 DEF BillInv, PostInv
      <3>6. QED  BY <2>1, <3>4, <3>5 DEF PostInv, BillInv
    <2>10. QED  BY <2>6, <2>7, <2>8, <2>9 DEF BillInv
  <1>10. Kept(book, book, {}) /\ Kept(book, Cas(book, o, {"creating"}, "failed"), {})
         /\ Kept(book, Cas(book, o, {"creating"}, "reconciling"), {})
    BY <1>1, <1>2, KeptSame, CasKept DEF OpStatus, OpenStatus
  <1>11. CASE /\ Restoring(c) \/ UNCHANGED asaas
              /\ Go(r, "restore_reread") /\ UNCHANGED <<book, budget>>
    <2>1. req' = [req EXCEPT ![r] = back]  BY <1>11 DEF Go, back
    <2>2. Kept(book, book', {}) /\ budget' \in 0 .. MaxTrouble  BY <1>1, <1>10, <1>11
    <2>3. QED  BY <1>8, <1>9, <1>11, <2>1, <2>2
  <1>12. CASE /\ book' = Cas(book, o, {"creating"}, "prepared")
              /\ Leave(r) /\ UNCHANGED <<asaas, budget>>
    BY <1>2, <1>3, <1>12, Freeing
  <1>13. CASE /\ budget > 0 /\ book' = Cas(book, o, {"creating"}, "failed")
              /\ budget' = budget - 1 /\ Leave(r) /\ UNCHANGED asaas
    <2>1. Kept(book, book', {}) /\ budget' \in 0 .. MaxTrouble
      BY <1>1, <1>10, <1>13, BillingAssumption
    <2>2. req' = [req EXCEPT ![r] = IdleReq]  BY <1>13 DEF Leave
    <2>3. QED  BY <1>8, <1>13, <2>1, <2>2
  <1>14. CASE /\ Restoring(c) \/ UNCHANGED asaas
              /\ book' = Cas(book, o, {"creating"}, "reconciling")
              /\ Leave(r) /\ UNCHANGED budget
    <2>1. Kept(book, book', {}) /\ budget' \in 0 .. MaxTrouble  BY <1>1, <1>10, <1>14
    <2>2. req' = [req EXCEPT ![r] = IdleReq]  BY <1>14 DEF Leave
    <2>3. QED  BY <1>8, <1>9, <1>14, <2>1, <2>2
  <1>15. QED  BY <1>11, <1>12, <1>13, <1>14 DEF RestorePost

\* A deleted invoice is never found refunded: it was restored if it is not
\* deleted any more, and a restored invoice lives.
LEMMA RestoreFinishStep ==
  ASSUME BillInv, NEW r \in Request, RestoreFinish(r)
  PROVE  BillInv'
  <1> DEFINE c == req[r].src
             o == req[r].op
             s == req[r].seen
             D == Told(c, s)
  <1>1. /\ book \in Book /\ BookOK(book) /\ req[r] \in Req /\ ReqOK(req[r], book)
        /\ req[r].at = "restore_finish" /\ Room(book) /\ budget' \in 0 .. MaxTrouble
        /\ Leave(r) /\ UNCHANGED asaas
        /\ book' \in {book, Restored(book, o, c, s)}
    BY Facts DEF RestoreFinish
  <1>2. c \in Cycle /\ o \in Op \cup {0}  BY <1>1 DEF ReqOK, OnCycle, Req
  <1>3. \A d \in D : WasDeleted(d)  BY <1>1 DEF ReqOK, Told
  <1>4. ~(book.cur = c /\ book.rev = "deleted" /\ s = "refunded")
    BY <1>1 DEF BookOK, ReqOK, WasDeleted, BillInv, HistoryInv, Live
  <1> HIDE DEF D
  <1>5. Kept(book, Restored(book, o, c, s), D)
    BY <1>1, <1>2, <1>4, RestoredKept DEF D
  <1>6. Kept(book, book', D)  BY <1>1, <1>5, KeptSame
  <1>7. QED  BY <1>1, <1>3, <1>6, Leaving


LEMMA EnsureStep ==
  ASSUME BillInv, NEW r \in Request, Ensure(r)
  PROVE  BillInv'
  <1> DEFINE c == req[r].src
             owed == OpenFor(book, c) # {} \/ (book.rev # "none" /\ book.cur = c)
             b == Stage(book, c)
             o == CHOOSE x \in OpenFor(b, c) : TRUE
             at == CASE b.st[o] = "prepared" -> "claim"
                     [] b.st[o] = "created" -> "tracked"
                     [] OTHER -> "reconcile"
             q == [req[r] EXCEPT !.op = o, !.at = at]
  <1>1. /\ book \in Book /\ req \in [Request -> Req] /\ req[r] \in Req
        /\ ReqOK(req[r], book) /\ req[r].at = "ensure" /\ Room(book)
        /\ UNCHANGED asaas /\ budget' \in 0 .. MaxTrouble
    BY Facts DEF Ensure
  <1>2. c \in Cycle  BY <1>1 DEF ReqOK, OnCycle
  <1>3. CASE Settled(book, c) \/ ~owed
    <2>1. book' = book /\ Leave(r)  BY <1>3 DEF Ensure
    <2>2. Kept(book, book', {})  BY <1>1, <2>1, KeptSame
    <2>3. QED  BY <1>1, <2>1, <2>2, Leaving
  <1>4. CASE ~(Settled(book, c) \/ ~owed)
    <2>1. Kept(book, b, {}) /\ OpenFor(b, c) # {}  BY <1>1, <1>2, StageKept
    <2>2. book' = b /\ req' = [req EXCEPT ![r].op = o, ![r].at = at]
      BY <1>4 DEF Ensure
    <2> HIDE DEF b
    <2>3. o \in OpenFor(b, c)  BY <2>1
    <2> HIDE DEF o
    <2>4. o \in Op /\ b.st[o] # "none"  BY <2>3 DEF OpenFor, OpenOps, OpenStatus
    <2>5. at \in {"claim", "tracked", "reconcile"}  OBVIOUS
    <2> HIDE DEF at
    <2>6. req' = [req EXCEPT ![r] = q]  BY <1>1, <2>2
    <2>7. q \in Req /\ q.at = at /\ q.op = o /\ q.src = c
      BY <1>1, <2>4, <2>5 DEF Req, Place
    <2> HIDE DEF q
    <2>8. ReqOK(q, b)  BY <1>2, <2>4, <2>5, <2>7 DEF ReqOK, OnCycle, OnOp
    <2>9. req' \in [Request -> Req] /\ req'[r] = q /\ \A p \in Request \ {r} : req'[p] = req[p]
      BY <1>1, <2>6, <2>7
    <2>10. ReqOK(req'[r], book') /\ req'[r].at \notin {"post", "restore_post"}
      BY <2>2, <2>5, <2>7, <2>8, <2>9
    <2>11. QED  BY <1>1, <2>1, <2>2, <2>9, <2>10, Moving
  <1>5. QED  BY <1>3, <1>4

LEMMA ClaimStep ==
  ASSUME BillInv, NEW r \in Request, Claim(r)
  PROVE  BillInv'
  <1> DEFINE o == req[r].op
             q == [req[r] EXCEPT !.at = "post"]
  <1>1. /\ book \in Book /\ req[r] \in Req /\ ReqOK(req[r], book) /\ req[r].at = "claim"
        /\ UNCHANGED <<asaas, budget>> /\ budget' \in 0 .. MaxTrouble
    BY Facts DEF Claim
  <1>2. o \in Op  BY <1>1 DEF ReqOK, OnOp
  <1>3. CASE book.st[o] = "prepared"
    <2>1. book' = Cas(book, o, {"prepared"}, "creating") /\ req' = [req EXCEPT ![r] = q]
      BY <1>3 DEF Claim, Go
    <2>2. q \in Req /\ q.at = "post" /\ q.op = o  BY <1>1 DEF Req, Place
    <2> HIDE DEF q
    <2>3. ReqOK(q, book)  BY <1>1, <1>2, <2>2 DEF ReqOK, OnCycle, OnOp
    <2>4. QED  BY <1>1, <1>2, <1>3, <2>1, <2>2, <2>3, Taking
  <1>4. CASE book.st[o] # "prepared"
    <2>1. book' = book /\ Leave(r)  BY <1>4 DEF Claim
    <2>2. Kept(book, book', {})  BY <1>1, <2>1, KeptSame
    <2>3. QED  BY <1>1, <2>1, <2>2, Leaving
  <1>5. QED  BY <1>3, <1>4

\* The only holder of the token sends the only POST.
LEMMA PostStep ==
  ASSUME BillInv, NEW r \in Request, Post(r)
  PROVE  BillInv'
  <1> DEFINE o == req[r].op
             q == [req[r] EXCEPT !.at = "wait"]
  <1>1. /\ book \in Book /\ req \in [Request -> Req] /\ req[r] \in Req
        /\ ReqOK(req[r], book) /\ req[r].at = "post"
        /\ flight' = flight \cup {o}
        /\ req' = [req EXCEPT ![r] = q]
        /\ UNCHANGED <<invoice, charge, posted, restored, notices, book, budget>>
    BY Facts DEF Post, Go
  <1>2. o \in Op /\ Token(req[r], o)  BY <1>1 DEF ReqOK, OnOp, Token
  <1>3. q \in Req /\ q.at = "wait" /\ q.op = o  BY <1>1 DEF Req, Place
  <1> HIDE DEF q
  <1>4. req' \in [Request -> Req] /\ req'[r] = q /\ \A p \in Request \ {r} : req'[p] = req[p]
    BY <1>1, <1>3
  <1>5. BookOK(book)' /\ ReqInv'
    <2>1. ReqOK(req'[r], book')
      BY <1>1, <1>2, <1>3, <1>4 DEF ReqOK, OnCycle, OnOp
    <2>2. ReqOK(req[r], book)'  BY <2>1, <1>3, <1>4 DEF ReqOK
    <2>3. \A p \in Request : req'[p] = req[p] \/ ReqOK(req[p], book)'  BY <1>4, <2>2
    <2>4. \A d \in Cycle : WasDeleted(d) => WasDeleted(d)'  BY <1>1 DEF WasDeleted
    <2>5. Kept(book, book', {})  BY <1>1, KeptSame
    <2>6. QED  BY <1>1, <1>4, <2>3, <2>4, <2>5, Local
  <1>6. AsaasType'  BY <1>1, <1>2 DEF BillInv, AsaasType
  <1>7. HistoryInv'
    <2>1. \A d \in Cycle : WasDeleted(d)' <=> WasDeleted(d)  BY <1>1 DEF WasDeleted
    <2>2. \A n \in notices : n.of = "invoice" => n.id \in Cycle
      BY DEF BillInv, AsaasType, Notice
    <2>3. QED  BY <1>1, <2>1, <2>2 DEF BillInv, HistoryInv
  <1>8. PostInv'
    <2>1. /\ Untouched(o) /\ \A p \in Request : Token(req[p], o) => p = r
          /\ book.st[o] \notin {"none", "prepared"}
      BY <1>2 DEF BillInv, PostInv
    <2>2. \A x \in Op, p \in Request : Token(req'[p], x) => Token(req[p], x) /\ p # r
      BY <1>3, <1>4 DEF Token
    <2>3. \A x \in Op \ {o} : Untouched(x) => Untouched(x)'  BY <1>1 DEF Untouched
    <2>4. \A x \in flight' : posted'[x] = 0
      BY <1>1, <2>1 DEF BillInv, PostInv, Untouched
    <2>5. \A x \in Op : book'.st[x] \in {"none", "prepared"} =>
            Untouched(x)' /\ \A p \in Request : ~Token(req'[p], x)
      BY <1>1, <2>1, <2>2, <2>3 DEF BillInv, PostInv
    <2>6. \A x \in Op, p \in Request : Token(req'[p], x) =>
            Untouched(x)' /\ \A p2 \in Request : Token(req'[p2], x) => p2 = p
      BY <2>1, <2>2, <2>3 DEF BillInv, PostInv
    <2>7. QED  BY <1>1, <2>4, <2>5, <2>6 DEF PostInv, BillInv
  <1>9. QED  BY <1>5, <1>6, <1>7, <1>8 DEF BillInv

LEMMA PostDisabledStep ==
  ASSUME BillInv, NEW r \in Request, PostDisabled(r)
  PROVE  BillInv'
  <1>1. req[r].op \in Op /\ Token(req[r], req[r].op)
    BY Facts DEF PostDisabled, ReqOK, OnOp, Token
  <1>2. QED  BY <1>1, Freeing DEF PostDisabled

LEMMA PostAnsweredStep ==
  ASSUME BillInv, NEW r \in Request, PostAnswered(r)
  PROVE  BillInv'
  <1> DEFINE o == req[r].op
             n == [book EXCEPT !.st[o] = "created", !.pays[o] = "own"]
  <1>1. /\ book \in Book /\ o \in Op /\ Leave(r) /\ UNCHANGED asaas
        /\ budget' \in 0 .. MaxTrouble
        /\ book' = IF book.st[o] \in {"creating", "reconciling"} THEN n ELSE book
    BY Facts DEF PostAnswered, ReqOK, OnOp
  <1>2. book.st[o] \in {"creating", "reconciling"} => Kept(book, n, {})
    BY <1>1 DEF Kept, Book, OpStatus, OpenStatus
  <1>3. Kept(book, book', {})  BY <1>1, <1>2, KeptSame
  <1>4. QED  BY <1>1, <1>3, Leaving

LEMMA PostRejectedStep ==
  ASSUME BillInv, NEW r \in Request, PostRejected(r)
  PROVE  BillInv'
  <1> DEFINE o == req[r].op
  <1>1. /\ book \in Book /\ req \in [Request -> Req] /\ budget \in 0 .. MaxTrouble
        /\ o \in Op /\ o \in flight /\ flight' = flight \ {o}
        /\ budget > 0 /\ budget' = budget - 1
        /\ book' = Cas(book, o, {"creating"}, "failed")
        /\ req' = [req EXCEPT ![r] = IdleReq]
        /\ UNCHANGED <<invoice, charge, posted, restored, notices>>
    BY Facts DEF PostRejected, ReqOK, OnOp, Leave
  <1>2. Kept(book, book', {})  BY <1>1, CasKept DEF OpStatus, OpenStatus
  <1>3. IdleReq \in Req /\ IdleReq.at = "idle" /\ ReqOK(IdleReq, book)'
    BY IdleOK DEF ReqOK, IdleReq, OnCycle, OnOp
  <1>4. req' \in [Request -> Req] /\ req'[r] = IdleReq
        /\ \A p \in Request \ {r} : req'[p] = req[p]
    BY <1>1, <1>3
  <1>5. BookOK(book)' /\ ReqInv'
    <2>1. \A p \in Request : req'[p] = req[p] \/ ReqOK(req[p], book)'
      BY <1>3, <1>4 DEF ReqOK
    <2>2. \A d \in Cycle : WasDeleted(d) => WasDeleted(d)'  BY <1>1 DEF WasDeleted
    <2>3. QED  BY <1>1, <1>2, <1>4, <2>1, <2>2, Local
  <1>6. AsaasType'
    <2>1. budget' \in 0 .. MaxTrouble  BY <1>1, BillingAssumption
    <2>2. QED  BY <1>1, <2>1 DEF BillInv, AsaasType
  <1>7. HistoryInv'
    <2>1. \A d \in Cycle : WasDeleted(d)' <=> WasDeleted(d)  BY <1>1 DEF WasDeleted
    <2>2. \A n \in notices : n.of = "invoice" => n.id \in Cycle
      BY DEF BillInv, AsaasType, Notice
    <2>3. QED  BY <1>1, <2>1, <2>2 DEF BillInv, HistoryInv
  <1>8. PostInv'
    <2>1. \A x \in Op, p \in Request : Token(req'[p], x) => Token(req[p], x)
      BY <1>3, <1>4 DEF Token
    <2>2. \A x \in Op : book'.st[x] \in {"none", "prepared"} => book.st[x] \in {"none", "prepared"}
      BY <1>2 DEF Kept
    <2>3. \A x \in Op : Untouched(x) => Untouched(x)'  BY <1>1 DEF Untouched
    <2>4. \A x \in Op : book'.st[x] \in {"none", "prepared"} =>
            Untouched(x)' /\ \A p \in Request : ~Token(req'[p], x)
      BY <2>1, <2>2, <2>3 DEF BillInv, PostInv
    <2>5. \A x \in Op, p \in Request : Token(req'[p], x) =>
            Untouched(x)' /\ \A p2 \in Request : Token(req'[p2], x) => p2 = p
      BY <2>1, <2>3 DEF BillInv, PostInv
    <2>6. QED  BY <1>1, <2>4, <2>5 DEF PostInv, BillInv
  <1>9. QED  BY <1>5, <1>6, <1>7, <1>8 DEF BillInv

LEMMA PostAmbiguousStep ==
  ASSUME BillInv, NEW r \in Request, PostAmbiguous(r)
  PROVE  BillInv'
  <1>1. /\ book \in Book /\ req[r].op \in Op /\ Leave(r) /\ UNCHANGED asaas
        /\ budget' \in 0 .. MaxTrouble
        /\ book' = Cas(book, req[r].op, {"creating"}, "reconciling")
    BY Facts DEF PostAmbiguous, ReqOK, OnOp
  <1>2. Kept(book, book', {})  BY <1>1, CasKept DEF OpStatus, OpenStatus
  <1>3. QED  BY <1>1, <1>2, Leaving

LEMMA ReconcileStep ==
  ASSUME BillInv, NEW r \in Request, Reconcile(r)
  PROVE  BillInv'
  <1> DEFINE o == req[r].op
             q == [req[r] EXCEPT !.at = "adopt", !.seen = charge[o]]
  <1>1. /\ book \in Book /\ req \in [Request -> Req] /\ req[r] \in Req
        /\ ReqOK(req[r], book) /\ req[r].at = "reconcile" /\ charge \in [Op -> Remote]
        /\ UNCHANGED asaas /\ budget' \in 0 .. MaxTrouble
    BY Facts DEF Reconcile
  <1>2. o \in Op /\ book.st[o] # "none"  BY <1>1, CycleNotZero DEF ReqOK, OnOp
  <1>3. CASE book' = book /\ req' = [req EXCEPT ![r].at = "adopt", ![r].seen = charge[o]]
    <2>1. req' = [req EXCEPT ![r] = q]  BY <1>1, <1>3
    <2>2. q \in Req /\ q.at = "adopt" /\ q.op = o
      BY <1>1, <1>2 DEF Req, Place, Status
    <2> HIDE DEF q
    <2>3. req' \in [Request -> Req] /\ req'[r] = q /\ \A p \in Request \ {r} : req'[p] = req[p]
      BY <1>1, <2>1, <2>2
    <2>4. ReqOK(req'[r], book') /\ req'[r].at \notin {"post", "restore_post"}
      BY <1>2, <1>3, <2>2, <2>3 DEF ReqOK, OnCycle, OnOp
    <2>5. Kept(book, book', {})  BY <1>1, <1>3, KeptSame
    <2>6. QED  BY <1>1, <2>3, <2>4, <2>5, Moving
  <1>4. CASE book' = Cas(book, o, {"creating"}, "reconciling") /\ Leave(r)
    <2>1. Kept(book, book', {})  BY <1>1, <1>2, <1>4, CasKept DEF OpStatus, OpenStatus
    <2>2. QED  BY <1>1, <1>4, <2>1, Leaving
  <1>5. QED  BY <1>3, <1>4 DEF Reconcile

\* Adopt and ApplyTracked: an operation in use and an answer about it.
LEMMA AdoptStep ==
  ASSUME BillInv, NEW r \in Request, Adopt(r)
  PROVE  BillInv'
  <1> DEFINE o == req[r].op
             mine == [book EXCEPT !.pays[o] = "own", !.st[o] = "created"]
  <1>1. /\ book \in Book /\ BookOK(book) /\ ReqOK(req[r], book) /\ Room(book)
        /\ o \in Op /\ Leave(r) /\ UNCHANGED asaas /\ budget' \in 0 .. MaxTrouble
        /\ book' = IF book.st[o] \in {"creating", "reconciling"}
                   THEN OperationEvent(mine, o, req[r].seen) ELSE book
    BY Facts DEF Adopt, ReqOK, OnOp
  <1>2. ASSUME book.st[o] \in {"creating", "reconciling"} PROVE Kept(book, book', {})
    <2>1. book.src[o] \in Cycle  BY <1>1, <1>2 DEF BookOK
    <2>2. /\ mine \in Book /\ Kept(book, mine, {}) /\ Room(mine)
          /\ mine.st[o] # "none" /\ mine.src[o] \in Cycle
      BY <1>1, <1>2, <2>1 DEF Kept, Book, Room, OpStatus, OpenStatus
    <2>3. book' = OperationEvent(mine, o, req[r].seen)  BY <1>1, <1>2
    <2> HIDE DEF mine
    <2>4. Kept(mine, book', {})  BY <1>1, <2>2, <2>3, OperationEventKept
    <2>5. QED  BY <2>2, <2>4, KeptTrans
  <1>3. Kept(book, book', {})  BY <1>1, <1>2, KeptSame
  <1>4. QED  BY <1>1, <1>3, Leaving

LEMMA ReadTrackedStep ==
  ASSUME BillInv, NEW r \in Request, ReadTracked(r)
  PROVE  BillInv'
  <1> DEFINE o == req[r].op
             seen == IF book.pays[o] = "source" THEN invoice[req[r].src] ELSE charge[o]
             q == [req[r] EXCEPT !.at = "apply", !.seen = seen]
  <1>1. /\ book \in Book /\ req \in [Request -> Req] /\ req[r] \in Req
        /\ ReqOK(req[r], book) /\ req[r].at = "tracked"
        /\ invoice \in [Cycle -> Remote] /\ charge \in [Op -> Remote]
        /\ UNCHANGED asaas /\ book' = book /\ budget' \in 0 .. MaxTrouble
        /\ req' = [req EXCEPT ![r].at = "apply", ![r].seen = seen]
    BY Facts DEF ReadTracked
  <1>2. o \in Op /\ book.st[o] # "none" /\ req[r].src \in Cycle
    BY <1>1, CycleNotZero DEF ReqOK, OnOp, OnCycle
  <1>3. seen \in Status  BY <1>1, <1>2 DEF Status
  <1> HIDE DEF seen
  <1>4. req' = [req EXCEPT ![r] = q]  BY <1>1
  <1>5. q \in Req /\ q.at = "apply" /\ q.op = o  BY <1>1, <1>3 DEF Req, Place
  <1> HIDE DEF q
  <1>6. req' \in [Request -> Req] /\ req'[r] = q /\ \A p \in Request \ {r} : req'[p] = req[p]
    BY <1>1, <1>4, <1>5
  <1>7. ReqOK(req'[r], book') /\ req'[r].at \notin {"post", "restore_post"}
    BY <1>1, <1>2, <1>5, <1>6 DEF ReqOK, OnCycle, OnOp
  <1>8. Kept(book, book', {})  BY <1>1, KeptSame
  <1>9. QED  BY <1>1, <1>6, <1>7, <1>8, Moving

LEMMA ApplyTrackedStep ==
  ASSUME BillInv, NEW r \in Request, ApplyTracked(r)
  PROVE  BillInv'
  <1> DEFINE o == req[r].op
  <1>1. /\ book \in Book /\ BookOK(book) /\ ReqOK(req[r], book) /\ Room(book)
        /\ o \in Op /\ Leave(r) /\ UNCHANGED asaas /\ budget' \in 0 .. MaxTrouble
        /\ book' = IF book.st[o] = "created"
                   THEN OperationEvent(book, o, req[r].seen) ELSE book
    BY Facts DEF ApplyTracked, ReqOK, OnOp
  <1>2. book.st[o] = "created" => book.src[o] \in Cycle  BY <1>1 DEF BookOK
  <1>3. Kept(book, book', {})  BY <1>1, <1>2, KeptSame, OperationEventKept
  <1>4. QED  BY <1>1, <1>3, Leaving

LEMMA AbortStep ==
  ASSUME BillInv, NEW r \in Request, Abort(r)
  PROVE  BillInv'
  <1>1. Kept(book, book', {})  BY Facts, KeptSame DEF Abort
  <1>2. QED  BY <1>1, Facts, Leaving DEF Abort


-----------------------------------------------------------------------------
(* The theorems *)

LEMMA InitStep == ASSUME Init PROVE BillInv
  <1>1. /\ 1 \in Cycle /\ MaxTrouble \in Nat  BY BillingAssumption DEF Cycle
  <1>2. book \in Book  BY <1>1 DEF Init, Book, OpStatus, OpenStatus
  <1>3. BookOK(book)  BY <1>2 DEF Init, BookOK
  <1>4. AsaasType  BY <1>1 DEF Init, AsaasType, Remote
  <1>5. ReqInv
    <2>1. IdleReq \in Req  BY IdleOK DEF ReqOK
    <2>2. \A r \in Request : ReqOK(req[r], book)  BY IdleOK DEF Init
    <2>3. QED  BY <2>1, <2>2 DEF ReqInv, Init
  <1>6. HistoryInv  BY DEF Init, HistoryInv
  <1>7. PostInv  BY DEF Init, PostInv, Untouched, Token, IdleReq
  <1>8. QED  BY <1>3, <1>4, <1>5, <1>6, <1>7 DEF BillInv

LEMMA RequestStep ==
  ASSUME BillInv, StaysRestored, NEW r \in Request,
         Reading(r) \/ Recovering(r) \/ Abort(r)
  PROVE  BillInv'
  <1>1. CASE Reading(r)
    BY <1>1, ReadInvoiceStep, ApplySnapshotStep DEF Reading
  <1>2. CASE Recovering(r)
    <2>1. CASE Recover(r) \/ RestoreGet(r) \/ RestoreClaim(r) \/ RestorePost(r)
               \/ RestoreReread(r) \/ RestoreFinish(r)
      BY <2>1, RecoverStep, RestoreGetStep, RestoreClaimStep, RestorePostStep,
         RestoreRereadStep, RestoreFinishStep
    <2>2. CASE Ensure(r) \/ Claim(r) \/ Post(r) \/ PostDisabled(r) \/ PostAnswered(r)
      BY <2>2, EnsureStep, ClaimStep, PostStep, PostDisabledStep, PostAnsweredStep
    <2>3. CASE PostRejected(r) \/ PostAmbiguous(r) \/ Reconcile(r) \/ Adopt(r)
               \/ ReadTracked(r) \/ ApplyTracked(r)
      BY <2>3, PostRejectedStep, PostAmbiguousStep, ReconcileStep, AdoptStep,
         ReadTrackedStep, ApplyTrackedStep
    <2>4. QED  BY <1>2, <2>1, <2>2, <2>3 DEF Recovering
  <1>3. CASE Abort(r)  BY <1>3, AbortStep
  <1>4. QED  BY <1>1, <1>2, <1>3

LEMMA NextStep ==
  ASSUME BillInv, StaysRestored, [Next]_vars
  PROVE  BillInv'
  <1>1. CASE External
    BY <1>1, IssueStep, TurnInvoiceStep, TurnChargeStep, ArriveStep DEF External
  <1>2. CASE \E n \in notices : Webhook(n)  BY <1>2, WebhookStep
  <1>3. CASE \E r \in Request : Reading(r) \/ Recovering(r) \/ Abort(r)
    BY <1>3, RequestStep
  <1>4. CASE UNCHANGED vars
    <2>1. /\ UNCHANGED <<invoice, charge, posted, restored, flight, req>>
          /\ notices' \subseteq notices /\ book' = book /\ budget' = budget
      BY <1>4 DEF vars
    <2>2. Kept(book, book', {}) /\ req' \in [Request -> Req] /\ budget' \in 0 .. MaxTrouble
      BY <2>1, KeptSame DEF BillInv, BookOK, ReqInv, AsaasType
    <2>3. QED  BY <2>1, <2>2, Quiet
  <1>5. QED  BY <1>1, <1>2, <1>3, <1>4 DEF Next

\* The inductive invariant, when Asaas does not reverse a restored invoice.
THEOREM Invariance ==
  ASSUME "again" \notin Faults
  PROVE  Spec => []BillInv
  <1>1. Init => BillInv  BY InitStep
  <1>2. BillInv /\ [Next]_vars => BillInv'  BY NextStep DEF StaysRestored
  <1>3. QED  BY <1>1, <1>2, PTL DEF Spec

\* Every variable keeps its type.
THEOREM TypeCorrect ==
  ASSUME "again" \notin Faults
  PROVE  Spec => []TypeOK
  <1>1. BillInv => TypeOK
    BY DEF BillInv, AsaasType, BookOK, ReqInv, TypeOK, Notice, Req, Status
  <1>2. QED  BY <1>1, Invariance, PTL

\* The key of a recovery operation is posted at most once, whichever of any
\* number of requests race, die, lose their answers or come back
\* (claim_transition, _reconcile_payment_operation, recover_invoice).
THEOREM PostedOnce ==
  ASSUME "again" \notin Faults
  PROVE  Spec => [](\A o \in Op : posted[o] <= 1)
  <1>1. BillInv => \A o \in Op : posted[o] <= 1
    BY DEF BillInv, AsaasType
  <1>2. QED  BY <1>1, Invariance, PTL

\* No two requests may write to Asaas for one operation at a time, by a POST of
\* its charge or by the restoration of its invoice, and none may once its POST
\* is under way or has arrived (claim_transition prepared -> creating).
THEOREM OneWriter ==
  ASSUME "again" \notin Faults
  PROVE  Spec => [](\A o \in Op, r, q \in Request : Token(req[r], o) =>
                      Untouched(o) /\ (Token(req[q], o) => q = r))
  <1>1. BillInv => \A o \in Op, r, q \in Request : Token(req[r], o) =>
                      Untouched(o) /\ (Token(req[q], o) => q = r)
    BY DEF BillInv, PostInv
  <1>2. QED  BY <1>1, Invariance, PTL

=============================================================================
