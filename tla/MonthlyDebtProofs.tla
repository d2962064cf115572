--------------------------- MODULE MonthlyDebtProofs ---------------------------
(***************************************************************************)
(* What MonthlyBilling guarantees about the debt of a church whose         *)
(* invoices are refunded but not deleted: for any number of requests that  *)
(* race, die and come back late, and any number of cycles, reversals and   *)
(* refusals, a month is payable once, the gate is closed over a debt, and  *)
(* a source has one claim.  Deletions are left out because two of the      *)
(* statements are false with them: a restoration records a debt without    *)
(* asking whether it was settled, and a late notice of the deletion        *)
(* reverses a recovery (run billing_billed_twice).                         *)
(*                                                                         *)
(* The invariant says of each operation that its source stays refunded and *)
(* that it is written for only once claimed (OpOK), of each source that    *)
(* one operation stands for it (Sole), of the row that a reversal on       *)
(* record happened (RowOK), of the notices that they still hold            *)
(* (NoticesTrue), and of each request that what it read still holds        *)
(* (Knows).  The other requests keep what they know because no transaction *)
(* frees an operation that was claimed (Onward), except for the one        *)
(* request that holds its token or whose POST was refused.                 *)
(***************************************************************************)
EXTENDS MonthlyBillingProofs, FiniteSetTheorems

\* Asaas deletes no invoice.  Charges may be deleted, and anything refunded.
RefundsOnly == "deletes" \notin Faults

-----------------------------------------------------------------------------
(* The invariant *)

Undeleted == restored = {} /\ \A c \in Cycle : invoice[c] # "deleted"

\* No request has claimed the operation, or its POST was refused.
Unclaimed == {"none", "prepared", "failed"}

OpOK(b, o) ==
    /\ b.st[o] = "none" => b.src[o] = 0
    /\ b.src[o] <= b.cur
    /\ b.st[o] # "none" => invoice[b.src[o]] = "refunded"
    /\ b.st[o] \in Unclaimed => Untouched(o)
    /\ b.st[o] = "paid" => posted[o] = 1
    /\ b.st[o] = "reversed" => posted[o] = 1 /\ charge[o] \notin Live
    /\ b.pays[o] # "source"

\* One operation stands for a source, or has settled it.
Sole(b) ==
    \A o, q \in Op :
        o # q /\ b.src[o] # 0 /\ b.src[o] = b.src[q] =>
            ~(b.st[o] \in Standing /\ b.st[q] \in Standing)

\* A source that ever had an operation is not forgotten.
Represented(b) ==
    \A o \in Op : b.src[o] # 0 =>
        \E q \in Op : b.src[q] = b.src[o] /\ b.st[q] \in Standing \cup {"failed"}

OpsOK(b) == (\A o \in Op : OpOK(b, o)) /\ Sole(b) /\ Represented(b)

RowOK(b) ==
    /\ b.rev # "none" => b.rev = "refunded" /\ invoice[b.cur] = "refunded"
    /\ b.gate => b.rev = "none" /\ OpenOps(b) = {}

\* The places of a restoration, which no request reaches.
Restore == {"restore_get", "restore_claim", "restore_post", "restore_reread", "restore_finish"}

\* What a request read still holds, and whoever is about to post has claimed.
Knows(q, b) ==
    /\ q.at \notin Restore
    /\ q.at = "snapshot" /\ q.seen \in Reversal => invoice[q.src] = q.seen
    /\ q.at \in {"apply", "adopt"} =>
          /\ q.seen \in Reversal => charge[q.op] = q.seen
          /\ q.seen = "paid" => posted[q.op] = 1
    /\ q.at = "adopt" => posted[q.op] = 1
    /\ q.at = "post" => b.st[q.op] \notin Unclaimed

\* A notice of a reversal is still true.
NoticesTrue ==
    \A n \in notices : n.status \in Reversal =>
        /\ n.of = "invoice" => invoice[n.id] = n.status
        /\ n.of = "charge" => charge[n.id] = n.status

DebtInv ==
    /\ Undeleted /\ OpsOK(book) /\ RowOK(book) /\ NoticesTrue
    /\ \A r \in Request : Knows(req[r], book)

-----------------------------------------------------------------------------
(* The world outside, and the operations of the rows *)

\* What Asaas guarantees of its own records.
World ==
    /\ AsaasType /\ Undeleted
    /\ \A o \in Op : charge[o] # "none" => posted[o] = 1

LEMMA BillWorld ==
  ASSUME BillInv, Undeleted
  PROVE  World /\ BookOK(book) /\ book \in Book
  BY DEF BillInv, World, PostInv, BookOK

LEMMA LiveOrDead == Live \cap Reversal = {} /\ "none" \notin Live \cup Reversal
  BY DEF Live, Reversal

\* A reversed invoice was refunded.
LEMMA Reversed ==
  ASSUME World, NEW c \in Cycle, invoice[c] \in Reversal
  PROVE  invoice[c] = "refunded"
  BY DEF World, Undeleted, Reversal

LEMMA BookNumbers ==
  ASSUME NEW b \in Book
  PROVE  /\ b.cur \in Cycle /\ b.cur \in Nat /\ b.cur # 0
         /\ \A o \in Op : b.src[o] \in Nat /\ b.src[o] \in Cycle \cup {0}
         /\ b.st \in [Op -> OpStatus] /\ b.src \in [Op -> Cycle \cup {0}]
         /\ b.pays \in [Op -> {"none", "own", "source"}] /\ b.gate \in BOOLEAN
         /\ b.rev \in {"none", "refunded", "deleted"}
  <1>1. /\ b.cur \in Cycle /\ b.st \in [Op -> OpStatus] /\ b.src \in [Op -> Cycle \cup {0}]
        /\ b.pays \in [Op -> {"none", "own", "source"}] /\ b.gate \in BOOLEAN
        /\ b.rev \in {"none", "refunded", "deleted"}
    BY DEF Book, Reversal
  <1>2. b.cur \in Nat /\ b.cur # 0  BY <1>1, CycleNotZero
  <1>3. ASSUME NEW o \in Op PROVE b.src[o] \in Nat /\ b.src[o] \in Cycle \cup {0}
    <2>1. b.src[o] \in Cycle \cup {0}  BY <1>1
    <2>2. b.src[o] \in Nat
      <3>1. CASE b.src[o] \in Cycle  BY <3>1, CycleNotZero
      <3>2. CASE b.src[o] = 0  BY <3>2
      <3>3. QED  BY <2>1, <3>1, <3>2
    <2>3. QED  BY <2>1, <2>2
  <1>4. QED  BY <1>1, <1>2, <1>3

\* A source other than c that ever had an operation is not forgotten.
RepresentedBut(b, c) ==
    \A o \in Op : b.src[o] \notin {0, c} =>
        \E q \in Op : b.src[q] = b.src[o] /\ b.st[q] \in Standing \cup {"failed"}

\* No transaction frees an operation that was claimed.
Onward(b, n) == \A o \in Op : n.st[o] \in Unclaimed => b.st[o] \in Unclaimed

\* n has the operations of b.
SameOps(b, n) == n.st = b.st /\ n.src = b.src /\ n.pays = b.pays /\ b.cur <= n.cur

LEMMA OpsSame ==
  ASSUME NEW b \in Book, NEW n \in Book, SameOps(b, n), OpsOK(b)
  PROVE  OpsOK(n) /\ Onward(b, n) /\ OpenOps(n) = OpenOps(b)
  <1>1. ASSUME NEW o \in Op PROVE OpOK(n, o)
    <2>1. OpOK(b, o) /\ n.src[o] <= n.cur
      BY BookNumbers DEF OpsOK, OpOK, SameOps
    <2>2. QED  BY <2>1 DEF OpOK, SameOps
  <1>2. Sole(n) /\ Represented(n)  BY DEF OpsOK, Sole, Represented, SameOps
  <1>3. Onward(b, n) /\ OpenOps(n) = OpenOps(b)  BY DEF Onward, OpenOps, SameOps
  <1>4. QED  BY <1>1, <1>2, <1>3 DEF OpsOK

\* n has one operation more, prepared for c.
Added(b, n, p, c) ==
    /\ b.st[p] = "none"
    /\ n.st = [b.st EXCEPT ![p] = "prepared"]
    /\ n.src = [b.src EXCEPT ![p] = c]
    /\ n.pays = b.pays
    /\ b.cur <= n.cur

LEMMA AddedFacts ==
  ASSUME NEW b \in Book, NEW n \in Book, NEW p \in Op, NEW c, Added(b, n, p, c)
  PROVE  /\ n.st[p] = "prepared" /\ n.src[p] = c /\ n.pays[p] = b.pays[p]
         /\ \A o \in Op \ {p} : /\ n.st[o] = b.st[o] /\ n.src[o] = b.src[o]
                              /\ n.pays[o] = b.pays[o]
         /\ Onward(b, n)
  <1>1. /\ n.st[p] = "prepared" /\ n.src[p] = c /\ n.pays[p] = b.pays[p]
        /\ \A o \in Op \ {p} : /\ n.st[o] = b.st[o] /\ n.src[o] = b.src[o]
                             /\ n.pays[o] = b.pays[o]
    BY BookNumbers DEF Added
  <1>2. QED  BY <1>1 DEF Added, Onward, Unclaimed

LEMMA OpsAdded ==
  ASSUME World, NEW b \in Book, NEW n \in Book, NEW p \in Op, NEW c \in Cycle,
         Added(b, n, p, c), c <= n.cur, invoice[c] = "refunded",
         \A q \in Op : b.src[q] = c => b.st[q] \notin Standing,
         \A o \in Op : OpOK(b, o), Sole(b), RepresentedBut(b, c)
  PROVE  OpsOK(n)
  <1>1. ASSUME NEW o \in Op PROVE OpOK(n, o)
    <2>1. CASE o = p
      <3>1. Untouched(p) /\ b.pays[p] # "source"  BY DEF OpOK, Added, Unclaimed
      <3>2. QED  BY <2>1, <3>1, AddedFacts DEF OpOK
    <2>2. CASE o # p
      <3>1. OpOK(b, o) /\ b.src[o] <= n.cur
        BY BookNumbers DEF OpOK, Added
      <3>2. QED  BY <2>2, <3>1, AddedFacts DEF OpOK
    <2>3. QED  BY <2>1, <2>2
  <1>2. Sole(n)
    <2> SUFFICES ASSUME NEW o \in Op, NEW q \in Op, o # q, n.src[o] # 0, n.src[o] = n.src[q],
                        n.st[o] \in Standing, n.st[q] \in Standing
                 PROVE  FALSE
      BY DEF Sole
    <2>1. o # p /\ q # p  BY AddedFacts
    <2>2. QED  BY <2>1, AddedFacts DEF Sole
  <1>3. Represented(n)
    <2> SUFFICES ASSUME NEW o \in Op, n.src[o] # 0
                 PROVE  \E q \in Op : n.src[q] = n.src[o] /\ n.st[q] \in Standing \cup {"failed"}
      BY DEF Represented
    <2>1. CASE n.src[o] = c
      BY <2>1, AddedFacts DEF Standing, OpenStatus
    <2>2. CASE n.src[o] # c
      <3>1. PICK q \in Op : b.src[q] = b.src[o] /\ b.st[q] \in Standing \cup {"failed"}
        BY <2>2, AddedFacts DEF RepresentedBut
      <3>2. b.st[p] = "none" /\ "none" \notin Standing \cup {"failed"}
        BY DEF Added, Standing, OpenStatus
      <3>3. q # p /\ o # p  BY <2>2, <3>1, <3>2, AddedFacts
      <3>4. QED  BY <3>1, <3>3, AddedFacts
    <2>3. QED  BY <2>1, <2>2
  <1>4. QED  BY <1>1, <1>2, <1>3 DEF OpsOK

\* Only the operation o of b changes, and not its source.
Moved(b, n, o) ==
    /\ n.src = b.src /\ n.cur = b.cur
    /\ \A q \in Op \ {o} : n.st[q] = b.st[q] /\ n.pays[q] = b.pays[q]

LEMMA OpsMoved ==
  ASSUME NEW b \in Book, NEW n \in Book, NEW o \in Op, Moved(b, n, o), OpsOK(b),
         n.st[o] = b.st[o] \/ (b.st[o] \in Standing /\ n.st[o] \in Standing \cup {"failed"})
  PROVE  /\ \A q \in Op \ {o} : OpOK(n, q)
         /\ Sole(n) /\ Represented(n)
         /\ OpOK(n, o) => OpsOK(n)
  <1>1. \A q \in Op \ {o} : OpOK(n, q)
    BY DEF OpsOK, OpOK, Moved
  <1>2. Sole(n)
    BY DEF OpsOK, Sole, Moved, Standing, OpenStatus
  <1>3. Represented(n)
    <2> SUFFICES ASSUME NEW x \in Op, n.src[x] # 0
                 PROVE  \E q \in Op : n.src[q] = n.src[x] /\ n.st[q] \in Standing \cup {"failed"}
      BY DEF Represented
    <2>1. PICK q \in Op : b.src[q] = b.src[x] /\ b.st[q] \in Standing \cup {"failed"}
      BY DEF Moved, OpsOK, Represented
    <2>2. n.st[q] \in Standing \cup {"failed"}  BY <2>1 DEF Moved
    <2>3. QED  BY <2>1, <2>2 DEF Moved
  <1>4. QED  BY <1>1, <1>2, <1>3 DEF OpsOK

\* What moved behind the row opens nothing.
LEMMA MovedOpen ==
  ASSUME NEW b, NEW n, NEW o \in Op, Moved(b, n, o),
         n.st[o] \in OpenStatus => b.st[o] \in OpenStatus
  PROVE  OpenOps(n) \subseteq OpenOps(b)
  BY DEF OpenOps, Moved

\* An operation that moved behind a row that does not notice it.
LEMMA RowMoved ==
  ASSUME NEW b \in Book, NEW n \in Book, NEW o \in Op, Moved(b, n, o), RowOK(b),
         n.rev = b.rev, n.gate => b.gate,
         n.st[o] \in OpenStatus => b.st[o] \in OpenStatus
  PROVE  RowOK(n)
  <1>1. OpenOps(n) \subseteq OpenOps(b) /\ n.cur = b.cur  BY MovedOpen DEF Moved
  <1>2. QED  BY <1>1 DEF RowOK

\* A row that stays closed.
LEMMA RowShut ==
  ASSUME NEW b, NEW n, RowOK(b), n.cur = b.cur, n.rev = b.rev, ~n.gate
  PROVE  RowOK(n)
  BY DEF RowOK

-----------------------------------------------------------------------------
(* What the transactions make of the rows *)

LEMMA StageShape ==
  ASSUME NEW b \in Book, NEW c \in Cycle, Room(b), NEW n, n = Stage(b, c)
  PROVE  /\ n \in Book /\ n.cur = b.cur /\ n.rev = b.rev /\ n.gate = b.gate
         /\ OpenFor(n, c) # {}
         /\ \/ OpenFor(b, c) # {} /\ n = b
            \/ OpenFor(b, c) = {} /\ \E p \in Op : Added(b, n, p, c)
  <1>1. n \in Book /\ OpenFor(n, c) # {}  BY StageKept DEF Kept
  <1>2. CASE OpenFor(b, c) # {}
    BY <1>1, <1>2 DEF Stage
  <1>3. CASE OpenFor(b, c) = {}
    <2> DEFINE o == NewOp(b)
    <2>1. o \in Op /\ b.st[o] = "none"  BY NewOpFree
    <2>2. n = [b EXCEPT !.st[o] = "prepared", !.src[o] = c]  BY <1>3 DEF Stage, Insert
    <2> HIDE DEF o
    <2>3. /\ n.st = [b.st EXCEPT ![o] = "prepared"] /\ n.src = [b.src EXCEPT ![o] = c]
          /\ n.pays = b.pays /\ n.rev = b.rev /\ n.cur = b.cur /\ n.gate = b.gate
      BY <2>1, <2>2 DEF Book
    <2>4. b.cur <= n.cur  BY <2>3, BookNumbers
    <2>5. Added(b, n, o, c)  BY <2>1, <2>3, <2>4 DEF Added
    <2>6. QED  BY <1>1, <1>3, <2>1, <2>3, <2>5
  <1>4. QED  BY <1>2, <1>3

LEMMA InsertShape ==
  ASSUME NEW b \in Book, NEW c \in Cycle, Room(b), NEW n, n = Insert(b, c)
  PROVE  /\ n \in Book /\ n.cur = b.cur /\ n.rev = b.rev /\ n.gate = b.gate
         /\ \E p \in Op : Added(b, n, p, c)
  <1> DEFINE o == NewOp(b)
  <1>1. o \in Op /\ b.st[o] = "none"  BY NewOpFree
  <1>2. n = [b EXCEPT !.st[o] = "prepared", !.src[o] = c]  BY DEF Insert
  <1> HIDE DEF o
  <1>3. /\ n.st = [b.st EXCEPT ![o] = "prepared"] /\ n.src = [b.src EXCEPT ![o] = c]
        /\ n.pays = b.pays /\ n.rev = b.rev /\ n.cur = b.cur /\ n.gate = b.gate
    BY <1>1, <1>2 DEF Book
  <1>4. n \in Book  BY InsertKept DEF Kept
  <1>5. b.cur <= n.cur  BY <1>3, BookNumbers
  <1>6. QED  BY <1>1, <1>3, <1>4, <1>5 DEF Added

LEMMA ReopenShape ==
  ASSUME NEW b \in Book, NEW n, n = Reopen(b)
  PROVE  /\ n \in Book /\ n.cur = b.cur /\ n.rev = b.rev
         /\ n.st = b.st /\ n.src = b.src /\ n.pays = b.pays
         /\ n.gate = b.gate \/ (n.rev = "none" /\ OpenOps(n) = {})
  <1>1. n \in Book  BY ReopenKept DEF Kept
  <1>2. CASE n = b  BY <1>1, <1>2
  <1>3. CASE n = [b EXCEPT !.gate = TRUE] /\ b.rev = "none" /\ OpenOps(b) = {}
    <2>1. /\ n.cur = b.cur /\ n.rev = b.rev
          /\ n.st = b.st /\ n.src = b.src /\ n.pays = b.pays
      BY <1>3 DEF Book
    <2>2. OpenOps(n) = {}  BY <1>3, <2>1 DEF OpenOps
    <2>3. QED  BY <1>1, <1>3, <2>1, <2>2
  <1>4. QED  BY <1>2, <1>3 DEF Reopen

\* The shape of a reversal that comes on record, and of any other answer.
LEMMA FollowShape ==
  ASSUME NEW b \in Book, NEW c \in Cycle, NEW s, Room(b),
         NEW status \in {"pendente", "ativa", "inadimplente"}, ~Stale(b, c),
         NEW n, n = Follow(b, c, s, status)
  PROVE  /\ n \in Book /\ n.cur = c /\ b.cur <= c
         /\ s \in Reversal =>
               /\ n.rev = s /\ ~n.gate /\ OpenFor(n, c) # {}
               /\ \/ OpenFor(b, c) # {} /\ SameOps(b, n)
                  \/ OpenFor(b, c) = {} /\ \E p \in Op : Added(b, n, p, c)
         /\ s \notin Reversal =>
               /\ SameOps(b, n)
               /\ n.rev = IF c = b.cur THEN b.rev ELSE "none"
               /\ \/ n.gate => b.gate
                  \/ n.rev = "none" /\ OpenOps(n) = {}
  <1> DEFINE linked == [Link(b, c, s) EXCEPT !.status = status]
             owed == IF s \in Reversal THEN Stage(linked, c) ELSE linked
             closed == [owed EXCEPT !.gate = FALSE]
  <1>1. b.cur <= c /\ c \in Nat  BY BookNumbers, CycleNotZero DEF Stale
  <1>2. /\ linked \in Book /\ linked.st = b.st /\ linked.src = b.src /\ linked.pays = b.pays
        /\ linked.gate = b.gate /\ linked.cur = c
        /\ linked.rev = IF s \in Reversal THEN s ELSE IF c = b.cur THEN b.rev ELSE "none"
    <2>1. CASE s \in Reversal  BY <2>1 DEF Link, Book
    <2>2. CASE s \notin Reversal /\ c = b.cur  BY <2>2 DEF Link, Book
    <2>3. CASE s \notin Reversal /\ c # b.cur  BY <2>3 DEF Link, Book
    <2>4. QED  BY <2>1, <2>2, <2>3
  <1>3. n = CASE Mapped(s) = "ativa" -> Reopen(owed)
              [] Mapped(s) = "inadimplente" -> closed
              [] OTHER -> owed
    BY DEF Follow
  <1> HIDE DEF linked
  <1>4. CASE s \in Reversal
    <2>1. Mapped(s) = "inadimplente" /\ owed = Stage(linked, c)
      BY <1>4 DEF Mapped, Reversal
    <2>2. n = closed  BY <1>3, <2>1
    <2>3. Room(linked)  BY <1>2 DEF Room
    <2> HIDE DEF owed
    <2>4. /\ owed \in Book /\ owed.cur = c /\ owed.rev = s /\ OpenFor(owed, c) # {}
          /\ \/ OpenFor(linked, c) # {} /\ owed = linked
             \/ OpenFor(linked, c) = {} /\ \E p \in Op : Added(linked, owed, p, c)
      BY <1>2, <1>4, <2>1, <2>3, StageShape
    <2>5. /\ n \in Book /\ n.cur = c /\ n.rev = s /\ ~n.gate
          /\ n.st = owed.st /\ n.src = owed.src /\ n.pays = owed.pays
      BY <2>2, <2>4 DEF Book
    <2>6. OpenFor(n, c) = OpenFor(owed, c) /\ OpenFor(linked, c) = OpenFor(b, c)
      BY <1>2, <2>5 DEF OpenFor, OpenOps
    <2>7. owed = linked => SameOps(b, n)
      BY <1>1, <1>2, <2>5 DEF SameOps
    <2>8. \A p : Added(linked, owed, p, c) => Added(b, n, p, c)
      BY <1>1, <1>2, <2>5 DEF Added
    <2>9. QED  BY <1>1, <1>4, <2>4, <2>5, <2>6, <2>7, <2>8
  <1>5. CASE s \notin Reversal
    <2>1. owed = linked  BY <1>5
    <2> HIDE DEF owed
    <2>2. n \in {Reopen(owed), closed, owed}  BY <1>3
    <2>3. owed \in Book /\ SameOps(b, owed)
      BY <1>1, <1>2, <2>1 DEF SameOps
    <2>4. CASE n = Reopen(owed)
      BY <1>1, <1>2, <1>5, <2>1, <2>3, <2>4, ReopenShape DEF SameOps
    <2>5. CASE n = closed
      <3>1. /\ n \in Book /\ n.cur = owed.cur /\ n.rev = owed.rev /\ ~n.gate
            /\ n.st = owed.st /\ n.src = owed.src /\ n.pays = owed.pays
        BY <2>3, <2>5 DEF Book
      <3>2. QED  BY <1>1, <1>2, <1>5, <2>1, <2>3, <3>1 DEF SameOps
    <2>6. CASE n = owed
      BY <1>1, <1>2, <1>5, <2>1, <2>3, <2>6
    <2>7. QED  BY <2>2, <2>4, <2>5, <2>6
  <1>6. QED  BY <1>4, <1>5

-----------------------------------------------------------------------------
(* The answers about an invoice *)

\* A source without an open or paid operation, as a new operation needs it.
LEMMA Free ==
  ASSUME NEW b \in Book, NEW c, OpenFor(b, c) = {}, ~Settled(b, c), OpsOK(b)
  PROVE  /\ \A q \in Op : b.src[q] = c => b.st[q] \notin Standing
         /\ \A o \in Op : OpOK(b, o)
         /\ Sole(b) /\ RepresentedBut(b, c)
  BY DEF OpenFor, OpenOps, Settled, Standing, OpsOK, Represented, RepresentedBut

\* The debt of a refunded source that is not settled becomes a row.
LEMMA AddedDebt ==
  ASSUME World, NEW b \in Book, NEW n \in Book, OpsOK(b), NEW c \in Cycle, c <= n.cur,
         invoice[c] = "refunded", ~Settled(b, c), OpenFor(b, c) = {},
         NEW p \in Op, Added(b, n, p, c)
  PROVE  OpsOK(n) /\ Onward(b, n)
  <1>1. Onward(b, n)  BY AddedFacts
  <1>2. OpsOK(n)  BY Free, OpsAdded
  <1>3. QED  BY <1>1, <1>2

LEMMA FollowDebt ==
  ASSUME World, NEW b \in Book, OpsOK(b), RowOK(b), Room(b), NEW c \in Cycle, NEW s,
         NEW status \in {"pendente", "ativa", "inadimplente"},
         ~Stale(b, c), ~Blocked(b, c, s),
         s \in Reversal => invoice[c] = s /\ ~Settled(b, c),
         NEW n, n = Follow(b, c, s, status)
  PROVE  n \in Book /\ OpsOK(n) /\ RowOK(n) /\ Onward(b, n)
  <1>1. n \in Book /\ n.cur = c /\ b.cur <= c  BY FollowShape
  <1>2. CASE s \in Reversal
    <2>1. /\ n.rev = s /\ ~n.gate
          /\ \/ SameOps(b, n)
             \/ OpenFor(b, c) = {} /\ \E p \in Op : Added(b, n, p, c)
      BY <1>2, FollowShape
    <2>2. invoice[c] = "refunded" /\ s = "refunded"  BY <1>2, Reversed
    <2>3. OpsOK(n) /\ Onward(b, n)
      <3>1. CASE SameOps(b, n)  BY <1>1, <3>1, OpsSame
      <3>2. ASSUME OpenFor(b, c) = {}, NEW p \in Op, Added(b, n, p, c)
            PROVE  OpsOK(n) /\ Onward(b, n)
        <4>1. c <= n.cur  BY <1>1, BookNumbers
        <4>2. QED  BY <1>1, <1>2, <2>2, <3>2, <4>1, AddedDebt
      <3>3. QED  BY <2>1, <3>1, <3>2
    <2>4. RowOK(n)  BY <1>1, <2>1, <2>2 DEF RowOK
    <2>5. QED  BY <1>1, <2>3, <2>4
  <1>3. CASE s \notin Reversal
    <2>1. /\ SameOps(b, n)
          /\ n.rev = IF c = b.cur THEN b.rev ELSE "none"
          /\ (n.gate => b.gate) \/ (n.rev = "none" /\ OpenOps(n) = {})
      BY <1>3, FollowShape
    <2>2. n.rev = "none"  BY <1>3, <2>1 DEF Blocked
    <2>3. OpsOK(n) /\ Onward(b, n) /\ OpenOps(n) = OpenOps(b)  BY <1>1, <2>1, OpsSame
    <2>4. RowOK(n)  BY <2>1, <2>2, <2>3 DEF RowOK
    <2>5. QED  BY <1>1, <2>3, <2>4
  <1>4. QED  BY <1>2, <1>3

LEMMA OnwardSame == ASSUME NEW b PROVE Onward(b, b)
  BY DEF Onward

LEMMA InvoiceEventDebt ==
  ASSUME World, NEW b \in Book, OpsOK(b), RowOK(b), Room(b), NEW c \in Cycle, NEW s,
         s \in Reversal => invoice[c] = s,
         NEW n, n = InvoiceEvent(b, c, s)
  PROVE  n \in Book /\ OpsOK(n) /\ RowOK(n) /\ Onward(b, n)
  <1>1. CASE Blocked(b, c, s) \/ (s \in Reversal /\ Settled(b, c))
    BY <1>1, OnwardSame DEF InvoiceEvent
  <1>2. CASE ~Blocked(b, c, s) /\ ~(s \in Reversal /\ Settled(b, c)) /\ ~Stale(b, c)
    <2>1. n = Follow(b, c, s, Mapped(s))  BY <1>2 DEF InvoiceEvent
    <2>2. QED  BY <1>2, <2>1, MappedType, FollowDebt
  <1>3. CASE Stale(b, c) /\ s \in Reversal /\ ~Settled(b, c) /\ ~Blocked(b, c, s)
    <2>1. PICK k : k = Stage(b, c)  OBVIOUS
    <2>2. n = [k EXCEPT !.gate = FALSE]  BY <1>3, <2>1 DEF InvoiceEvent
    <2>3. /\ k \in Book /\ k.cur = b.cur /\ k.rev = b.rev
          /\ \/ k = b
             \/ OpenFor(b, c) = {} /\ \E p \in Op : Added(b, k, p, c)
      BY <2>1, StageShape
    <2>4. /\ n \in Book /\ n.cur = b.cur /\ n.rev = b.rev /\ ~n.gate
          /\ n.st = k.st /\ n.src = k.src /\ n.pays = k.pays
      BY <2>2, <2>3 DEF Book
    <2>5. invoice[c] = "refunded" /\ c <= n.cur
      BY <1>3, <2>4, BookNumbers, CycleNotZero, Reversed DEF Stale
    <2>6. RowOK(n)  BY <2>4, RowShut
    <2>7. CASE k = b
      <3>1. SameOps(b, n)  BY <2>4, <2>7, BookNumbers DEF SameOps
      <3>2. QED  BY <2>4, <2>6, <3>1, OpsSame
    <2>8. ASSUME OpenFor(b, c) = {}, NEW p \in Op, Added(b, k, p, c)
          PROVE  OpsOK(n) /\ Onward(b, n)
      <3>1. Added(b, n, p, c)  BY <2>3, <2>4, <2>8 DEF Added
      <3>2. QED  BY <1>3, <2>4, <2>5, <2>8, <3>1, AddedDebt
    <2>9. QED  BY <2>3, <2>4, <2>6, <2>7, <2>8
  <1>4. CASE Stale(b, c) /\ s \notin Reversal
    BY <1>4, OnwardSame DEF InvoiceEvent
  <1>5. QED  BY <1>1, <1>2, <1>3, <1>4

LEMMA SnapshotDebt ==
  ASSUME World, NEW b \in Book, OpsOK(b), RowOK(b), Room(b), NEW c \in Cycle, NEW s,
         s \in Reversal => invoice[c] = s,
         NEW n, n = Snapshot(b, c, s)
  PROVE  n \in Book /\ OpsOK(n) /\ RowOK(n) /\ Onward(b, n)
  <1>1. CASE Blocked(b, c, s) \/ Stale(b, c) \/ (s \in Reversal /\ Settled(b, c))
    BY <1>1, OnwardSame DEF Snapshot
  <1>2. CASE ~Blocked(b, c, s) /\ ~Stale(b, c) /\ ~(s \in Reversal /\ Settled(b, c))
    <2>1. \E status \in {"pendente", "ativa", "inadimplente"} : n = Follow(b, c, s, status)
      BY <1>2, MappedType DEF Snapshot, Book
    <2>2. QED  BY <1>2, <2>1, FollowDebt
  <1>3. QED  BY <1>1, <1>2

-----------------------------------------------------------------------------
(* The answers about the charge of an operation *)

\* An operation behind which is a charge stands.
LEMMA Stands ==
  ASSUME NEW b \in Book, OpsOK(b), NEW o \in Op, b.st[o] # "reversed", posted[o] = 1
  PROVE  b.st[o] \in Standing /\ b.st[o] \notin Unclaimed
  <1>1. OpOK(b, o) /\ b.st[o] \in OpStatus  BY BookNumbers DEF OpsOK
  <1>2. b.st[o] \notin Unclaimed  BY <1>1 DEF OpOK, Untouched
  <1>3. QED  BY <1>1, <1>2 DEF OpStatus, Standing, Unclaimed

LEMMA PaidOpShape ==
  ASSUME NEW b \in Book, NEW o \in Op, b.st[o] # "none", NEW n, n = PaidOp(b, o)
  PROVE  /\ n \in Book /\ Moved(b, n, o) /\ n.st[o] = "paid" /\ n.pays = b.pays
         /\ n.rev = IF b.src[o] = b.cur THEN "none" ELSE b.rev
         /\ (n.gate => b.gate) \/ (n.rev = "none" /\ OpenOps(n) = {})
  <1> DEFINE paid == [b EXCEPT !.st[o] = "paid"]
             clear == [paid EXCEPT !.status = "ativa", !.rev = "none"]
             w == IF b.src[o] = b.cur /\ b.rev # "none" THEN clear ELSE paid
  <1>1. n = Reopen(w)  BY DEF PaidOp
  <1>2. /\ paid \in Book /\ paid.st = [b.st EXCEPT ![o] = "paid"] /\ paid.src = b.src
        /\ paid.pays = b.pays /\ paid.cur = b.cur /\ paid.rev = b.rev /\ paid.gate = b.gate
    BY DEF Book, OpStatus, OpenStatus
  <1> HIDE DEF paid
  <1>3. /\ clear \in Book /\ clear.st = paid.st /\ clear.src = paid.src
        /\ clear.pays = paid.pays /\ clear.cur = paid.cur /\ clear.rev = "none"
        /\ clear.gate = paid.gate
    BY <1>2 DEF Book
  <1> HIDE DEF clear
  <1>4. /\ w \in Book /\ w.st = [b.st EXCEPT ![o] = "paid"] /\ w.src = b.src
        /\ w.pays = b.pays /\ w.cur = b.cur /\ w.gate = b.gate
        /\ w.rev = IF b.src[o] = b.cur THEN "none" ELSE b.rev
    BY <1>2, <1>3
  <1> HIDE DEF w
  <1>5. /\ n \in Book /\ n.cur = w.cur /\ n.rev = w.rev
        /\ n.st = w.st /\ n.src = w.src /\ n.pays = w.pays
        /\ n.gate = w.gate \/ (n.rev = "none" /\ OpenOps(n) = {})
    BY <1>1, <1>4, ReopenShape
  <1>6. Moved(b, n, o) /\ n.st[o] = "paid"
    BY <1>4, <1>5, BookNumbers DEF Moved
  <1>7. QED  BY <1>4, <1>5, <1>6

LEMMA PaidOpDebt ==
  ASSUME NEW b \in Book, OpsOK(b), RowOK(b), NEW o \in Op, b.st[o] # "reversed",
         posted[o] = 1, NEW n, n = PaidOp(b, o)
  PROVE  n \in Book /\ OpsOK(n) /\ RowOK(n) /\ Onward(b, n)
  <1>1. b.st[o] \in Standing /\ b.st[o] # "none" /\ "paid" \in Standing
    BY Stands DEF Standing, Unclaimed
  <1>2. /\ n \in Book /\ Moved(b, n, o) /\ n.st[o] = "paid" /\ n.pays = b.pays
        /\ n.rev = IF b.src[o] = b.cur THEN "none" ELSE b.rev
        /\ (n.gate => b.gate) \/ (n.rev = "none" /\ OpenOps(n) = {})
    BY <1>1, PaidOpShape
  <1>3. OpOK(b, o) /\ n.src[o] = b.src[o] /\ n.cur = b.cur  BY <1>2 DEF OpsOK, Moved
  <1>4. OpOK(n, o)  BY <1>1, <1>2, <1>3 DEF OpOK, Unclaimed
  <1>5. OpsOK(n)  BY <1>1, <1>2, <1>4, OpsMoved
  <1>6. OpenOps(n) \subseteq OpenOps(b)
    <2>1. n.st[o] \notin OpenStatus  BY <1>2 DEF OpenStatus
    <2>2. QED  BY <1>2, <2>1, MovedOpen
  <1>7. RowOK(n)  BY <1>2, <1>3, <1>6 DEF RowOK
  <1>8. Onward(b, n)  BY <1>2 DEF Onward, Moved, Unclaimed
  <1>9. QED  BY <1>2, <1>5, <1>7, <1>8

\* Between the end of o and the operation that takes its place are the rows m.
LEMMA ReversedOpShape ==
  ASSUME NEW b \in Book, NEW o \in Op, b.st[o] # "none", b.src[o] \in Cycle, Room(b),
         NEW n, n = ReversedOp(b, o)
  PROVE  /\ n \in Book /\ n.cur = b.cur /\ ~n.gate
         /\ n.rev = IF b.src[o] = b.cur THEN "refunded" ELSE b.rev
         /\ \E m \in Book, p \in Op :
               /\ Moved(b, m, o) /\ m.st[o] = "reversed" /\ m.pays = b.pays
               /\ m.rev = b.rev /\ m.gate = b.gate
               /\ Added(m, n, p, b.src[o])
  <1>1. PICK m : m = [b EXCEPT !.st[o] = "reversed"]  OBVIOUS
  <1>2. /\ m \in Book /\ m.st = [b.st EXCEPT ![o] = "reversed"] /\ m.src = b.src
        /\ m.pays = b.pays /\ m.cur = b.cur /\ m.rev = b.rev /\ m.gate = b.gate
    BY <1>1 DEF Book, OpStatus, OpenStatus
  <1>3. Moved(b, m, o) /\ m.st[o] = "reversed" /\ Room(m)
    BY <1>2, BookNumbers DEF Moved, Room
  <1>4. PICK c \in Cycle : c = b.src[o]  OBVIOUS
  <1>5. PICK k : k = Insert(m, c)  OBVIOUS
  <1>6. m \in Book /\ Room(m)  BY <1>2, <1>3
  <1>7. k \in Book /\ k.cur = m.cur /\ k.rev = m.rev  BY <1>5, <1>6, InsertShape
  <1>8. PICK p \in Op : Added(m, k, p, c)  BY <1>5, <1>6, InsertShape
  <1> DEFINE shut == [k EXCEPT !.gate = FALSE]
             mine == [shut EXCEPT !.status = "inadimplente", !.rev = "refunded"]
  <1>9. n = IF c = b.cur THEN mine ELSE shut
    BY <1>1, <1>4, <1>5 DEF ReversedOp
  <1>10. /\ shut \in Book /\ shut.st = k.st /\ shut.src = k.src /\ shut.pays = k.pays
         /\ shut.cur = k.cur /\ shut.rev = k.rev /\ ~shut.gate
    BY <1>7 DEF Book
  <1> HIDE DEF shut
  <1>11. /\ mine \in Book /\ mine.st = shut.st /\ mine.src = shut.src
         /\ mine.pays = shut.pays /\ mine.cur = shut.cur /\ mine.rev = "refunded"
         /\ ~mine.gate
    BY <1>10 DEF Book, Reversal
  <1> HIDE DEF mine
  <1>12. /\ n \in Book /\ n.st = k.st /\ n.src = k.src /\ n.pays = k.pays /\ n.cur = k.cur
         /\ n.rev = IF c = b.cur THEN "refunded" ELSE k.rev
    BY <1>9, <1>10, <1>11
  <1>13. ~n.gate  BY <1>9, <1>10, <1>11
  <1>14. Added(m, n, p, c)  BY <1>8, <1>12 DEF Added
  <1>15. n.cur = b.cur /\ n.rev = IF b.src[o] = b.cur THEN "refunded" ELSE b.rev
    BY <1>2, <1>4, <1>7, <1>12
  <1>16. QED  BY <1>2, <1>3, <1>4, <1>12, <1>13, <1>14, <1>15

LEMMA ReversedOpDebt ==
  ASSUME World, NEW b \in Book, OpsOK(b), RowOK(b), Room(b), NEW o \in Op,
         b.src[o] \in Cycle, b.st[o] # "reversed", charge[o] \in Reversal,
         NEW n, n = ReversedOp(b, o)
  PROVE  n \in Book /\ OpsOK(n) /\ RowOK(n) /\ Onward(b, n)
  <1> DEFINE c == b.src[o]
  <1>1. posted[o] = 1 /\ charge[o] \notin Live
    BY LiveOrDead DEF World
  <1>2. /\ OpOK(b, o) /\ b.st[o] \in Standing /\ b.st[o] # "none"
        /\ invoice[c] = "refunded" /\ c # 0
    <2>1. OpOK(b, o) /\ b.st[o] \in Standing  BY <1>1, Stands DEF OpsOK
    <2>2. b.st[o] # "none"  BY <2>1 DEF Standing, OpenStatus
    <2>3. QED  BY <2>1, <2>2, CycleNotZero DEF OpOK
  <1>3. n \in Book /\ n.cur = b.cur /\ ~n.gate
    BY <1>2, ReversedOpShape
  <1>4. n.rev = IF c = b.cur THEN "refunded" ELSE b.rev
    BY <1>2, ReversedOpShape
  <1>5. PICK m \in Book, p \in Op :
               /\ Moved(b, m, o) /\ m.st[o] = "reversed" /\ m.pays = b.pays
               /\ Added(m, n, p, c)
    BY <1>2, ReversedOpShape
  <1> HIDE DEF c
  <1>6. /\ m.src = b.src /\ m.cur = b.cur /\ m.src[o] = c
        /\ \A q \in Op \ {o} : m.st[q] = b.st[q] /\ m.pays[q] = b.pays[q]
    BY <1>5 DEF Moved, c
  <1>7. \A q \in Op : OpOK(m, q)
    <2>1. \A q \in Op \ {o} : OpOK(m, q)
      BY <1>6 DEF OpsOK, OpOK
    <2>2. OpOK(m, o)
      BY <1>1, <1>2, <1>5, <1>6 DEF OpOK, Unclaimed
    <2>3. QED  BY <2>1, <2>2
  <1>8. /\ Sole(m) /\ RepresentedBut(m, c)
        /\ \A q \in Op : m.src[q] = c => m.st[q] \notin Standing
    <2>1. m.st[o] \notin Standing  BY <1>5 DEF Standing, OpenStatus
    <2>2. Sole(m)  BY <1>6, <2>1 DEF OpsOK, Sole
    <2>3. ASSUME NEW q \in Op, m.src[q] = c PROVE m.st[q] \notin Standing
      BY <1>2, <1>6, <2>1, <2>3 DEF OpsOK, Sole
    <2>4. RepresentedBut(m, c)
      <3> SUFFICES ASSUME NEW x \in Op, m.src[x] \notin {0, c}
                   PROVE  \E q \in Op : m.src[q] = m.src[x] /\ m.st[q] \in Standing \cup {"failed"}
        BY DEF RepresentedBut
      <3>1. PICK q \in Op : b.src[q] = b.src[x] /\ b.st[q] \in Standing \cup {"failed"}
        BY <1>6 DEF OpsOK, Represented
      <3>2. q # o  BY <1>6, <3>1
      <3>3. QED  BY <1>6, <3>1, <3>2
    <2>5. QED  BY <2>2, <2>3, <2>4
  <1>9. c \in Cycle /\ c <= n.cur  BY <1>2, <1>3 DEF OpOK, c
  <1>10. OpsOK(n)  BY <1>2, <1>3, <1>5, <1>7, <1>8, <1>9, OpsAdded
  <1>11. RowOK(n)  BY <1>2, <1>3, <1>4 DEF RowOK
  <1>12. Onward(b, n)
    <2>1. Onward(m, n)  BY <1>3, <1>5, AddedFacts
    <2>2. \A q \in Op : m.st[q] \in Unclaimed => b.st[q] \in Unclaimed
      BY <1>5, <1>6 DEF Unclaimed
    <2>3. QED  BY <2>1, <2>2 DEF Onward
  <1>13. QED  BY <1>3, <1>10, <1>11, <1>12

LEMMA OperationEventDebt ==
  ASSUME World, NEW b \in Book, OpsOK(b), RowOK(b), Room(b), NEW o \in Op,
         b.src[o] \in Cycle, NEW s,
         s = "paid" => posted[o] = 1,
         s \in Reversal => charge[o] = s,
         NEW n, n = OperationEvent(b, o, s)
  PROVE  n \in Book /\ OpsOK(n) /\ RowOK(n) /\ Onward(b, n)
  <1>1. CASE s = "paid" /\ b.st[o] # "reversed"
    <2>1. n = PaidOp(b, o)  BY <1>1 DEF OperationEvent, Reversal
    <2>2. QED  BY <1>1, <2>1, PaidOpDebt
  <1>2. CASE s \in Reversal /\ b.st[o] # "reversed"
    <2>1. n = ReversedOp(b, o)  BY <1>2 DEF OperationEvent, Reversal
    <2>2. QED  BY <1>2, <2>1, ReversedOpDebt
  <1>3. CASE n = b
    BY <1>3, OnwardSame
  <1>4. QED  BY <1>1, <1>2, <1>3 DEF OperationEvent

-----------------------------------------------------------------------------
(* The steps of a request on its operation *)

LEMMA CasShape ==
  ASSUME NEW b \in Book, NEW o \in Op, NEW from, NEW to \in OpenStatus \cup {"failed"},
         NEW n, n = Cas(b, o, from, to)
  PROVE  /\ b.st[o] \notin from => n = b
         /\ b.st[o] \in from => /\ n \in Book /\ Moved(b, n, o) /\ n.st[o] = to
                                /\ n.pays = b.pays /\ n.rev = b.rev /\ n.gate = b.gate
  <1>1. CASE b.st[o] \notin from  BY <1>1 DEF Cas
  <1>2. CASE b.st[o] \in from
    <2>1. n = [b EXCEPT !.st[o] = to]  BY <1>2 DEF Cas
    <2>2. /\ n \in Book /\ n.st = [b.st EXCEPT ![o] = to] /\ n.src = b.src
          /\ n.cur = b.cur /\ n.pays = b.pays /\ n.rev = b.rev /\ n.gate = b.gate
      BY <2>1 DEF Book, OpStatus
    <2>3. Moved(b, n, o) /\ n.st[o] = to  BY <2>2, BookNumbers DEF Moved
    <2>4. QED  BY <1>2, <2>2, <2>3
  <1>3. QED  BY <1>1, <1>2

LEMMA CasDebt ==
  ASSUME NEW b \in Book, OpsOK(b), RowOK(b), NEW o \in Op,
         NEW from \in SUBSET {"prepared", "creating", "reconciling"},
         NEW to \in {"prepared", "creating", "reconciling", "failed"},
         NEW n, n = Cas(b, o, from, to)
  PROVE  /\ n \in Book /\ RowOK(n) /\ Sole(n) /\ Represented(n)
         /\ \A q \in Op \ {o} : OpOK(n, q) /\ n.st[q] = b.st[q]
         /\ (to \in Unclaimed => Untouched(o)) => OpsOK(n)
         /\ to \notin Unclaimed => Onward(b, n)
  <1>1. to \in OpenStatus \cup {"failed"}  BY DEF OpenStatus
  <1>2. CASE b.st[o] \notin from
    <2>1. n = b  BY <1>1, <1>2, CasShape
    <2>2. QED  BY <2>1, OnwardSame DEF OpsOK
  <1>3. CASE b.st[o] \in from
    <2>1. /\ n \in Book /\ Moved(b, n, o) /\ n.st[o] = to
          /\ n.pays = b.pays /\ n.rev = b.rev
      BY <1>1, <1>3, CasShape
    <2>2. n.gate = b.gate  BY <1>1, <1>3, CasShape
    <2>3. b.st[o] \in OpenStatus /\ b.st[o] \in Standing /\ b.st[o] # "none"
      BY <1>3 DEF OpenStatus, Standing
    <2>4. RowOK(n)  BY <2>1, <2>2, <2>3, RowMoved
    <2>5. /\ \A q \in Op \ {o} : OpOK(n, q)
          /\ Sole(n) /\ Represented(n)
          /\ OpOK(n, o) => OpsOK(n)
      BY <1>1, <2>1, <2>3, OpsMoved DEF Standing
    <2>6. ASSUME to \in Unclaimed => Untouched(o) PROVE OpOK(n, o)
      <3>1. n.src[o] = b.src[o] /\ n.cur = b.cur /\ OpOK(b, o)
        BY <2>1 DEF Moved, OpsOK
      <3>2. QED  BY <2>1, <2>3, <2>6, <3>1 DEF OpOK
    <2>7. \A q \in Op \ {o} : n.st[q] = b.st[q]  BY <2>1 DEF Moved
    <2>8. to \notin Unclaimed => Onward(b, n)  BY <2>1, <2>7 DEF Onward
    <2>9. QED  BY <2>1, <2>4, <2>5, <2>6, <2>7, <2>8
  <1>4. QED  BY <1>2, <1>3

\* A charge of this operation that is known to exist is bound to it.
LEMMA OwnDebt ==
  ASSUME NEW b \in Book, OpsOK(b), RowOK(b), NEW o \in Op,
         NEW n \in Book, Moved(b, n, o), n.rev = b.rev, n.gate = b.gate,
         \/ n.st[o] = b.st[o]
         \/ b.st[o] \in {"creating", "reconciling"} /\ n.st[o] = "created",
         n.pays[o] = "own"
  PROVE  OpsOK(n) /\ RowOK(n) /\ Onward(b, n)
  <1>1. n.src[o] = b.src[o] /\ n.cur = b.cur /\ OpOK(b, o)  BY DEF Moved, OpsOK
  <1>2. OpOK(n, o)  BY <1>1 DEF OpOK, Unclaimed
  <1>3. OpsOK(n)  BY <1>2, OpsMoved DEF Standing, OpenStatus
  <1>4. RowOK(n)  BY RowMoved DEF OpenStatus
  <1>5. Onward(b, n)  BY DEF Onward, Moved, Unclaimed
  <1>6. QED  BY <1>3, <1>4, <1>5

\* The charge of an operation turns out to exist.
LEMMA AdoptedDebt ==
  ASSUME NEW b \in Book, OpsOK(b), RowOK(b), NEW o \in Op,
         b.st[o] \in {"creating", "reconciling"},
         NEW n, n = [b EXCEPT !.st[o] = "created", !.pays[o] = "own"]
  PROVE  /\ OpsOK(n) /\ RowOK(n) /\ Onward(b, n) /\ n \in Book /\ n.src = b.src
         /\ n.st = [b.st EXCEPT ![o] = "created"]
  <1>1. /\ n \in Book /\ n.st = [b.st EXCEPT ![o] = "created"] /\ n.src = b.src
        /\ n.pays = [b.pays EXCEPT ![o] = "own"]
        /\ n.cur = b.cur /\ n.rev = b.rev /\ n.gate = b.gate
    BY DEF Book, OpStatus, OpenStatus
  <1>2. Moved(b, n, o) /\ n.st[o] = "created" /\ n.pays[o] = "own"
    BY <1>1, BookNumbers DEF Moved
  <1>3. OpsOK(n) /\ RowOK(n) /\ Onward(b, n)  BY <1>1, <1>2, OwnDebt
  <1>4. QED  BY <1>1, <1>3

-----------------------------------------------------------------------------
(* What Asaas does behind the rows *)

\* A step of the world takes back nothing that was reversed or written, and
\* deletes no invoice.
Ages ==
    /\ Undeleted'
    /\ \A c \in Cycle : invoice[c] = "refunded" => invoice'[c] = "refunded"
    /\ \A o \in Op :
          /\ Untouched(o) => Untouched(o)'
          /\ posted[o] = 1 => posted'[o] = 1
          /\ posted[o] = 1 /\ charge[o] \notin Live => charge'[o] \notin Live
          /\ charge[o] \in Reversal => charge'[o] = charge[o]

LEMMA AgesSame ==
  ASSUME Undeleted, UNCHANGED <<invoice, charge, posted, restored, flight>>
  PROVE  Ages
  BY DEF Ages, Untouched, Undeleted

LEMMA CarryOp ==
  ASSUME Ages, NEW n \in Book, n = book', NEW o \in Op, OpOK(n, o),
         n.st[o] # "none" => n.src[o] \in Cycle
  PROVE  OpOK(book, o)'
  BY DEF OpOK, Ages

LEMMA CarryOps ==
  ASSUME Ages, NEW n \in Book, n = book', OpsOK(n),
         \A o \in Op : n.st[o] # "none" => n.src[o] \in Cycle
  PROVE  OpsOK(book)'
  <1>1. \A o \in Op : OpOK(book, o)'  BY CarryOp DEF OpsOK
  <1>2. Sole(book)' /\ Represented(book)'
    BY DEF OpsOK, Sole, Represented
  <1>3. QED  BY <1>1, <1>2 DEF OpsOK

LEMMA CarryRow ==
  ASSUME Ages, NEW n \in Book, n = book', RowOK(n)
  PROVE  RowOK(book)'
  <1>1. n.cur \in Cycle  BY BookNumbers
  <1>2. QED  BY <1>1 DEF RowOK, Ages

LEMMA CarryKnows ==
  ASSUME World, Ages, NEW n \in Book, n = book', NEW r \in Request, NEW q, q = req'[r],
         q.at = "snapshot" => q.src \in Cycle,
         q.at \in {"apply", "adopt"} => q.op \in Op, Knows(q, n)
  PROVE  Knows(req[r], book)'
  <1>1. q.at = "snapshot" /\ q.seen \in Reversal => invoice'[q.src] = q.seen
    <2> SUFFICES ASSUME q.at = "snapshot", q.seen \in Reversal
                 PROVE  invoice'[q.src] = q.seen
      OBVIOUS
    <2>1. q.src \in Cycle /\ invoice[q.src] = q.seen  BY DEF Knows
    <2>2. invoice[q.src] = "refunded"  BY <2>1, Reversed
    <2>3. QED  BY <2>1, <2>2 DEF Ages
  <1>2. /\ q.at \in {"apply", "adopt"} =>
              /\ q.seen \in Reversal => charge'[q.op] = q.seen
              /\ q.seen = "paid" => posted'[q.op] = 1
        /\ q.at = "adopt" => posted'[q.op] = 1
    BY DEF Knows, Ages
  <1>3. QED  BY <1>1, <1>2 DEF Knows

LEMMA IdleKnows == ASSUME NEW b PROVE Knows(IdleReq, b)
  BY DEF Knows, IdleReq, Restore

LEMMA Telling ==
  ASSUME BillInv, World, NoticesTrue, Ages,
         \A n \in notices' \ notices : n.status \in Reversal =>
            /\ n.of = "invoice" => invoice'[n.id] = n.status
            /\ n.of = "charge" => charge'[n.id] = n.status
  PROVE  NoticesTrue'
  <1> SUFFICES ASSUME NEW n \in notices, n.status \in Reversal
               PROVE  /\ n.of = "invoice" => invoice'[n.id] = n.status
                      /\ n.of = "charge" => charge'[n.id] = n.status
    BY DEF NoticesTrue
  <1>1. n \in Notice  BY DEF BillInv, AsaasType
  <1>2. n.of = "invoice" => n.id \in Cycle /\ invoice[n.id] = n.status
    BY <1>1 DEF NoticesTrue, Notice
  <1>3. n.of = "charge" => n.id \in Op /\ charge[n.id] = n.status
    BY <1>1 DEF NoticesTrue, Notice
  <1>4. n.of = "invoice" => n.status = "refunded"  BY <1>2, Reversed
  <1>5. n.of = "invoice" => invoice'[n.id] = n.status  BY <1>2, <1>4 DEF Ages
  <1>6. n.of = "charge" => charge'[n.id] = n.status  BY <1>3 DEF Ages
  <1>7. QED  BY <1>5, <1>6

\* A step whose rows and requests hold in the old world.
LEMMA Carry ==
  ASSUME World, Ages, BillInv', NoticesTrue', NEW n, n = book', OpsOK(n), RowOK(n),
         \A r \in Request : Knows(req'[r], n)
  PROVE  DebtInv'
  <1>1. n \in Book /\ \A o \in Op : n.st[o] # "none" => n.src[o] \in Cycle
    BY DEF BillInv, BookOK
  <1>2. OpsOK(book)' /\ RowOK(book)'  BY <1>1, CarryOps, CarryRow
  <1>3. ASSUME NEW r \in Request PROVE Knows(req[r], book)'
    <2>1. PICK q : q = req'[r]  OBVIOUS
    <2>2. Knows(q, n) /\ (q.at \in OnCycle => q.src \in Cycle) /\ (q.at \in OnOp => q.op \in Op)
      BY <2>1 DEF BillInv, ReqInv, ReqOK
    <2>3. QED  BY <1>1, <2>1, <2>2, CarryKnows DEF OnCycle, OnOp
  <1>4. QED  BY <1>2, <1>3 DEF DebtInv, Ages

\* The world moves, the rows and the requests do not.
LEMMA Ageing ==
  ASSUME BillInv, DebtInv, BillInv', Ages, book' = book, req' = req,
         \A n \in notices' \ notices : n.status \in Reversal =>
            /\ n.of = "invoice" => invoice'[n.id] = n.status
            /\ n.of = "charge" => charge'[n.id] = n.status
  PROVE  DebtInv'
  <1>1. World  BY BillWorld DEF DebtInv
  <1>2. NoticesTrue'  BY <1>1, Telling DEF DebtInv
  <1>3. PICK n : n = book'  OBVIOUS
  <1>4. OpsOK(n) /\ RowOK(n)  BY <1>3 DEF DebtInv
  <1>5. \A r \in Request : Knows(req'[r], n)  BY <1>3 DEF DebtInv
  <1>6. QED  BY <1>1, <1>2, <1>3, <1>4, <1>5, Carry

LEMMA IssueDebt ==
  ASSUME BillInv, DebtInv, BillInv', NEW c \in Cycle, IssueInvoice(c)
  PROVE  DebtInv'
  <1>1. /\ invoice[c] = "none" /\ invoice' = [invoice EXCEPT ![c] = "pending"]
        /\ UNCHANGED <<charge, posted, restored, flight, book, req>>
        /\ notices' = notices \cup {NoticeOfInvoice(c, "pending")}
    BY DEF IssueInvoice
  <1>2. Ages
    BY <1>1 DEF Ages, Untouched, Undeleted, DebtInv, BillInv, AsaasType
  <1>3. \A n \in notices' \ notices : n.status \notin Reversal
    BY <1>1 DEF NoticeOfInvoice, Reversal
  <1>4. QED  BY <1>1, <1>2, <1>3, Ageing

LEMMA TurnInvoiceDebt ==
  ASSUME RefundsOnly, BillInv, DebtInv, BillInv', NEW c \in Cycle, NEW to \in Remote,
         TurnInvoice(c, to)
  PROVE  DebtInv'
  <1>1. /\ invoice[c] # "refunded" /\ to # "deleted" /\ invoice' = [invoice EXCEPT ![c] = to]
        /\ UNCHANGED <<charge, posted, restored, flight, book, req>>
        /\ notices' = notices \cup {NoticeOfInvoice(c, to)}
    BY DEF TurnInvoice, Turn, RefundsOnly
  <1>2. invoice'[c] = to /\ \A d \in Cycle \ {c} : invoice'[d] = invoice[d]
    BY <1>1 DEF BillInv, AsaasType
  <1>3. Ages
    BY <1>1, <1>2 DEF Ages, Untouched, Undeleted, DebtInv
  <1>4. \A n \in notices' \ notices : n.of = "invoice" /\ invoice'[n.id] = n.status
    BY <1>1, <1>2 DEF NoticeOfInvoice
  <1>5. QED  BY <1>1, <1>3, <1>4, Ageing

LEMMA TurnChargeDebt ==
  ASSUME BillInv, DebtInv, BillInv', NEW o \in Op, NEW to \in Remote, TurnCharge(o, to)
  PROVE  DebtInv'
  <1>1. /\ charge[o] \in Live /\ charge' = [charge EXCEPT ![o] = to]
        /\ UNCHANGED <<invoice, posted, restored, flight, book, req>>
        /\ notices' = notices \cup {NoticeOfCharge(o, to)}
    BY DEF TurnCharge, Turn, Live
  <1>2. charge'[o] = to /\ \A x \in Op \ {o} : charge'[x] = charge[x]
    BY <1>1 DEF BillInv, AsaasType
  <1>3. Ages
    BY <1>1, <1>2, LiveOrDead DEF Ages, Untouched, Undeleted, DebtInv
  <1>4. \A n \in notices' \ notices : n.of = "charge" /\ charge'[n.id] = n.status
    BY <1>1, <1>2 DEF NoticeOfCharge
  <1>5. QED  BY <1>1, <1>3, <1>4, Ageing

LEMMA ArriveDebt ==
  ASSUME BillInv, DebtInv, BillInv', NEW o \in Op, Arrive(o)
  PROVE  DebtInv'
  <1>1. /\ o \in flight /\ flight' = flight \ {o}
        /\ charge' = [charge EXCEPT ![o] = "pending"]
        /\ posted' = [posted EXCEPT ![o] = @ + 1]
        /\ UNCHANGED <<invoice, restored, notices, book, req>>
    BY DEF Arrive
  <1>2. posted[o] = 0 /\ charge[o] = "none" /\ ~Untouched(o)
    BY <1>1 DEF BillInv, PostInv, Untouched
  <1>3. \A x \in Op \ {o} : charge'[x] = charge[x] /\ posted'[x] = posted[x]
    BY <1>1 DEF BillInv, AsaasType
  <1>4. Ages
    BY <1>1, <1>2, <1>3 DEF Ages, Untouched, Reversal, Undeleted, DebtInv
  <1>5. QED  BY <1>1, <1>4, Ageing

-----------------------------------------------------------------------------
(* The webhook *)

\* The notice of an invoice belongs to no operation, that of a charge to its own.
LEMMA OwnersOnly ==
  ASSUME OpsOK(book), NEW m \in Notice
  PROVE  /\ m.of = "invoice" => Owners(m) = {}
         /\ m.of = "charge" => Owners(m) = {m.id} /\ m.id \in Op
  <1>1. \A o \in Op : book.pays[o] # "source"  BY DEF OpsOK, OpOK
  <1>2. m.of \in {"invoice", "charge"} /\ (m.of = "charge" => m.id \in Op)  BY DEF Notice
  <1>3. QED  BY <1>1, <1>2 DEF Owners

LEMMA WebhookOps ==
  ASSUME BillInv, DebtInv, NEW m \in notices, Webhook(m), NEW n, n = book'
  PROVE  n \in Book /\ OpsOK(n) /\ RowOK(n) /\ Onward(book, n)
  <1>1. /\ World /\ book \in Book /\ BookOK(book) /\ Room(book) /\ m \in Notice
        /\ OpsOK(book) /\ RowOK(book)
    BY BillWorld DEF Webhook, DebtInv, BillInv, AsaasType
  <1>2. /\ m.of \in {"invoice", "charge"}
        /\ m.of = "invoice" => m.id \in Cycle
        /\ m.of = "charge" => posted[m.id] = 1
        /\ m.of = "invoice" /\ m.status \in Reversal => invoice[m.id] = m.status
        /\ m.of = "charge" /\ m.status \in Reversal => charge[m.id] = m.status
    BY <1>1 DEF Notice, DebtInv, NoticesTrue, BillInv, HistoryInv
  <1>3. CASE m.of = "charge"
    <2>1. PICK o \in Op : o = m.id /\ Owners(m) = {o}  BY <1>1, <1>3, OwnersOnly
    <2> DEFINE own == [book EXCEPT !.pays[o] = "own"]
               known == IF book.pays[o] = "none" THEN own ELSE book
    <2>2. n = OperationEvent(known, o, m.status)
      <3>1. Owners(m) # {} /\ (CHOOSE q \in Owners(m) : TRUE) = o  BY <2>1
      <3>2. QED  BY <3>1 DEF Webhook
    <2>3. posted[o] = 1 /\ (m.status \in Reversal => charge[o] = m.status)
      BY <1>2, <1>3, <2>1
    <2>4. book.st[o] # "none" /\ book.src[o] \in Cycle
      BY <1>1, <2>3 DEF OpsOK, OpOK, Untouched, Unclaimed, BookOK
    <2>5. CASE book.pays[o] # "none"
      <3>1. n = OperationEvent(book, o, m.status)  BY <2>2, <2>5
      <3>2. QED  BY <1>1, <2>3, <2>4, <3>1, OperationEventDebt
    <2>6. CASE book.pays[o] = "none"
      <3>1. PICK k : k = own  OBVIOUS
      <3>2. n = OperationEvent(k, o, m.status)  BY <2>2, <2>6, <3>1
      <3>3. /\ k \in Book /\ k.st = book.st /\ k.src = book.src /\ k.cur = book.cur
            /\ k.rev = book.rev /\ k.gate = book.gate
            /\ k.pays = [book.pays EXCEPT ![o] = "own"]
        BY <1>1, <3>1 DEF Book
      <3> HIDE DEF own, known
      <3>4. Moved(book, k, o) /\ k.pays[o] = "own" /\ Room(k)
        BY <1>1, <3>3, BookNumbers DEF Moved, Room
      <3>5. OpsOK(k) /\ RowOK(k) /\ Onward(book, k)
        BY <1>1, <3>3, <3>4, OwnDebt
      <3>6. n \in Book /\ OpsOK(n) /\ RowOK(n) /\ Onward(k, n)
        BY <1>1, <2>3, <2>4, <3>2, <3>3, <3>4, <3>5, OperationEventDebt
      <3>7. QED  BY <3>5, <3>6 DEF Onward
    <2>7. QED  BY <2>5, <2>6
  <1>4. CASE m.of = "invoice"
    <2>1. n = InvoiceEvent(book, m.id, m.status)
      BY <1>1, <1>4, OwnersOnly DEF Webhook
    <2>2. QED  BY <1>1, <1>2, <1>4, <2>1, InvoiceEventDebt
  <1>5. QED  BY <1>2, <1>3, <1>4

\* Who posts holds the claim, which no transaction onward takes away.
LEMMA KnowsOnward ==
  ASSUME BillInv, DebtInv, NEW n, Onward(book, n), NEW r \in Request
  PROVE  Knows(req[r], n)
  <1>1. PICK q : q = req[r]  OBVIOUS
  <1>2. Knows(q, book) /\ (q.at = "post" => q.op \in Op)
    BY <1>1 DEF DebtInv, BillInv, ReqInv, ReqOK, OnOp
  <1>3. Knows(q, n)  BY <1>2 DEF Knows, Onward
  <1>4. QED  BY <1>1, <1>3

\* A webhook between any two steps of a request leaves what it knows true.
LEMMA WebhookDebt ==
  ASSUME BillInv, DebtInv, BillInv', NEW m \in notices, Webhook(m)
  PROVE  DebtInv'
  <1>1. /\ UNCHANGED <<invoice, charge, posted, restored, flight, req>>
        /\ notices' \subseteq notices
    BY DEF Webhook
  <1>2. World /\ Ages  BY <1>1, AgesSame, BillWorld DEF DebtInv
  <1>3. NoticesTrue'  BY <1>1, <1>2, Telling DEF DebtInv
  <1>4. PICK n : n = book'  OBVIOUS
  <1>5. OpsOK(n) /\ RowOK(n) /\ Onward(book, n)  BY <1>4, WebhookOps
  <1>6. \A r \in Request : Knows(req'[r], n)  BY <1>1, <1>5, KnowsOnward
  <1>7. QED  BY <1>2, <1>3, <1>4, <1>5, <1>6, Carry

-----------------------------------------------------------------------------
(* The requests *)

\* What a step of r may rely on.
LEMMA DebtFacts ==
  ASSUME BillInv, DebtInv, NEW r \in Request, NEW q, q = req[r]
  PROVE  /\ World /\ book \in Book /\ BookOK(book) /\ OpsOK(book) /\ RowOK(book)
         /\ req \in [Request -> Req] /\ q \in Req /\ ReqOK(q, book) /\ Knows(q, book)
         /\ q.at \in OnCycle => q.src \in Cycle
         /\ q.at \in OnOp => q.op \in Op
  BY BillWorld, Facts DEF DebtInv, ReqOK

\* A step of r that leaves the world alone, takes r to q, and the others keep
\* what they know.
LEMMA StepKnowing ==
  ASSUME BillInv, DebtInv, BillInv', NEW r \in Request, UNCHANGED asaas,
         NEW n, n = book', OpsOK(n), RowOK(n),
         \A p \in Request \ {r} : Knows(req[p], n),
         NEW q, req' = [req EXCEPT ![r] = q], Knows(q, n)
  PROVE  DebtInv'
  <1>1. World /\ Ages  BY AgesSame, BillWorld DEF asaas, DebtInv
  <1>2. NoticesTrue'  BY <1>1, Telling DEF asaas, DebtInv
  <1>3. req \in [Request -> Req]  BY Facts
  <1>4. \A p \in Request : Knows(req'[p], n)  BY <1>3
  <1>5. QED  BY <1>1, <1>2, <1>4, Carry

\* A transaction onward lets the others keep what they know.
LEMMA StepDebt ==
  ASSUME BillInv, DebtInv, BillInv', NEW r \in Request, UNCHANGED asaas,
         NEW n, n = book', OpsOK(n), RowOK(n), Onward(book, n),
         NEW q, req' = [req EXCEPT ![r] = q], Knows(q, n)
  PROVE  DebtInv'
  BY StepKnowing, KnowsOnward

LEMMA LeavingDebt ==
  ASSUME BillInv, DebtInv, BillInv', NEW r \in Request, UNCHANGED asaas, Leave(r),
         NEW n, n = book', OpsOK(n), RowOK(n), Onward(book, n)
  PROVE  DebtInv'
  BY StepDebt, IdleKnows DEF Leave

LEMMA ReadInvoiceDebt ==
  ASSUME BillInv, DebtInv, BillInv', NEW r \in Request, NEW c \in Cycle, ReadInvoice(r, c)
  PROVE  DebtInv'
  <1> DEFINE q == [IdleReq EXCEPT !.at = "snapshot", !.src = c, !.seen = invoice[c]]
  <1>1. req' = [req EXCEPT ![r] = q] /\ UNCHANGED asaas /\ book' = book
    BY DEF ReadInvoice
  <1>2. q.at = "snapshot" /\ q.src = c /\ q.seen = invoice[c]  BY DEF IdleReq
  <1> HIDE DEF q
  <1>3. Knows(q, book)  BY <1>2 DEF Knows, Restore
  <1>4. PICK n : n = book'  OBVIOUS
  <1>5. OpsOK(n) /\ RowOK(n) /\ Knows(q, n) /\ Onward(book, n)
    BY <1>1, <1>3, <1>4, OnwardSame DEF DebtInv
  <1>6. QED  BY <1>1, <1>4, <1>5, StepDebt

LEMMA ApplySnapshotDebt ==
  ASSUME BillInv, DebtInv, BillInv', NEW r \in Request, ApplySnapshot(r)
  PROVE  DebtInv'
  <1>1. PICK n : n = book'  OBVIOUS
  <1>2. PICK q : q = req[r]  OBVIOUS
  <1>3. /\ q.at = "snapshot" /\ Room(book) /\ Leave(r) /\ UNCHANGED asaas
        /\ n = Snapshot(book, q.src, q.seen)
    BY <1>1, <1>2 DEF ApplySnapshot
  <1>4. /\ World /\ book \in Book /\ OpsOK(book) /\ RowOK(book) /\ q.src \in Cycle
        /\ q.seen \in Reversal => invoice[q.src] = q.seen
    BY <1>2, <1>3, DebtFacts DEF OnCycle, Knows
  <1>5. OpsOK(n) /\ RowOK(n) /\ Onward(book, n)  BY <1>3, <1>4, SnapshotDebt
  <1>6. QED  BY <1>1, <1>3, <1>5, LeavingDebt

\* No deletion is on record, so no request sets out to restore.
LEMMA RecoverDebt ==
  ASSUME BillInv, DebtInv, BillInv', NEW r \in Request, Recover(r)
  PROVE  DebtInv'
  <1>1. /\ UNCHANGED asaas /\ book' = book /\ OpsOK(book) /\ RowOK(book)
    BY DebtFacts DEF Recover
  <1>2. book.rev # "deleted"  BY <1>1 DEF RowOK
  <1>3. PICK c : req' = [req EXCEPT ![r] = [IdleReq EXCEPT !.at = "ensure", !.src = c]]
    BY <1>2 DEF Recover
  <1> DEFINE q == [IdleReq EXCEPT !.at = "ensure", !.src = c]
  <1>4. q.at = "ensure"  BY DEF IdleReq
  <1>5. req' = [req EXCEPT ![r] = q]  BY <1>3
  <1> HIDE DEF q
  <1>6. PICK n : n = book'  OBVIOUS
  <1>7. OpsOK(n) /\ RowOK(n) /\ Onward(book, n)  BY <1>1, <1>6, OnwardSame
  <1>8. Knows(q, n)  BY <1>4 DEF Knows, Restore
  <1>9. QED  BY <1>1, <1>5, <1>6, <1>7, <1>8, StepDebt

LEMMA NoRestore ==
  ASSUME BillInv, DebtInv, NEW r \in Request
  PROVE  ~(RestoreGet(r) \/ RestoreClaim(r) \/ RestorePost(r) \/ RestoreReread(r)
           \/ RestoreFinish(r))
  <1>1. req[r].at \notin Restore  BY DEF DebtInv, Knows
  <1>2. QED  BY <1>1 DEF Restore, RestoreGet, RestoreClaim, RestorePost, RestoreReread,
                         RestoreFinish

\* A debt found again, or the row of a reversal whose operation is missing.
LEMMA EnsureDebt ==
  ASSUME BillInv, DebtInv, BillInv', NEW r \in Request, Ensure(r)
  PROVE  DebtInv'
  <1>1. PICK n : n = book'  OBVIOUS
  <1>2. PICK q : q = req[r]  OBVIOUS
  <1>3. PICK c : c = q.src  OBVIOUS
  <1>4. /\ World /\ book \in Book /\ OpsOK(book) /\ RowOK(book) /\ Room(book)
        /\ q \in Req /\ q.at = "ensure" /\ c \in Cycle /\ UNCHANGED asaas
        /\ req \in [Request -> Req]
    BY <1>2, <1>3, DebtFacts DEF Ensure, OnCycle
  <1> DEFINE owed == OpenFor(book, c) # {} \/ (book.rev # "none" /\ book.cur = c)
  <1>5. CASE Settled(book, c) \/ ~owed
    <2>1. n = book /\ Leave(r)  BY <1>1, <1>2, <1>3, <1>5 DEF Ensure
    <2>2. QED  BY <1>1, <1>4, <2>1, LeavingDebt, OnwardSame
  <1>6. CASE ~Settled(book, c) /\ owed
    <2> DEFINE o == CHOOSE x \in OpenFor(n, c) : TRUE
               at == CASE n.st[o] = "prepared" -> "claim"
                       [] n.st[o] = "created" -> "tracked"
                       [] OTHER -> "reconcile"
               k == [q EXCEPT !.op = o, !.at = at]
    <2>1. n = Stage(book, c) /\ req' = [req EXCEPT ![r].op = o, ![r].at = at]
      <3>1. c = req[r].src  BY <1>2, <1>3
      <3>2. n = Stage(book, c)
        <4>1. ~(Settled(book, req[r].src) \/
                ~(OpenFor(book, req[r].src) # {} \/ (book.rev # "none" /\ book.cur = req[r].src)))
          BY <1>6, <3>1
        <4>2. QED  BY <1>1, <3>1, <4>1 DEF Ensure
      <3> DEFINE b == Stage(book, req[r].src)
                 p == CHOOSE x \in OpenFor(b, req[r].src) : TRUE
      <3>3. req' = [req EXCEPT ![r].op = p, ![r].at =
                      CASE b.st[p] = "prepared" -> "claim"
                        [] b.st[p] = "created" -> "tracked"
                        [] OTHER -> "reconcile"]
        BY <1>6, <3>1, Zenon DEF Ensure
      <3>4. b = n /\ p = o  BY <3>1, <3>2
      <3> HIDE DEF b, p, o
      <3>5. QED  BY <3>2, <3>3, <3>4
    <2>2. req' = [req EXCEPT ![r] = k]
      <3> HIDE DEF at, o
      <3>1. QED  BY <1>2, <1>4, <2>1
    <2>3. at \in {"claim", "tracked", "reconcile"}  OBVIOUS
    <2>4. k.at = at  BY <1>4 DEF Req
    <2> HIDE DEF at, k, o
    <2>5. Knows(k, n)  BY <2>3, <2>4 DEF Knows, Restore
    <2>6. /\ n \in Book /\ n.cur = book.cur /\ n.rev = book.rev /\ n.gate = book.gate
          /\ \/ n = book
             \/ OpenFor(book, c) = {} /\ \E p \in Op : Added(book, n, p, c)
      BY <1>4, <2>1, StageShape
    <2>7. ASSUME OpenFor(book, c) = {}, NEW p \in Op, Added(book, n, p, c)
          PROVE  OpsOK(n) /\ RowOK(n) /\ Onward(book, n)
      <3>1. book.rev # "none" /\ book.cur = c  BY <1>6, <2>7
      <3>2. invoice[c] = "refunded" /\ ~n.gate  BY <1>4, <2>6, <3>1 DEF RowOK
      <3>3. c <= n.cur  BY <1>4, <2>6, <3>1, BookNumbers
      <3>4. RowOK(n)  BY <1>4, <2>6, <3>2, RowShut
      <3>5. QED  BY <1>4, <1>6, <2>6, <2>7, <3>2, <3>3, <3>4, AddedDebt
    <2>8. OpsOK(n) /\ RowOK(n) /\ Onward(book, n)  BY <1>4, <2>6, <2>7, OnwardSame
    <2>9. QED  BY <1>1, <1>4, <2>2, <2>5, <2>8, StepDebt
  <1>7. QED  BY <1>5, <1>6

LEMMA ClaimDebt ==
  ASSUME BillInv, DebtInv, BillInv', NEW r \in Request, Claim(r)
  PROVE  DebtInv'
  <1>1. PICK n : n = book'  OBVIOUS
  <1>2. PICK q : q = req[r]  OBVIOUS
  <1>3. PICK o : o = q.op  OBVIOUS
  <1>4. /\ book \in Book /\ OpsOK(book) /\ RowOK(book)
        /\ q \in Req /\ o \in Op /\ UNCHANGED asaas /\ req \in [Request -> Req]
    BY <1>2, <1>3, DebtFacts DEF Claim, OnOp
  <1>5. CASE book.st[o] = "prepared"
    <2> DEFINE k == [q EXCEPT !.at = "post"]
    <2>1. n = Cas(book, o, {"prepared"}, "creating") /\ req' = [req EXCEPT ![r] = k]
      BY <1>1, <1>2, <1>3, <1>5 DEF Claim, Go
    <2>2. k.at = "post" /\ k.op = o  BY <1>3, <1>4 DEF Req
    <2> HIDE DEF k
    <2>3. OpsOK(n) /\ RowOK(n) /\ Onward(book, n)  BY <1>4, <2>1, CasDebt DEF Unclaimed
    <2>4. n.st[o] = "creating"  BY <1>4, <1>5, <2>1, CasShape DEF OpenStatus
    <2>5. Knows(k, n)  BY <2>2, <2>4 DEF Knows, Restore, Unclaimed
    <2>6. QED  BY <1>1, <1>4, <2>1, <2>3, <2>5, StepDebt
  <1>6. CASE book.st[o] # "prepared"
    <2>1. n = book /\ Leave(r)  BY <1>1, <1>2, <1>3, <1>6 DEF Claim
    <2>2. QED  BY <1>1, <1>4, <2>1, LeavingDebt, OnwardSame
  <1>7. QED  BY <1>5, <1>6

\* The POST leaves for an operation its sender has claimed.
LEMMA PostDebt ==
  ASSUME BillInv, DebtInv, BillInv', NEW r \in Request, Post(r)
  PROVE  DebtInv'
  <1>1. PICK n : n = book'  OBVIOUS
  <1>2. PICK q : q = req[r]  OBVIOUS
  <1>3. PICK o : o = q.op  OBVIOUS
  <1> DEFINE k == [q EXCEPT !.at = "wait"]
  <1>4. /\ Undeleted /\ OpsOK(n) /\ RowOK(n) /\ NoticesTrue
        /\ q \in Req /\ o \in Op /\ n = book
        /\ req \in [Request -> Req] /\ req' = [req EXCEPT ![r] = k]
        /\ flight' = flight \cup {o}
        /\ UNCHANGED <<invoice, charge, posted, restored, notices>>
        /\ n.st[o] \notin Unclaimed
    BY <1>1, <1>2, <1>3, DebtFacts DEF Post, OnOp, Knows, Go, DebtInv
  <1>5. k.at = "wait"  BY <1>4 DEF Req
  <1> HIDE DEF k
  <1>6. ASSUME NEW x \in Op PROVE OpOK(book, x)'
    <2>1. OpOK(n, x)  BY <1>4 DEF OpsOK
    <2>2. n.st[x] \in Unclaimed => Untouched(x)'
      BY <1>4, <2>1 DEF OpOK, Untouched
    <2>3. QED  BY <1>1, <1>4, <2>1, <2>2 DEF OpOK
  <1>7. OpsOK(book)'
    <2>1. Sole(book)' /\ Represented(book)'
      BY <1>1, <1>4 DEF OpsOK, Sole, Represented
    <2>2. QED  BY <1>6, <2>1 DEF OpsOK
  <1>8. RowOK(book)'  BY <1>1, <1>4 DEF RowOK
  <1>9. Undeleted' /\ NoticesTrue'  BY <1>4 DEF NoticesTrue, Undeleted
  <1>10. Knows(k, book)'  BY <1>5 DEF Knows, Restore
  <1>11. ASSUME NEW p \in Request \ {r} PROVE Knows(req[p], book)'
    <2>1. Knows(req[p], book) /\ req'[p] = req[p]  BY <1>4 DEF DebtInv
    <2>2. QED  BY <1>1, <1>4, <2>1 DEF Knows
  <1>12. \A p \in Request : Knows(req[p], book)'  BY <1>4, <1>10, <1>11
  <1>13. QED  BY <1>7, <1>8, <1>9, <1>12 DEF DebtInv

\* The holder of the token frees the operation: nobody else is about to post.
LEMMA PostDisabledDebt ==
  ASSUME BillInv, DebtInv, BillInv', NEW r \in Request, PostDisabled(r)
  PROVE  DebtInv'
  <1>1. PICK n : n = book'  OBVIOUS
  <1>2. PICK o : o = req[r].op  OBVIOUS
  <1>3. /\ book \in Book /\ OpsOK(book) /\ RowOK(book)
        /\ o \in Op /\ UNCHANGED asaas /\ Leave(r)
        /\ n = Cas(book, o, {"creating"}, "prepared") /\ Token(req[r], o)
    BY <1>1, <1>2, DebtFacts DEF PostDisabled, OnOp, Token
  <1>4. Untouched(o) /\ \A p \in Request \ {r} : ~Token(req[p], o)
    BY <1>3 DEF BillInv, PostInv
  <1>5. OpsOK(n) /\ RowOK(n) /\ \A x \in Op \ {o} : n.st[x] = book.st[x]
    BY <1>3, <1>4, CasDebt
  <1>6. ASSUME NEW p \in Request \ {r} PROVE Knows(req[p], n)
    <2>1. PICK q : q = req[p]  OBVIOUS
    <2>2. Knows(q, book) /\ (q.at = "post" => q.op \in Op /\ q.op # o)
      BY <1>4, <2>1, DebtFacts DEF OnOp, Token
    <2>3. Knows(q, n)  BY <1>5, <2>2 DEF Knows
    <2>4. QED  BY <2>1, <2>3
  <1>7. Knows(IdleReq, n)  BY IdleKnows
  <1>8. QED  BY <1>1, <1>3, <1>5, <1>6, <1>7, StepKnowing DEF Leave

LEMMA PostAnsweredDebt ==
  ASSUME BillInv, DebtInv, BillInv', NEW r \in Request, PostAnswered(r)
  PROVE  DebtInv'
  <1>1. PICK n : n = book'  OBVIOUS
  <1>2. PICK o : o = req[r].op  OBVIOUS
  <1>3. /\ book \in Book /\ OpsOK(book) /\ RowOK(book)
        /\ o \in Op /\ UNCHANGED asaas /\ Leave(r)
        /\ n = IF book.st[o] \in {"creating", "reconciling"}
               THEN [book EXCEPT !.st[o] = "created", !.pays[o] = "own"] ELSE book
    BY <1>1, <1>2, DebtFacts DEF PostAnswered, OnOp
  <1>4. CASE book.st[o] \in {"creating", "reconciling"}
    <2>1. n = [book EXCEPT !.st[o] = "created", !.pays[o] = "own"]  BY <1>3, <1>4
    <2>2. OpsOK(n) /\ RowOK(n) /\ Onward(book, n)  BY <1>3, <1>4, <2>1, AdoptedDebt
    <2>3. QED  BY <1>1, <1>3, <2>2, LeavingDebt
  <1>5. CASE book.st[o] \notin {"creating", "reconciling"}
    <2>1. n = book  BY <1>3, <1>5
    <2>2. QED  BY <1>1, <1>3, <2>1, LeavingDebt, OnwardSame
  <1>6. QED  BY <1>4, <1>5

\* Refused: the POST is out of the way, and the operation is over.  Its token
\* went with the POST, so nobody else holds it.
LEMMA PostRejectedDebt ==
  ASSUME BillInv, DebtInv, BillInv', NEW r \in Request, PostRejected(r)
  PROVE  DebtInv'
  <1>1. PICK n : n = book'  OBVIOUS
  <1>2. PICK o : o = req[r].op  OBVIOUS
  <1>3. /\ World /\ book \in Book /\ OpsOK(book) /\ RowOK(book)
        /\ o \in Op /\ o \in flight /\ flight' = flight \ {o} /\ Leave(r)
        /\ UNCHANGED <<invoice, charge, posted, restored, notices>>
        /\ n = Cas(book, o, {"creating"}, "failed") /\ req \in [Request -> Req]
    BY <1>1, <1>2, DebtFacts DEF PostRejected, OnOp
  <1>4. Untouched(o)' /\ \A p \in Request : ~Token(req[p], o)
    BY <1>3 DEF Untouched, BillInv, PostInv
  <1>5. Ages  BY <1>3 DEF Ages, Untouched, World, Undeleted
  <1>6. /\ n \in Book /\ RowOK(n) /\ Sole(n) /\ Represented(n)
        /\ \A q \in Op \ {o} : OpOK(n, q) /\ n.st[q] = book.st[q]
    BY <1>3, CasDebt
  <1>7. \A x \in Op : n.st[x] # "none" => n.src[x] \in Cycle
    BY <1>1 DEF BillInv, BookOK
  <1>8. ASSUME NEW x \in Op PROVE OpOK(book, x)'
    <2>1. CASE x # o  BY <1>1, <1>5, <1>6, <1>7, <2>1, CarryOp
    <2>2. CASE x = o /\ book.st[o] # "creating"
      <3>1. n = book  BY <1>3, <2>2, CasShape
      <3>2. OpOK(n, x)  BY <1>3, <3>1 DEF OpsOK
      <3>3. QED  BY <1>1, <1>5, <1>6, <1>7, <3>2, CarryOp
    <2>3. CASE x = o /\ book.st[o] = "creating"
      <3>1. Moved(book, n, o) /\ n.st[o] = "failed" /\ n.pays = book.pays
        BY <1>3, <2>3, CasShape
      <3>2. n.src[o] = book.src[o] /\ n.cur = book.cur /\ OpOK(book, o)
        BY <1>3, <3>1 DEF Moved, OpsOK
      <3>3. /\ n.src[o] <= n.cur /\ invoice'[n.src[o]] = "refunded" /\ n.pays[o] # "source"
        BY <1>3, <2>3, <3>1, <3>2 DEF OpOK
      <3>4. QED  BY <1>1, <1>4, <2>3, <3>1, <3>3 DEF OpOK
    <2>4. QED  BY <2>1, <2>2, <2>3
  <1>9. OpsOK(book)'
    <2>1. Sole(book)' /\ Represented(book)'
      BY <1>1, <1>6 DEF Sole, Represented
    <2>2. QED  BY <1>8, <2>1 DEF OpsOK
  <1>10. RowOK(book)'  BY <1>1, <1>5, <1>6, CarryRow
  <1>11. NoticesTrue'  BY <1>3, <1>5, Telling DEF DebtInv
  <1>12. ASSUME NEW p \in Request PROVE Knows(req[p], book)'
    <2>1. CASE p = r
      <3>1. req'[p] = IdleReq  BY <1>3, <2>1 DEF Leave
      <3>2. Knows(IdleReq, book)'  BY DEF Knows, IdleReq, Restore
      <3>3. QED  BY <3>1, <3>2
    <2>2. CASE p # r
      <3>1. PICK q : q = req[p]  OBVIOUS
      <3>2. Knows(q, book) /\ (q.at = "post" => q.op \in Op /\ q.op # o)
        BY <1>4, <3>1, DebtFacts DEF OnOp, Token
      <3>3. Knows(q, n)  BY <1>6, <3>2 DEF Knows
      <3>4. q = req'[p]  BY <1>3, <2>2, <3>1 DEF Leave
      <3>5. Knows(q, book)'  BY <1>1, <1>3, <3>3 DEF Knows
      <3>6. QED  BY <3>4, <3>5
    <2>3. QED  BY <2>1, <2>2
  <1>13. QED  BY <1>5, <1>9, <1>10, <1>11, <1>12 DEF DebtInv, Ages

LEMMA PostAmbiguousDebt ==
  ASSUME BillInv, DebtInv, BillInv', NEW r \in Request, PostAmbiguous(r)
  PROVE  DebtInv'
  <1>1. PICK n : n = book'  OBVIOUS
  <1>2. PICK o : o = req[r].op  OBVIOUS
  <1>3. /\ book \in Book /\ OpsOK(book) /\ RowOK(book)
        /\ o \in Op /\ UNCHANGED asaas /\ Leave(r)
        /\ n = Cas(book, o, {"creating"}, "reconciling")
    BY <1>1, <1>2, DebtFacts DEF PostAmbiguous, OnOp
  <1>4. OpsOK(n) /\ RowOK(n) /\ Onward(book, n)  BY <1>3, CasDebt DEF Unclaimed
  <1>5. QED  BY <1>1, <1>3, <1>4, LeavingDebt

\* A charge found under the key was posted.
LEMMA ReconcileDebt ==
  ASSUME BillInv, DebtInv, BillInv', NEW r \in Request, Reconcile(r)
  PROVE  DebtInv'
  <1>1. PICK n : n = book'  OBVIOUS
  <1>2. PICK q : q = req[r]  OBVIOUS
  <1>3. PICK o : o = q.op  OBVIOUS
  <1> DEFINE k == [q EXCEPT !.at = "adopt", !.seen = charge[o]]
  <1>4. /\ World /\ book \in Book /\ OpsOK(book) /\ RowOK(book)
        /\ q \in Req /\ o \in Op /\ UNCHANGED asaas /\ req \in [Request -> Req]
        /\ \/ charge[o] # "none" /\ n = book
              /\ req' = [req EXCEPT ![r].at = "adopt", ![r].seen = charge[o]]
           \/ n = Cas(book, o, {"creating"}, "reconciling") /\ Leave(r)
    BY <1>1, <1>2, <1>3, DebtFacts DEF Reconcile, OnOp
  <1>5. CASE charge[o] # "none" /\ n = book
             /\ req' = [req EXCEPT ![r].at = "adopt", ![r].seen = charge[o]]
    <2>1. req' = [req EXCEPT ![r] = k]  BY <1>2, <1>4, <1>5
    <2>2. k.at = "adopt" /\ k.op = o /\ k.seen = charge[o]  BY <1>3, <1>4 DEF Req
    <2> HIDE DEF k
    <2>3. posted[o] = 1  BY <1>4, <1>5 DEF World
    <2>4. Knows(k, n)  BY <2>2, <2>3 DEF Knows, Restore
    <2>5. QED  BY <1>1, <1>4, <1>5, <2>1, <2>4, StepDebt, OnwardSame
  <1>6. CASE n = Cas(book, o, {"creating"}, "reconciling") /\ Leave(r)
    <2>1. OpsOK(n) /\ RowOK(n) /\ Onward(book, n)  BY <1>4, <1>6, CasDebt DEF Unclaimed
    <2>2. QED  BY <1>1, <1>4, <1>6, <2>1, LeavingDebt
  <1>7. QED  BY <1>4, <1>5, <1>6

LEMMA AdoptDebt ==
  ASSUME BillInv, DebtInv, BillInv', NEW r \in Request, Adopt(r)
  PROVE  DebtInv'
  <1>1. PICK n : n = book'  OBVIOUS
  <1>2. PICK q : q = req[r]  OBVIOUS
  <1>3. PICK o : o = q.op  OBVIOUS
  <1>4. PICK k : k = [book EXCEPT !.pays[o] = "own", !.st[o] = "created"]  OBVIOUS
  <1>5. /\ World /\ book \in Book /\ BookOK(book) /\ OpsOK(book) /\ RowOK(book)
        /\ o \in Op /\ UNCHANGED asaas /\ Leave(r) /\ Room(book)
        /\ n = IF book.st[o] \in {"creating", "reconciling"}
               THEN OperationEvent(k, o, q.seen) ELSE book
        /\ posted[o] = 1 /\ (q.seen \in Reversal => charge[o] = q.seen)
    BY <1>1, <1>2, <1>3, <1>4, DebtFacts DEF Adopt, OnOp, Knows
  <1>6. CASE book.st[o] \in {"creating", "reconciling"}
    <2>1. k = [book EXCEPT !.st[o] = "created", !.pays[o] = "own"]  BY <1>4
    <2>2. OpsOK(k) /\ RowOK(k) /\ Onward(book, k) /\ k \in Book /\ k.src = book.src
          /\ k.st = [book.st EXCEPT ![o] = "created"]
      BY <1>5, <1>6, <2>1, AdoptedDebt
    <2>3. k.src[o] \in Cycle  BY <1>5, <1>6, <2>2 DEF BookOK
    <2>4. Room(k)
      <3>1. PICK p \in Op : book.st[p] = "none"  BY <1>5 DEF Room
      <3>2. k.st[p] = "none"  BY <1>5, <1>6, <2>2, <3>1, BookNumbers
      <3>3. QED  BY <3>2 DEF Room
    <2>5. n = OperationEvent(k, o, q.seen)  BY <1>5, <1>6
    <2>6. OpsOK(n) /\ RowOK(n) /\ Onward(k, n)
      BY <1>5, <2>2, <2>3, <2>4, <2>5, OperationEventDebt
    <2>7. Onward(book, n)  BY <2>2, <2>6 DEF Onward
    <2>8. QED  BY <1>1, <1>5, <2>6, <2>7, LeavingDebt
  <1>7. CASE book.st[o] \notin {"creating", "reconciling"}
    <2>1. n = book  BY <1>5, <1>7
    <2>2. QED  BY <1>1, <1>5, <2>1, LeavingDebt, OnwardSame
  <1>8. QED  BY <1>6, <1>7

\* No invoice pays for an operation, so the charge is what is read.
LEMMA ReadTrackedDebt ==
  ASSUME BillInv, DebtInv, BillInv', NEW r \in Request, ReadTracked(r)
  PROVE  DebtInv'
  <1>1. PICK n : n = book'  OBVIOUS
  <1>2. PICK q : q = req[r]  OBVIOUS
  <1>3. PICK o : o = q.op  OBVIOUS
  <1> DEFINE k == [q EXCEPT !.at = "apply", !.seen = charge[o]]
  <1>4. /\ World /\ OpsOK(book) /\ RowOK(book)
        /\ q \in Req /\ o \in Op /\ UNCHANGED asaas /\ n = book
        /\ req \in [Request -> Req]
    BY <1>1, <1>2, <1>3, DebtFacts DEF ReadTracked, OnOp
  <1>5. book.pays[o] # "source"  BY <1>4 DEF OpsOK, OpOK
  <1>6. req' = [req EXCEPT ![r].at = "apply", ![r].seen = charge[o]]
    BY <1>2, <1>3, <1>5 DEF ReadTracked
  <1>7. req' = [req EXCEPT ![r] = k]  BY <1>2, <1>4, <1>6
  <1>8. k.at = "apply" /\ k.op = o /\ k.seen = charge[o]  BY <1>3, <1>4 DEF Req
  <1> HIDE DEF k
  <1>9. charge[o] = "paid" => posted[o] = 1  BY <1>4 DEF World
  <1>10. Knows(k, n)  BY <1>8, <1>9 DEF Knows, Restore
  <1>11. QED  BY <1>1, <1>4, <1>7, <1>10, StepDebt, OnwardSame

LEMMA ApplyTrackedDebt ==
  ASSUME BillInv, DebtInv, BillInv', NEW r \in Request, ApplyTracked(r)
  PROVE  DebtInv'
  <1>1. PICK n : n = book'  OBVIOUS
  <1>2. PICK q : q = req[r]  OBVIOUS
  <1>3. PICK o : o = q.op  OBVIOUS
  <1>4. /\ World /\ book \in Book /\ BookOK(book) /\ OpsOK(book) /\ RowOK(book)
        /\ o \in Op /\ UNCHANGED asaas /\ Leave(r) /\ Room(book)
        /\ n = IF book.st[o] = "created" THEN OperationEvent(book, o, q.seen) ELSE book
        /\ q.seen = "paid" => posted[o] = 1
        /\ q.seen \in Reversal => charge[o] = q.seen
    BY <1>1, <1>2, <1>3, DebtFacts DEF ApplyTracked, OnOp, Knows
  <1>5. CASE book.st[o] = "created"
    <2>1. book.src[o] \in Cycle  BY <1>4, <1>5 DEF BookOK
    <2>2. n = OperationEvent(book, o, q.seen)  BY <1>4, <1>5
    <2>3. OpsOK(n) /\ RowOK(n) /\ Onward(book, n)
      BY <1>4, <2>1, <2>2, OperationEventDebt
    <2>4. QED  BY <1>1, <1>4, <2>3, LeavingDebt
  <1>6. CASE book.st[o] # "created"
    <2>1. n = book  BY <1>4, <1>6
    <2>2. QED  BY <1>1, <1>4, <2>1, LeavingDebt, OnwardSame
  <1>7. QED  BY <1>5, <1>6

LEMMA AbortDebt ==
  ASSUME BillInv, DebtInv, BillInv', NEW r \in Request, Abort(r)
  PROVE  DebtInv'
  <1>1. PICK n : n = book'  OBVIOUS
  <1>2. n = book /\ Leave(r) /\ UNCHANGED asaas  BY <1>1 DEF Abort
  <1>3. OpsOK(n) /\ RowOK(n)  BY <1>2 DEF DebtInv
  <1>4. QED  BY <1>1, <1>2, <1>3, LeavingDebt, OnwardSame

-----------------------------------------------------------------------------
(* The theorems *)

LEMMA InitDebt == ASSUME Init PROVE DebtInv
  <1>1. book \in Book /\ 1 \in Nat  BY InitStep DEF BillInv, BookOK
  <1>2. /\ book.cur = 1 /\ book.rev = "none"
        /\ \A o \in Op : /\ book.st[o] = "none" /\ book.src[o] = 0 /\ book.pays[o] = "none"
                         /\ Untouched(o)
    BY DEF Init, Untouched
  <1>3. OpenOps(book) = {}  BY <1>2 DEF OpenOps, OpenStatus
  <1>4. ASSUME NEW o \in Op PROVE OpOK(book, o)
    BY <1>2 DEF OpOK
  <1>5. Sole(book) /\ Represented(book)  BY <1>2 DEF Sole, Represented
  <1>6. RowOK(book)  BY <1>2, <1>3 DEF RowOK
  <1>7. NoticesTrue /\ Undeleted  BY DEF Init, NoticesTrue, Undeleted
  <1>8. \A r \in Request : Knows(req[r], book)  BY IdleKnows DEF Init
  <1>9. QED  BY <1>4, <1>5, <1>6, <1>7, <1>8 DEF DebtInv, OpsOK

LEMMA RecoveringDebt ==
  ASSUME BillInv, DebtInv, BillInv', NEW r \in Request, Recovering(r)
  PROVE  DebtInv'
  <1>1. CASE Recover(r) \/ Ensure(r) \/ Claim(r) \/ Post(r) \/ PostDisabled(r)
    BY <1>1, RecoverDebt, EnsureDebt, ClaimDebt, PostDebt, PostDisabledDebt
  <1>2. CASE PostAnswered(r) \/ PostRejected(r) \/ PostAmbiguous(r)
    BY <1>2, PostAnsweredDebt, PostRejectedDebt, PostAmbiguousDebt
  <1>3. CASE Reconcile(r) \/ Adopt(r) \/ ReadTracked(r) \/ ApplyTracked(r)
    BY <1>3, ReconcileDebt, AdoptDebt, ReadTrackedDebt, ApplyTrackedDebt
  <1>4. QED  BY <1>1, <1>2, <1>3, NoRestore DEF Recovering

LEMMA NextDebt ==
  ASSUME RefundsOnly, BillInv, DebtInv, BillInv', [Next]_vars
  PROVE  DebtInv'
  <1>1. CASE External
    BY <1>1, IssueDebt, TurnInvoiceDebt, TurnChargeDebt, ArriveDebt DEF External
  <1>2. CASE \E n \in notices : Webhook(n)  BY <1>2, WebhookDebt
  <1>3. CASE \E r \in Request : Reading(r) \/ Recovering(r) \/ Abort(r)
    BY <1>3, ReadInvoiceDebt, ApplySnapshotDebt, RecoveringDebt, AbortDebt DEF Reading
  <1>4. CASE UNCHANGED vars
    <2>1. UNCHANGED <<invoice, charge, posted, restored, flight, notices, book, req>>
      BY <1>4 DEF vars
    <2>2. Ages  BY <2>1, AgesSame DEF DebtInv
    <2>3. QED  BY <2>1, <2>2, Ageing
  <1>5. QED  BY <1>1, <1>2, <1>3, <1>4 DEF Next

\* The inductive invariant: nothing is ever restored.
THEOREM DebtInvariance ==
  ASSUME RefundsOnly
  PROVE  Spec => [](BillInv /\ DebtInv)
  <1>1. Init => BillInv /\ DebtInv  BY InitStep, InitDebt
  <1>2. DebtInv => StaysRestored  BY DEF DebtInv, Undeleted, StaysRestored
  <1>3. BillInv /\ DebtInv /\ [Next]_vars => (BillInv /\ DebtInv)'
    BY <1>2, NextStep, NextDebt
  <1>4. QED  BY <1>1, <1>3, PTL DEF Spec

\* An invoice never has two operations that are open or paid, whichever
\* requests race to stage its debt, and whichever reversal is told twice or
\* late (find_settled_recovery, billing_payment_operations_open_uidx).
THEOREM OneClaim ==
  ASSUME RefundsOnly
  PROVE  Spec => []OneClaimPerSource
  <1>1. DebtInv => OneClaimPerSource
    BY DEF DebtInv, OpsOK, Sole, OneClaimPerSource
  <1>2. QED  BY <1>1, DebtInvariance, PTL

\* The gate is closed over a debt: while the church is served, no reversal is
\* on record and every source that ever had an operation is settled or was
\* refused, whatever stale answers the requests apply
\* (_apply_asaas_webhook, _apply_operation_event, recover_invoice).
THEOREM GateClosedOverDebt ==
  ASSUME RefundsOnly
  PROVE  Spec => []GateMeansNoDebt
  <1>1. ASSUME DebtInv, book.gate, NEW o \in Op, book.src[o] # 0,
               ~Refused(book, book.src[o])
        PROVE  Settled(book, book.src[o]) /\ OpenFor(book, book.src[o]) = {}
    <2>1. PICK q \in Op : book.src[q] = book.src[o] /\ book.st[q] \in Standing \cup {"failed"}
      BY <1>1 DEF DebtInv, OpsOK, Represented
    <2>2. OpenOps(book) = {}  BY <1>1 DEF DebtInv, RowOK
    <2>3. OpenFor(book, book.src[o]) = {}  BY <2>2 DEF OpenFor
    <2>4. book.st[q] # "failed"  BY <1>1, <2>1 DEF Refused
    <2>5. book.st[q] \notin OpenStatus  BY <2>2 DEF OpenOps
    <2>6. book.st[q] = "paid"  BY <2>1, <2>4, <2>5 DEF Standing
    <2>7. QED  BY <2>1, <2>3, <2>6 DEF Settled
  <1>2. DebtInv => GateMeansNoDebt
    <2>1. DebtInv /\ book.gate => book.rev = "none"  BY DEF DebtInv, RowOK
    <2>2. QED  BY <1>1, <2>1 DEF GateMeansNoDebt
  <1>3. QED  BY <1>2, DebtInvariance, PTL

\* A month is payable once: no key is posted twice, of the charges of a source
\* at most one can be paid or is paid, and beside it the invoice is dead,
\* whichever of the requests wins the claim, dies, or reads before the other
\* writes (ensure_payment_operation, claim_transition, recover_invoice).
THEOREM BilledOnce ==
  ASSUME RefundsOnly
  PROVE  Spec => []MonthBilledOnce
  <1>1. ASSUME BillInv, DebtInv, NEW c \in Cycle, NEW o \in LiveCharges(c)
        PROVE  /\ o \in Op /\ book.src[o] = c /\ book.st[o] \in Standing
               /\ invoice[c] = "refunded"
    <2>1. /\ o \in Op /\ book.src[o] = c /\ charge[o] \in Live /\ World /\ OpsOK(book)
          /\ book \in Book
      BY <1>1, BillWorld DEF LiveCharges, DebtInv
    <2>2. posted[o] = 1  BY <2>1, LiveOrDead DEF World
    <2>3. OpOK(book, o) /\ book.st[o] # "reversed"
      BY <2>1 DEF OpsOK, OpOK
    <2>4. book.st[o] \in Standing /\ book.st[o] \notin Unclaimed
      BY <2>1, <2>2, <2>3, Stands
    <2>5. book.st[o] # "none"  BY <2>4 DEF Unclaimed
    <2>6. QED  BY <2>1, <2>3, <2>4, <2>5 DEF OpOK
  <1>2. ASSUME BillInv, DebtInv, NEW c \in Cycle
        PROVE  Cardinality(LiveCharges(c)) <= 1 /\ (invoice[c] \in Live => LiveCharges(c) = {})
    <2>1. invoice[c] \in Live => LiveCharges(c) = {}
      BY <1>1, <1>2 DEF Live
    <2>2. ASSUME NEW o \in LiveCharges(c), NEW q \in LiveCharges(c) PROVE o = q
      <3>1. o \in Op /\ book.src[o] = c /\ book.st[o] \in Standing  BY <1>1, <1>2
      <3>2. q \in Op /\ book.src[q] = c /\ book.st[q] \in Standing  BY <1>1, <1>2
      <3>3. Sole(book) /\ c # 0  BY <1>2, CycleNotZero DEF DebtInv, OpsOK
      <3>4. QED  BY <3>1, <3>2, <3>3 DEF Sole
    <2>3. CASE LiveCharges(c) = {}
      <3>1. Cardinality(LiveCharges(c)) = 0  BY <2>3, FS_EmptySet
      <3>2. QED  BY <2>1, <3>1
    <2>4. CASE LiveCharges(c) # {}
      <3>1. \E o : LiveCharges(c) = {o}
        <4>1. PICK o : o \in LiveCharges(c)  BY <2>4
        <4>2. LiveCharges(c) = {o}  BY <2>2, <4>1
        <4>3. QED  BY <4>2
      <3>2. PICK o : LiveCharges(c) = {o}  BY <3>1
      <3>3. Cardinality(LiveCharges(c)) = 1  BY <3>2, FS_Singleton, Zenon
      <3>4. QED  BY <2>1, <3>3
    <2>5. QED  BY <2>3, <2>4
  <1>3. BillInv /\ DebtInv => MonthBilledOnce
    <2>1. BillInv => \A o \in Op : posted[o] <= 1  BY DEF BillInv, AsaasType
    <2>2. QED  BY <1>2, <2>1 DEF MonthBilledOnce
  <1>4. QED  BY <1>3, DebtInvariance, PTL

=============================================================================
