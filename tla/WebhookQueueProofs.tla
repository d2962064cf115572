------------------------- MODULE WebhookQueueProofs -------------------------
(***************************************************************************)
(* Proofs, for every set of workers, claims and faults and every           *)
(* MAX_ATTEMPTS, of the safety properties of WebhookQueue.                 *)
(***************************************************************************)
EXTENDS WebhookQueue, TLAPS

-----------------------------------------------------------------------------
(* Types. *)

\* The records the actions build are raws and retry states.
LEMMA RawFacts ==
    /\ \A r \in Raw : r.claim \in Claim /\ r.attempts \in 0 .. MaxAttempts
    /\ \A c \in Claim : [claim |-> c, attempts |-> 0] \in Raw
    /\ NoRaw \notin Raw
    /\ MaxAttempts \in Nat /\ MaxAttempts > 0
BY QueueAssumption DEF Raw

LEMMA InitTypes == Init => TypeOK /\ LocalsMeanSomething
BY QueueAssumption DEF Init, TypeOK, LocalsMeanSomething, Busy, RetryState, NoState,
   Status, Marker, PC

\* The environment's steps and the life of a worker keep the types.
LEMMA LifeTypes ==
    ASSUME TypeOK, LocalsMeanSomething,
           Environment \/ \E w \in Worker : Unregister(w)
    PROVE  TypeOK' /\ LocalsMeanSomething'
<1> USE RawFacts
<1>1. ASSUME NEW c \in Claim, Enqueue(c) PROVE TypeOK' /\ LocalsMeanSomething'
  BY <1>1 DEF Enqueue, Push, TypeOK, LocalsMeanSomething, owners, local
<1>2. ASSUME NEW w \in Worker, Register(w) PROVE TypeOK' /\ LocalsMeanSomething'
  BY <1>2 DEF Register, Goto, TypeOK, LocalsMeanSomething, Busy, PC, lists, owners,
     local, history
<1>3. ASSUME NEW w \in Worker, Shutdown(w) \/ Crash(w)
      PROVE  TypeOK' /\ LocalsMeanSomething'
  BY <1>3 DEF Shutdown, Crash, Leave, Goto, Forget, ForgetAll, TypeOK,
     LocalsMeanSomething, Busy, PC, lists, owners, history
<1>4. ASSUME NEW w \in Worker, LeaseExpires(w) \/ RecoveryLockExpires(w)
      PROVE  TypeOK' /\ LocalsMeanSomething'
  BY <1>4 DEF LeaseExpires, RecoveryLockExpires, TypeOK, LocalsMeanSomething, lists,
     local, history
<1>5. ASSUME NEW m \in Provider, MarkerExpires(m) PROVE TypeOK' /\ LocalsMeanSomething'
  BY <1>5 DEF MarkerExpires, TypeOK, LocalsMeanSomething, Marker, lists, owners,
     local, history
<1>6. ASSUME NEW w \in Worker, Unregister(w) PROVE TypeOK' /\ LocalsMeanSomething'
  BY <1>6 DEF Unregister, Goto, TypeOK, LocalsMeanSomething, Busy, PC, lists,
     local, history
<1> QED
  BY <1>1, <1>2, <1>3, <1>4, <1>5, <1>6 DEF Environment
\* The steps of _claim_next up to the pop keep the types.
LEMMA ClaimTypes ==
    ASSUME TypeOK, LocalsMeanSomething, NEW w \in Worker,
           \/ RenewLease(w) \/ ClaimNextError(w) \/ RequeueOwnClaims(w)
           \/ \E o \in Worker : BeginRecovery(w, o)
           \/ DrainOne(w) \/ EndRecovery(w) \/ RecoveryError(w)
           \/ \E r \in Raw : PromoteDueRetry(w, r) \/ PopReady(w, r)
           \/ PopNothing(w)
    PROVE  TypeOK' /\ LocalsMeanSomething'
<1> USE RawFacts
<1>1. CASE RenewLease(w) \/ ClaimNextError(w) \/ PopNothing(w)
  BY <1>1 DEF RenewLease, ClaimNextError, PopNothing, Leave, NextUnverified, Goto,
     Forget, ForgetAll, TypeOK, LocalsMeanSomething, Busy, PC, lists, owners, local,
     history
<1>2. CASE RequeueOwnClaims(w)
  BY <1>2 DEF RequeueOwnClaims, Push, Remove, TypeOK, LocalsMeanSomething, owners,
     history
<1>3. ASSUME NEW o \in Worker, BeginRecovery(w, o)
      PROVE  TypeOK' /\ LocalsMeanSomething'
  BY <1>3 DEF BeginRecovery, Goto, TypeOK, LocalsMeanSomething, Busy, PC, lists, history
<1>4. CASE DrainOne(w)
  <2>1. target[w] \in Worker
    BY <1>4 DEF DrainOne, LocalsMeanSomething
  <2> QED
    BY <1>4, <2>1 DEF DrainOne, Push, Remove, Goto, TypeOK, LocalsMeanSomething, Busy,
       PC, owners, local, history
<1>5. CASE EndRecovery(w) \/ RecoveryError(w)
  <2>1. target[w] \in Worker
    BY <1>5 DEF EndRecovery, RecoveryError, LocalsMeanSomething
  <2> QED
    BY <1>5, <2>1 DEF EndRecovery, RecoveryError, ReleaseLock, NextUnverified, Goto,
       Forget, TypeOK, LocalsMeanSomething, Busy, PC, lists, history
<1>6. ASSUME NEW r \in Raw, PromoteDueRetry(w, r)
      PROVE  TypeOK' /\ LocalsMeanSomething'
  <2>1. ready' \in [Raw -> Nat] /\ scheduled' \subseteq Raw
    BY <1>6 DEF PromoteDueRetry, PushIfAbsent, Push, TypeOK
  <2>2. UNCHANGED <<pc, local>> \/ Leave(w)
    BY <1>6 DEF PromoteDueRetry
  <2>3. UNCHANGED <<processing, dead, retry, owners, marker, persisted, history>>
    BY <1>6 DEF PromoteDueRetry
  <2> QED
    BY <2>1, <2>2, <2>3 DEF Leave, Goto, Forget, ForgetAll,
       TypeOK, LocalsMeanSomething, Busy, PC, owners, local, history
<1>7. ASSUME NEW r \in Raw, PopReady(w, r) PROVE TypeOK' /\ LocalsMeanSomething'
  BY <1>7 DEF PopReady, Pop, Take, NextUnverified, Goto, Forget, TypeOK,
     LocalsMeanSomething, Busy, PC, owners, history
<1> QED
  BY <1>1, <1>2, <1>3, <1>4, <1>5, <1>6, <1>7

\* The steps of handle_envelope that leave the lists alone keep the types.
LEMMA HandleTypes ==
    ASSUME TypeOK, LocalsMeanSomething, NEW w \in Worker,
           \/ Fence(w) \/ ClaimMarker(w) \/ ReadMarker(w) \/ Ingest(w) \/ Commit(w)
           \/ Release(w) \/ StartTurn(w) \/ AgentTurn(w) \/ Finish(w)
    PROVE  TypeOK' /\ LocalsMeanSomething'
<1>1. /\ held[w] \in Raw /\ ClaimOf(w) \in Claim /\ ProviderHeld(w) \in Provider
      /\ Payload[ClaimOf(w)] # "malformed"
  BY RawFacts, QueueAssumption DEF Fence, ClaimMarker, ReadMarker, Ingest, Commit,
     Release, StartTurn, AgentTurn, Finish, LocalsMeanSomething, Busy, ClaimOf,
     ProviderHeld
<1>2. CASE Fence(w) \/ Ingest(w)
  BY <1>1, <1>2 DEF Fence, Ingest, FenceFails, Leave, Goto, Forget, ForgetAll, TypeOK,
     LocalsMeanSomething, Busy, PC, ClaimOf, lists, owners, local, history
<1>3. CASE ClaimMarker(w) \/ ReadMarker(w)
  BY <1>1, <1>3 DEF ClaimMarker, ReadMarker, Goto, TypeOK, LocalsMeanSomething, Busy,
     PC, Marker, ClaimOf, lists, owners, local, history
<1>4. CASE Commit(w)
  BY <1>1, <1>4 DEF Commit, AfterIngestion, Goto, TypeOK, LocalsMeanSomething, Busy,
     PC, ClaimOf, lists, owners, local, history
<1>5. CASE Release(w) \/ Finish(w)
  BY <1>1, <1>5 DEF Release, Finish, Leave, Goto, Forget, ForgetAll, TypeOK,
     LocalsMeanSomething, Busy, PC, Marker, ClaimOf, lists, owners, local, history
<1>6. CASE StartTurn(w) \/ AgentTurn(w)
  BY <1>1, <1>6 DEF StartTurn, AgentTurn, FenceFails, Leave, Goto, Forget, ForgetAll,
     TypeOK, LocalsMeanSomething, Busy, PC, ClaimOf, lists, owners, local, history
<1> QED
  BY <1>2, <1>3, <1>4, <1>5, <1>6
\* What every step that moves a raw knows of it.
LEMMA HeldFacts ==
    ASSUME TypeOK, LocalsMeanSomething, BelowLimit, NEW w \in Worker, pc[w] \in Busy
    PROVE  /\ held[w] \in Raw /\ ClaimOf(w) \in Claim
           /\ held[w].claim = ClaimOf(w)
           /\ held[w] \in CopiesOf(ClaimOf(w))
           /\ held[w].attempts \in 0 .. MaxAttempts
           /\ held[w].attempts < MaxAttempts
           /\ Canonical(ClaimOf(w)) \in Raw
           /\ [held[w] EXCEPT !.attempts = @ + 1] \in Raw
           /\ retry[ClaimOf(w)] \in RetryState
<1>1. held[w] \in Raw
  BY DEF LocalsMeanSomething
<1>2. held[w].attempts < MaxAttempts
  BY <1>1 DEF BelowLimit
<1> QED
  BY <1>1, <1>2, RawFacts DEF ClaimOf, Canonical, Raw, TypeOK, RetryState, CopiesOf

\* The steps that end a claim keep the types.
LEMMA SettleTypes ==
    ASSUME TypeOK, LocalsMeanSomething, BelowLimit, NEW w \in Worker,
           Reconcile(w) \/ DiscardMalformed(w) \/ Ack(w) \/ Fail(w)
    PROVE  TypeOK' /\ LocalsMeanSomething'
<1> DEFINE c == ClaimOf(w)
           r == held[w]
<1>1. pc[w] \in Busy
  BY DEF Reconcile, DiscardMalformed, Ack, Fail, Busy
<1>2. /\ r \in Raw /\ c \in Claim /\ r.claim = c /\ Canonical(c) \in Raw
      /\ [r EXCEPT !.attempts = @ + 1] \in Raw
      /\ retry[c] \in RetryState
  BY <1>1, HeldFacts
<1> HIDE DEF c, r
<1>3. CASE Reconcile(w)
  <2>1. Restored(c) \in [Claim -> RetryState]
    BY <1>2 DEF Restored, TypeOK, RetryState, Status
  <2>a. HalfRestored(c) \in [Claim -> RetryState]
    BY <1>2 DEF HalfRestored, TypeOK, RetryState, Status
  <2>2. [retry EXCEPT ![c].status = "processing", ![c].owner = w]
           \in [Claim -> RetryState]
    BY <1>2 DEF TypeOK, RetryState, Status
  <2>3. /\ retry' \in [Claim -> RetryState]
        /\ processing' \in [Worker -> SUBSET Raw]
        /\ ready' \in [Raw -> Nat] /\ scheduled' \subseteq Raw /\ dead' \subseteq Raw
    <3>1. retry' \in {retry, Restored(c), HalfRestored(c),
                     [retry EXCEPT ![c].status = "processing", ![c].owner = w]}
      BY <1>3 DEF Reconcile, c
    <3>2. RestoreCanonical(c) \/ UNCHANGED <<ready, scheduled, dead>>
      BY <1>3 DEF Reconcile, c, lists
    <3>3. processing' \in {processing, Remove(w, r)}
      BY <1>3 DEF Reconcile, r, lists
    <3>4. retry' \in [Claim -> RetryState] /\ processing' \in [Worker -> SUBSET Raw]
      <4>1. retry \in [Claim -> RetryState] /\ processing \in [Worker -> SUBSET Raw]
        BY DEF TypeOK
      <4>2. Remove(w, r) \in [Worker -> SUBSET Raw]
        BY <4>1 DEF Remove
      <4>3. retry' \in [Claim -> RetryState]
        BY <2>1, <2>2, <2>a, <3>1, <4>1
      <4>4. processing' \in [Worker -> SUBSET Raw]
        BY <3>3, <4>1, <4>2
      <4> QED
        BY <4>3, <4>4
    <3>5. ready' \in [Raw -> Nat] /\ scheduled' \subseteq Raw /\ dead' \subseteq Raw
      BY <1>2, <3>2 DEF RestoreCanonical, PushIfAbsent, Push, TypeOK
    <3> QED
      BY <3>4, <3>5
  <2>4. /\ pc' \in [Worker -> PC]
        /\ held' \in [Worker -> Raw \cup {NoRaw}]
        /\ resumed' \subseteq Worker /\ unverified' \subseteq Worker
        /\ target' \in [Worker -> Worker \cup {NoWorker}]
        /\ LocalsMeanSomething'
    BY <1>2, <1>3 DEF Reconcile, NextClaim, NextUnverified, Leave, Goto, Forget,
       ForgetAll, TypeOK, LocalsMeanSomething, Busy, PC, ClaimOf, local, c, r
  <2> QED
    BY <1>3, <2>3, <2>4 DEF Reconcile, TypeOK, owners, history
<1>4. CASE DiscardMalformed(w)
  BY <1>2, <1>4 DEF DiscardMalformed, NextClaim, NextUnverified, Goto, Forget, Remove,
     TypeOK, LocalsMeanSomething, Busy, PC, owners, c, r
<1>5. CASE Ack(w)
  <2>1. Closed(c) \in [Claim -> RetryState]
    BY <1>2 DEF Closed, TypeOK, RetryState, Status
  <2> QED
    BY <1>2, <1>5, <2>1 DEF Ack, NextClaim, NextUnverified, Goto, Forget, Remove,
       TypeOK, LocalsMeanSomething, Busy, PC, owners, c, r
<1>6. CASE Fail(w)
  <2> DEFINE next == [r EXCEPT !.attempts = @ + 1]
             status == Destination(pc[w], next.attempts)
             saved(o) == [retry EXCEPT ![r.claim] =
                           [status |-> status, attempts |-> next.attempts, owner |-> o]]
  <2>1. status \in Status /\ next \in Raw /\ next.attempts \in 0 .. MaxAttempts
    BY <1>2, RawFacts DEF Destination, Status
  <2>2. \A o \in Worker \cup {NoWorker} : saved(o) \in [Claim -> RetryState]
    BY <1>2, <2>1 DEF TypeOK, RetryState
  <2>3. retry[c].owner \in Worker \cup {NoWorker}
    BY <1>2 DEF RetryState
  <2> HIDE DEF next, status
  <2>4. /\ retry' \in [Claim -> RetryState]
        /\ processing' \in [Worker -> SUBSET Raw]
        /\ ready' \in [Raw -> Nat] /\ scheduled' \subseteq Raw /\ dead' \subseteq Raw
    <3>1. retry' \in {retry, saved(NoWorker), saved(retry[c].owner)}
      BY <1>2, <1>6 DEF Fail, next, status, r
    <3>2. Deliver(status, next) \/ UNCHANGED <<ready, scheduled, dead>>
      BY <1>6 DEF Fail, next, status, r, lists
    <3>3. processing' \in {processing, Remove(w, r)}
      BY <1>6 DEF Fail, r, lists
    <3> QED
      BY <1>2, <2>1, <2>2, <2>3, <3>1, <3>2, <3>3 DEF Deliver, PushIfAbsent, Push,
         Remove, TypeOK
  <2>5. /\ pc' \in [Worker -> PC]
        /\ held' \in [Worker -> Raw \cup {NoRaw}]
        /\ resumed' \subseteq Worker /\ unverified' \subseteq Worker
        /\ target' \in [Worker -> Worker \cup {NoWorker}]
        /\ LocalsMeanSomething'
    BY <1>6 DEF Fail, NextClaim, Leave, Goto, Forget, ForgetAll, TypeOK,
       LocalsMeanSomething, Busy, PC
  <2> QED
    BY <1>6, <2>4, <2>5 DEF Fail, TypeOK, owners, history
<1> QED
  BY <1>3, <1>4, <1>5, <1>6
-----------------------------------------------------------------------------
(* The invariants on the lists, the retry states and the acknowledgements. *)

CoreInv ==
    /\ BelowLimit /\ NothingInvented /\ FirstAttemptUnique /\ AckMatchesState
    /\ NothingLost

\* What CoreInv speaks of, besides the raws in the workers' hands.
core == <<ready, processing, scheduled, dead, retry, enqueued, acked>>

\* No worker takes a raw in hand.
HeldKept == \A w \in Worker : held'[w] \in {held[w], NoRaw}

LEMMA InitCore == Init => CoreInv
BY RawFacts DEF Init, CoreInv, BelowLimit, NothingInvented, FirstAttemptUnique,
   OnePlace, AckMatchesState, NothingLost, Live, CopiesOf, NoState

\* What the list operations do, element by element.
LEMMA ReadyFacts ==
    ASSUME TypeOK, NEW r \in Raw
    PROVE  /\ ready[r] \in Nat
           /\ Push(r)[r] = ready[r] + 1 /\ Pop(r)[r] = ready[r] - 1
           /\ PushIfAbsent(r)[r] > 0
           /\ \A q \in Raw : q # r => /\ Push(r)[q] = ready[q]
                                     /\ Pop(r)[q] = ready[q]
                                     /\ PushIfAbsent(r)[q] = ready[q]
BY DEF TypeOK, Push, Pop, PushIfAbsent

LEMMA PrivateListFacts ==
    ASSUME TypeOK, NEW r \in Raw, NEW o \in Worker
    PROVE  \A w \in Worker : \A q \in Raw :
             /\ q \in Remove(o, r)[w] <=> q \in processing[w] /\ ~(w = o /\ q = r)
             /\ q \in Take(o, r)[w] <=> q \in processing[w] \/ (w = o /\ q = r)
BY DEF TypeOK, Remove, Take

\* A step that touches neither lists nor states keeps the invariant.
LEMMA QuietStep ==
    ASSUME TypeOK, CoreInv, UNCHANGED core, HeldKept
    PROVE  CoreInv'
<1>1. BelowLimit'
  BY RawFacts DEF CoreInv, BelowLimit, Live, HeldKept, core
<1>2. FirstAttemptUnique'
  BY DEF CoreInv, FirstAttemptUnique, OnePlace, Live, CopiesOf, core
<1>3. AckMatchesState'
  BY DEF CoreInv, AckMatchesState, core
<1>4. NothingLost'
  BY DEF CoreInv, NothingLost, HasCopy, CopiesOf, core
<1>5. NothingInvented'
  BY DEF CoreInv, NothingInvented, Live, core
<1> QED
  BY <1>1, <1>2, <1>3, <1>4, <1>5 DEF CoreInv

\* LMOVE and RPOPLPUSH, from a private list back to the ready list.
LEMMA MoveBackStep ==
    ASSUME TypeOK, CoreInv, HeldKept, NEW o \in Worker, NEW r \in processing[o],
           processing' = Remove(o, r), ready' = Push(r),
           UNCHANGED <<scheduled, dead, retry, enqueued, acked>>
    PROVE  CoreInv'
<1>1. r \in Raw /\ Live(r)
  BY DEF TypeOK, Live
<1>2. ready'[r] = ready[r] + 1 /\ \A q \in Raw : q # r => ready'[q] = ready[q]
  BY <1>1, ReadyFacts
<1>3. \A w \in Worker : \A q \in Raw :
        q \in processing'[w] <=> q \in processing[w] /\ ~(w = o /\ q = r)
  BY <1>1, PrivateListFacts
<1>4. \A q \in Raw : Live(q)' => Live(q)
  BY <1>1, <1>2, <1>3 DEF Live, TypeOK
<1>5. BelowLimit'
  BY <1>4, RawFacts DEF CoreInv, BelowLimit, HeldKept
<1>6. FirstAttemptUnique'
  <2> SUFFICES ASSUME NEW c \in Claim, retry[c].status = "none",
                      NEW q \in CopiesOf(c)
               PROVE  OnePlace(c, q)'
    BY DEF CoreInv, FirstAttemptUnique, CopiesOf
  <2>1. q \in Raw /\ ready[q] \in Nat
    BY DEF CopiesOf, TypeOK
  <2>2. OnePlace(c, q)
    BY DEF CoreInv, FirstAttemptUnique
  <2>3. CASE q = r
    <3>1. ready[q] = 0 /\ \A w \in Worker : q \in processing[w] => w = o
      BY <2>1, <2>2, <2>3 DEF OnePlace
    <3>2. ready'[q] = 1 /\ \A w \in Worker : q \notin processing'[w]
      BY <1>2, <1>3, <2>1, <2>3, <3>1
    <3> QED
      BY <1>4, <2>1, <2>2, <3>2 DEF OnePlace
  <2>4. CASE q # r
    <3>1. ready'[q] = ready[q]
          /\ \A w \in Worker : q \in processing'[w] <=> q \in processing[w]
      BY <1>2, <1>3, <2>1, <2>4
    <3> QED
      BY <1>4, <2>1, <2>2, <3>1 DEF OnePlace
  <2> QED
    BY <2>3, <2>4
<1>7. AckMatchesState'
  BY DEF CoreInv, AckMatchesState
<1>8. NothingLost'
  <2> SUFFICES ASSUME NEW c \in enqueued \ acked PROVE HasCopy(c)'
    BY DEF NothingLost
  <2>1. PICK q \in CopiesOf(c) :
            \/ ready[q] > 0 \/ q \in scheduled \/ q \in dead
            \/ \E w \in Worker : q \in processing[w]
    BY DEF CoreInv, NothingLost, HasCopy
  <2>2. q \in Raw /\ ready[q] \in Nat
    BY DEF CopiesOf, TypeOK
  <2>3. \/ ready'[q] > 0 \/ q \in scheduled' \/ q \in dead'
        \/ \E w \in Worker : q \in processing'[w]
    <3>1. CASE q = r
      BY <1>2, <2>2, <3>1
    <3>2. CASE q # r
      BY <1>2, <1>3, <2>1, <2>2, <3>2
    <3> QED
      BY <3>1, <3>2
  <2> QED
    BY <2>3 DEF HasCopy, CopiesOf
<1>9. NothingInvented'
  BY <1>4 DEF CoreInv, NothingInvented
<1> QED
  BY <1>5, <1>6, <1>7, <1>8, <1>9 DEF CoreInv
\* Raw q lies where it lay.
Same(q) ==
    /\ ready'[q] = ready[q]
    /\ q \in scheduled' <=> q \in scheduled
    /\ q \in dead' <=> q \in dead
    /\ \A w \in Worker : q \in processing'[w] <=> q \in processing[w]

\* Claims still on their first attempt whose raws did not move stay unique.
LEMMA UniqueKept ==
    ASSUME FirstAttemptUnique,
           \A c \in Claim : retry'[c].status = "none" =>
               /\ retry'[c] = retry[c]
               /\ c \in enqueued => c \in enqueued'
               /\ c \in acked' => c \in acked
               /\ \A q \in CopiesOf(c) : Same(q)
    PROVE  FirstAttemptUnique'
BY DEF FirstAttemptUnique, OnePlace, Same, Live, CopiesOf

\* A claim none of whose raws moved, or one of whose raws is there, is not lost.
LEMMA LostKept ==
    ASSUME NothingLost,
           \A c \in enqueued' \ acked' :
               \/ c \in enqueued \ acked /\ \A q \in CopiesOf(c) : Same(q)
               \/ \E q \in CopiesOf(c) : Present(q)'
    PROVE  NothingLost'
BY DEF NothingLost, HasCopy, Same, CopiesOf, Present, Live

\* Raws that become live are below the limit.
LEMMA LimitKept ==
    ASSUME BelowLimit, HeldKept,
           \A q \in Raw : Live(q)' => Live(q) \/ q.attempts < MaxAttempts,
           \A c \in Claim : retry'[c].status # "dead" =>
               \/ retry[c].status # "dead" /\ retry'[c].attempts = retry[c].attempts
               \/ retry'[c].attempts < MaxAttempts
    PROVE  BelowLimit'
BY RawFacts DEF BelowLimit, HeldKept

\* WebhookQueue.enqueue: the claim has no raw yet.
LEMMA EnqueueStep ==
    ASSUME TypeOK, CoreInv, NEW d \in Claim, Enqueue(d)
    PROVE  CoreInv'
<1> DEFINE r == [claim |-> d, attempts |-> 0]
<1>1. /\ r \in Raw /\ r.claim = d /\ r.attempts = 0
      /\ HeldKept /\ ready' = Push(r)
      /\ UNCHANGED <<processing, scheduled, dead, retry, acked>>
      /\ enqueued' = enqueued \cup {d} /\ d \notin enqueued
  BY RawFacts DEF Enqueue, HeldKept, local
<1> HIDE DEF r
<1>2. ready'[r] = ready[r] + 1 /\ \A q \in Raw : q # r => Same(q)
  BY <1>1, ReadyFacts DEF Same
<1>3. ready[r] \in Nat
  BY <1>1 DEF TypeOK
<1>4. BelowLimit'
  <2>1. \A q \in Raw : Live(q)' => Live(q) \/ q.attempts < MaxAttempts
    BY <1>1, <1>2, RawFacts DEF Live, Same
  <2> QED
    BY <1>1, <2>1, LimitKept DEF CoreInv
<1>5. FirstAttemptUnique'
  <2> SUFFICES ASSUME NEW c \in Claim, retry[c].status = "none", NEW q \in CopiesOf(c)
               PROVE  OnePlace(c, q)'
    BY <1>1 DEF CoreInv, FirstAttemptUnique, CopiesOf
  <2>1. q \in Raw /\ q.claim = c /\ ready[q] \in Nat
    BY DEF CopiesOf, TypeOK
  <2>2. OnePlace(c, q)
    BY DEF CoreInv, FirstAttemptUnique
  <2>3. CASE q = r
    <3>1. c = d /\ ~Live(q)
      BY <1>1, <2>1, <2>2, <2>3 DEF OnePlace
    <3>2. ready[q] = 0 /\ \A w \in Worker : q \notin processing[w]
      BY <2>1, <2>2, <3>1 DEF Live, OnePlace
    <3>3. d \notin acked
      BY <1>1 DEF CoreInv, NothingInvented
    <3> QED
      BY <1>1, <1>2, <2>2, <2>3, <3>1, <3>2, <3>3 DEF OnePlace, Live
  <2>4. CASE q # r
    BY <1>1, <1>2, <2>1, <2>2, <2>4 DEF Same, Live, OnePlace
  <2> QED
    BY <2>3, <2>4
<1>6. AckMatchesState'
  BY <1>1 DEF CoreInv, AckMatchesState
<1>7. NothingLost'
  <2>1. Present(r)' /\ r \in CopiesOf(d)
    BY <1>1, <1>2, <1>3 DEF Present, Live, CopiesOf
  <2>2. \A c \in enqueued : c # d => \A q \in CopiesOf(c) : Same(q)
    BY <1>1, <1>2 DEF CopiesOf
  <2> QED
    BY <1>1, <2>1, <2>2, LostKept DEF CoreInv
<1>8. NothingInvented'
  BY <1>1, <1>2 DEF CoreInv, NothingInvented, Live, Same
<1> QED
  BY <1>4, <1>5, <1>6, <1>7, <1>8 DEF CoreInv
\* BRPOPLPUSH, whether or not the reply arrives.
LEMMA PopStep ==
    ASSUME TypeOK, CoreInv, NEW o \in Worker, NEW r \in Raw, PopReady(o, r)
    PROVE  CoreInv'
<1>1. /\ ready[r] > 0 /\ ready' = Pop(r) /\ processing' = Take(o, r)
      /\ UNCHANGED <<scheduled, dead, retry, enqueued, acked>>
      /\ \A w \in Worker : held'[w] \in {held[w], r, NoRaw}
  BY DEF PopReady, NextUnverified, Forget, TypeOK, history
<1>2. /\ ready'[r] = ready[r] - 1 /\ ready[r] \in Nat
      /\ \A q \in Raw : q # r => ready'[q] = ready[q]
  BY <1>1, ReadyFacts
<1>3. \A w \in Worker : \A q \in Raw :
        q \in processing'[w] <=> q \in processing[w] \/ (w = o /\ q = r)
  BY <1>1, PrivateListFacts
<1>4. Live(r) /\ \A q \in Raw : Live(q)' => Live(q)
  BY <1>1, <1>2, <1>3 DEF Live
<1>5. \A q \in Raw : q # r => Same(q)
  BY <1>1, <1>2, <1>3 DEF Same
<1>6. BelowLimit'
  BY <1>1, <1>4, RawFacts DEF CoreInv, BelowLimit
<1>7. FirstAttemptUnique'
  <2> SUFFICES ASSUME NEW c \in Claim, retry[c].status = "none", NEW q \in CopiesOf(c)
               PROVE  OnePlace(c, q)'
    BY <1>1 DEF CoreInv, FirstAttemptUnique, CopiesOf
  <2>1. q \in Raw /\ OnePlace(c, q)
    BY DEF CoreInv, FirstAttemptUnique, CopiesOf
  <2>2. CASE q = r
    <3>1. ready[q] = 1 /\ \A w \in Worker : q \notin processing[w]
      BY <1>1, <1>2, <2>1, <2>2 DEF OnePlace
    <3>2. ready'[q] = 0 /\ \A w \in Worker : q \in processing'[w] <=> w = o
      BY <1>2, <1>3, <2>1, <2>2, <3>1
    <3> QED
      BY <1>1, <1>4, <2>1, <3>2 DEF OnePlace
  <2>3. CASE q # r
    BY <1>1, <1>4, <1>5, <2>1, <2>3 DEF OnePlace, Same
  <2> QED
    BY <2>2, <2>3
<1>8. AckMatchesState' /\ NothingInvented'
  BY <1>1, <1>4 DEF CoreInv, AckMatchesState, NothingInvented
<1>9. NothingLost'
  <2>1. Present(r)' /\ r \in CopiesOf(r.claim)
    BY <1>3 DEF Present, Live, CopiesOf
  <2>2. \A c \in enqueued : c # r.claim => \A q \in CopiesOf(c) : Same(q)
    BY <1>5 DEF CopiesOf
  <2> QED
    BY <1>1, <2>1, <2>2, LostKept DEF CoreInv
<1> QED
  BY <1>6, <1>7, <1>8, <1>9 DEF CoreInv

\* A claim with a retry state has left its first attempt for good, so steps
\* that move only its raws leave FirstAttemptUnique alone.
LEMMA LaterAttemptStep ==
    ASSUME CoreInv, NEW d \in Claim, retry'[d].status # "none",
           \A c \in Claim : c # d => retry'[c] = retry[c],
           \A q \in Raw : q.claim # d => Same(q),
           UNCHANGED enqueued, acked' \in {acked, acked \cup {d}}
    PROVE  FirstAttemptUnique'
BY UniqueKept DEF CoreInv, CopiesOf

\* A due retry is copied to the ready list, then removed from the schedule.
LEMMA PromoteStep ==
    ASSUME TypeOK, CoreInv, NEW o \in Worker, NEW r \in Raw, PromoteDueRetry(o, r)
    PROVE  CoreInv'
<1> DEFINE d == r.claim
<1>0. /\ UNCHANGED <<processing, dead, retry, enqueued, acked>> /\ HeldKept
      /\ \/ UNCHANGED <<ready, scheduled>>
         \/ /\ r \in scheduled /\ ready' = PushIfAbsent(r)
            /\ scheduled' \in {scheduled, scheduled \ {r}}
  BY DEF PromoteDueRetry, Leave, ForgetAll, Forget, HeldKept, TypeOK, local, history
<1>a. CASE UNCHANGED <<ready, scheduled>>
  BY <1>0, <1>a, QuietStep DEF core
<1> SUFFICES ASSUME r \in scheduled, ready' = PushIfAbsent(r),
                    scheduled' \in {scheduled, scheduled \ {r}}
             PROVE  CoreInv'
  BY <1>0, <1>a
<1>1. /\ r \in scheduled /\ ready' = PushIfAbsent(r)
      /\ scheduled' \in {scheduled, scheduled \ {r}}
      /\ UNCHANGED <<processing, dead, retry, enqueued, acked>>
      /\ HeldKept
  BY <1>0
<1>2. ready'[r] > 0 /\ \A q \in Raw : q # r => Same(q)
  BY <1>1, ReadyFacts DEF Same
<1>3. Live(r) /\ \A q \in Raw : Live(q)' => Live(q)
  BY <1>1, <1>2 DEF Live, Same
<1>4. d \in Claim /\ retry[d].status # "none"
  BY <1>1, RawFacts DEF CoreInv, FirstAttemptUnique, OnePlace, CopiesOf
<1>5. BelowLimit'
  BY <1>1, <1>3, LimitKept DEF CoreInv, BelowLimit
<1>6. FirstAttemptUnique'
  BY <1>1, <1>2, <1>4, LaterAttemptStep
<1>7. AckMatchesState' /\ NothingInvented'
  BY <1>1, <1>3 DEF CoreInv, AckMatchesState, NothingInvented
<1>8. NothingLost'
  <2>1. Present(r)' /\ r \in CopiesOf(d)
    BY <1>2 DEF Present, Live, CopiesOf
  <2>2. \A c \in enqueued : c # d => \A q \in CopiesOf(c) : Same(q)
    BY <1>2 DEF CopiesOf
  <2> QED
    BY <1>1, <2>1, <2>2, LostKept DEF CoreInv
<1> QED
  BY <1>5, <1>6, <1>7, <1>8 DEF CoreInv
\* _RECONCILE_RETRY_CLAIM_SCRIPT drops a stale copy only when the canonical
\* one is elsewhere, or the claim is settled.
LEMMA ReconcileStep ==
    ASSUME TypeOK, LocalsMeanSomething, CoreInv, NEW o \in Worker, Reconcile(o)
    PROVE  CoreInv'
<1>0. PICK d \in Claim, r \in Raw, k \in Raw :
          d = ClaimOf(o) /\ r = held[o] /\ k = Canonical(d)
  BY HeldFacts DEF Reconcile, Busy, CoreInv
<1> DEFINE adopted == [retry EXCEPT ![d].status = "processing", ![d].owner = o]
<1>1. /\ r \in Raw /\ d \in Claim /\ r.claim = d /\ k \in Raw
      /\ k.claim = d /\ k.attempts = retry[d].attempts
      /\ retry[d] \in RetryState
      /\ Payload[d] # "malformed"
  BY <1>0, HeldFacts DEF Reconcile, Busy, CoreInv, Canonical
<1>2. HeldKept /\ UNCHANGED <<enqueued, acked>>
  BY DEF Reconcile, NextClaim, NextUnverified, Leave, Forget, ForgetAll, HeldKept,
     TypeOK, local, history
<1>3. \/ UNCHANGED <<lists, retry>>
      \/ AdoptsClaim(o, r) /\ retry' = adopted /\ UNCHANGED lists
      \/ /\ ~KeepsClaim(o, r) /\ RestoreCanonical(d)
         /\ retry' \in {retry, HalfRestored(d), Restored(d)}
         /\ processing' \in {processing, Remove(o, r)}
  BY <1>0 DEF Reconcile, AdoptsClaim, NotDue, lists
<1>4. CASE UNCHANGED <<lists, retry>>
  BY <1>2, <1>4, QuietStep DEF core, lists
<1>5. CASE AdoptsClaim(o, r) /\ retry' = adopted /\ UNCHANGED lists
  <2>1. retry[d].status \in {"ready", "scheduled", "processing"}
    BY <1>1, <1>5 DEF AdoptsClaim
  <2>2. /\ retry'[d].status = "processing" /\ retry'[d].attempts = retry[d].attempts
        /\ \A c \in Claim : c # d => retry'[c] = retry[c]
    BY <1>1, <1>5 DEF TypeOK, RetryState
  <2>3. \A q \in Raw : Same(q) /\ (Live(q)' => Live(q))
    BY <1>5 DEF Same, Live, lists
  <2>4. d \in enqueued /\ d \notin acked
    BY <1>1, <2>1 DEF CoreInv, AckMatchesState, NothingInvented
  <2>5. BelowLimit'
    BY <1>1, <1>2, <2>1, <2>2, <2>3, LimitKept DEF CoreInv
  <2>6. FirstAttemptUnique'
    BY <1>1, <1>2, <2>2, <2>3, LaterAttemptStep
  <2>7. AckMatchesState' /\ NothingInvented'
    BY <1>1, <1>2, <2>2, <2>3, <2>4 DEF CoreInv, AckMatchesState, NothingInvented
  <2>8. NothingLost'
    BY <1>2, <2>3, LostKept DEF CoreInv, CopiesOf
  <2> QED
    BY <2>5, <2>6, <2>7, <2>8 DEF CoreInv
<1>6. CASE /\ ~KeepsClaim(o, r) /\ RestoreCanonical(d)
           /\ retry' \in {retry, HalfRestored(d), Restored(d)}
           /\ processing' \in {processing, Remove(o, r)}
  <2> DEFINE status == retry[d].status
             orphaned == status = "processing" /\ ~OwnerLive(d)
  <2>1. /\ HoldsRaw(o, r) /\ status # "none"
        /\ ~(status = "processing" /\ OwnerLive(d) /\ k = r /\ retry[d].owner = o)
    BY <1>0, <1>1, <1>6 DEF KeepsClaim
  <2>2. d \in enqueued /\ (status # "done" => d \notin acked)
    BY <1>1, <2>1 DEF CoreInv, AckMatchesState, NothingInvented
  <2>3. /\ ready' = IF status = "ready" \/ orphaned THEN PushIfAbsent(k) ELSE ready
        /\ scheduled' = IF status = "scheduled" /\ ready[k] = 0
                        THEN scheduled \cup {k} ELSE scheduled
        /\ dead' = IF status = "dead" THEN dead \cup {k} ELSE dead
    BY <1>0, <1>6 DEF RestoreCanonical
  <2>4. \A w \in Worker : \A q \in Raw :
          /\ q \in processing'[w] => q \in processing[w]
          /\ q \in processing[w] /\ ~(w = o /\ q = r) => q \in processing'[w]
    BY <1>1, <1>6, PrivateListFacts
  <2>5. /\ \A c \in Claim : c # d => retry'[c] = retry[c]
        /\ retry'[d].attempts = retry[d].attempts
        /\ retry'[d].status \in {status, "ready"} /\ (~orphaned => retry' = retry)
    BY <1>1, <1>6 DEF Restored, HalfRestored, TypeOK, RetryState
  <2>6. /\ \A q \in Raw : q # k => ready'[q] = ready[q]
        /\ status = "ready" \/ orphaned => ready'[k] > 0
        /\ ~(status = "ready" \/ orphaned) => ready' = ready
    BY <1>1, <2>3, ReadyFacts
  <2>7. \A q \in Raw : q.claim # d => Same(q)
    BY <1>1, <2>3, <2>4, <2>6 DEF Same
  <2>8. \A q \in Raw : Live(q)' => Live(q) \/ (q = k /\ status # "dead")
    BY <1>1, <2>3, <2>4, <2>6 DEF Live
  <2>9. status # "dead" => k.attempts < MaxAttempts
    BY <1>1 DEF CoreInv, BelowLimit
  <2>10. BelowLimit'
    <3>1. \A c \in Claim : retry'[c].status # "dead" =>
            retry[c].status # "dead" /\ retry'[c].attempts = retry[c].attempts
      BY <1>1, <2>5
    <3> QED
      BY <1>2, <2>8, <2>9, <3>1, LimitKept DEF CoreInv
  <2>11. FirstAttemptUnique'
    BY <1>1, <1>2, <2>1, <2>5, <2>7, LaterAttemptStep
  <2>12. AckMatchesState' /\ NothingInvented'
    BY <1>1, <1>2, <2>1, <2>2, <2>5, <2>8 DEF CoreInv, AckMatchesState, NothingInvented
  <2>13. NothingLost'
    <3>1. k \in CopiesOf(d) /\ ready[k] \in Nat
      BY <1>1 DEF CopiesOf, TypeOK
    <3>2. d \notin acked => Present(k)'
      <4>1. CASE status = "ready" \/ orphaned
        BY <2>6, <4>1 DEF Present, Live
      <4>2. CASE status = "scheduled"
        BY <2>3, <2>6, <3>1, <4>2 DEF Present, Live
      <4>3. CASE status = "dead"
        BY <2>3, <4>3 DEF Present
      <4>4. CASE status = "processing" /\ OwnerLive(d)
        <5>1. retry[d].owner \in Worker /\ k \in processing[retry[d].owner]
          BY <1>0, <4>4 DEF OwnerLive, TypeOK
        <5>2. k \in processing'[retry[d].owner]
          BY <1>1, <2>1, <2>4, <4>4, <5>1
        <5> QED
          BY <5>1, <5>2 DEF Present, Live
      <4>5. CASE status = "done"
        BY <1>1, <4>5 DEF CoreInv, AckMatchesState
      <4> QED
        BY <1>1, <2>1, <4>1, <4>2, <4>3, <4>4, <4>5 DEF RetryState, Status
    <3>3. \A c \in enqueued : c # d => \A q \in CopiesOf(c) : Same(q)
      BY <2>7 DEF CopiesOf
    <3> QED
      BY <1>2, <3>1, <3>2, <3>3, LostKept DEF CoreInv
  <2> QED
    BY <2>10, <2>11, <2>12, <2>13 DEF CoreInv
<1> QED
  BY <1>3, <1>4, <1>5, <1>6
\* Acknowledging a claim that never failed removes its only raw.
LEMMA AckFirstStep ==
    ASSUME TypeOK, CoreInv, HeldKept, NEW o \in Worker, NEW r \in processing[o],
           retry[r.claim].status = "none",
           processing' = Remove(o, r), acked' = acked \cup {r.claim},
           UNCHANGED <<ready, scheduled, dead, retry, enqueued>>
    PROVE  CoreInv'
<1>1. r \in Raw /\ r.claim \in Claim /\ Live(r)
  BY RawFacts DEF TypeOK, Live
<1>2. \A w \in Worker : \A q \in Raw :
        q \in processing'[w] <=> q \in processing[w] /\ ~(w = o /\ q = r)
  BY <1>1, PrivateListFacts
<1>3. \A q \in Raw : Live(q)' => Live(q)
  BY <1>1, <1>2 DEF Live
<1>4. OnePlace(r.claim, r) /\ r \in CopiesOf(r.claim)
  BY <1>1 DEF CoreInv, FirstAttemptUnique, CopiesOf
<1>5. \A q \in CopiesOf(r.claim) : ~Live(q)'
  <2> SUFFICES ASSUME NEW q \in CopiesOf(r.claim), Live(q)' PROVE FALSE
    OBVIOUS
  <2>1. q \in Raw /\ q.claim = r.claim /\ Live(q)
    BY <1>3 DEF CopiesOf
  <2>2. q.attempts = 0 /\ r.attempts = 0
    BY <1>1, <1>4, <2>1 DEF CoreInv, FirstAttemptUnique, OnePlace
  <2>3. q = r
    BY <1>1, <2>1, <2>2 DEF Raw
  <2>4. ~(ready[r] > 0)
    BY <1>4 DEF OnePlace
  <2>5. \A w \in Worker : r \in processing[w] => w = o
    BY <1>4 DEF OnePlace
  <2> QED
    BY <1>1, <1>2, <1>4, <2>3, <2>4, <2>5 DEF Live, OnePlace
<1>6. BelowLimit'
  BY <1>3, LimitKept DEF CoreInv, BelowLimit
<1>7. FirstAttemptUnique'
  <2> SUFFICES ASSUME NEW c \in Claim, retry[c].status = "none", NEW q \in CopiesOf(c)
               PROVE  OnePlace(c, q)'
    BY DEF CoreInv, FirstAttemptUnique, CopiesOf
  <2>1. q \in Raw /\ q.claim = c /\ OnePlace(c, q)
    BY DEF CoreInv, FirstAttemptUnique, CopiesOf
  <2>2. CASE c = r.claim
    BY <1>2, <1>5, <2>1, <2>2 DEF OnePlace
  <2>3. CASE c # r.claim
    BY <1>2, <1>3, <2>1, <2>3 DEF OnePlace
  <2> QED
    BY <2>2, <2>3
<1>8. AckMatchesState' /\ NothingInvented'
  BY <1>1, <1>3 DEF CoreInv, AckMatchesState, NothingInvented
<1>9. NothingLost'
  <2>1. \A q \in Raw : q.claim # r.claim => Same(q)
    BY <1>1, <1>2 DEF Same
  <2> QED
    BY <2>1, LostKept DEF CoreInv, CopiesOf
<1> QED
  BY <1>6, <1>7, <1>8, <1>9 DEF CoreInv

LEMMA DiscardStep ==
    ASSUME TypeOK, LocalsMeanSomething, CoreInv, NEW o \in Worker, DiscardMalformed(o)
    PROVE  CoreInv'
<1>0. PICK r \in Raw : r = held[o] /\ r.claim = ClaimOf(o) /\ r.claim \in Claim
  BY HeldFacts DEF DiscardMalformed, Busy, CoreInv
<1>1. HeldKept /\ retry[r.claim].status = "none"
  BY <1>0 DEF DiscardMalformed, NextClaim, NextUnverified, Forget, HeldKept, TypeOK,
     CoreInv, AckMatchesState
<1>2. \/ UNCHANGED core
      \/ /\ r \in processing[o] /\ processing' = Remove(o, r)
         /\ acked' = acked \cup {r.claim}
         /\ UNCHANGED <<ready, scheduled, dead, retry, enqueued>>
  BY <1>0 DEF DiscardMalformed, core
<1> QED
  BY <1>1, <1>2, QuietStep, AckFirstStep

\* _ACK_CLAIM_SCRIPT: the owner of the canonical raw closes the claim.
LEMMA AckStep ==
    ASSUME TypeOK, LocalsMeanSomething, CoreInv, NEW o \in Worker, Ack(o)
    PROVE  CoreInv'
<1>0. PICK r \in Raw : r = held[o] /\ r.claim = ClaimOf(o) /\ r.claim \in Claim
                       /\ Payload[r.claim] # "malformed"
  BY HeldFacts DEF Ack, Busy, CoreInv, LocalsMeanSomething
<1> DEFINE d == r.claim
<1>1. HeldKept
  BY DEF Ack, NextClaim, NextUnverified, Forget, HeldKept, TypeOK
<1>2. \/ UNCHANGED core
      \/ /\ MayAck(o, r) /\ retry' = Closed(d) /\ acked' = acked \cup {d}
         /\ \/ processing' = Remove(o, r)
            \/ retry[d].status # "none" /\ UNCHANGED processing
         /\ UNCHANGED <<ready, scheduled, dead, enqueued>>
  BY <1>0 DEF Ack, core
<1>3. CASE MayAck(o, r) /\ retry' = Closed(d) /\ acked' = acked \cup {d}
           /\ processing' \in {processing, Remove(o, r)}
           /\ retry[d].status # "none"
           /\ UNCHANGED <<ready, scheduled, dead, enqueued>>
  <2>1. r \in processing[o] /\ Live(r) /\ retry[d].status \in {"processing", "done"}
    BY <1>3 DEF MayAck, HoldsRaw, Live
  <2>2. /\ retry'[d].status = "done" /\ retry'[d].attempts = retry[d].attempts
        /\ \A c \in Claim : c # d => retry'[c] = retry[c]
    BY <1>0, <1>3 DEF Closed, TypeOK, RetryState
  <2>3. \A w \in Worker : \A q \in Raw :
          /\ q \in processing'[w] => q \in processing[w]
          /\ q \in processing[w] /\ q # r => q \in processing'[w]
    BY <1>0, <1>3, PrivateListFacts
  <2>4. \A q \in Raw : (Live(q)' => Live(q)) /\ (q.claim # d => Same(q))
    BY <1>3, <2>3 DEF Live, Same
  <2>5. BelowLimit'
    BY <1>0, <1>1, <2>1, <2>2, <2>4, LimitKept DEF CoreInv
  <2>6. FirstAttemptUnique'
    BY <1>0, <1>3, <2>2, <2>4, LaterAttemptStep
  <2>7. d \in enqueued
    BY <1>0, <2>1 DEF CoreInv, NothingInvented
  <2>8. AckMatchesState' /\ NothingInvented'
    BY <1>0, <1>3, <2>2, <2>4, <2>7 DEF CoreInv, AckMatchesState, NothingInvented
  <2>9. NothingLost'
    BY <1>3, <2>4, LostKept DEF CoreInv, CopiesOf
  <2> QED
    BY <2>5, <2>6, <2>8, <2>9 DEF CoreInv
<1>4. CASE MayAck(o, r) /\ retry' = Closed(d) /\ acked' = acked \cup {d}
           /\ processing' = Remove(o, r) /\ retry[d].status = "none"
           /\ UNCHANGED <<ready, scheduled, dead, enqueued>>
  BY <1>1, <1>4, AckFirstStep DEF MayAck, HoldsRaw, Closed
<1> QED
  BY <1>1, <1>2, <1>3, <1>4, QuietStep

\* _MOVE_FAILED_CLAIM_SCRIPT, complete or cut short.
LEMMA FailStep ==
    ASSUME TypeOK, LocalsMeanSomething, CoreInv, NEW o \in Worker, Fail(o)
    PROVE  CoreInv'
<1>0. PICK r \in Raw, n \in Raw, st \in Status :
          /\ r = held[o] /\ n = [r EXCEPT !.attempts = @ + 1]
          /\ st = Destination(pc[o], n.attempts)
  BY HeldFacts DEF Fail, Busy, CoreInv, Destination, Status
<1> DEFINE d == r.claim
           saved(w) == [retry EXCEPT ![d] =
                          [status |-> st, attempts |-> n.attempts, owner |-> w]]
<1>1. /\ d \in Claim /\ n.claim = d /\ n # r /\ Payload[d] # "malformed"
      /\ st \in {"ready", "scheduled", "dead"}
      /\ st # "dead" => n.attempts < MaxAttempts
  BY <1>0, RawFacts DEF Fail, Busy, LocalsMeanSomething, Destination, Raw
<1>2. HeldKept /\ UNCHANGED <<enqueued, acked>>
  BY DEF Fail, NextClaim, Leave, Forget, ForgetAll, HeldKept, TypeOK, history
<1>3. \/ UNCHANGED <<lists, retry>>
      \/ /\ MayFail(o, r) /\ \E w \in Worker \cup {NoWorker} : retry' = saved(w)
         /\ \/ Deliver(st, n) /\ processing' \in {processing, Remove(o, r)}
            \/ UNCHANGED lists
  <2>1. retry[d].owner \in Worker \cup {NoWorker}
    BY <1>1 DEF TypeOK, RetryState
  <2> QED
    BY <1>0, <2>1 DEF Fail, lists
<1>4. CASE UNCHANGED <<lists, retry>>
  BY <1>2, <1>4, QuietStep DEF core, lists
<1>5. CASE /\ MayFail(o, r) /\ \E w \in Worker \cup {NoWorker} : retry' = saved(w)
           /\ \/ Deliver(st, n) /\ processing' \in {processing, Remove(o, r)}
              \/ UNCHANGED lists
  <2>1. r \in processing[o] /\ Live(r) /\ retry[d].status \in {"none", "processing"}
    BY <1>5 DEF MayFail, HoldsRaw, Live
  <2>2. d \in enqueued /\ d \notin acked
    BY <1>1, <2>1 DEF CoreInv, NothingInvented, AckMatchesState, FirstAttemptUnique,
       OnePlace, CopiesOf
  <2>3. /\ retry'[d].status = st /\ retry'[d].attempts = n.attempts
        /\ \A c \in Claim : c # d => retry'[c] = retry[c]
    BY <1>1, <1>5 DEF TypeOK
  <2>4. \A w \in Worker : \A q \in Raw :
          /\ q \in processing'[w] => q \in processing[w]
          /\ q \in processing[w] /\ q # r => q \in processing'[w]
    BY <1>5, PrivateListFacts DEF lists
  <2>5. \A q \in Raw : q # n => /\ ready'[q] = ready[q]
                                /\ q \in scheduled' <=> q \in scheduled
                                /\ q \in dead' <=> q \in dead
    BY <1>5, ReadyFacts DEF Deliver, lists
  <2>6. \/ processing' = processing
        \/ ready'[n] > 0 \/ n \in scheduled' \/ n \in dead'
    BY <1>1, <1>5, ReadyFacts DEF Deliver, lists
  <2>7. st = "dead" => ready' = ready /\ scheduled' = scheduled
    BY <1>5 DEF Deliver, lists
  <2>8. \A q \in Raw : q.claim # d => Same(q)
    BY <1>1, <2>4, <2>5 DEF Same
  <2>9. \A q \in Raw : Live(q)' => Live(q) \/ (q = n /\ st # "dead")
    BY <2>4, <2>5, <2>7 DEF Live
  <2>10. BelowLimit'
    BY <1>1, <1>2, <2>3, <2>9, LimitKept DEF CoreInv, BelowLimit
  <2>11. FirstAttemptUnique'
    BY <1>1, <1>2, <2>3, <2>8, LaterAttemptStep
  <2>12. AckMatchesState' /\ NothingInvented'
    BY <1>1, <1>2, <2>2, <2>3, <2>9 DEF CoreInv, AckMatchesState, NothingInvented
  <2>13. NothingLost'
    <3>1. r \in CopiesOf(d) /\ n \in CopiesOf(d) /\ (Present(r)' \/ Present(n)')
      BY <1>1, <2>1, <2>6 DEF CopiesOf, Present, Live
    <3>2. \A c \in enqueued : c # d => \A q \in CopiesOf(c) : Same(q)
      BY <2>8 DEF CopiesOf
    <3> QED
      BY <1>2, <3>1, <3>2, LostKept DEF CoreInv
  <2> QED
    BY <2>10, <2>11, <2>12, <2>13 DEF CoreInv
<1> QED
  BY <1>3, <1>4, <1>5
-----------------------------------------------------------------------------
(* The invariant is inductive, and implies the safety properties. *)

\* Every step that is not one of the lemmas above leaves the core alone.
LEMMA OtherSteps ==
    ASSUME TypeOK, NEW w \in Worker,
           \/ Register(w) \/ Shutdown(w) \/ Crash(w) \/ Unregister(w)
           \/ LeaseExpires(w) \/ RecoveryLockExpires(w)
           \/ RenewLease(w) \/ ClaimNextError(w) \/ PopNothing(w)
           \/ \E o \in Worker : BeginRecovery(w, o)
           \/ EndRecovery(w) \/ RecoveryError(w)
           \/ Fence(w) \/ ClaimMarker(w) \/ ReadMarker(w) \/ Ingest(w) \/ Commit(w)
           \/ Release(w) \/ StartTurn(w) \/ AgentTurn(w) \/ Finish(w)
    PROVE  UNCHANGED core /\ HeldKept
<1>1. CASE \/ Register(w) \/ Shutdown(w) \/ Crash(w) \/ Unregister(w)
           \/ LeaseExpires(w) \/ RecoveryLockExpires(w)
  BY <1>1 DEF Register, Shutdown, Crash, Unregister, LeaseExpires, RecoveryLockExpires,
     Leave, ForgetAll, Forget, HeldKept, TypeOK, core, lists, local, history
<1>2. CASE \/ RenewLease(w) \/ ClaimNextError(w) \/ PopNothing(w)
           \/ \E o \in Worker : BeginRecovery(w, o)
           \/ EndRecovery(w) \/ RecoveryError(w)
  BY <1>2 DEF RenewLease, ClaimNextError, PopNothing, BeginRecovery, EndRecovery,
     RecoveryError, NextUnverified, Leave, ForgetAll, Forget, HeldKept, TypeOK, core,
     lists, local, history
<1>3. CASE \/ Fence(w) \/ ClaimMarker(w) \/ ReadMarker(w) \/ Ingest(w) \/ Commit(w)
           \/ Release(w) \/ StartTurn(w) \/ AgentTurn(w) \/ Finish(w)
  BY <1>3 DEF Fence, ClaimMarker, ReadMarker, Ingest, Commit, Release, StartTurn,
     AgentTurn, Finish, FenceFails, Leave, ForgetAll, Forget, HeldKept, TypeOK, core,
     lists, local, history
<1> QED
  BY <1>1, <1>2, <1>3

\* One step of the system preserves the invariant.
LEMMA InvStep == QueueInv /\ [Next]_vars => QueueInv'
<1> SUFFICES ASSUME QueueInv, [Next]_vars PROVE QueueInv'
  OBVIOUS
<1>1. TypeOK /\ LocalsMeanSomething /\ BelowLimit /\ CoreInv
  BY DEF QueueInv, CoreInv
<1>2. TypeOK' /\ LocalsMeanSomething'
  <2>1. CASE UNCHANGED vars
    BY <1>1, <2>1 DEF TypeOK, LocalsMeanSomething, vars, lists, owners, local, history
  <2>2. CASE Environment \/ \E w \in Worker : Unregister(w)
    BY <1>1, <2>2, LifeTypes
  <2>3. ASSUME NEW w \in Worker, ClaimStep(w)
        PROVE  TypeOK' /\ LocalsMeanSomething'
    BY <1>1, <2>3, ClaimTypes, SettleTypes DEF ClaimStep
  <2>4. ASSUME NEW w \in Worker, HandleStep(w)
        PROVE  TypeOK' /\ LocalsMeanSomething'
    BY <1>1, <2>4, HandleTypes, SettleTypes DEF HandleStep
  <2> QED
    BY <2>1, <2>2, <2>3, <2>4 DEF Next
<1>3. CoreInv'
  <2>1. CASE UNCHANGED vars
    BY <1>1, <2>1, QuietStep DEF HeldKept, core, vars, lists, local, history
  <2>2. ASSUME NEW c \in Claim, Enqueue(c) PROVE CoreInv'
    BY <1>1, <2>2, EnqueueStep
  <2>3. ASSUME NEW m \in Provider, MarkerExpires(m) PROVE CoreInv'
    BY <1>1, <2>3, QuietStep DEF MarkerExpires, HeldKept, core, lists, local, history
  <2>4. ASSUME NEW w \in Worker, RequeueOwnClaims(w) PROVE CoreInv'
    <3>1. HeldKept
      BY <2>4 DEF RequeueOwnClaims, HeldKept
    <3>2. \/ UNCHANGED core
          \/ \E r \in processing[w] :
               /\ processing' = Remove(w, r) /\ ready' = Push(r)
               /\ UNCHANGED <<scheduled, dead, retry, enqueued, acked>>
      BY <2>4 DEF RequeueOwnClaims, core, history
    <3> QED
      BY <1>1, <2>4, <3>1, <3>2, QuietStep, MoveBackStep
  <2>5. ASSUME NEW w \in Worker, DrainOne(w) PROVE CoreInv'
    <3>1. PICK o \in Worker : o = target[w]
      BY <1>1, <2>5 DEF DrainOne, LocalsMeanSomething
    <3>2. HeldKept
      BY <2>5 DEF DrainOne, HeldKept, local
    <3>3. \/ UNCHANGED core
          \/ \E r \in processing[o] :
               /\ processing' = Remove(o, r) /\ ready' = Push(r)
               /\ UNCHANGED <<scheduled, dead, retry, enqueued, acked>>
      BY <2>5, <3>1 DEF DrainOne, core, history
    <3> QED
      BY <1>1, <3>1, <3>2, <3>3, QuietStep, MoveBackStep
  <2>6. ASSUME NEW w \in Worker, NEW r \in Raw, PromoteDueRetry(w, r) PROVE CoreInv'
    BY <1>1, <2>6, PromoteStep
  <2>7. ASSUME NEW w \in Worker, NEW r \in Raw, PopReady(w, r) PROVE CoreInv'
    BY <1>1, <2>7, PopStep
  <2>8. ASSUME NEW w \in Worker, Reconcile(w) PROVE CoreInv'
    BY <1>1, <2>8, ReconcileStep
  <2>9. ASSUME NEW w \in Worker, DiscardMalformed(w) PROVE CoreInv'
    BY <1>1, <2>9, DiscardStep
  <2>10. ASSUME NEW w \in Worker, Ack(w) PROVE CoreInv'
    BY <1>1, <2>10, AckStep
  <2>11. ASSUME NEW w \in Worker, Fail(w) PROVE CoreInv'
    BY <1>1, <2>11, FailStep
  <2>12. ASSUME NEW w \in Worker,
                \/ Register(w) \/ Shutdown(w) \/ Crash(w) \/ Unregister(w)
                \/ LeaseExpires(w) \/ RecoveryLockExpires(w)
                \/ RenewLease(w) \/ ClaimNextError(w) \/ PopNothing(w)
                \/ \E o \in Worker : BeginRecovery(w, o)
                \/ EndRecovery(w) \/ RecoveryError(w)
                \/ Fence(w) \/ ClaimMarker(w) \/ ReadMarker(w) \/ Ingest(w)
                \/ Commit(w) \/ Release(w) \/ StartTurn(w) \/ AgentTurn(w) \/ Finish(w)
         PROVE  CoreInv'
    BY <1>1, <2>12, OtherSteps, QuietStep
  <2> QED
    BY <2>1, <2>2, <2>3, <2>4, <2>5, <2>6, <2>7, <2>8, <2>9, <2>10, <2>11, <2>12
       DEF Next, Environment, ClaimStep, HandleStep
<1> QED
  BY <1>2, <1>3 DEF QueueInv, CoreInv

\* The inductive invariant holds in every reachable state.
THEOREM Invariance == Spec => []QueueInv
<1>1. Init => QueueInv
  BY InitTypes, InitCore DEF QueueInv, CoreInv
<1> QED
  BY <1>1, InvStep, PTL DEF Spec

\* Every variable keeps its type, attempts within MAX_ATTEMPTS included.
THEOREM TypeCorrect == Spec => []TypeOK
<1>1. QueueInv => TypeOK
  BY DEF QueueInv
<1> QED
  BY <1>1, Invariance, PTL

\* At-least-once delivery: a claim put on the queue and not acknowledged has
\* an envelope in Redis, whatever faults happen.
THEOREM AtLeastOnce == Spec => []NothingLost
<1>1. QueueInv => NothingLost
  BY DEF QueueInv
<1> QED
  BY <1>1, Invariance, PTL

\* Two private lists can hold raws of a claim, but the fence knows one owner.
LEMMA QueueExclusive == QueueInv => FenceExclusive
<1> SUFFICES ASSUME QueueInv, NEW w \in Worker, NEW v \in Worker,
                    NEW r \in Raw, NEW q \in Raw,
                    Owns(w, r), Owns(v, q), r.claim = q.claim
             PROVE  w = v /\ r = q
  BY DEF FenceExclusive
<1>1. /\ r \in processing[w] /\ q \in processing[v] /\ Live(r) /\ Live(q)
      /\ r.claim \in Claim
  BY RawFacts DEF Owns, HoldsRaw, Live
<1>2. CASE retry[r.claim].status = "none"
  <2>1. OnePlace(r.claim, r) /\ OnePlace(q.claim, q)
    BY <1>1, <1>2 DEF QueueInv, FirstAttemptUnique, CopiesOf
  <2>2. r = q
    BY <1>1, <2>1 DEF OnePlace, Raw
  <2> QED
    BY <1>1, <2>1, <2>2 DEF OnePlace
<1>3. CASE retry[r.claim].status # "none"
  BY <1>3 DEF Owns, Raw
<1> QED
  BY <1>2, <1>3

\* At most one worker passes the fence of a claim.
THEOREM Exclusion == Spec => []FenceExclusive
BY QueueExclusive, Invariance, PTL

\* Once a claim is acknowledged or dead-lettered nobody passes its fence.
THEOREM Settlement == Spec => []SettledStaysSettled
<1>1. QueueInv => SettledStaysSettled
  <2> SUFFICES ASSUME QueueInv, NEW c \in Claim,
                      c \in acked \/ retry[c].status = "dead",
                      NEW w \in Worker, NEW r \in CopiesOf(c), Owns(w, r)
               PROVE  FALSE
    BY DEF SettledStaysSettled
  <2>1. r \in Raw /\ r.claim = c /\ Live(r)
    BY DEF CopiesOf, Owns, HoldsRaw, Live
  <2> QED
    BY <2>1 DEF QueueInv, Owns, FirstAttemptUnique, OnePlace, AckMatchesState
<1> QED
  BY <1>1, Invariance, PTL

\* The retry state of a claim only advances; dead and done are final.
THEOREM Advance == Spec => RetryAdvances
<1> DEFINE Advances(c) ==
             /\ retry'[c].attempts >= retry[c].attempts
             /\ retry[c].status \in {"dead", "done"} =>
                  /\ retry'[c].status = retry[c].status
                  /\ retry'[c].attempts = retry[c].attempts
<1>1. ASSUME QueueInv, [Next]_vars, NEW c \in Claim PROVE Advances(c)
  <2>1. /\ TypeOK /\ LocalsMeanSomething /\ BelowLimit
        /\ retry[c] \in RetryState /\ retry[c].attempts \in Nat
        /\ retry[c].status = "none" => retry[c].attempts = 0
    BY <1>1, RawFacts DEF QueueInv, FirstAttemptUnique, NoState, TypeOK, RetryState
  <2>2. CASE UNCHANGED retry
    BY <2>1, <2>2
  <2>3. ASSUME NEW w \in Worker, Reconcile(w) PROVE Advances(c)
    <3>1. ClaimOf(w) \in Claim
      BY <2>1, <2>3, HeldFacts DEF Reconcile, Busy
    <3> QED
      BY <2>1, <2>3, <3>1 DEF Reconcile, AdoptsClaim, Restored, HalfRestored, TypeOK,
         RetryState, ClaimOf
  <2>4. ASSUME NEW w \in Worker, Ack(w) PROVE Advances(c)
    <3>1. ClaimOf(w) \in Claim
      BY <2>1, <2>4, HeldFacts DEF Ack, Busy
    <3> QED
      BY <2>1, <2>4, <3>1 DEF Ack, MayAck, Closed, TypeOK, RetryState, ClaimOf
  <2>5. ASSUME NEW w \in Worker, Fail(w) PROVE Advances(c)
    <3>1. PICK r \in Raw, n \in Raw : r = held[w] /\ n = [r EXCEPT !.attempts = @ + 1]
      BY <2>1, <2>5, HeldFacts DEF Fail, Busy
    <3>2. r.claim \in Claim /\ r.attempts \in Nat /\ n.attempts = r.attempts + 1
      BY <3>1, RawFacts DEF Raw
    <3>3. \/ UNCHANGED retry
          \/ /\ MayFail(w, r)
             /\ \E st \in Status, o \in Worker \cup {NoWorker} :
                  retry' = [retry EXCEPT ![r.claim] =
                              [status |-> st, attempts |-> n.attempts, owner |-> o]]
      <4>1. retry[r.claim].owner \in Worker \cup {NoWorker}
        BY <2>1, <3>2 DEF TypeOK, RetryState
      <4>2. PICK st \in Status : st = Destination(pc[w], n.attempts)
        BY DEF Destination, Status
      <4> QED
        BY <2>5, <3>1, <4>1, <4>2 DEF Fail
    <3>4. CASE MayFail(w, r) /\ c = r.claim
      <4>1. /\ retry[c].status \in {"none", "processing"}
            /\ retry[c].attempts <= r.attempts
        BY <2>1, <3>2, <3>4 DEF MayFail
      <4>2. retry' = retry \/ retry'[c].attempts = n.attempts
        <5>1. retry \in [Claim -> RetryState]
          BY <2>1 DEF TypeOK
        <5>2. \A st \in Status, o \in Worker \cup {NoWorker} :
                 [retry EXCEPT ![c] = [status |-> st, attempts |-> n.attempts,
                                       owner |-> o]][c].attempts = n.attempts
          BY <5>1
        <5>3. CASE UNCHANGED retry
          BY <5>3
        <5>4. CASE \E st \in Status, o \in Worker \cup {NoWorker} :
                     retry' = [retry EXCEPT ![c] = [status |-> st, attempts |-> n.attempts,
                                                    owner |-> o]]
          BY <5>2, <5>4
        <5> QED
          BY <3>3, <3>4, <5>3, <5>4
      <4> QED
        BY <2>1, <3>2, <4>1, <4>2
    <3>5. CASE c # r.claim
      <4>1. retry'[c] = retry[c]
        <5>1. retry \in [Claim -> RetryState]
          BY <2>1 DEF TypeOK
        <5> QED
          BY <3>2, <3>3, <3>5, <5>1
      <4> QED
        BY <2>1, <4>1
    <3> QED
      BY <2>2, <3>3, <3>4, <3>5
  <2>6. UNCHANGED retry \/ \E w \in Worker : Reconcile(w) \/ Ack(w) \/ Fail(w)
    <3>1. CASE UNCHANGED vars
      BY <3>1 DEF vars
    <3>2. CASE Environment \/ \E w \in Worker : Unregister(w)
      BY <3>2 DEF Environment, Enqueue, Register, Shutdown, Crash, LeaseExpires,
         RecoveryLockExpires, MarkerExpires, Unregister
    <3>3. ASSUME NEW w \in Worker, ClaimStep(w) PROVE UNCHANGED retry \/ Reconcile(w)
      BY <3>3 DEF ClaimStep, RenewLease, ClaimNextError, RequeueOwnClaims, BeginRecovery,
         DrainOne, EndRecovery, RecoveryError, PromoteDueRetry, PopReady, PopNothing,
         DiscardMalformed
    <3>4. ASSUME NEW w \in Worker, HandleStep(w)
          PROVE  UNCHANGED retry \/ Ack(w) \/ Fail(w)
      BY <3>4 DEF HandleStep, Fence, ClaimMarker, ReadMarker, Ingest, Commit, Release,
         StartTurn, AgentTurn, Finish
    <3> QED
      BY <1>1, <3>1, <3>2, <3>3, <3>4 DEF Next
  <2> QED
    BY <2>2, <2>3, <2>4, <2>5, <2>6
<1>2. QueueInv /\ [Next]_vars => [\A c \in Claim : Advances(c)]_vars
  BY <1>1
<1> QED
  BY <1>2, Invariance, PTL DEF Spec, RetryAdvances
=============================================================================
