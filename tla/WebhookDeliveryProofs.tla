----------------------- MODULE WebhookDeliveryProofs -----------------------
(***************************************************************************)
(* Proofs of what WebhookQueue promises the other workers and the sender   *)
(* when some of the faults are left out: abandoned lists are found (no     *)
(* stalls), canonical envelopes are where the retry state says (no half-   *)
(* executed scripts), and the idempotency marker gives each provider       *)
(* message one turn and an answer (no failed ingestion, no expired marker).*)
(***************************************************************************)
EXTENDS WebhookQueueProofs

-----------------------------------------------------------------------------
(* The lists of dead workers. *)

\* Without stalls a worker loses its lease only with its process, so only
\* the lists of ended processes are ever drained, and one that is drained
\* stays empty until its registry entry goes.
Recoverable ==
    \A w \in Worker :
        /\ pc[w] = "off" => w \notin registry /\ processing[w] = {}
        /\ pc[w] \notin {"off", "gone"} => w \in lease \cap registry
        /\ pc[w] \in {"recovering", "drained"} => pc[target[w]] = "gone"
        /\ pc[w] = "drained" => processing[target[w]] = {}
        /\ pc[w] = "gone" /\ processing[w] # {} => w \in registry

\* A live worker goes on, and takes raws into no list but its own.
LEMMA AliveStep ==
    ASSUME TypeOK, LocalsMeanSomething, Recoverable, NEW w \in Worker,
           pc[w] \notin {"off", "gone"},
           pc'[w] \notin {"off", "gone", "recovering", "drained"},
           \A v \in Worker \ {w} : /\ pc'[v] = pc[v] /\ target'[v] = target[v]
                                   /\ processing'[v] \subseteq processing[v],
           UNCHANGED <<lease, registry>>
    PROVE  Recoverable'
<1> SUFFICES ASSUME NEW v \in Worker
             PROVE  /\ pc'[v] = "off" => v \notin registry' /\ processing'[v] = {}
                    /\ pc'[v] \notin {"off", "gone"} => v \in lease' \cap registry'
                    /\ pc'[v] \in {"recovering", "drained"} => pc'[target'[v]] = "gone"
                    /\ pc'[v] = "drained" => processing'[target'[v]] = {}
                    /\ pc'[v] = "gone" /\ processing'[v] # {} => v \in registry'
  BY DEF Recoverable
<1>1. CASE v = w
  BY <1>1 DEF Recoverable
<1>2. CASE v # w
  <2>1. pc[v] \in {"recovering", "drained"} => target[v] \in Worker \ {w}
    BY DEF Recoverable, LocalsMeanSomething
  <2> QED
    BY <1>2, <2>1 DEF Recoverable
<1> QED
  BY <1>1, <1>2

LEMMA RecoverableStep ==
    ASSUME "stall" \notin Faults, TypeOK, LocalsMeanSomething, Recoverable, [Next]_vars
    PROVE  Recoverable'
<1>1. CASE UNCHANGED vars
  BY <1>1 DEF Recoverable, vars, lists, owners, local
<1>2. ASSUME NEW c \in Claim, Enqueue(c) PROVE Recoverable'
  BY <1>2 DEF Enqueue, Recoverable, owners, local
<1>3. ASSUME NEW m \in Provider, MarkerExpires(m) PROVE Recoverable'
  BY <1>3 DEF MarkerExpires, Recoverable, lists, owners, local
<1>4. ASSUME NEW w \in Worker, Register(w) PROVE Recoverable'
  BY <1>4 DEF Register, Goto, Recoverable, LocalsMeanSomething, TypeOK, lists, local
<1>5. ASSUME NEW w \in Worker, Crash(w) \/ Unregister(w) PROVE Recoverable'
  <2>1. /\ pc[w] \notin {"off", "gone"} /\ pc' = [pc EXCEPT ![w] = "gone"]
        /\ UNCHANGED processing
        /\ \A v \in Worker : v # w => target'[v] = target[v]
        /\ \A v \in Worker : v # w =>
             (v \in lease' <=> v \in lease) /\ (v \in registry' <=> v \in registry)
        /\ processing[w] # {} => w \in registry'
    BY <1>5 DEF Crash, Unregister, Goto, ForgetAll, Recoverable, TypeOK, lists, owners,
       local
  <2> QED
    BY <2>1 DEF Recoverable, LocalsMeanSomething, TypeOK
<1>6. ASSUME NEW w \in Worker, LeaseExpires(w) \/ RecoveryLockExpires(w)
      PROVE  Recoverable'
  BY <1>6 DEF LeaseExpires, RecoveryLockExpires, Recoverable, lists, local
<1>7. ASSUME NEW w \in Worker, NEW o \in Worker, BeginRecovery(w, o)
      PROVE  Recoverable'
  BY <1>7 DEF BeginRecovery, Goto, Recoverable, LocalsMeanSomething, TypeOK, lists
<1>8. ASSUME NEW w \in Worker, DrainOne(w) PROVE Recoverable'
  <2>1. target[w] \in Worker /\ pc[target[w]] = "gone" /\ pc[w] = "recovering"
    BY <1>8 DEF DrainOne, Recoverable, LocalsMeanSomething
  <2>2. /\ \A v \in Worker : processing'[v] \subseteq processing[v]
        /\ \A v \in Worker : v # w => pc'[v] = pc[v]
        /\ \/ pc'[w] = "recovering"
           \/ pc'[w] = "drained" /\ processing'[target[w]] = {}
        /\ UNCHANGED <<lease, registry, target>>
    BY <1>8, <2>1 DEF DrainOne, Remove, Goto, TypeOK, owners, local
  <2> QED
    BY <2>1, <2>2 DEF Recoverable, LocalsMeanSomething
<1>9. ASSUME NEW w \in Worker, EndRecovery(w) PROVE Recoverable'
  BY <1>9 DEF EndRecovery, Goto, Recoverable, LocalsMeanSomething, TypeOK, lists
<1>10. ASSUME NEW w \in Worker,
              \/ Shutdown(w) \/ RenewLease(w) \/ ClaimNextError(w) \/ RequeueOwnClaims(w)
              \/ RecoveryError(w) \/ PopNothing(w)
              \/ \E r \in Raw : PromoteDueRetry(w, r) \/ PopReady(w, r)
       PROVE  Recoverable'
  <2>1. CASE Shutdown(w) \/ RenewLease(w) \/ ClaimNextError(w) \/ RecoveryError(w)
             \/ PopNothing(w)
    BY <2>1, AliveStep DEF Shutdown, RenewLease, ClaimNextError, RecoveryError,
       PopNothing, Leave, NextUnverified, Goto, Forget, ForgetAll, TypeOK, lists,
       owners, local
  <2>2. CASE RequeueOwnClaims(w)
    BY <2>2, AliveStep DEF RequeueOwnClaims, Remove, TypeOK, owners
  <2>3. ASSUME NEW r \in Raw, PromoteDueRetry(w, r) PROVE Recoverable'
    BY <2>3, AliveStep DEF PromoteDueRetry, Leave, Goto, Forget, ForgetAll, TypeOK,
       owners, local
  <2>4. ASSUME NEW r \in Raw, PopReady(w, r) PROVE Recoverable'
    BY <2>4, AliveStep DEF PopReady, Take, NextUnverified, Goto, Forget, TypeOK, owners
  <2> QED
    BY <1>10, <2>1, <2>2, <2>3, <2>4
<1>11. ASSUME NEW w \in Worker, HandleStep(w) \/ Reconcile(w) \/ DiscardMalformed(w)
       PROVE  Recoverable'
  <2>1. CASE Fence(w) \/ ClaimMarker(w) \/ ReadMarker(w) \/ Ingest(w) \/ Commit(w)
    BY <2>1, AliveStep DEF Fence, ClaimMarker, ReadMarker, Ingest, Commit, FenceFails,
       AfterIngestion, Leave, Goto, Forget, ForgetAll, TypeOK, lists, owners, local
  <2>2. CASE Release(w) \/ StartTurn(w) \/ AgentTurn(w) \/ Finish(w)
    BY <2>2, AliveStep DEF Release, StartTurn, AgentTurn, Finish, FenceFails, Leave,
       Goto, Forget, ForgetAll, TypeOK, lists, owners, local
  <2>3. CASE Ack(w) \/ DiscardMalformed(w)
    BY <2>3, AliveStep DEF Ack, DiscardMalformed, NextClaim, NextUnverified, Remove,
       Goto, Forget, TypeOK, owners
  <2>4. CASE Fail(w) \/ Reconcile(w)
    <3>1. /\ processing' \in {processing, Remove(w, held[w])}
          /\ \A v \in Worker \ {w} : target'[v] = target[v]
      BY <2>4 DEF Fail, Reconcile, NextClaim, NextUnverified, Leave, ForgetAll, lists,
         local, TypeOK
    <3>2. /\ pc[w] \notin {"off", "gone"} /\ UNCHANGED <<lease, registry>>
          /\ pc'[w] \notin {"off", "gone", "recovering", "drained"}
          /\ \A v \in Worker \ {w} : pc'[v] = pc[v]
      BY <2>4 DEF Fail, Reconcile, NextClaim, NextUnverified, Leave, Goto, TypeOK, owners
    <3>3. \A v \in Worker \ {w} : processing'[v] \subseteq processing[v]
      BY <3>1 DEF Remove, TypeOK
    <3> QED
      BY <3>1, <3>2, <3>3, AliveStep
  <2> QED
    BY <1>11, <2>1, <2>2, <2>3, <2>4 DEF HandleStep
<1> QED
  BY <1>1, <1>2, <1>3, <1>4, <1>5, <1>6, <1>7, <1>8, <1>9, <1>10, <1>11
     DEF Next, Environment, ClaimStep

\* A list a dead worker left behind stays in reach of recover_pending, which
\* looks only at the worker registry.
THEOREM Discovery ==
    ASSUME "stall" \notin Faults
    PROVE  Spec => []OrphansDiscoverable
<1>1. Init => Recoverable
  BY DEF Init, Recoverable
<1>2. QueueInv /\ Recoverable /\ [Next]_vars => Recoverable'
  BY RecoverableStep DEF QueueInv
<1>3. Recoverable => OrphansDiscoverable
  BY DEF Recoverable, OrphansDiscoverable
<1> QED
  BY <1>1, <1>2, <1>3, Invariance, PTL DEF Spec

-----------------------------------------------------------------------------
(* The canonical envelope. *)

\* Raw r is where workers pop or work.
Listed(r) == ready[r] > 0 \/ \E w \in Worker : r \in processing[w]

\* The part of CanonicalPresent that speaks of claim c.
CanonicalOf(c) ==
    LET r == Canonical(c)
    IN  /\ retry[c].status \in {"ready", "processing"} => Listed(r)
        /\ retry[c].status = "scheduled" => Listed(r) \/ r \in scheduled
        /\ retry[c].status = "dead" => r \in dead

LEMMA CanonicalParts ==
    /\ CanonicalPresent => \A c \in Claim : CanonicalOf(c)
    /\ (\A c \in Claim : CanonicalOf(c)') => CanonicalPresent'
BY DEF CanonicalPresent, CanonicalOf, Listed

LEMMA CanonicalRaw ==
    ASSUME TypeOK, NEW c \in Claim
    PROVE  Canonical(c) \in Raw /\ Canonical(c).claim = c
           /\ Canonical(c).attempts = retry[c].attempts
BY DEF Canonical, TypeOK, RetryState, Raw

\* A claim whose raws did not move, with its retry state.
LEMMA CanonicalSame ==
    ASSUME TypeOK, NEW c \in Claim, CanonicalOf(c), retry'[c] = retry[c],
           \A q \in CopiesOf(c) : Same(q)
    PROVE  CanonicalOf(c)'
<1>1. Canonical(c)' = Canonical(c)
  BY DEF Canonical
<1>2. Same(Canonical(c))
  BY CanonicalRaw DEF CopiesOf
<1> QED
  BY <1>1, <1>2 DEF CanonicalOf, Same, Listed

\* LMOVE, RPOPLPUSH, BRPOPLPUSH and a promotion keep a raw listed.
LEMMA CanonicalMove ==
    ASSUME TypeOK, CanonicalPresent, UNCHANGED <<dead, retry>>,
           \A q \in Raw : /\ Listed(q) => Listed(q)'
                          /\ q \in scheduled => q \in scheduled' \/ Listed(q)'
    PROVE  CanonicalPresent'
<1> SUFFICES ASSUME NEW c \in Claim PROVE CanonicalOf(c)'
  BY CanonicalParts
<1>1. CanonicalOf(c) /\ Canonical(c)' = Canonical(c)
  BY CanonicalParts DEF Canonical
<1> QED
  BY <1>1, CanonicalRaw DEF CanonicalOf

LEMMA CanonicalMoves ==
    ASSUME "lua" \notin Faults, TypeOK, LocalsMeanSomething, CanonicalPresent,
           NEW w \in Worker,
           \/ RequeueOwnClaims(w) \/ DrainOne(w)
           \/ \E r \in Raw : PromoteDueRetry(w, r) \/ PopReady(w, r)
    PROVE  CanonicalPresent'
<1>1. CASE RequeueOwnClaims(w) \/ DrainOne(w)
  <2>1. PICK o \in Worker :
            /\ UNCHANGED <<scheduled, dead, retry>>
            /\ \/ UNCHANGED <<ready, processing>>
               \/ \E r \in processing[o] : processing' = Remove(o, r) /\ ready' = Push(r)
    BY <1>1 DEF RequeueOwnClaims, DrainOne, LocalsMeanSomething
  <2>2. CASE UNCHANGED <<ready, processing>>
    BY <2>1, <2>2, CanonicalMove DEF Listed
  <2>3. ASSUME NEW r \in processing[o], processing' = Remove(o, r), ready' = Push(r)
        PROVE  CanonicalPresent'
    <3>1. r \in Raw
      BY DEF TypeOK
    <3>2. \A q \in Raw : Listed(q) => Listed(q)'
      BY <2>3, <3>1, ReadyFacts, PrivateListFacts DEF Listed
    <3> QED
      BY <2>1, <3>2, CanonicalMove
  <2> QED
    BY <2>1, <2>2, <2>3
<1>2. ASSUME NEW r \in Raw, PromoteDueRetry(w, r) PROVE CanonicalPresent'
  <2>1. /\ ready' = PushIfAbsent(r) /\ scheduled' = scheduled \ {r}
        /\ UNCHANGED <<processing, dead, retry>>
    BY <1>2 DEF PromoteDueRetry
  <2>2. \A q \in Raw : Listed(q) => Listed(q)'
    BY <2>1, ReadyFacts DEF Listed
  <2>3. Listed(r)'
    BY <2>1, ReadyFacts DEF Listed
  <2> QED
    BY <2>1, <2>2, <2>3, CanonicalMove
<1>3. ASSUME NEW r \in Raw, PopReady(w, r) PROVE CanonicalPresent'
  <2>1. /\ ready' = Pop(r) /\ processing' = Take(w, r)
        /\ UNCHANGED <<scheduled, dead, retry>>
    BY <1>3 DEF PopReady
  <2>2. \A q \in Raw : Listed(q) => Listed(q)'
    BY <2>1, ReadyFacts, PrivateListFacts DEF Listed
  <2> QED
    BY <2>1, <2>2, CanonicalMove
<1> QED
  BY <1>1, <1>2, <1>3

\* The reconciliation removes the canonical raw only where another list
\* holds it, and restores it before it removes another copy.
LEMMA CanonicalReconcile ==
    ASSUME "lua" \notin Faults, QueueInv, CanonicalPresent, NEW o \in Worker, Reconcile(o)
    PROVE  CanonicalPresent'
<1>0. PICK d \in Claim, r \in Raw, k \in Raw :
          d = ClaimOf(o) /\ r = held[o] /\ k = Canonical(d)
  BY HeldFacts DEF Reconcile, Busy, QueueInv
<1>1. /\ TypeOK /\ r.claim = d /\ k.claim = d /\ retry[d] \in RetryState
  BY <1>0, CanonicalRaw DEF QueueInv, TypeOK, ClaimOf
<1> DEFINE adopted == [retry EXCEPT ![d].status = "processing", ![d].owner = o]
<1>2. \/ UNCHANGED <<lists, retry>>
      \/ AdoptsClaim(o, r) /\ retry' = adopted /\ UNCHANGED lists
      \/ /\ ~KeepsClaim(o, r) /\ (AdoptsClaim(o, r) => retry[d].status = "scheduled")
         /\ RestoreCanonical(d) /\ retry' = Restored(d) /\ processing' = Remove(o, r)
  BY <1>0, <1>1 DEF Reconcile, NotDue, AdoptsClaim, lists
<1>3. CASE UNCHANGED <<lists, retry>>
  BY <1>1, <1>3, CanonicalMove DEF Listed, lists
<1>4. CASE AdoptsClaim(o, r) /\ retry' = adopted /\ UNCHANGED lists
  <2>1. k = r /\ r \in processing[o]
    BY <1>0, <1>1, <1>4 DEF AdoptsClaim, KeepsClaim, HoldsRaw
  <2>2. /\ retry'[d].status = "processing" /\ retry'[d].attempts = retry[d].attempts
        /\ \A c \in Claim : c # d => retry'[c] = retry[c]
    BY <1>1, <1>4 DEF TypeOK, RetryState
  <2>3. Canonical(d)' = k
    BY <1>0, <2>2 DEF Canonical
  <2>4. CanonicalOf(d)'
    BY <1>4, <2>1, <2>2, <2>3 DEF CanonicalOf, Listed, lists
  <2>5. ASSUME NEW c \in Claim, c # d PROVE CanonicalOf(c)'
    BY <1>1, <1>4, <2>2, <2>5, CanonicalSame, CanonicalParts DEF Same, CopiesOf, lists
  <2> QED
    BY <2>4, <2>5, CanonicalParts
<1>5. CASE /\ ~KeepsClaim(o, r) /\ (AdoptsClaim(o, r) => retry[d].status = "scheduled")
           /\ RestoreCanonical(d) /\ retry' = Restored(d) /\ processing' = Remove(o, r)
  <2> DEFINE status == retry[d].status
             orphaned == status = "processing" /\ ~OwnerLive(d)
  <2>1. /\ HoldsRaw(o, r) /\ status # "none"
        /\ ~(status = "processing" /\ OwnerLive(d) /\ k = r /\ retry[d].owner = o)
    BY <1>0, <1>1, <1>5 DEF KeepsClaim
  <2>2. /\ ready' = IF status = "ready" \/ orphaned THEN PushIfAbsent(k) ELSE ready
        /\ scheduled' = IF status = "scheduled" /\ ready[k] = 0
                        THEN scheduled \cup {k} ELSE scheduled
        /\ dead' = IF status = "dead" THEN dead \cup {k} ELSE dead
    BY <1>0, <1>5 DEF RestoreCanonical
  <2>3. \A w \in Worker : \A q \in Raw :
          q \in processing'[w] <=> q \in processing[w] /\ ~(w = o /\ q = r)
    BY <1>1, <1>5, PrivateListFacts
  <2>4. /\ \A c \in Claim : c # d => retry'[c] = retry[c]
        /\ retry'[d].attempts = retry[d].attempts
        /\ orphaned => retry'[d].status = "ready"
        /\ ~orphaned => retry' = retry
    BY <1>1, <1>5 DEF Restored, TypeOK, RetryState
  <2>5. /\ \A q \in Raw : q # k => ready'[q] = ready[q]
        /\ status = "ready" \/ orphaned => ready'[k] > 0
        /\ ~(status = "ready" \/ orphaned) => ready' = ready
    BY <1>1, <2>2, ReadyFacts
  <2>6. \A q \in Raw : q.claim # d => Same(q)
    BY <1>1, <2>2, <2>3, <2>5 DEF Same
  <2>7. ASSUME NEW c \in Claim, c # d PROVE CanonicalOf(c)'
    BY <1>1, <2>4, <2>6, <2>7, CanonicalSame, CanonicalParts DEF CopiesOf
  <2>8. Canonical(d)' = k /\ ready[k] \in Nat
    BY <1>0, <1>1, <2>4 DEF Canonical, TypeOK
  <2>9. CanonicalOf(d)'
    <3>1. CASE status = "ready" \/ orphaned
      BY <2>4, <2>5, <2>8, <3>1 DEF CanonicalOf, Listed
    <3>2. CASE status = "scheduled"
      BY <2>2, <2>4, <2>5, <2>8, <3>2 DEF CanonicalOf, Listed
    <3>3. CASE status = "dead"
      BY <2>2, <2>4, <2>8, <3>3 DEF CanonicalOf
    <3>4. CASE status = "processing" /\ OwnerLive(d)
      <4>1. retry[d].owner \in Worker /\ k \in processing[retry[d].owner]
        BY <1>0, <1>1, <3>4 DEF OwnerLive, TypeOK
      <4>2. k \in processing'[retry[d].owner]
        BY <2>1, <2>3, <3>4, <4>1
      <4> QED
        BY <2>4, <2>8, <3>4, <4>1, <4>2 DEF CanonicalOf, Listed
    <3>5. CASE status = "done"
      BY <2>4, <3>5 DEF CanonicalOf
    <3> QED
      BY <1>1, <2>1, <3>1, <3>2, <3>3, <3>4, <3>5 DEF RetryState, Status
  <2> QED
    BY <2>7, <2>9, CanonicalParts
<1> QED
  BY <1>2, <1>3, <1>4, <1>5

\* The end of a claim: done asks for no envelope, and a failed attempt
\* delivers the new canonical raw with the new state.
LEMMA CanonicalSettle ==
    ASSUME "lua" \notin Faults, QueueInv, CanonicalPresent, NEW o \in Worker,
           DiscardMalformed(o) \/ Ack(o) \/ Fail(o)
    PROVE  CanonicalPresent'
<1>0. PICK d \in Claim, r \in Raw : d = ClaimOf(o) /\ r = held[o] /\ r.claim = d
  BY HeldFacts DEF DiscardMalformed, Ack, Fail, Busy, QueueInv
<1>1. TypeOK /\ r.attempts \in Nat /\ retry[d] \in RetryState
  BY RawFacts DEF QueueInv, TypeOK
<1>2. CASE UNCHANGED <<ready, processing, scheduled, dead, retry>>
  BY <1>1, <1>2, CanonicalMove DEF Listed
<1>3. CASE /\ processing' \in {processing, Remove(o, r)}
           /\ UNCHANGED <<ready, scheduled, dead>>
           /\ \/ retry' = retry /\ retry[d].status = "none"
              \/ /\ retry'[d].status = "done"
                 /\ \A c \in Claim : c # d => retry'[c] = retry[c]
  <2>1. \A q \in Raw : q.claim # d => Same(q)
    BY <1>0, <1>1, <1>3, PrivateListFacts DEF Same
  <2>2. CanonicalOf(d)'
    BY <1>3 DEF CanonicalOf
  <2>3. ASSUME NEW c \in Claim, c # d PROVE CanonicalOf(c)'
    BY <1>1, <1>3, <2>1, <2>3, CanonicalSame, CanonicalParts DEF CopiesOf
  <2> QED
    BY <2>2, <2>3, CanonicalParts
<1>4. CASE DiscardMalformed(o)
  <2>1. retry[d].status = "none"
    BY <1>0, <1>4 DEF DiscardMalformed, QueueInv, AckMatchesState
  <2> QED
    BY <1>0, <1>2, <1>3, <1>4, <2>1 DEF DiscardMalformed
<1>5. CASE Ack(o)
  <2>1. \/ UNCHANGED <<ready, processing, scheduled, dead, retry>>
        \/ /\ retry' = Closed(d) /\ processing' \in {processing, Remove(o, r)}
           /\ UNCHANGED <<ready, scheduled, dead>>
    BY <1>0, <1>5 DEF Ack
  <2>2. \/ Closed(d) = retry /\ retry[d].status = "none"
        \/ /\ Closed(d)[d].status = "done"
           /\ \A c \in Claim : c # d => Closed(d)[c] = retry[c]
    BY <1>1 DEF Closed, TypeOK, RetryState
  <2> QED
    BY <1>2, <1>3, <2>1, <2>2
<1>6. CASE Fail(o)
  <2>0. PICK n \in Raw, st \in {"ready", "scheduled", "dead"} :
            n = [r EXCEPT !.attempts = @ + 1] /\ st = Destination(pc[o], n.attempts)
    BY <1>0, <1>6, HeldFacts DEF Fail, Busy, QueueInv, Destination
  <2> DEFINE saved == [retry EXCEPT ![d] = [status |-> st, attempts |-> n.attempts,
                                            owner |-> NoWorker]]
  <2>1. \/ UNCHANGED <<ready, processing, scheduled, dead, retry>>
        \/ retry' = saved /\ Deliver(st, n) /\ processing' = Remove(o, r)
    BY <1>0, <1>6, <2>0 DEF Fail, lists
  <2>2. CASE retry' = saved /\ Deliver(st, n) /\ processing' = Remove(o, r)
    <3>1. /\ retry'[d].status = st /\ retry'[d].attempts = n.attempts
          /\ \A c \in Claim : c # d => retry'[c] = retry[c]
      BY <1>1, <2>2 DEF TypeOK
    <3>2. n.claim = d /\ n = [claim |-> d, attempts |-> n.attempts]
      BY <1>0, <2>0 DEF Raw
    <3>3. Canonical(d)' = n
      BY <3>1, <3>2 DEF Canonical
    <3>4. CanonicalOf(d)'
      BY <1>1, <2>2, <3>1, <3>3, ReadyFacts DEF CanonicalOf, Listed, Deliver
    <3>5. \A q \in Raw : q.claim # d => Same(q)
      BY <1>0, <1>1, <2>2, <3>2, ReadyFacts, PrivateListFacts DEF Same, Deliver
    <3>6. ASSUME NEW c \in Claim, c # d PROVE CanonicalOf(c)'
      BY <1>1, <3>1, <3>5, <3>6, CanonicalSame, CanonicalParts DEF CopiesOf
    <3> QED
      BY <3>4, <3>6, CanonicalParts
  <2> QED
    BY <1>2, <2>1, <2>2
<1> QED
  BY <1>4, <1>5, <1>6

\* Without half-executed scripts the canonical envelope of every claim is
\* where its retry state says, through retries, recoveries and stale copies.
THEOREM CanonicalKept ==
    ASSUME "lua" \notin Faults
    PROVE  Spec => []CanonicalPresent
<1>1. Init => CanonicalPresent
  BY DEF Init, CanonicalPresent, NoState
<1>2. QueueInv /\ CanonicalPresent /\ [Next]_vars => CanonicalPresent'
  <2> SUFFICES ASSUME QueueInv, CanonicalPresent, [Next]_vars PROVE CanonicalPresent'
    OBVIOUS
  <2>1. TypeOK /\ LocalsMeanSomething
    BY DEF QueueInv
  <2>2. CASE UNCHANGED core
    BY <2>1, <2>2, CanonicalMove DEF Listed, core
  <2>3. CASE UNCHANGED vars
    BY <2>2, <2>3 DEF vars, lists, history, core
  <2>4. ASSUME NEW m \in Provider, MarkerExpires(m) PROVE CanonicalPresent'
    BY <2>2, <2>4 DEF MarkerExpires, core, lists, history
  <2>5. ASSUME NEW c \in Claim, Enqueue(c) PROVE CanonicalPresent'
    <3>1. ready' = Push([claim |-> c, attempts |-> 0])
          /\ UNCHANGED <<processing, scheduled, dead, retry>>
      BY <2>5 DEF Enqueue
    <3>2. \A q \in Raw : Listed(q) => Listed(q)'
      BY <2>1, <3>1, RawFacts, ReadyFacts DEF Listed
    <3> QED
      BY <2>1, <3>1, <3>2, CanonicalMove
  <2>6. ASSUME NEW w \in Worker, ClaimStep(w) \/ HandleStep(w) \/ Unregister(w)
        PROVE  CanonicalPresent'
    BY <2>1, <2>2, <2>6, OtherSteps, CanonicalMoves, CanonicalReconcile, CanonicalSettle
       DEF ClaimStep, HandleStep
  <2>7. ASSUME NEW w \in Worker, \/ Register(w) \/ Shutdown(w) \/ Crash(w)
                                 \/ LeaseExpires(w) \/ RecoveryLockExpires(w)
        PROVE  CanonicalPresent'
    BY <2>1, <2>2, <2>7, OtherSteps
  <2> QED
    BY <2>3, <2>4, <2>5, <2>6, <2>7 DEF Next, Environment
<1> QED
  BY <1>1, <1>2, Invariance, PTL DEF Spec

-----------------------------------------------------------------------------
(* The idempotency marker. *)

\* Past claim_processing a worker works under the marker of its claim.
AfterMarker == {"ingest", "commit", "guard", "agent", "finish"}
Entitled(c) == c \in turns \/ \E w \in Worker : pc[w] \in AfterMarker /\ ClaimOf(w) = c

\* Until the marker expires or a failed ingestion releases it, it names the
\* one claim of the provider message that got past it, or says done.
MarkerKept ==
    /\ \A w \in Worker : pc[w] # "release"
    /\ \A c \in Claim : Entitled(c) => marker[ProviderOf[c]] \in {c, Done}
    /\ \A c, d \in Claim :
         Entitled(c) /\ Entitled(d) /\ ProviderOf[c] = ProviderOf[d] => c = d
    /\ \A m \in persisted : marker[m] # Absent

\* What a step of worker v does to the marker, the messages table and the
\* turns; NoWorker stands for a step of the environment.
OthersRest(v) ==
    \A w \in Worker \ {v} :
        pc'[w] = pc[w] /\ held'[w] = held[w] /\ (w \in resumed' <=> w \in resumed)
Rests(v) == held'[v] = held[v] /\ (v \in resumed' <=> v \in resumed)

Elsewhere(v) ==
    /\ v \in Worker => \/ pc'[v] \notin AfterMarker \cup {"release"}
                       \/ pc'[v] = pc[v] /\ Rests(v)
    /\ UNCHANGED <<marker, persisted, turns, answered>>
Claims(v) ==
    /\ pc[v] = "marker" /\ marker[ProviderHeld(v)] = Absent
    /\ marker' = [marker EXCEPT ![ProviderHeld(v)] = ClaimOf(v)]
    /\ pc'[v] \in {"ingest", "failed"} /\ Rests(v)
    /\ UNCHANGED <<persisted, turns, answered>>
Resumes(v) ==
    /\ pc[v] = "getmarker" /\ marker[ProviderHeld(v)] = ClaimOf(v)
    /\ pc'[v] = "ingest" /\ held'[v] = held[v] /\ v \in resumed'
    /\ UNCHANGED <<marker, persisted, turns, answered>>
Ingests(v) ==
    /\ pc[v] = "ingest" /\ Owns(v, held[v])
    /\ pc'[v] = "commit" /\ Rests(v)
    /\ UNCHANGED <<marker, persisted, turns, answered>>
Commits(v) ==
    LET m == ProviderHeld(v)
        writes == Payload[ClaimOf(v)] \in {"message", "echo"} /\ m \notin persisted
    IN  /\ pc[v] = "commit"
        /\ persisted' = IF writes THEN persisted \cup {m} ELSE persisted
        /\ pc'[v] = AfterIngestion(v, ~writes) /\ Rests(v)
        /\ UNCHANGED <<marker, turns, answered>>
Starts(v) ==
    /\ pc[v] = "guard" /\ pc'[v] = "agent" /\ Rests(v)
    /\ turns' = turns \cup {ClaimOf(v)}
    /\ UNCHANGED <<marker, persisted, answered>>
Answers(v) ==
    /\ pc[v] = "agent" /\ pc'[v] = "finish" /\ Rests(v)
    /\ answered' = answered \cup {ClaimOf(v)}
    /\ UNCHANGED <<marker, persisted, turns>>
Finishes(v) ==
    /\ pc[v] = "finish" /\ Owns(v, held[v]) /\ marker[ProviderHeld(v)] = ClaimOf(v)
    /\ marker' = [marker EXCEPT ![ProviderHeld(v)] = Done]
    /\ pc'[v] \in {"ack", "failed"} /\ Rests(v)
    /\ UNCHANGED <<persisted, turns, answered>>

MarkerEffect(v) ==
    /\ OthersRest(v)
    /\ \/ Elsewhere(v)
       \/ /\ v \in Worker
          /\ \/ Claims(v) \/ Resumes(v) \/ Ingests(v) \/ Commits(v)
             \/ Starts(v) \/ Answers(v) \/ Finishes(v)

\* No ingestion fails, before or after COMMIT, and no marker expires.
Undisturbed == {"db", "commit", "ttl"} \cap Faults = {}

LEMMA HandleEffect ==
    ASSUME Undisturbed, TypeOK, NEW w \in Worker, pc[w] # "release", HandleStep(w)
    PROVE  MarkerEffect(w)
<1> USE DEF MarkerEffect, OthersRest, Rests
<1>1. CASE Fence(w)
  BY <1>1 DEF Fence, FenceFails, Elsewhere, AfterMarker, Leave, Goto, Forget, ForgetAll,
     TypeOK, local, history
<1>2. CASE ClaimMarker(w) \/ ReadMarker(w)
  BY <1>2 DEF ClaimMarker, ReadMarker, Elsewhere, Claims, Resumes, AfterMarker, Goto,
     TypeOK, local, history
<1>3. CASE Ingest(w)
  BY <1>3 DEF Undisturbed, Ingest, FenceFails, Elsewhere, Ingests, AfterMarker, Leave,
     Goto, Forget, ForgetAll, TypeOK, local, history
<1>4. CASE Commit(w)
  BY <1>4 DEF Undisturbed, Commit, Commits, Goto, TypeOK, local, history
<1>5. CASE StartTurn(w) \/ AgentTurn(w)
  BY <1>5 DEF StartTurn, AgentTurn, FenceFails, Elsewhere, Starts, Answers, AfterMarker,
     Leave, Goto, Forget, ForgetAll, TypeOK, local
<1>6. CASE Finish(w)
  BY <1>6 DEF Finish, Elsewhere, Finishes, AfterMarker, Leave, Goto, Forget, ForgetAll,
     TypeOK, local, history
<1>7. CASE Ack(w) \/ Fail(w)
  <2>1. pc'[w] \in {"loop", "exit"}
    BY <1>7 DEF Ack, Fail, NextClaim, NextUnverified, Leave, Goto, TypeOK
  <2>2. OthersRest(w) /\ UNCHANGED <<marker, persisted, turns, answered>>
    BY <1>7 DEF Ack, Fail, NextClaim, NextUnverified, Leave, Goto, Forget, ForgetAll,
       TypeOK, history
  <2> QED
    BY <2>1, <2>2 DEF Elsewhere, AfterMarker
<1> QED
  BY <1>1, <1>2, <1>3, <1>4, <1>5, <1>6, <1>7 DEF HandleStep, Release

LEMMA NextMarkerEffect ==
    ASSUME Undisturbed, TypeOK, \A w \in Worker : pc[w] # "release", [Next]_vars
    PROVE  \E v \in Worker \cup {NoWorker} : MarkerEffect(v)
<1> USE DEF MarkerEffect, OthersRest, Rests, Elsewhere, AfterMarker
<1>0. NoWorker \notin Worker
  BY QueueAssumption
<1>1. CASE UNCHANGED vars
  BY <1>1, <1>0 DEF vars, local, history
<1>2. ASSUME NEW c \in Claim, Enqueue(c) PROVE MarkerEffect(NoWorker)
  BY <1>2, <1>0 DEF Enqueue, local
<1>3. ASSUME NEW m \in Provider, MarkerExpires(m) PROVE FALSE
  BY <1>3 DEF MarkerExpires, Undisturbed
<1>4. ASSUME NEW w \in Worker, LeaseExpires(w) \/ RecoveryLockExpires(w)
      PROVE  MarkerEffect(NoWorker)
  BY <1>4, <1>0 DEF LeaseExpires, RecoveryLockExpires, local, history
<1>5. ASSUME NEW w \in Worker,
             \/ Register(w) \/ Shutdown(w) \/ Crash(w) \/ Unregister(w) \/ RenewLease(w)
             \/ ClaimNextError(w) \/ RequeueOwnClaims(w) \/ DrainOne(w)
             \/ EndRecovery(w) \/ RecoveryError(w) \/ PopNothing(w)
             \/ \E o \in Worker : BeginRecovery(w, o)
      PROVE  MarkerEffect(w)
  <2>1. CASE Register(w) \/ Shutdown(w) \/ Crash(w) \/ Unregister(w) \/ RenewLease(w)
    BY <2>1 DEF Register, Shutdown, Crash, Unregister, RenewLease, Leave, Goto, Forget,
       ForgetAll, TypeOK, local, history
  <2>2. CASE RequeueOwnClaims(w) \/ ClaimNextError(w) \/ PopNothing(w) \/ DrainOne(w)
    BY <2>2 DEF RequeueOwnClaims, ClaimNextError, PopNothing, DrainOne, NextUnverified,
       Goto, Forget, TypeOK, local, history
  <2>3. CASE \/ EndRecovery(w) \/ RecoveryError(w)
             \/ \E o \in Worker : BeginRecovery(w, o)
    BY <2>3 DEF EndRecovery, RecoveryError, BeginRecovery, NextUnverified, Goto, Forget,
       TypeOK, history
  <2> QED
    BY <1>5, <2>1, <2>2, <2>3
<1>6. ASSUME NEW w \in Worker, NEW r \in Raw, PromoteDueRetry(w, r) \/ PopReady(w, r)
      PROVE  MarkerEffect(w)
  BY <1>6 DEF PromoteDueRetry, PopReady, Leave, NextUnverified, Goto, Forget, ForgetAll,
     TypeOK, local, history
<1>7. ASSUME NEW w \in Worker, Reconcile(w) \/ DiscardMalformed(w) PROVE MarkerEffect(w)
  <2>1. pc'[w] \in {"handle", "loop", "exit"}
    BY <1>7 DEF Reconcile, DiscardMalformed, NextClaim, NextUnverified, Leave, Goto,
       TypeOK
  <2>2. OthersRest(w) /\ UNCHANGED <<marker, persisted, turns, answered>>
    BY <1>7 DEF Reconcile, DiscardMalformed, NextClaim, NextUnverified, Leave, Goto,
       Forget, ForgetAll, TypeOK, local, history
  <2> QED
    BY <2>1, <2>2
<1>8. ASSUME NEW w \in Worker, HandleStep(w) PROVE MarkerEffect(w)
  BY <1>8, HandleEffect
<1> QED
  BY <1>1, <1>2, <1>3, <1>4, <1>5, <1>6, <1>7, <1>8 DEF Next, Environment, ClaimStep

\* A step by which nobody gets past the marker keeps what the marker says.
LEMMA EntitledShrinks ==
    ASSUME MarkerKept, \A c \in Claim : Entitled(c)' => Entitled(c),
           \A w \in Worker : pc'[w] # "release",
           \A c \in Claim : Entitled(c)' => marker'[ProviderOf[c]] \in {c, Done},
           \A m \in persisted' : marker'[m] # Absent
    PROVE  MarkerKept'
BY DEF MarkerKept

LEMMA MarkerStep ==
    ASSUME TypeOK, LocalsMeanSomething, MarkerKept,
           NEW v \in Worker \cup {NoWorker}, MarkerEffect(v)
    PROVE  MarkerKept'
<1>0. \A w \in Worker : pc[w] \in Busy => ClaimOf(w) \in Claim /\ ProviderHeld(w) \in Provider
                                          /\ ProviderHeld(w) = ProviderOf[ClaimOf(w)]
  BY RawFacts, QueueAssumption DEF LocalsMeanSomething, ClaimOf, ProviderHeld
<1>1. \A w \in Worker \ {v} : pc'[w] = pc[w] /\ ClaimOf(w)' = ClaimOf(w)
  BY DEF MarkerEffect, OthersRest, ClaimOf
<1>2. \A w \in Worker : pc[w] # "release"
  BY DEF MarkerKept
<1> USE DEF AfterMarker, Busy
<1>3. CASE Elsewhere(v)
  <2>1. \A c \in Claim : Entitled(c)' => Entitled(c)
    BY <1>1, <1>3 DEF Elsewhere, Rests, Entitled, ClaimOf
  <2> QED
    BY <1>1, <1>2, <1>3, <2>1, EntitledShrinks DEF Elsewhere, MarkerKept
<1>4. ASSUME v \in Worker, Rests(v), pc[v] \in AfterMarker, pc'[v] # "release",
             turns' \in {turns, turns \cup {ClaimOf(v)}}
      PROVE  \A c \in Claim : Entitled(c)' => Entitled(c)
  BY <1>1, <1>4 DEF Entitled, Rests, ClaimOf
<1>5. CASE v \in Worker /\ (Ingests(v) \/ Starts(v) \/ Answers(v))
  <2>1. /\ v \in Worker /\ Rests(v) /\ pc[v] \in AfterMarker /\ pc'[v] # "release"
        /\ turns' \in {turns, turns \cup {ClaimOf(v)}}
        /\ UNCHANGED <<marker, persisted>>
    BY <1>5 DEF Ingests, Starts, Answers
  <2> QED
    BY <1>1, <1>2, <1>4, <2>1, EntitledShrinks DEF MarkerKept
<1>6. CASE v \in Worker /\ Commits(v)
  <2>1. /\ Rests(v) /\ pc[v] = "commit" /\ pc'[v] # "release"
        /\ persisted' \subseteq persisted \cup {ProviderHeld(v)}
        /\ UNCHANGED <<marker, turns>>
    BY <1>6 DEF Commits, AfterIngestion
  <2>2. Entitled(ClaimOf(v))
    BY <1>6, <2>1 DEF Entitled
  <2>3. marker[ProviderHeld(v)] # Absent
    BY <1>0, <1>6, <2>1, <2>2, QueueAssumption DEF MarkerKept
  <2> QED
    BY <1>1, <1>2, <1>4, <1>6, <2>1, <2>3, EntitledShrinks DEF MarkerKept
<1>7. CASE v \in Worker /\ Finishes(v)
  <2>1. /\ Rests(v) /\ pc[v] = "finish" /\ pc'[v] # "release"
        /\ UNCHANGED <<persisted, turns>>
        /\ marker' = [marker EXCEPT ![ProviderHeld(v)] = Done]
    BY <1>7 DEF Finishes
  <2>2. \A m \in Provider : marker'[m] \in {marker[m], Done}
    BY <2>1 DEF TypeOK
  <2>3. Absent # Done /\ \A c \in Claim : ProviderOf[c] \in Provider
    BY QueueAssumption
  <2> QED
    BY <1>1, <1>2, <1>4, <1>7, <2>1, <2>2, <2>3, EntitledShrinks DEF MarkerKept, TypeOK
<1>8. CASE v \in Worker /\ Claims(v)
  <2>1. /\ Rests(v) /\ pc[v] = "marker" /\ pc'[v] \in {"ingest", "failed"}
        /\ marker[ProviderHeld(v)] = Absent
        /\ marker' = [marker EXCEPT ![ProviderHeld(v)] = ClaimOf(v)]
        /\ UNCHANGED <<persisted, turns>>
    BY <1>8 DEF Claims
  <2>2. ClaimOf(v) \in Claim /\ ProviderHeld(v) \in Provider
        /\ ProviderHeld(v) = ProviderOf[ClaimOf(v)]
    BY <1>0, <1>8, <2>1
  <2>3. \A c \in Claim : Entitled(c) => ProviderOf[c] # ProviderHeld(v)
    BY <2>1, QueueAssumption DEF MarkerKept
  <2>4. \A c \in Claim : Entitled(c)' => Entitled(c) \/ c = ClaimOf(v)
    BY <1>1, <2>1 DEF Entitled, Rests, ClaimOf
  <2>5. \A m \in Provider : marker'[m] = IF m = ProviderHeld(v) THEN ClaimOf(v) ELSE marker[m]
    BY <2>1 DEF TypeOK
  <2>6. \A w \in Worker : pc'[w] # "release"
    BY <1>1, <1>2, <2>1
  <2>7. \A c \in Claim : Entitled(c)' => marker'[ProviderOf[c]] \in {c, Done}
    BY <2>2, <2>3, <2>4, <2>5, QueueAssumption DEF MarkerKept
  <2>8. \A c, d \in Claim :
           Entitled(c)' /\ Entitled(d)' /\ ProviderOf[c] = ProviderOf[d] => c = d
    BY <2>2, <2>3, <2>4 DEF MarkerKept
  <2>9. \A m \in persisted' : marker'[m] # Absent
    BY <2>1, <2>2, <2>5, QueueAssumption DEF MarkerKept, TypeOK
  <2> QED
    BY <2>6, <2>7, <2>8, <2>9 DEF MarkerKept
<1>9. CASE v \in Worker /\ Resumes(v)
  <2>1. /\ held'[v] = held[v] /\ pc[v] = "getmarker" /\ pc'[v] = "ingest"
        /\ marker[ProviderHeld(v)] = ClaimOf(v)
        /\ UNCHANGED <<marker, persisted, turns>>
    BY <1>9 DEF Resumes
  <2>2. ClaimOf(v) \in Claim /\ ProviderHeld(v) = ProviderOf[ClaimOf(v)]
    BY <1>0, <1>9, <2>1
  <2>3. \A c \in Claim : Entitled(c) /\ ProviderOf[c] = ProviderHeld(v) => c = ClaimOf(v)
    BY <2>1, <2>2, QueueAssumption DEF MarkerKept
  <2>4. \A c \in Claim : Entitled(c)' => Entitled(c) \/ c = ClaimOf(v)
    BY <1>1, <2>1 DEF Entitled, ClaimOf
  <2>5. \A w \in Worker : pc'[w] # "release"
    BY <1>1, <1>2, <2>1
  <2> QED
    BY <2>1, <2>2, <2>3, <2>4, <2>5 DEF MarkerKept
<1> QED
  BY <1>3, <1>5, <1>6, <1>7, <1>8, <1>9 DEF MarkerEffect

\* What the marker says holds of every reachable state.
LEMMA MarkerInvariant ==
    ASSUME Undisturbed
    PROVE  Spec => [](QueueInv /\ MarkerKept)
<1>1. Init => MarkerKept
  BY DEF Init, MarkerKept, Entitled, AfterMarker
<1>2. QueueInv /\ MarkerKept /\ [Next]_vars => MarkerKept'
  BY NextMarkerEffect, MarkerStep DEF QueueInv, MarkerKept
<1> QED
  BY <1>1, <1>2, Invariance, PTL DEF Spec

\* Two deliveries of one provider message never both reach the agent.
THEOREM SingleTurn ==
    ASSUME Undisturbed
    PROVE  Spec => []OneTurnPerMessage
<1>1. QueueInv /\ MarkerKept => OneTurnPerMessage
  BY DEF QueueInv, TypeOK, MarkerKept, Entitled, OneTurnPerMessage
<1> QED
  BY <1>1, MarkerInvariant, PTL

-----------------------------------------------------------------------------
(* Done means answered. *)

\* A retry state changes hands only while its new owner reconciles.
LEMMA OwnerSet ==
    ASSUME QueueInv, [Next]_vars, NEW c \in Claim, retry'[c] # retry[c]
    PROVE  \/ retry'[c].status \notin {"none", "processing"}
           \/ \E v \in Worker : pc[v] = "popped" /\ retry'[c].owner = v
<1>1. TypeOK /\ LocalsMeanSomething /\ BelowLimit
  BY DEF QueueInv
<1>2. ASSUME NEW w \in Worker, Reconcile(w)
      PROVE  \/ retry'[c].status \notin {"none", "processing"}
             \/ pc[w] = "popped" /\ retry'[c].owner = w
  <2>1. ClaimOf(w) \in Claim /\ pc[w] = "popped"
    BY <1>1, <1>2, HeldFacts DEF Reconcile, Busy
  <2>2. retry' \in {retry, Restored(ClaimOf(w)), HalfRestored(ClaimOf(w)),
                    [retry EXCEPT ![ClaimOf(w)].status = "processing",
                                  ![ClaimOf(w)].owner = w]}
    BY <1>2 DEF Reconcile
  <2> QED
    BY <1>1, <2>1, <2>2 DEF Restored, HalfRestored, TypeOK, RetryState
<1>3. ASSUME NEW w \in Worker, Ack(w) PROVE retry'[c].status \notin {"none", "processing"}
  <2>1. ClaimOf(w) \in Claim
    BY <1>1, <1>3, HeldFacts DEF Ack, Busy
  <2> QED
    BY <1>1, <1>3, <2>1 DEF Ack, Closed, TypeOK, RetryState
<1>4. ASSUME NEW w \in Worker, Fail(w) PROVE retry'[c].status \notin {"none", "processing"}
  <2>1. PICK r \in Raw, n \in Raw : r = held[w] /\ n = [r EXCEPT !.attempts = @ + 1]
    BY <1>1, <1>4, HeldFacts DEF Fail, Busy
  <2>2. PICK st \in {"ready", "scheduled", "dead"} : st = Destination(pc[w], n.attempts)
    BY DEF Destination
  <2>3. \/ UNCHANGED retry
        \/ \E o \in Worker \cup {NoWorker} :
             retry' = [retry EXCEPT ![r.claim] =
                         [status |-> st, attempts |-> n.attempts, owner |-> o]]
    <3>1. retry[r.claim].owner \in Worker \cup {NoWorker}
      BY <1>1, RawFacts DEF TypeOK, RetryState
    <3> QED
      BY <1>4, <2>1, <2>2, <3>1 DEF Fail
  <2>4. PICK o \in Worker \cup {NoWorker} :
            retry' = [retry EXCEPT ![r.claim] =
                        [status |-> st, attempts |-> n.attempts, owner |-> o]]
    BY <2>3
  <2>5. retry \in [Claim -> RetryState]
    BY <1>1 DEF TypeOK
  <2>6. retry'[c] = [status |-> st, attempts |-> n.attempts, owner |-> o]
    BY <2>4, <2>5
  <2> QED
    BY <2>2, <2>6
<1>5. UNCHANGED retry \/ \E w \in Worker : Reconcile(w) \/ Ack(w) \/ Fail(w)
  <2>1. CASE UNCHANGED vars
    BY <2>1 DEF vars
  <2>2. CASE Environment \/ \E w \in Worker : Unregister(w)
    BY <2>2 DEF Environment, Enqueue, Register, Shutdown, Crash, LeaseExpires,
       RecoveryLockExpires, MarkerExpires, Unregister
  <2>3. ASSUME NEW w \in Worker, ClaimStep(w) PROVE UNCHANGED retry \/ Reconcile(w)
    BY <2>3 DEF ClaimStep, RenewLease, ClaimNextError, RequeueOwnClaims, BeginRecovery,
       DrainOne, EndRecovery, RecoveryError, PromoteDueRetry, PopReady, PopNothing,
       DiscardMalformed
  <2>4. ASSUME NEW w \in Worker, HandleStep(w)
        PROVE  UNCHANGED retry \/ Ack(w) \/ Fail(w)
    BY <2>4 DEF HandleStep, Fence, ClaimMarker, ReadMarker, Ingest, Commit, Release,
       StartTurn, AgentTurn, Finish
  <2> QED
    BY <2>1, <2>2, <2>3, <2>4 DEF Next
<1> QED
  BY <1>2, <1>3, <1>4, <1>5

\* Only a worker that pops adds to its list, and only one that registers
\* has a lease it did not have.
LEMMA HoldsLess ==
    ASSUME TypeOK, LocalsMeanSomething, NEW w \in Worker, pc[w] \in Busy, [Next]_vars
    PROVE  /\ w \in lease' => w \in lease
           /\ processing'[w] \subseteq processing[w]
<1>1. CASE UNCHANGED vars
  BY <1>1 DEF vars, lists, owners
<1>2. CASE Environment \/ \E v \in Worker : Unregister(v)
  BY <1>2 DEF Environment, Enqueue, Register, Shutdown, Crash, LeaseExpires,
     RecoveryLockExpires, MarkerExpires, Unregister, Busy, lists, owners
<1>3. ASSUME NEW v \in Worker, ClaimStep(v) PROVE w \in lease' => w \in lease
  BY <1>3 DEF ClaimStep, RenewLease, ClaimNextError, RequeueOwnClaims, BeginRecovery,
     DrainOne, EndRecovery, RecoveryError, PromoteDueRetry, PopReady, PopNothing,
     Reconcile, DiscardMalformed, owners
<1>4. ASSUME NEW v \in Worker, HandleStep(v) PROVE w \in lease' => w \in lease
  BY <1>4 DEF HandleStep, Fence, ClaimMarker, ReadMarker, Ingest, Commit, Release,
     StartTurn, AgentTurn, Finish, Ack, Fail, owners
<1>5. ASSUME NEW v \in Worker, ClaimStep(v) PROVE processing'[w] \subseteq processing[w]
  <2>1. CASE RequeueOwnClaims(v) \/ DrainOne(v) \/ Reconcile(v) \/ DiscardMalformed(v)
    BY <2>1 DEF RequeueOwnClaims, DrainOne, Reconcile, DiscardMalformed, Remove, TypeOK,
       lists, LocalsMeanSomething
  <2>2. ASSUME NEW r \in Raw, PopReady(v, r) PROVE processing'[w] = processing[w]
    BY <2>2 DEF PopReady, Take, TypeOK, Busy
  <2> QED
    BY <1>5, <2>1, <2>2 DEF ClaimStep, RenewLease, ClaimNextError, BeginRecovery,
       EndRecovery, RecoveryError, PromoteDueRetry, PopNothing, lists
<1>6. ASSUME NEW v \in Worker, HandleStep(v) PROVE processing'[w] \subseteq processing[w]
  BY <1>6 DEF HandleStep, Fence, ClaimMarker, ReadMarker, Ingest, Commit, Release,
     StartTurn, AgentTurn, Finish, Ack, Fail, Remove, TypeOK, lists
<1> QED
  BY <1>1, <1>2, <1>3, <1>4, <1>5, <1>6 DEF Next

\* A worker that lost its claim does not get it back while it goes on.
LEMMA LostForGood ==
    ASSUME QueueInv, [Next]_vars, NEW w \in Worker, pc[w] \in Busy \ {"popped"},
           held'[w] = held[w], ~Owns(w, held[w])
    PROVE  ~Owns(w, held[w])'
<1>1. TypeOK /\ LocalsMeanSomething /\ held[w] \in Raw /\ held[w].claim \in Claim
  BY RawFacts DEF QueueInv, LocalsMeanSomething
<1> DEFINE r == held[w]
           c == r.claim
<1> SUFFICES ASSUME Owns(w, r)' PROVE FALSE
  OBVIOUS
<1>2. HoldsRaw(w, r)
  BY <1>1, HoldsLess DEF Owns, HoldsRaw
<1>3. retry'[c] # retry[c]
  BY <1>2 DEF Owns
<1>4. PICK v \in Worker : pc[v] = "popped" /\ retry'[c].owner = v
  BY <1>1, <1>3, OwnerSet DEF Owns
<1>5. retry'[c].status # "none"
  <2>1. CASE retry'[c].status = "none"
    <3>1. QueueInv'
      BY InvStep
    <3>2. retry'[c] = NoState
      BY <1>1, <2>1, <3>1 DEF QueueInv, FirstAttemptUnique, NoState
    <3> QED
      BY <1>4, <3>2, QueueAssumption DEF NoState
  <2> QED
    BY <2>1
<1> QED
  BY <1>4, <1>5 DEF Owns

\* Somebody else stored the message worker w is about to store, or may.
Superseded(w) ==
    \/ ProviderHeld(w) \in persisted
    \/ \E v \in Worker : v # w /\ pc[v] = "commit" /\ ClaimOf(v) = ClaimOf(w)

\* A worker that will find the message stored, though it did not resume the
\* claim, has lost the claim: it skips the agent but cannot mark it done.
AnsweredInv ==
    /\ \A w \in Worker :
         pc[w] \in {"ingest", "commit"} /\ w \notin resumed /\ Superseded(w)
         => ~Owns(w, held[w])
    /\ \A w \in Worker :
         pc[w] = "finish" /\ Payload[ClaimOf(w)] = "message" /\ ClaimOf(w) \notin answered
         => ~Owns(w, held[w])
    /\ DoneMeansAnswered

LEMMA AnsweredStep ==
    ASSUME QueueInv, MarkerKept, AnsweredInv, [Next]_vars,
           NEW v \in Worker \cup {NoWorker}, MarkerEffect(v)
    PROVE  AnsweredInv'
<1>1. TypeOK /\ LocalsMeanSomething /\ FenceExclusive
  BY QueueExclusive DEF QueueInv
<1>2. \A w \in Worker : pc[w] \in Busy =>
        /\ held[w] \in Raw /\ ClaimOf(w) \in Claim /\ held[w].claim = ClaimOf(w)
        /\ ProviderHeld(w) \in Provider /\ ProviderHeld(w) = ProviderOf[ClaimOf(w)]
  BY <1>1, RawFacts, QueueAssumption DEF LocalsMeanSomething, ClaimOf, ProviderHeld
<1>3. \A w \in Worker \ {v} : pc'[w] = pc[w] /\ Rests(w)
  BY DEF MarkerEffect, OthersRest, Rests
<1>4. answered \subseteq answered' /\ persisted \subseteq persisted'
  BY DEF MarkerEffect, Elsewhere, Claims, Resumes, Ingests, Commits, Starts, Answers,
     Finishes
<1>5. \A w \in Worker : held'[w] = held[w] =>
        ClaimOf(w)' = ClaimOf(w) /\ ProviderHeld(w)' = ProviderHeld(w)
  BY DEF ClaimOf, ProviderHeld
<1>6. ASSUME NEW w \in Worker, pc'[w] \in {"ingest", "commit"}, w \notin resumed',
             Superseded(w)'
      PROVE  ~Owns(w, held[w])'
  <2>1. CASE pc[w] \in {"ingest", "commit"} /\ Rests(w)
    <3>1. ~Owns(w, held[w])
      <4>1. CASE Superseded(w)
        BY <1>6, <2>1, <4>1 DEF AnsweredInv, Rests
      <4>2. ASSUME ~Superseded(w), NEW u \in Worker, u # w, pc'[u] = "commit",
                   ClaimOf(u)' = ClaimOf(w)'
            PROVE  ~Owns(w, held[w])
        <5>1. u = v /\ Ingests(u)
          <6>1. pc[u] = "commit" /\ Rests(u) => ClaimOf(u) = ClaimOf(w)
            BY <1>5, <2>1, <4>2 DEF Rests
          <6>2. ~(pc[u] = "commit" /\ Rests(u))
            BY <4>2, <6>1 DEF Superseded
          <6> QED
            BY <1>3, <4>2, <6>2 DEF MarkerEffect, Elsewhere, Claims, Resumes, Ingests,
               Commits, Starts, Answers, Finishes, AfterIngestion, AfterMarker
        <5>2. ClaimOf(u) = ClaimOf(w)
          BY <1>5, <2>1, <4>2, <5>1 DEF Ingests, Rests
        <5>3. /\ held[u] \in Raw /\ held[u].claim = ClaimOf(u)
              /\ held[w] \in Raw /\ held[w].claim = ClaimOf(w)
          BY <1>2, <2>1, <5>1 DEF Ingests, Busy
        <5> QED
          BY <1>1, <4>2, <5>1, <5>2, <5>3 DEF Ingests, FenceExclusive
      <4>3. ASSUME ~Superseded(w), ProviderHeld(w) \in persisted' PROVE FALSE
        <5>1. v \in Worker /\ Commits(v) /\ ProviderHeld(v) = ProviderHeld(w)
          BY <4>3 DEF Superseded, MarkerEffect, Elsewhere, Claims, Resumes, Ingests,
             Commits, Starts, Answers, Finishes
        <5>2. pc[v] = "commit"
          BY <5>1 DEF Commits
        <5>3. v # w
          BY <1>6, <5>1 DEF Commits, AfterIngestion
        <5>4. Entitled(ClaimOf(v)) /\ Entitled(ClaimOf(w))
          BY <2>1, <5>1, <5>2 DEF Entitled, AfterMarker
        <5>5. ClaimOf(v) = ClaimOf(w)
          BY <1>2, <2>1, <5>1, <5>2, <5>4 DEF MarkerKept, Busy
        <5> QED
          BY <4>3, <5>1, <5>2, <5>3, <5>5 DEF Superseded
      <4> QED
        BY <1>5, <1>6, <2>1, <4>1, <4>2, <4>3 DEF Superseded, Rests
    <3> QED
      BY <2>1, <3>1, LostForGood DEF Rests, Busy
  <2>2. CASE ~(pc[w] \in {"ingest", "commit"} /\ Rests(w))
    <3>1. w = v /\ Claims(w)
      BY <1>3, <1>6, <2>2 DEF MarkerEffect, Elsewhere, Claims, Resumes, Ingests, Commits,
         Starts, Answers, Finishes, AfterIngestion, AfterMarker
    <3>2. /\ pc[w] = "marker" /\ Rests(w) /\ marker[ProviderHeld(w)] = Absent
          /\ UNCHANGED persisted
      BY <3>1 DEF Claims
    <3>3. ClaimOf(w) \in Claim /\ ProviderHeld(w) = ProviderOf[ClaimOf(w)]
      BY <1>2, <3>2 DEF Busy
    <3>4. ~Entitled(ClaimOf(w)) /\ ProviderHeld(w) \notin persisted
      BY <3>2, <3>3, QueueAssumption DEF MarkerKept
    <3>5. \A u \in Worker : u # w => ~(pc[u] = "commit" /\ ClaimOf(u) = ClaimOf(w))
      BY <3>4 DEF Entitled, AfterMarker
    <3> QED
      BY <1>3, <1>5, <1>6, <3>1, <3>2, <3>4, <3>5 DEF Superseded, Rests
  <2> QED
    BY <2>1, <2>2
<1>7. ASSUME NEW w \in Worker, pc'[w] = "finish", Payload[ClaimOf(w)'] = "message",
             ClaimOf(w)' \notin answered'
      PROVE  ~Owns(w, held[w])'
  <2>1. CASE pc[w] = "finish" /\ Rests(w)
    BY <1>4, <1>5, <1>7, <2>1, LostForGood DEF AnsweredInv, Rests, Busy
  <2>2. CASE ~(pc[w] = "finish" /\ Rests(w))
    <3>1. w = v /\ (Commits(w) \/ Answers(w))
      BY <1>3, <1>7, <2>2 DEF MarkerEffect, Elsewhere, Claims, Resumes, Ingests, Commits,
         Starts, Answers, Finishes, AfterMarker
    <3>2. Rests(w) /\ ClaimOf(w)' = ClaimOf(w)
      BY <1>5, <3>1 DEF Commits, Answers, Rests
    <3>3. Commits(w)
      BY <1>7, <3>1, <3>2 DEF Answers
    <3>4. /\ pc[w] = "commit" /\ w \notin resumed /\ ProviderHeld(w) \in persisted
      BY <1>7, <3>2, <3>3 DEF Commits, AfterIngestion
    <3>5. ~Owns(w, held[w])
      BY <3>4 DEF AnsweredInv, Superseded
    <3> QED
      BY <3>2, <3>4, <3>5, LostForGood DEF Rests, Busy
  <2> QED
    BY <2>1, <2>2
<1>8. DoneMeansAnswered'
  <2> SUFFICES ASSUME NEW m \in Provider, marker'[m] = Done,
                      \A c \in Claim : ProviderOf[c] = m => Payload[c] = "message"
               PROVE  \E c \in answered' : ProviderOf[c] = m
    BY DEF DoneMeansAnswered
  <2>1. CASE marker[m] = Done
    BY <1>4, <2>1 DEF AnsweredInv, DoneMeansAnswered
  <2>2. CASE marker[m] # Done
    <3>1. v \in Worker /\ (Finishes(v) \/ Claims(v))
      BY <2>2 DEF MarkerEffect, Elsewhere, Resumes, Ingests, Commits, Starts, Answers
    <3>2. ClaimOf(v) \in Claim /\ ProviderHeld(v) = ProviderOf[ClaimOf(v)]
      BY <1>2, <3>1 DEF Finishes, Claims, Busy
    <3>3. ClaimOf(v) # Done
      BY <3>2, QueueAssumption
    <3>4. Finishes(v) /\ m = ProviderHeld(v)
      BY <1>1, <2>2, <3>1, <3>2, <3>3 DEF Finishes, Claims, TypeOK
    <3>5. ClaimOf(v) \in answered
      BY <3>1, <3>2, <3>4 DEF Finishes, AnsweredInv
    <3> QED
      BY <1>4, <3>2, <3>4, <3>5
  <2> QED
    BY <2>1, <2>2
<1> QED
  BY <1>6, <1>7, <1>8 DEF AnsweredInv

\* A provider message marked done was answered, under some delivery: a
\* worker that takes its own stored row for a duplicate has lost the claim.
THEOREM DoneAnswered ==
    ASSUME Undisturbed
    PROVE  Spec => []DoneMeansAnswered
<1>1. Init => AnsweredInv
  BY QueueAssumption DEF Init, AnsweredInv, DoneMeansAnswered
<1>2. QueueInv /\ MarkerKept /\ AnsweredInv /\ [Next]_vars => AnsweredInv'
  BY NextMarkerEffect, AnsweredStep DEF QueueInv, MarkerKept
<1>3. AnsweredInv => DoneMeansAnswered
  BY DEF AnsweredInv
<1> QED
  BY <1>1, <1>2, <1>3, MarkerInvariant, PTL DEF Spec

=============================================================================
