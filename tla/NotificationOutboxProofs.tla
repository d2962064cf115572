----------------------- MODULE NotificationOutboxProofs -----------------------
(***************************************************************************)
(* Theorems about NotificationOutbox, for any workers, intents, days, caps *)
(* and faults: it implements OnceDelivery, a refusal leaves nothing that   *)
(* could still be sent, and the daily cap holds.  The invariant ties each  *)
(* worker to the row it claimed and each transport to the reserved day.    *)
(***************************************************************************)
EXTENDS NotificationOutbox, FiniteSetTheorems, TLAPS

-----------------------------------------------------------------------------
(* The invariant. *)

\* All intents are of one family.
FamilyInv == \A i, j \in Intent : Kind(i) = Kind(j)

\* A worker with a row still holds it, unless a sweep or a refusal gave it up,
\* and nobody else works on it.
JobInv ==
    /\ \A w \in Worker : pc[w] = "idle" <=> job[w] = NoIntent
    /\ \A w \in Worker : job[w] # NoIntent =>
        /\ state[job[w]] \in {"em_envio", "ambiguo"}
        /\ state[job[w]] = "em_envio" => holder[job[w]] = {w}
    /\ \A v, w \in Worker : v # w /\ job[v] # NoIntent => job[v] # job[w]

\* What the provider took is in flight, in doubt or recorded, and what a worker
\* is about to record is true.
AcceptInv ==
    /\ \A i \in Intent :
        /\ accepted[i] \in {0, 1}
        /\ accepted[i] = 1 => state[i] \in {"em_envio", "ambiguo", "enviado"}
        /\ state[i] = "enviado" => accepted[i] = 1
    /\ \A w \in Worker : job[w] # NoIntent =>
        /\ pc[w] \in {"fence", "post"} => accepted[job[w]] = 0
        /\ pc[w] = "record" /\ outcome[w] = "aceito" => accepted[job[w]] = 1
        /\ pc[w] = "record" /\ outcome[w] \in {"falhou_permanente", "falhou_retentavel"}
               => accepted[job[w]] = 0

\* A capped row is sent on the day it reserved: a lease does not outlive the day.
StartInv ==
    /\ \A i \in Intent : state[i] = "none" => reserved[i] = 0
    /\ \A i \in Intent : Kind(i) # "cell_report" =>
        /\ state[i] = "em_envio" /\ lease[i] => reserved[i] = day
        /\ accepted[i] = 1 => started[i] = reserved[i]
    /\ \A w \in Worker, i \in Intent :
        pc[w] \in {"post", "record"} /\ job[w] = i /\ Kind(i) # "cell_report"
           => started[i] = reserved[i]

\* The reservations of a day.
Slots(d) == {i \in Intent : reserved[i] = d /\ state[i] \in Reserving(Kind(i))}
QuotaInv == \A d \in 1 .. MaxDay : IsFiniteSet(Slots(d)) /\ Cardinality(Slots(d)) <= Cap

SendInv == TypeOK /\ FamilyInv /\ JobInv /\ AcceptInv /\ StartInv /\ QuotaInv

-----------------------------------------------------------------------------
State == {"none"} \cup Live \cup Final

\* The parts of the type invariant.
RowTypes ==
    /\ purpose \in [Intent -> Purpose]
    /\ state \in [Intent -> State]
    /\ attempts \in [Intent -> 0 .. Retries]
    /\ reserved \in [Intent -> 0 .. MaxDay]
    /\ due \in [Intent -> 0 .. MaxDay + 1]
    /\ last \in [Intent -> 0 .. MaxDay + 1]
    /\ late \in [Intent -> BOOLEAN]
    /\ holder \in [Intent -> SUBSET Worker]
    /\ lease \in [Intent -> BOOLEAN]
    /\ started \in [Intent -> 0 .. MaxDay]
ClockTypes ==
    /\ preference \in {"none", "active", "disabled"}
    /\ day \in 1 .. MaxDay /\ open \in BOOLEAN
LocalTypes ==
    /\ pc \in [Worker -> {"idle", "fence", "post", "record"}]
    /\ job \in [Worker -> Intent \cup {NoIntent}]
    /\ outcome \in [Worker -> Outcome]
    /\ accepted \in [Intent -> 0 .. 2]

\* What a step may make of one row, and of what the provider has of it.
Moves(i) ==
    \/ state'[i] = state[i] /\ accepted'[i] = accepted[i]
    \/ /\ accepted'[i] = accepted[i]
       /\ \/ state[i] = "none" /\ state'[i] \in {"pendente", "cancelado"}
          \/ state[i] \in Pending /\ state'[i] \in Pending
          \/ state[i] \in Pending /\ state'[i] = "em_envio"
          \/ state[i] \in Pending /\ state'[i] \in {"cancelado", "obsoleto"} /\ accepted[i] = 0
          \/ state[i] = "em_envio" /\ state'[i] = "ambiguo"
          \/ state[i] = "em_envio" /\ state'[i] = "enviado" /\ accepted[i] = 1
          \/ /\ state[i] = "em_envio" /\ accepted[i] = 0
             /\ state'[i] \in {"retry", "pendente", "cancelado", "obsoleto"}
    \/ /\ state'[i] = state[i] /\ state[i] \in {"em_envio", "ambiguo"}
       /\ accepted[i] = 0 /\ accepted'[i] = 1

LEMMA Phases ==
    /\ PhaseOf("none") = "absent" /\ PhaseOf("pendente") = "waiting"
    /\ PhaseOf("retry") = "waiting" /\ PhaseOf("em_envio") = "sending"
    /\ PhaseOf("enviado") = "accepted" /\ PhaseOf("ambiguo") = "unknown"
    /\ PhaseOf("cancelado") = "refused" /\ PhaseOf("obsoleto") = "refused"
    /\ \A s \in State : PhaseOf(s) \in Once!Phase
  BY DEF PhaseOf, Pending, State, Live, Final, Once!Phase

\* Such a step is one of OnceDelivery.
LEMMA MovesOnce ==
    ASSUME SendInv, SendInv', \A i \in Intent : Moves(i)
    PROVE  Once!Next
  <1> DEFINE phase == [i \in Intent |-> PhaseOf(state[i])]
             phase1 == [i \in Intent |-> PhaseOf(state'[i])]
  <1>1. /\ state \in [Intent -> State] /\ state' \in [Intent -> State]
        /\ accepted \in [Intent -> 0 .. 2] /\ accepted' \in [Intent -> 0 .. 2]
    BY DEF SendInv, TypeOK, State
  <1>2. \A i \in Intent : accepted[i] \in 0 .. 1 /\ accepted'[i] \in 0 .. 1
    BY DEF SendInv, AcceptInv
  <1>3. phase1 \in [Intent -> Once!Phase]
    BY <1>1, Phases
  <1>4. accepted' \in [Intent -> 0 .. 1]
    BY <1>1, <1>2
  <1>5. ASSUME NEW i \in Intent
        PROVE  \/ Once!Step(i)
               \/ phase1[i] = phase[i] /\ accepted'[i] = accepted[i]
    <2>1. phase[i] = PhaseOf(state[i]) /\ phase1[i] = PhaseOf(state'[i])
      OBVIOUS
    <2>2. Moves(i)
      OBVIOUS
    <2> QED
      BY <2>1, <2>2, Phases DEF Moves, Pending, Once!Step, Once!Move, Once!Record,
         Once!Begin, Once!Withdraw, Once!Refuse, Once!Accept, Once!Doubt, Once!Take
  <1> QED
    BY <1>3, <1>4, <1>5 DEF Once!Next

LEMMA InitInv == Init => SendInv
  <1> SUFFICES ASSUME Init PROVE SendInv
    OBVIOUS
  <1> USE OutboxAssumption
  <1>1. TypeOK
    BY DEF Init, TypeOK, Outcome
  <1>2. FamilyInv /\ JobInv /\ AcceptInv /\ StartInv
    BY DEF Init, FamilyInv, Kind, JobInv, AcceptInv, StartInv
  <1>3. \A d \in 1 .. MaxDay : Slots(d) = {}
    BY DEF Init, Slots
  <1>4. QuotaInv
    BY <1>3, FS_EmptySet DEF QuotaInv
  <1> QED
    BY <1>1, <1>2, <1>4 DEF SendInv

LEMMA InitOnce == Init => Once!Init
  BY DEF Init, Once!Init, PhaseOf, Pending

-----------------------------------------------------------------------------
(* Reservations. *)

\* A step under which no row joins the reservations of a day.
LEMMA FewerSlots ==
    ASSUME QuotaInv,
           \A d \in 1 .. MaxDay : \A i \in Intent :
              reserved'[i] = d /\ state'[i] \in Reserving(Kind(i))' =>
              reserved[i] = d /\ state[i] \in Reserving(Kind(i))
    PROVE  QuotaInv'
  <1> USE OutboxAssumption
  <1>1. \A d \in 1 .. MaxDay : Slots(d)' \subseteq Slots(d)
    BY DEF Slots
  <1>2. ASSUME NEW d \in 1 .. MaxDay
        PROVE  IsFiniteSet(Slots(d)') /\ Cardinality(Slots(d)') <= Cap
    <2>1. IsFiniteSet(Slots(d)) /\ Cardinality(Slots(d)) <= Cap
      BY DEF QuotaInv
    <2>2. IsFiniteSet(Slots(d)') /\ Cardinality(Slots(d)') <= Cardinality(Slots(d))
      BY <1>1, <2>1, FS_Subset
    <2>3. Cardinality(Slots(d)) \in Nat /\ Cardinality(Slots(d)') \in Nat
      BY <2>1, <2>2, FS_CardinalityType
    <2> QED
      BY <2>1, <2>2, <2>3
  <1> QED
    BY <1>2 DEF QuotaInv

\* A claim reserves a slot of the day it checked.
LEMMA OneMoreSlot ==
    ASSUME SendInv, NEW i \in Intent, Rank(i) <= Cap, purpose' = purpose,
           state[i] \in Pending,
           state' = [state EXCEPT ![i] = "em_envio"],
           reserved' = [reserved EXCEPT ![i] = day]
    PROVE  QuotaInv'
  <1> USE OutboxAssumption
  <1>1. \A j \in Intent : Kind(j)' = Kind(j) /\ Kind(j) = Kind(i)
    BY DEF SendInv, FamilyInv, Kind
  <1>2. \A j \in Intent \ {i} : state'[j] = state[j] /\ reserved'[j] = reserved[j]
    BY DEF SendInv, TypeOK
  <1>3. state'[i] = "em_envio" /\ reserved'[i] = day /\ day \in 1 .. MaxDay
    BY DEF SendInv, TypeOK
  <1>4. Slots(day) \cup {i} =
            {i} \cup {j \in Intent : reserved[j] = day /\ state[j] \in Reserving(Kind(i))}
    BY <1>1 DEF Slots
  <1>5. IsFiniteSet(Slots(day)) /\ IsFiniteSet(Slots(day) \cup {i})
    BY <1>3, FS_AddElement DEF SendInv, QuotaInv
  <1>6. Cardinality(Slots(day) \cup {i}) <= Cap
    BY <1>4 DEF Rank
  <1>7. ASSUME NEW d \in 1 .. MaxDay
        PROVE  IsFiniteSet(Slots(d)') /\ Cardinality(Slots(d)') <= Cap
    <2>1. CASE d = day
      <3>1. Slots(d)' = Slots(day) \cup {i}
        BY <2>1, <1>1, <1>2, <1>3 DEF Slots, Reserving, Live
      <3> QED
        BY <3>1, <1>5, <1>6
    <2>2. CASE d # day
      <3>1. Slots(d)' \subseteq Slots(d)
        BY <2>2, <1>1, <1>2, <1>3 DEF Slots
      <3>2. IsFiniteSet(Slots(d)) /\ Cardinality(Slots(d)) <= Cap
        BY DEF SendInv, QuotaInv
      <3>3. IsFiniteSet(Slots(d)') /\ Cardinality(Slots(d)') <= Cardinality(Slots(d))
        BY <3>1, <3>2, FS_Subset
      <3>4. Cardinality(Slots(d)) \in Nat /\ Cardinality(Slots(d)') \in Nat
        BY <3>2, <3>3, FS_CardinalityType
      <3> QED
        BY <3>2, <3>3, <3>4
    <2> QED
      BY <2>1, <2>2
  <1> QED
    BY <1>7 DEF QuotaInv

-----------------------------------------------------------------------------
(* Types. *)

LEMMA TypeParts == TypeOK <=> RowTypes /\ ClockTypes /\ LocalTypes
  BY DEF TypeOK, RowTypes, ClockTypes, LocalTypes, State

\* The ends of a claim keep a row in its type.
LEMMA SettleTypes ==
    ASSUME TypeOK, NEW i \in Intent, NEW s \in State, Settle(i, s)
    PROVE  /\ state' \in [Intent -> State]
           /\ holder' \in [Intent -> SUBSET Worker] /\ lease' \in [Intent -> BOOLEAN]
           /\ \A j \in Intent : \/ j = i /\ state'[j] = s /\ holder'[j] = {} /\ ~lease'[j]
                                \/ /\ j # i /\ state'[j] = state[j]
                                   /\ holder'[j] = holder[j] /\ lease'[j] = lease[j]
  BY DEF TypeOK, Settle, State

\* What a row that is put off becomes.
LEMMA PutOffTypes ==
    ASSUME TypeOK, NEW i \in Intent, NEW s \in Pending, NEW when \in 0 .. MaxDay + 1,
           PutOff(i, s, when)
    PROVE  /\ due' \in [Intent -> 0 .. MaxDay + 1]
           /\ \E t \in {s, "obsoleto", "cancelado"} : Settle(i, t)
  BY DEF TypeOK, PutOff

LEMMA NextWindowType == TypeOK => NextWindow \in 0 .. MaxDay + 1 /\ day \in 1 .. MaxDay
                                  /\ day + 1 \in 0 .. MaxDay + 1
  BY OutboxAssumption DEF TypeOK, NextWindow

LEMMA InsertTypes ==
    ASSUME TypeOK, NEW i \in Intent, NEW s \in {"pendente", "cancelado"},
           NEW when \in 0 .. MaxDay + 1, NEW until \in 0 .. MaxDay + 1,
           Insert(i, s, when, until)
    PROVE  RowTypes' /\ LocalTypes' /\ day' = day /\ open' = open
  BY DEF TypeOK, Insert, RowTypes, LocalTypes, State, Live, Pending, Final, clock, local

LEMMA ProduceTypes == TypeOK /\ Produce => TypeOK'
  <1> SUFFICES ASSUME TypeOK, Produce PROVE TypeOK'
    OBVIOUS
  <1> USE OutboxAssumption
  <1>1. CASE OptIn
    BY <1>1 DEF OptIn, TypeOK, row, clock, local
  <1>2. CASE Stop
    <2>1. RowTypes'
      BY <1>2 DEF Stop, TypeOK, RowTypes, State, Live, Final
    <2>2. ClockTypes' /\ LocalTypes'
      BY <1>2 DEF Stop, TypeOK, ClockTypes, LocalTypes, clock, local
    <2> QED
      BY <2>1, <2>2 DEF TypeOK, RowTypes, ClockTypes, LocalTypes, State
  <1>3. CASE CancelConsolidation
    <2>1. RowTypes'
      BY <1>3 DEF CancelConsolidation, TypeOK, RowTypes, State, Live, Final
    <2>2. ClockTypes' /\ LocalTypes'
      BY <1>3 DEF CancelConsolidation, TypeOK, ClockTypes, LocalTypes, clock, local
    <2> QED
      BY <2>1, <2>2 DEF TypeOK, RowTypes, ClockTypes, LocalTypes, State
  <1>4. ASSUME NEW i \in Intent, Subscribe(i) \/ EnqueueEvt7(i) \/ ScheduleReport(i)
                                 \/ MaterialiseConsolidation(i)
        PROVE  TypeOK'
    <2>1. \E s \in {"pendente", "cancelado"}, when, until \in 0 .. MaxDay + 1 :
             Insert(i, s, when, until)
      <3>1. CASE Subscribe(i)
        <4>1. PICK when \in day .. MaxDay, until \in day .. MaxDay :
                 Insert(i, "pendente", when, until)
          BY <3>1 DEF Subscribe
        <4>2. when \in 0 .. MaxDay + 1 /\ until \in 0 .. MaxDay + 1
          BY NextWindowType
        <4> QED
          BY <4>1, <4>2
      <3>2. CASE EnqueueEvt7(i)
        BY <3>2, NextWindowType DEF EnqueueEvt7
      <3>3. CASE ScheduleReport(i)
        <4>1. Insert(i, "pendente", day, day) \/ Insert(i, "cancelado", day, day)
          BY <3>3 DEF ScheduleReport
        <4>2. day \in 0 .. MaxDay + 1
          BY NextWindowType
        <4> QED
          BY <4>1, <4>2
      <3>4. CASE MaterialiseConsolidation(i)
        <4>1. PICK when \in day .. MaxDay, more \in 0 .. 1 :
                 Insert(i, "pendente", when, when + more)
          BY <3>4 DEF MaterialiseConsolidation
        <4>2. when \in 0 .. MaxDay + 1 /\ when + more \in 0 .. MaxDay + 1
          BY NextWindowType
        <4> QED
          BY <4>1, <4>2
      <3> QED
        BY <1>4, <3>1, <3>2, <3>3, <3>4
    <2>2. RowTypes' /\ LocalTypes' /\ day' = day /\ open' = open
      BY <2>1, InsertTypes
    <2>3. preference' \in {"none", "active", "disabled"}
      BY <1>4 DEF Subscribe, EnqueueEvt7, ScheduleReport, MaterialiseConsolidation, TypeOK
    <2>4. ClockTypes'
      BY <2>2, <2>3 DEF TypeOK, ClockTypes
    <2> QED
      BY <2>2, <2>4 DEF TypeOK, RowTypes, ClockTypes, LocalTypes, State
  <1> QED
    BY <1>1, <1>2, <1>3, <1>4 DEF Produce

LEMMA WorldTypes == TypeOK /\ (Maintain \/ WindowCloses \/ NextDay
                               \/ \E i \in Intent : LeaseExpires(i) \/ Deadline(i)) => TypeOK'
  <1> SUFFICES ASSUME TypeOK, Maintain \/ WindowCloses \/ NextDay
                               \/ \E i \in Intent : LeaseExpires(i) \/ Deadline(i)
               PROVE TypeOK'
    OBVIOUS
  <1> USE OutboxAssumption
  <1>1. LocalTypes'
    BY DEF TypeOK, LocalTypes, Maintain, WindowCloses, NextDay, LeaseExpires, Deadline, local
  <1>2. ClockTypes'
    <2>1. preference' = preference
      BY DEF Maintain, WindowCloses, NextDay, LeaseExpires, Deadline
    <2>2. open' \in BOOLEAN
      BY DEF TypeOK, Maintain, WindowCloses, NextDay, LeaseExpires, Deadline, clock
    <2>3. day' = day \/ (day < MaxDay /\ day' = day + 1)
      BY DEF Maintain, WindowCloses, NextDay, LeaseExpires, Deadline, clock
    <2>4. day' \in 1 .. MaxDay
      BY <2>3 DEF TypeOK
    <2> QED
      BY <2>1, <2>2, <2>4 DEF TypeOK, ClockTypes
  <1>3. RowTypes'
    <2>1. CASE Maintain
      <3>1. state' \in [Intent -> State]
        BY <2>1 DEF Maintain, Sweep, TypeOK, State, Live, Final
      <3> QED
        BY <2>1, <3>1 DEF Maintain, TypeOK, RowTypes, State
    <2>2. CASE WindowCloses \/ NextDay
      <3>1. UNCHANGED <<purpose, state, attempts, reserved, due, last, holder, started>>
        BY <2>2 DEF WindowCloses, NextDay, row
      <3>2. late' \in [Intent -> BOOLEAN] /\ lease' \in [Intent -> BOOLEAN]
        BY <2>2 DEF WindowCloses, NextDay, TypeOK, row
      <3> QED
        BY <3>1, <3>2 DEF TypeOK, RowTypes, State
    <2>3. CASE \E i \in Intent : LeaseExpires(i) \/ Deadline(i)
      BY <2>3 DEF LeaseExpires, Deadline, TypeOK, RowTypes, State
    <2> QED
      BY <2>1, <2>2, <2>3
  <1> QED
    BY <1>1, <1>2, <1>3 DEF TypeOK, RowTypes, ClockTypes, LocalTypes, State

LEMMA ForgetTypes ==
    ASSUME TypeOK, NEW w \in Worker, Forget(w)
    PROVE  /\ pc' \in [Worker -> {"idle", "fence", "post", "record"}]
           /\ job' \in [Worker -> Intent \cup {NoIntent}]
           /\ outcome' \in [Worker -> Outcome]
           /\ pc'[w] = "idle" /\ job'[w] = NoIntent
           /\ \A v \in Worker \ {w} : pc'[v] = pc[v] /\ job'[v] = job[v]
                                      /\ outcome'[v] = outcome[v]
  BY DEF TypeOK, Forget, Outcome

LEMMA LeaseTypes ==
    ASSUME TypeOK, NEW w \in Worker, NEW i \in Intent, Lease(w, i)
    PROVE  /\ state' \in [Intent -> State] /\ holder' \in [Intent -> SUBSET Worker]
           /\ lease' \in [Intent -> BOOLEAN]
           /\ pc' \in [Worker -> {"idle", "fence", "post", "record"}]
           /\ job' \in [Worker -> Intent \cup {NoIntent}]
           /\ state'[i] = "em_envio" /\ holder'[i] = {w} /\ lease'[i]
           /\ \A j \in Intent \ {i} : state'[j] = state[j] /\ holder'[j] = holder[j]
                                      /\ lease'[j] = lease[j]
           /\ pc'[w] = "fence" /\ job'[w] = i
           /\ \A v \in Worker \ {w} : pc'[v] = pc[v] /\ job'[v] = job[v]
           /\ outcome' = outcome
  BY DEF TypeOK, Lease, State, Live

\* A claim either leases the row or ends or puts off its turn.
LEMMA ClaimCases ==
    ASSUME TypeOK, NEW w \in Worker, NEW i \in Intent,
           ClaimEnds(w, i) \/ ClaimAtNight(w, i) \/ ClaimUnderCap(w, i)
    PROVE  /\ pc[w] = "idle" /\ state[i] \in Pending
           /\ UNCHANGED <<purpose, attempts, last, late, started, preference, clock, accepted>>
           /\ due' \in [Intent -> 0 .. MaxDay + 1]
           /\ reserved' \in [Intent -> 0 .. MaxDay]
           /\ \/ /\ UNCHANGED local
                 /\ \E s \in Pending \cup {"obsoleto", "cancelado"} :
                       /\ Settle(i, s)
                       /\ \/ reserved' = reserved
                          \/ Kind(i) = "agenda" /\ s = "cancelado"
                             /\ reserved' = [reserved EXCEPT ![i] = day]
              \/ /\ Lease(w, i)
                 /\ \/ Kind(i) = "cell_report" /\ reserved' = reserved
                    \/ Rank(i) <= Cap /\ reserved' = [reserved EXCEPT ![i] = day]
  <1> USE OutboxAssumption
  <1>1. /\ pc[w] = "idle" /\ state[i] \in Pending
        /\ UNCHANGED <<purpose, attempts, last, late, started, preference, clock, accepted>>
    BY DEF ClaimEnds, ClaimAtNight, ClaimUnderCap, Due
  <1>2. due \in [Intent -> 0 .. MaxDay + 1] /\ reserved \in [Intent -> 0 .. MaxDay]
        /\ [reserved EXCEPT ![i] = day] \in [Intent -> 0 .. MaxDay]
        /\ "pendente" \in Pending
    BY DEF TypeOK, Pending
  <1>3. CASE ClaimEnds(w, i)
    BY <1>1, <1>2, <1>3 DEF ClaimEnds
  <1>4. CASE ClaimAtNight(w, i)
    <2>1. PutOff(i, "pendente", NextWindow) /\ UNCHANGED <<local, reserved>>
      BY <1>4 DEF ClaimAtNight
    <2>2. /\ due' \in [Intent -> 0 .. MaxDay + 1]
          /\ \E t \in {"pendente", "obsoleto", "cancelado"} : Settle(i, t)
      BY <1>2, <2>1, NextWindowType, PutOffTypes
    <2> QED
      BY <1>1, <1>2, <2>1, <2>2
  <1>5. CASE ClaimUnderCap(w, i)
    <2>1. CASE Kind(i) = "cell_report" /\ Lease(w, i) /\ UNCHANGED <<reserved, due>>
      BY <1>1, <1>2, <2>1
    <2>2. CASE Settle(i, "obsoleto") /\ UNCHANGED <<reserved, due, local>>
      BY <1>1, <1>2, <2>2
    <2>3. CASE Rank(i) <= Cap /\ Lease(w, i) /\ reserved' = [reserved EXCEPT ![i] = day]
               /\ UNCHANGED due
      BY <1>1, <1>2, <2>3
    <2>4. CASE /\ Kind(i) = "agenda" /\ Settle(i, "cancelado")
               /\ reserved' = [reserved EXCEPT ![i] = day] /\ UNCHANGED <<due, local>>
      BY <1>1, <1>2, <2>4
    <2>5. CASE PutOff(i, "pendente", day + 1) /\ UNCHANGED <<reserved, local>>
      <3>1. /\ due' \in [Intent -> 0 .. MaxDay + 1]
            /\ \E t \in {"pendente", "obsoleto", "cancelado"} : Settle(i, t)
        BY <1>2, <2>5, NextWindowType, PutOffTypes
      <3> QED
        BY <1>1, <1>2, <2>5, <3>1
    <2> QED
      BY <1>5, <2>1, <2>2, <2>3, <2>4, <2>5 DEF ClaimUnderCap
  <1> QED
    BY <1>3, <1>4, <1>5

LEMMA ClaimTypes ==
    ASSUME TypeOK, NEW w \in Worker, NEW i \in Intent,
           ClaimEnds(w, i) \/ ClaimAtNight(w, i) \/ ClaimUnderCap(w, i)
    PROVE  TypeOK'
  <1>1. /\ UNCHANGED <<purpose, attempts, last, late, started, preference, clock, accepted>>
        /\ due' \in [Intent -> 0 .. MaxDay + 1] /\ reserved' \in [Intent -> 0 .. MaxDay]
        /\ \/ UNCHANGED local /\ \E s \in State : Settle(i, s)
           \/ Lease(w, i)
    BY ClaimCases DEF State, Live, Final
  <1>2. /\ state' \in [Intent -> State] /\ holder' \in [Intent -> SUBSET Worker]
        /\ lease' \in [Intent -> BOOLEAN]
    BY <1>1, SettleTypes, LeaseTypes
  <1>3. LocalTypes'
    BY <1>1, LeaseTypes DEF TypeOK, LocalTypes, local
  <1>4. RowTypes' /\ ClockTypes'
    BY <1>1, <1>2 DEF TypeOK, RowTypes, ClockTypes, clock
  <1> QED
    BY <1>3, <1>4 DEF TypeOK, RowTypes, ClockTypes, LocalTypes, State

\* What a fence may do to the row and to its worker.
LEMMA FenceCases ==
    ASSUME TypeOK, JobInv, NEW w \in Worker, Fence(w)
    PROVE  /\ pc[w] = "fence" /\ job[w] \in Intent
           /\ UNCHANGED <<purpose, attempts, reserved, last, late, preference, clock, accepted>>
           /\ due' \in [Intent -> 0 .. MaxDay + 1]
           /\ \/ /\ Owns(w, job[w]) /\ started' = [started EXCEPT ![job[w]] = day]
                 /\ pc' = [pc EXCEPT ![w] = "post"]
                 /\ UNCHANGED <<state, holder, lease, job, outcome>>
              \/ /\ Owns(w, job[w]) /\ Forget(w) /\ started' = started
                 /\ \E s \in {"retry", "obsoleto", "cancelado"} : Settle(job[w], s)
              \/ Forget(w) /\ UNCHANGED <<state, holder, lease, started>>
  <1> DEFINE i == job[w]
  <1>1. /\ pc[w] = "fence" /\ job[w] \in Intent /\ due \in [Intent -> 0 .. MaxDay + 1]
        /\ UNCHANGED <<purpose, attempts, reserved, last, late, preference, clock, accepted>>
    BY DEF Fence, JobInv, TypeOK
  <1>2. CASE Owns(w, i) /\ Forget(w) /\ PutOff(i, "retry", NextWindow) /\ UNCHANGED started
    <2>1. "retry" \in Pending
      BY DEF Pending
    <2>2. /\ due' \in [Intent -> 0 .. MaxDay + 1]
          /\ \E t \in {"retry", "obsoleto", "cancelado"} : Settle(i, t)
      BY <1>1, <1>2, <2>1, NextWindowType, PutOffTypes
    <2> QED
      BY <1>1, <1>2, <2>2
  <1>3. CASE /\ Owns(w, i) /\ Forget(w) /\ UNCHANGED <<due, started>>
             /\ \E s \in {"cancelado", "obsoleto"} : Settle(i, s)
    BY <1>1, <1>3
  <1>4. CASE Forget(w) /\ UNCHANGED <<state, holder, lease, due, started>>
    BY <1>1, <1>4
  <1>5. CASE /\ Owns(w, i) /\ started' = [started EXCEPT ![i] = day]
             /\ pc' = [pc EXCEPT ![w] = "post"]
             /\ UNCHANGED <<state, holder, lease, due, job, outcome>>
    BY <1>1, <1>5
  <1> QED
    BY <1>2, <1>3, <1>4, <1>5 DEF Fence

LEMMA FenceTypes ==
    ASSUME TypeOK, JobInv, NEW w \in Worker, Fence(w)
    PROVE  TypeOK'
  <1> USE OutboxAssumption
  <1>1. /\ job[w] \in Intent /\ due' \in [Intent -> 0 .. MaxDay + 1]
        /\ UNCHANGED <<purpose, attempts, reserved, last, late, preference, clock, accepted>>
        /\ \/ /\ started' = [started EXCEPT ![job[w]] = day]
              /\ pc' = [pc EXCEPT ![w] = "post"]
              /\ UNCHANGED <<state, holder, lease, job, outcome>>
           \/ /\ Forget(w) /\ started' = started
              /\ \E s \in State : Settle(job[w], s)
           \/ Forget(w) /\ UNCHANGED <<state, holder, lease, started>>
    BY FenceCases DEF State, Live, Pending, Final
  <1>2. started' \in [Intent -> 0 .. MaxDay]
    <2>1. day \in 0 .. MaxDay /\ started \in [Intent -> 0 .. MaxDay]
      BY DEF TypeOK
    <2> QED
      BY <1>1, <2>1
  <1>3. /\ state' \in [Intent -> State] /\ holder' \in [Intent -> SUBSET Worker]
        /\ lease' \in [Intent -> BOOLEAN]
    <2>1. CASE UNCHANGED <<state, holder, lease>>
      BY <2>1 DEF TypeOK, State
    <2>2. CASE \E s \in State : Settle(job[w], s)
      BY <1>1, <2>2, SettleTypes
    <2> QED
      BY <1>1, <2>1, <2>2
  <1>4. LocalTypes'
    <2>1. CASE Forget(w)
      BY <1>1, <2>1, ForgetTypes DEF TypeOK, LocalTypes
    <2>2. CASE pc' = [pc EXCEPT ![w] = "post"] /\ UNCHANGED <<job, outcome>>
      BY <1>1, <2>2 DEF TypeOK, LocalTypes
    <2> QED
      BY <1>1, <2>1, <2>2
  <1>5. RowTypes' /\ ClockTypes'
    BY <1>1, <1>2, <1>3 DEF TypeOK, RowTypes, ClockTypes, clock
  <1> QED
    BY <1>4, <1>5 DEF TypeOK, RowTypes, ClockTypes, LocalTypes, State

\* result_transition, outcome by outcome.
LEMMA Results ==
    ASSUME NEW tried \in Nat
    PROVE  /\ Result("aceito", tried) = "enviado"
           /\ Result("falhou_permanente", tried) = "cancelado"
           /\ Result("desconhecido", tried) = "ambiguo"
           /\ tried < Retries => Result("falhou_retentavel", tried) = "retry"
           /\ ~(tried < Retries) => Result("falhou_retentavel", tried) = "cancelado"
  BY OutboxAssumption DEF Result

\* What a recorded result makes of the row.
LEMMA RecordCases ==
    ASSUME TypeOK, JobInv, NEW w \in Worker, Record(w)
    PROVE  /\ pc[w] = "record" /\ job[w] \in Intent /\ Forget(w)
           /\ UNCHANGED <<purpose, reserved, due, last, late, started, preference,
                          clock, accepted>>
           /\ attempts' \in [Intent -> 0 .. Retries]
           /\ \/ /\ Owns(w, job[w])
                 /\ \/ outcome[w] = "aceito" /\ Settle(job[w], "enviado")
                    \/ /\ outcome[w] \in {"falhou_permanente", "falhou_retentavel"}
                       /\ Settle(job[w], "retry") \/ Settle(job[w], "cancelado")
                    \/ outcome[w] = "desconhecido" /\ Settle(job[w], "ambiguo")
              \/ UNCHANGED <<state, holder, lease>>
  <1> USE OutboxAssumption
  <1> DEFINE i == job[w]
             s == Result(outcome[w], attempts[i])
  <1>1. /\ pc[w] = "record" /\ job[w] \in Intent /\ Forget(w)
        /\ UNCHANGED <<purpose, reserved, due, last, late, started, preference,
                       clock, accepted>>
    BY DEF Record, JobInv, TypeOK
  <1>2. /\ outcome[w] \in {"aceito", "falhou_permanente", "falhou_retentavel", "desconhecido"}
        /\ attempts[i] \in 0 .. Retries
    BY <1>1 DEF TypeOK, Outcome
  <1>3. /\ outcome[w] = "aceito" => s = "enviado"
        /\ outcome[w] = "falhou_permanente" => s = "cancelado"
        /\ outcome[w] = "desconhecido" => s = "ambiguo"
        /\ outcome[w] = "falhou_retentavel" =>
              s = "cancelado" \/ (s = "retry" /\ attempts[i] < Retries)
    <2>1. attempts[i] \in Nat
      BY <1>2
    <2>2. /\ Result("aceito", attempts[i]) = "enviado"
          /\ Result("falhou_permanente", attempts[i]) = "cancelado"
          /\ Result("desconhecido", attempts[i]) = "ambiguo"
          /\ attempts[i] < Retries => Result("falhou_retentavel", attempts[i]) = "retry"
          /\ ~(attempts[i] < Retries) => Result("falhou_retentavel", attempts[i]) = "cancelado"
      BY <2>1, Results
    <2> QED
      BY <2>2
  <1>4. \/ /\ Owns(w, i)
           /\ Settle(i, s) \/ (s = "retry" /\ Settle(i, "cancelado"))
           /\ attempts' = [attempts EXCEPT ![i] = IF s = "retry" THEN @ + 1 ELSE @]
        \/ UNCHANGED <<state, holder, lease, attempts>>
    BY DEF Record
  <1> HIDE DEF s
  <1>5. attempts' \in [Intent -> 0 .. Retries]
    <2>1. CASE attempts' = attempts
      BY <2>1 DEF TypeOK
    <2>2. CASE attempts' = [attempts EXCEPT ![i] = IF s = "retry" THEN @ + 1 ELSE @]
      <3>1. s = "retry" => attempts[i] + 1 \in 0 .. Retries
        BY <1>2, <1>3
      <3> QED
        BY <1>1, <1>2, <2>2, <3>1 DEF TypeOK
    <2> QED
      BY <1>4, <2>1, <2>2
  <1>6. CASE UNCHANGED <<state, holder, lease, attempts>>
    BY <1>1, <1>5, <1>6
  <1>7. CASE Owns(w, i) /\ (Settle(i, s) \/ (s = "retry" /\ Settle(i, "cancelado")))
    BY <1>1, <1>2, <1>3, <1>5, <1>7
  <1> QED
    BY <1>4, <1>6, <1>7

LEMMA RecordTypes ==
    ASSUME TypeOK, JobInv, NEW w \in Worker, Record(w)
    PROVE  TypeOK'
  <1>1. /\ job[w] \in Intent /\ Forget(w)
        /\ UNCHANGED <<purpose, reserved, due, last, late, started, preference,
                       clock, accepted>>
        /\ attempts' \in [Intent -> 0 .. Retries]
        /\ (\E s \in State : Settle(job[w], s)) \/ UNCHANGED <<state, holder, lease>>
    BY RecordCases DEF State, Live, Pending, Final
  <1>2. /\ state' \in [Intent -> State] /\ holder' \in [Intent -> SUBSET Worker]
        /\ lease' \in [Intent -> BOOLEAN]
    <2>1. CASE UNCHANGED <<state, holder, lease>>
      BY <2>1 DEF TypeOK, State
    <2>2. CASE \E s \in State : Settle(job[w], s)
      BY <1>1, <2>2, SettleTypes
    <2> QED
      BY <1>1, <2>1, <2>2
  <1>3. LocalTypes'
    BY <1>1, ForgetTypes DEF TypeOK, LocalTypes
  <1>4. RowTypes' /\ ClockTypes'
    BY <1>1, <1>2 DEF TypeOK, RowTypes, ClockTypes, clock
  <1> QED
    BY <1>3, <1>4 DEF TypeOK, RowTypes, ClockTypes, LocalTypes, State

\* A request, answered or not.
LEMMA PostCases ==
    ASSUME TypeOK, JobInv, AcceptInv, NEW w \in Worker, Post(w) \/ Crash(w)
    PROVE  /\ UNCHANGED <<purpose, row, preference, clock>>
           /\ \/ accepted' = accepted
              \/ /\ pc[w] = "post" /\ accepted[job[w]] = 0
                 /\ accepted' = [accepted EXCEPT ![job[w]] = 1]
           /\ \/ Forget(w)
              \/ /\ pc[w] = "post" /\ pc' = [pc EXCEPT ![w] = "record"] /\ job' = job
                 /\ \E o \in Outcome : outcome' = [outcome EXCEPT ![w] = o]
                 /\ outcome'[w] = "aceito" => accepted'[job[w]] = 1
                 /\ outcome'[w] \in {"falhou_permanente", "falhou_retentavel"}
                       => accepted' = accepted
  <1>1. UNCHANGED <<purpose, row, preference, clock>>
    BY DEF Post, Crash
  <1>2. CASE Crash(w)
    BY <1>1, <1>2 DEF Crash, JobInv, AcceptInv, TypeOK
  <1>3. CASE Post(w)
    <2>1. /\ pc[w] = "post" /\ job[w] \in Intent /\ accepted[job[w]] = 0
          /\ pc' = [pc EXCEPT ![w] = "record"] /\ job' = job
      BY <1>3 DEF Post, JobInv, AcceptInv, TypeOK
    <2>2. PICK o \in Outcome, took \in BOOLEAN :
            /\ o = "aceito" => took
            /\ took => o \in {"aceito", "desconhecido"}
            /\ outcome' = [outcome EXCEPT ![w] = o]
            /\ accepted' = [accepted EXCEPT ![job[w]] = IF took THEN @ + 1 ELSE @]
      BY <1>3 DEF Post
    <2>3. outcome'[w] = o
      BY <2>2 DEF TypeOK
    <2>4. CASE took
      <3>1. accepted' = [accepted EXCEPT ![job[w]] = 1] /\ accepted'[job[w]] = 1
        BY <2>1, <2>2, <2>4 DEF TypeOK
      <3> QED
        BY <1>1, <2>1, <2>2, <2>3, <2>4, <3>1
    <2>5. CASE ~took
      <3>1. accepted' = accepted
        BY <2>1, <2>2, <2>5 DEF TypeOK
      <3> QED
        BY <1>1, <2>1, <2>2, <2>3, <2>5, <3>1
    <2> QED
      BY <2>4, <2>5
  <1> QED
    BY <1>2, <1>3

LEMMA PostTypes ==
    ASSUME TypeOK, JobInv, AcceptInv, NEW w \in Worker, Post(w) \/ Crash(w)
    PROVE  TypeOK'
  <1>1. accepted' \in [Intent -> 0 .. 2]
    BY PostCases DEF TypeOK
  <1>2. /\ pc' \in [Worker -> {"idle", "fence", "post", "record"}]
        /\ job' \in [Worker -> Intent \cup {NoIntent}]
        /\ outcome' \in [Worker -> Outcome]
    <2>1. CASE Forget(w)
      BY <2>1, ForgetTypes
    <2>2. CASE /\ pc' = [pc EXCEPT ![w] = "record"] /\ job' = job
               /\ \E o \in Outcome : outcome' = [outcome EXCEPT ![w] = o]
      BY <2>2 DEF TypeOK
    <2> QED
      BY <2>1, <2>2, PostCases
  <1>3. UNCHANGED <<purpose, row, preference, clock>>
    BY PostCases
  <1> QED
    BY <1>1, <1>2, <1>3 DEF TypeOK, row, clock

-----------------------------------------------------------------------------
(* The steps. *)

\* A row that moves joins the reservations of no day by it.
LEMMA MovesKeepSlots ==
    ASSUME SendInv, purpose' = purpose, \A i \in Intent : Moves(i),
           \A i \in Intent : \/ reserved'[i] = reserved[i]
                             \/ state'[i] = "cancelado" /\ Kind(i) = "agenda"
    PROVE  QuotaInv'
  <1>1. ASSUME NEW d \in 1 .. MaxDay, NEW i \in Intent,
               reserved'[i] = d, state'[i] \in Reserving(Kind(i))'
        PROVE  reserved[i] = d /\ state[i] \in Reserving(Kind(i))
    <2>1. Reserving(Kind(i))' = Reserving(Kind(i))
      BY DEF Kind, Reserving
    <2>2. reserved[i] = d
      <3>1. "cancelado" \notin Reserving("agenda")
        BY DEF Reserving, Live, Pending
      <3> QED
        BY <1>1, <2>1, <3>1
    <2>3. state[i] # "none" /\ state[i] \in State
      BY <2>2 DEF SendInv, StartInv, TypeOK, State
    <2>4. state[i] = "cancelado" => state'[i] = "cancelado"
      BY DEF Moves, Pending
    <2>5. State \ {"none", "cancelado"} \subseteq Reserving(Kind(i))
      BY DEF State, Live, Final, Reserving
    <2> QED
      BY <1>1, <2>1, <2>2, <2>3, <2>4, <2>5
  <1> QED
    BY <1>1, FewerSlots DEF SendInv

\* A step of nobody who has claimed a row: rows come to be, end, wait for
\* another day, or are given up.
LEMMA OtherStep ==
    ASSUME SendInv, TypeOK', UNCHANGED <<purpose, local, accepted, started>>,
           \A i \in Intent :
              /\ Moves(i)
              /\ state[i] = "em_envio" => state'[i] \in {"em_envio", "ambiguo"}
              /\ state'[i] = "em_envio" => state[i] = "em_envio" /\ holder'[i] = holder[i]
              /\ state'[i] = "em_envio" /\ lease'[i] => lease[i] /\ day' = day
              /\ \/ reserved'[i] = reserved[i]
                 \/ state[i] \in Pending /\ state'[i] = "cancelado" /\ Kind(i) = "agenda"
    PROVE  SendInv'
  <1>1. FamilyInv' /\ \A i \in Intent : Kind(i)' = Kind(i)
    BY DEF SendInv, FamilyInv, Kind
  <1>2. JobInv'
    BY DEF SendInv, JobInv, TypeOK, Moves, Pending, local
  <1>3. AcceptInv'
    <2>1. ASSUME NEW i \in Intent
          PROVE  /\ accepted[i] = 1 => state'[i] \in {"em_envio", "ambiguo", "enviado"}
                 /\ state'[i] = "enviado" => accepted[i] = 1
      BY DEF SendInv, AcceptInv, Moves, Pending
    <2> QED
      BY <2>1 DEF SendInv, AcceptInv, local
  <1>4. StartInv'
    <2>1. ASSUME NEW i \in Intent, reserved'[i] # reserved[i]
          PROVE  /\ state[i] \in Pending /\ state'[i] = "cancelado" /\ accepted[i] = 0
                 /\ \A w \in Worker : job[w] # i
      BY <2>1, OutboxAssumption DEF SendInv, AcceptInv, JobInv, Pending
    <2>2. \A i \in Intent : state'[i] = "none" => reserved'[i] = 0
      BY <2>1 DEF SendInv, StartInv, Moves, Pending
    <2>3. ASSUME NEW i \in Intent, Kind(i) # "cell_report"
          PROVE  /\ state'[i] = "em_envio" /\ lease'[i] => reserved'[i] = day'
                 /\ accepted'[i] = 1 => started'[i] = reserved'[i]
      BY <2>1, <2>3 DEF SendInv, StartInv
    <2>4. ASSUME NEW w \in Worker, NEW i \in Intent,
                 pc[w] \in {"post", "record"}, job[w] = i, Kind(i) # "cell_report"
          PROVE  started'[i] = reserved'[i]
      BY <2>1, <2>4 DEF SendInv, StartInv
    <2> QED
      BY <1>1, <2>2, <2>3, <2>4 DEF StartInv, local
  <1>5. QuotaInv'
    BY MovesKeepSlots
  <1> QED
    BY <1>1, <1>2, <1>3, <1>4, <1>5 DEF SendInv

LEMMA ProduceStep ==
    ASSUME SendInv, Produce
    PROVE  SendInv' /\ \A i \in Intent : Moves(i)
  <1>1. TypeOK' /\ TypeOK
    BY ProduceTypes DEF SendInv
  <1>2. UNCHANGED <<purpose, local, accepted, started, reserved, clock>>
    BY DEF Produce, OptIn, Stop, CancelConsolidation, Subscribe, EnqueueEvt7,
       ScheduleReport, MaterialiseConsolidation, Insert, row
  <1>3. ASSUME NEW i \in Intent
        PROVE  \/ state'[i] = state[i] /\ holder'[i] = holder[i] /\ lease'[i] = lease[i]
               \/ state'[i] = state[i] /\ state[i] # "em_envio"
               \/ state[i] = "none" /\ state'[i] \in {"pendente", "cancelado"}
               \/ state[i] \in Pending /\ state'[i] = "cancelado"
               \/ state[i] = "em_envio" /\ state'[i] = "ambiguo"
    <2>1. CASE OptIn
      BY <2>1 DEF OptIn, row
    <2>2. CASE Stop
      BY <2>2 DEF Stop
    <2>3. CASE CancelConsolidation
      BY <2>3 DEF CancelConsolidation
    <2>4. CASE \E j \in Intent : Subscribe(j) \/ EnqueueEvt7(j) \/ ScheduleReport(j)
                                 \/ MaterialiseConsolidation(j)
      <3>1. PICK j \in Intent, s \in {"pendente", "cancelado"} :
               state[j] = "none" /\ state' = [state EXCEPT ![j] = s]
               /\ UNCHANGED <<holder, lease>>
        BY <2>4 DEF Subscribe, EnqueueEvt7, ScheduleReport, MaterialiseConsolidation, Insert
      <3> QED
        BY <1>1, <3>1 DEF TypeOK
    <2> QED
      BY <2>1, <2>2, <2>3, <2>4 DEF Produce
  <1>4. \A i \in Intent : state[i] \in Pending => accepted[i] = 0
    BY DEF SendInv, AcceptInv, Pending
  <1>5. \A i \in Intent : Moves(i)
    BY <1>2, <1>3, <1>4 DEF Moves
  <1>6. \A i \in Intent :
          /\ state[i] = "em_envio" => state'[i] \in {"em_envio", "ambiguo"}
          /\ state'[i] = "em_envio" => state[i] = "em_envio" /\ holder'[i] = holder[i]
          /\ state'[i] = "em_envio" /\ lease'[i] => lease[i]
    BY <1>3 DEF Pending
  <1> QED
    BY <1>1, <1>2, <1>5, <1>6, OtherStep DEF clock

LEMMA WorldStep ==
    ASSUME SendInv, Maintain \/ WindowCloses \/ NextDay
                    \/ \E i \in Intent : LeaseExpires(i) \/ Deadline(i)
    PROVE  SendInv' /\ \A i \in Intent : Moves(i)
  <1>1. TypeOK' /\ TypeOK
    BY WorldTypes DEF SendInv
  <1>2. UNCHANGED <<purpose, local, accepted, started, reserved>>
    BY DEF Maintain, WindowCloses, NextDay, LeaseExpires, Deadline, row
  <1>3. ASSUME NEW i \in Intent
        PROVE  /\ \/ state'[i] = state[i] /\ holder'[i] = holder[i]
                  \/ state[i] \in Pending /\ state'[i] \in {"cancelado", "obsoleto"}
                  \/ state[i] = "em_envio" /\ state'[i] = "ambiguo"
               /\ lease'[i] => lease[i] /\ day' = day
    <2>1. CASE Maintain
      <3>1. state'[i] \in Sweep(i) /\ (state'[i] = state[i] => holder'[i] = holder[i])
            /\ lease' = lease /\ day' = day
        BY <2>1 DEF Maintain, clock
      <3> QED
        BY <3>1 DEF Sweep
    <2>2. CASE WindowCloses \/ NextDay
      BY <2>2 DEF WindowCloses, NextDay, row
    <2>3. CASE \E j \in Intent : LeaseExpires(j) \/ Deadline(j)
      BY <1>1, <2>3 DEF LeaseExpires, Deadline, TypeOK, clock
    <2> QED
      BY <2>1, <2>2, <2>3
  <1>4. \A i \in Intent : state[i] \in Pending => accepted[i] = 0
    BY DEF SendInv, AcceptInv, Pending
  <1>5. \A i \in Intent : Moves(i)
    BY <1>2, <1>3, <1>4 DEF Moves
  <1>6. \A i \in Intent :
          /\ state[i] = "em_envio" => state'[i] \in {"em_envio", "ambiguo"}
          /\ state'[i] = "em_envio" => state[i] = "em_envio" /\ holder'[i] = holder[i]
          /\ state'[i] = "em_envio" /\ lease'[i] => lease[i] /\ day' = day
    BY <1>3 DEF Pending
  <1> QED
    BY <1>1, <1>2, <1>5, <1>6, OtherStep

LEMMA ClaimStep ==
    ASSUME SendInv, NEW w \in Worker, NEW i \in Intent,
           ClaimEnds(w, i) \/ ClaimAtNight(w, i) \/ ClaimUnderCap(w, i)
    PROVE  SendInv' /\ \A j \in Intent : Moves(j)
  <1>1. TypeOK' /\ TypeOK
    BY ClaimTypes DEF SendInv
  <1>2. /\ pc[w] = "idle" /\ state[i] \in Pending /\ accepted[i] = 0
        /\ UNCHANGED <<purpose, started, clock, accepted>>
        /\ \A v \in Worker : job[v] # i
    BY <1>1, ClaimCases, OutboxAssumption DEF SendInv, AcceptInv, JobInv, Pending
  <1>3. CASE /\ UNCHANGED local
             /\ \E s \in Pending \cup {"obsoleto", "cancelado"} :
                   /\ Settle(i, s)
                   /\ \/ reserved' = reserved
                      \/ Kind(i) = "agenda" /\ s = "cancelado"
                         /\ reserved' = [reserved EXCEPT ![i] = day]
    <2>1. PICK s \in Pending \cup {"obsoleto", "cancelado"} :
             /\ Settle(i, s)
             /\ \/ reserved' = reserved
                \/ Kind(i) = "agenda" /\ s = "cancelado"
                   /\ reserved' = [reserved EXCEPT ![i] = day]
      BY <1>3
    <2>2. s \in State
      BY DEF State, Live, Final
    <2>3. \A j \in Intent : \/ j = i /\ state'[j] = s
                            \/ /\ j # i /\ state'[j] = state[j]
                               /\ holder'[j] = holder[j] /\ lease'[j] = lease[j]
      BY <1>1, <2>1, <2>2, SettleTypes
    <2>4. \A j \in Intent : Moves(j)
      BY <1>2, <2>3 DEF Moves
    <2>5. \A j \in Intent :
              \/ reserved'[j] = reserved[j]
              \/ state[j] \in Pending /\ state'[j] = "cancelado" /\ Kind(j) = "agenda"
      BY <1>1, <1>2, <2>1, <2>3 DEF TypeOK
    <2>6. \A j \in Intent :
              /\ state[j] = "em_envio" => state'[j] \in {"em_envio", "ambiguo"}
              /\ state'[j] = "em_envio" => state[j] = "em_envio" /\ holder'[j] = holder[j]
              /\ state'[j] = "em_envio" /\ lease'[j] => lease[j] /\ day' = day
      BY <1>2, <2>3 DEF Pending, clock
    <2> QED
      BY <1>1, <1>2, <1>3, <2>4, <2>5, <2>6, OtherStep
  <1>4. CASE /\ Lease(w, i)
             /\ \/ Kind(i) = "cell_report" /\ reserved' = reserved
                \/ Rank(i) <= Cap /\ reserved' = [reserved EXCEPT ![i] = day]
    <2>1. /\ state'[i] = "em_envio" /\ holder'[i] = {w} /\ lease'[i]
          /\ \A j \in Intent \ {i} : state'[j] = state[j] /\ holder'[j] = holder[j]
                                     /\ lease'[j] = lease[j]
          /\ pc'[w] = "fence" /\ job'[w] = i
          /\ \A v \in Worker \ {w} : pc'[v] = pc[v] /\ job'[v] = job[v]
          /\ outcome' = outcome
      BY <1>1, <1>4, LeaseTypes
    <2>2. /\ \A j \in Intent \ {i} : reserved'[j] = reserved[j]
          /\ Kind(i) # "cell_report" => reserved'[i] = day
      BY <1>1, <1>4 DEF TypeOK
    <2>3. \A j \in Intent : Moves(j)
      BY <1>2, <2>1 DEF Moves
    <2>4. FamilyInv' /\ \A j \in Intent : Kind(j)' = Kind(j)
      BY <1>2 DEF SendInv, FamilyInv, Kind
    <2>5. i # NoIntent /\ \A v \in Worker : job[v] # NoIntent => job[v] \in Intent
      BY <1>1, OutboxAssumption DEF TypeOK
    <2>6. JobInv'
      BY <1>2, <2>1, <2>5 DEF SendInv, JobInv
    <2>7. AcceptInv'
      <3>1. \A j \in Intent : /\ accepted[j] = 1 => state'[j] \in {"em_envio", "ambiguo", "enviado"}
                              /\ state'[j] = "enviado" => accepted[j] = 1
        BY <2>1 DEF SendInv, AcceptInv
      <3> QED
        BY <1>2, <2>1, <3>1 DEF SendInv, AcceptInv
    <2>8. StartInv'
      <3>1. \A j \in Intent : state'[j] = "none" => reserved'[j] = 0
        BY <2>1, <2>2 DEF SendInv, StartInv
      <3>2. ASSUME NEW j \in Intent, Kind(j) # "cell_report"
            PROVE  /\ state'[j] = "em_envio" /\ lease'[j] => reserved'[j] = day'
                   /\ accepted'[j] = 1 => started'[j] = reserved'[j]
        BY <1>2, <2>1, <2>2, <3>2 DEF SendInv, StartInv, clock
      <3>3. ASSUME NEW v \in Worker, NEW j \in Intent,
                   pc'[v] \in {"post", "record"}, job'[v] = j, Kind(j) # "cell_report"
            PROVE  started'[j] = reserved'[j]
        <4>1. v # w /\ job[v] = j /\ pc[v] = pc'[v] /\ j # i
          BY <1>2, <2>1, <3>3
        <4> QED
          BY <1>2, <2>2, <3>3, <4>1 DEF SendInv, StartInv
      <3> QED
        BY <2>4, <3>1, <3>2, <3>3 DEF StartInv
    <2>9. QuotaInv'
      <3>1. CASE Kind(i) = "cell_report"
        <4>1. reserved' = reserved \/ reserved' = [reserved EXCEPT ![i] = day]
          BY <1>4
        <4>2. CASE Rank(i) <= Cap /\ reserved' = [reserved EXCEPT ![i] = day]
          BY <1>2, <1>4, <4>2, OneMoreSlot DEF Lease
        <4>3. CASE reserved' = reserved
          BY <1>2, <2>3, <4>3, MovesKeepSlots
        <4> QED
          BY <1>4, <4>2, <4>3
      <3>2. CASE Kind(i) # "cell_report"
        BY <1>2, <1>4, <3>2, OneMoreSlot DEF Lease
      <3> QED
        BY <3>1, <3>2
    <2> QED
      BY <1>1, <2>3, <2>4, <2>6, <2>7, <2>8, <2>9 DEF SendInv
  <1> QED
    BY <1>1, <1>3, <1>4, ClaimCases

\* A worker gives its row up, and the row ends, waits or stays as it is.
LEMMA GiveUpStep ==
    ASSUME SendInv, TypeOK', NEW w \in Worker, job[w] \in Intent, Forget(w),
           UNCHANGED <<purpose, reserved, started, clock, accepted>>,
           \/ UNCHANGED <<state, holder, lease>>
           \/ /\ Owns(w, job[w])
              /\ \/ \E s \in {"retry", "obsoleto", "cancelado"} :
                       Settle(job[w], s) /\ accepted[job[w]] = 0
                 \/ Settle(job[w], "enviado") /\ accepted[job[w]] = 1
                 \/ Settle(job[w], "ambiguo")
    PROVE  SendInv' /\ \A i \in Intent : Moves(i)
  <1>1. /\ TypeOK /\ {"retry", "obsoleto", "cancelado", "enviado", "ambiguo"} \subseteq State
        /\ pc'[w] = "idle" /\ job'[w] = NoIntent
        /\ \A v \in Worker \ {w} : pc'[v] = pc[v] /\ job'[v] = job[v] /\ outcome'[v] = outcome[v]
    BY ForgetTypes DEF SendInv, State, Live, Pending, Final
  <1>2. \A i \in Intent :
          \/ state'[i] = state[i] /\ holder'[i] = holder[i] /\ lease'[i] = lease[i]
          \/ /\ i = job[w] /\ state[i] = "em_envio"
             /\ \/ state'[i] \in {"retry", "obsoleto", "cancelado"} /\ accepted[i] = 0
                \/ state'[i] = "enviado" /\ accepted[i] = 1
                \/ state'[i] = "ambiguo"
    <2>1. CASE UNCHANGED <<state, holder, lease>>
      BY <2>1
    <2>2. ASSUME NEW s \in {"retry", "obsoleto", "cancelado", "enviado", "ambiguo"},
                 Settle(job[w], s), Owns(w, job[w]),
                 \/ s \in {"retry", "obsoleto", "cancelado"} /\ accepted[job[w]] = 0
                 \/ s = "enviado" /\ accepted[job[w]] = 1
                 \/ s = "ambiguo"
          PROVE  \A i \in Intent :
                    \/ state'[i] = state[i] /\ holder'[i] = holder[i] /\ lease'[i] = lease[i]
                    \/ /\ i = job[w] /\ state[i] = "em_envio"
                       /\ \/ state'[i] \in {"retry", "obsoleto", "cancelado"} /\ accepted[i] = 0
                          \/ state'[i] = "enviado" /\ accepted[i] = 1
                          \/ state'[i] = "ambiguo"
      BY <1>1, <2>2, SettleTypes DEF Owns
    <2> QED
      BY <2>1, <2>2
  <1>3. \A i \in Intent : Moves(i)
    BY <1>2 DEF Moves
  <1>4. FamilyInv' /\ \A i \in Intent : Kind(i)' = Kind(i)
    BY DEF SendInv, FamilyInv, Kind
  <1>5. \A v \in Worker \ {w} : job[v] # NoIntent => job[v] \in Intent /\ job[v] # job[w]
    BY <1>1, OutboxAssumption DEF SendInv, JobInv, TypeOK
  <1>6. JobInv'
    BY <1>1, <1>2, <1>5 DEF SendInv, JobInv
  <1>7. AcceptInv'
    <2>1. \A i \in Intent : /\ accepted[i] = 1 => state'[i] \in {"em_envio", "ambiguo", "enviado"}
                            /\ state'[i] = "enviado" => accepted[i] = 1
      BY <1>2 DEF SendInv, AcceptInv
    <2> QED
      BY <1>1, <2>1 DEF SendInv, AcceptInv
  <1>8. StartInv'
    <2>1. \A i \in Intent : /\ state'[i] = "none" => reserved'[i] = 0
                            /\ state'[i] = "em_envio" /\ lease'[i] =>
                                  state[i] = "em_envio" /\ lease[i]
      BY <1>2 DEF SendInv, StartInv
    <2>2. \A v \in Worker : pc'[v] \in {"post", "record"} =>
              v # w /\ job'[v] = job[v] /\ pc'[v] = pc[v]
      BY <1>1
    <2>3. day' = day
      BY DEF clock
    <2> QED
      BY <1>4, <2>1, <2>2, <2>3 DEF SendInv, StartInv
  <1>9. QuotaInv'
    BY <1>3, MovesKeepSlots
  <1> QED
    BY <1>3, <1>4, <1>6, <1>7, <1>8, <1>9 DEF SendInv

LEMMA FenceStep ==
    ASSUME SendInv, NEW w \in Worker, Fence(w)
    PROVE  SendInv' /\ \A i \in Intent : Moves(i)
  <1>1. TypeOK' /\ TypeOK
    BY FenceTypes DEF SendInv
  <1>2. /\ pc[w] = "fence" /\ job[w] \in Intent /\ accepted[job[w]] = 0
        /\ UNCHANGED <<purpose, reserved, clock, accepted>>
    BY <1>1, FenceCases, OutboxAssumption DEF SendInv, AcceptInv
  <1>3. CASE /\ Owns(w, job[w]) /\ started' = [started EXCEPT ![job[w]] = day]
             /\ pc' = [pc EXCEPT ![w] = "post"]
             /\ UNCHANGED <<state, holder, lease, job, outcome>>
    <2>1. /\ \A i \in Intent \ {job[w]} : started'[i] = started[i]
          /\ started'[job[w]] = day
          /\ pc'[w] = "post" /\ \A v \in Worker \ {w} : pc'[v] = pc[v]
      BY <1>1, <1>2, <1>3 DEF TypeOK
    <2>2. \A i \in Intent : Moves(i)
      BY <1>2, <1>3 DEF Moves
    <2>3. FamilyInv' /\ \A i \in Intent : Kind(i)' = Kind(i)
      BY <1>2 DEF SendInv, FamilyInv, Kind
    <2>4. JobInv' /\ AcceptInv'
      BY <1>2, <1>3, <2>1 DEF SendInv, JobInv, AcceptInv
    <2>5. Kind(job[w]) # "cell_report" => reserved[job[w]] = day
      BY <1>2, <1>3 DEF SendInv, StartInv, Owns
    <2>6. ASSUME NEW v \in Worker \ {w}, NEW i \in Intent, job[v] = i PROVE i # job[w]
      BY <1>2, <2>6, OutboxAssumption DEF SendInv, JobInv
    <2>7. StartInv'
      <3>1. \A i \in Intent : Kind(i) # "cell_report" =>
              /\ state[i] = "em_envio" /\ lease[i] => reserved[i] = day
              /\ accepted[i] = 1 => started'[i] = reserved[i]
        BY <1>2, <2>1 DEF SendInv, StartInv
      <3>2. ASSUME NEW v \in Worker, NEW i \in Intent,
                   pc'[v] \in {"post", "record"}, job[v] = i, Kind(i) # "cell_report"
            PROVE  started'[i] = reserved[i]
        BY <2>1, <2>5, <2>6, <3>2 DEF SendInv, StartInv
      <3>3. \A i \in Intent : state[i] = "none" => reserved[i] = 0
        BY DEF SendInv, StartInv
      <3> QED
        BY <1>2, <1>3, <2>3, <3>1, <3>2, <3>3 DEF StartInv, clock
    <2>8. QuotaInv'
      BY <1>2, <2>2, MovesKeepSlots
    <2> QED
      BY <1>1, <2>2, <2>3, <2>4, <2>7, <2>8 DEF SendInv
  <1>4. CASE /\ Forget(w) /\ started' = started
             /\ \/ UNCHANGED <<state, holder, lease>>
                \/ /\ Owns(w, job[w])
                   /\ \E s \in {"retry", "obsoleto", "cancelado"} : Settle(job[w], s)
    BY <1>1, <1>2, <1>4, GiveUpStep
  <1> QED
    BY <1>1, <1>3, <1>4, FenceCases DEF SendInv

LEMMA RecordStep ==
    ASSUME SendInv, NEW w \in Worker, Record(w)
    PROVE  SendInv' /\ \A i \in Intent : Moves(i)
  <1>1. TypeOK' /\ TypeOK
    BY RecordTypes DEF SendInv
  <1>2. /\ pc[w] = "record" /\ job[w] \in Intent /\ Forget(w)
        /\ UNCHANGED <<purpose, reserved, started, clock, accepted>>
        /\ \/ /\ Owns(w, job[w])
              /\ \/ outcome[w] = "aceito" /\ Settle(job[w], "enviado")
                 \/ /\ outcome[w] \in {"falhou_permanente", "falhou_retentavel"}
                    /\ Settle(job[w], "retry") \/ Settle(job[w], "cancelado")
                 \/ outcome[w] = "desconhecido" /\ Settle(job[w], "ambiguo")
           \/ UNCHANGED <<state, holder, lease>>
    BY <1>1, RecordCases DEF SendInv
  <1>3. /\ outcome[w] = "aceito" => accepted[job[w]] = 1
        /\ outcome[w] \in {"falhou_permanente", "falhou_retentavel"} => accepted[job[w]] = 0
    BY <1>2, OutboxAssumption DEF SendInv, AcceptInv
  <1> QED
    BY <1>1, <1>2, <1>3, GiveUpStep

LEMMA PostStep ==
    ASSUME SendInv, NEW w \in Worker, Post(w) \/ Crash(w)
    PROVE  SendInv' /\ \A i \in Intent : Moves(i)
  <1>1. TypeOK' /\ TypeOK
    BY PostTypes DEF SendInv
  <1>2. /\ UNCHANGED <<purpose, state, reserved, due, holder, lease, started, clock>>
        /\ \/ accepted' = accepted
           \/ /\ pc[w] = "post" /\ accepted[job[w]] = 0
              /\ accepted' = [accepted EXCEPT ![job[w]] = 1]
        /\ \/ Forget(w)
           \/ /\ pc[w] = "post" /\ pc' = [pc EXCEPT ![w] = "record"] /\ job' = job
              /\ \E o \in Outcome : outcome' = [outcome EXCEPT ![w] = o]
              /\ outcome'[w] = "aceito" => accepted'[job[w]] = 1
              /\ outcome'[w] \in {"falhou_permanente", "falhou_retentavel"}
                    => accepted' = accepted
    BY PostCases DEF SendInv, row
  <1>3. pc[w] = "post" => job[w] \in Intent /\ state[job[w]] \in {"em_envio", "ambiguo"}
                          /\ accepted[job[w]] = 0
    BY <1>1, OutboxAssumption DEF SendInv, JobInv, AcceptInv, TypeOK
  <1>4. \A i \in Intent : \/ accepted'[i] = accepted[i]
                          \/ /\ i = job[w] /\ pc[w] = "post"
                             /\ accepted[i] = 0 /\ accepted'[i] = 1
    BY <1>1, <1>2, <1>3 DEF TypeOK
  <1>5. \A i \in Intent : Moves(i)
    BY <1>2, <1>3, <1>4 DEF Moves
  <1>6. FamilyInv' /\ \A i \in Intent : Kind(i)' = Kind(i)
    BY <1>2 DEF SendInv, FamilyInv, Kind
  <1>7. /\ \A v \in Worker \ {w} : pc'[v] = pc[v] /\ job'[v] = job[v] /\ outcome'[v] = outcome[v]
        /\ \/ pc'[w] = "idle" /\ job'[w] = NoIntent
           \/ pc[w] = "post" /\ pc'[w] = "record" /\ job'[w] = job[w]
    <2>1. CASE Forget(w)
      BY <1>1, <2>1, ForgetTypes
    <2>2. CASE /\ pc[w] = "post" /\ pc' = [pc EXCEPT ![w] = "record"] /\ job' = job
               /\ \E o \in Outcome : outcome' = [outcome EXCEPT ![w] = o]
      BY <1>1, <2>2 DEF TypeOK
    <2> QED
      BY <1>2, <2>1, <2>2
  <1>8. \A v \in Worker \ {w} : job[v] # NoIntent => job[v] \in Intent /\ job[v] # job[w]
    BY <1>1, OutboxAssumption DEF SendInv, JobInv, TypeOK
  <1>9. JobInv'
    BY <1>2, <1>7, <1>8, OutboxAssumption DEF SendInv, JobInv
  <1>10. AcceptInv'
    <2>1. \A i \in Intent :
            /\ accepted'[i] \in {0, 1}
            /\ accepted'[i] = 1 => state[i] \in {"em_envio", "ambiguo", "enviado"}
            /\ state[i] = "enviado" => accepted'[i] = 1
      BY <1>3, <1>4 DEF SendInv, AcceptInv
    <2>2. ASSUME NEW v \in Worker \ {w}, job'[v] # NoIntent
          PROVE  accepted'[job[v]] = accepted[job[v]] /\ job'[v] = job[v]
                 /\ pc'[v] = pc[v] /\ outcome'[v] = outcome[v]
      BY <1>4, <1>7, <1>8, <2>2
    <2>3. ASSUME job'[w] # NoIntent
          PROVE  /\ pc'[w] = "record"
                 /\ outcome'[w] = "aceito" => accepted'[job'[w]] = 1
                 /\ outcome'[w] \in {"falhou_permanente", "falhou_retentavel"}
                       => accepted'[job'[w]] = 0
      <3>1. ~Forget(w)
        BY <1>1, <2>3, ForgetTypes
      <3> QED
        BY <1>2, <1>3, <1>7, <2>3, <3>1
    <2> QED
      BY <1>2, <2>1, <2>2, <2>3 DEF SendInv, AcceptInv
  <1>11. StartInv'
    <2>1. \A v \in Worker, i \in Intent :
            pc'[v] \in {"post", "record"} /\ job'[v] = i => pc[v] \in {"post", "record"} /\ job[v] = i
      BY <1>7, OutboxAssumption
    <2>2. \A i \in Intent : accepted'[i] = 1 /\ Kind(i) # "cell_report" => started[i] = reserved[i]
      BY <1>4 DEF SendInv, StartInv
    <2> QED
      BY <1>2, <1>6, <2>1, <2>2 DEF SendInv, StartInv, clock
  <1>12. QuotaInv'
    BY <1>2, <1>5, MovesKeepSlots
  <1> QED
    BY <1>1, <1>5, <1>6, <1>9, <1>10, <1>11, <1>12 DEF SendInv

LEMMA NextStep ==
    ASSUME SendInv, [Next]_vars
    PROVE  SendInv' /\ \A i \in Intent : Moves(i)
  <1>1. CASE UNCHANGED vars
    <2>1. UNCHANGED <<purpose, state, attempts, reserved, due, last, late, holder, lease,
                      started, preference, day, open, pc, job, outcome, accepted>>
      BY <1>1 DEF vars, row, clock, local
    <2>2. TypeOK'
      BY <2>1 DEF SendInv, TypeOK
    <2>3. \A i \in Intent : Moves(i)
      BY <2>1 DEF Moves
    <2> QED
      BY <2>1, <2>2, <2>3, OtherStep DEF local
  <1>2. CASE Produce
    BY <1>2, ProduceStep
  <1>3. CASE Maintain \/ WindowCloses \/ NextDay
             \/ \E i \in Intent : LeaseExpires(i) \/ Deadline(i)
    BY <1>3, WorldStep
  <1>4. ASSUME NEW w \in Worker, Dispatch(w) \/ Crash(w)
        PROVE  SendInv' /\ \A i \in Intent : Moves(i)
    BY <1>4, ClaimStep, FenceStep, PostStep, RecordStep DEF Dispatch
  <1> QED
    BY <1>1, <1>2, <1>3, <1>4 DEF Next, Environment

\* Only a producer creates a row that waits.
LEMMA Created ==
    ASSUME SendInv, [Next]_vars, NEW i \in Intent,
           state[i] = "none", state'[i] = "pendente", preference' # "active"
    PROVE  \E j \in Intent : EnqueueEvt7(j) \/ ScheduleReport(j) \/ MaterialiseConsolidation(j)
  <1>1. TypeOK /\ "none" \notin Pending
    BY DEF SendInv, Pending
  <1>2. ASSUME NEW j \in Intent, state[j] # "none", NEW s, state' = [state EXCEPT ![j] = s]
        PROVE  FALSE
    BY <1>1, <1>2 DEF TypeOK
  <1>3. ~(state' = state)
    OBVIOUS
  <1>4. CASE Produce
    BY <1>3, <1>4 DEF Produce, OptIn, Stop, CancelConsolidation, Subscribe, row
  <1>5. ~Maintain /\ ~(\E w \in Worker : Post(w) \/ Crash(w)) /\ ~WindowCloses /\ ~NextDay
        /\ ~(\E j \in Intent : LeaseExpires(j) \/ Deadline(j)) /\ ~UNCHANGED vars
    BY <1>1, <1>3 DEF Maintain, Sweep, Post, Crash, WindowCloses, NextDay, LeaseExpires,
       Deadline, vars, row
  <1>6. ASSUME NEW w \in Worker, NEW j \in Intent,
               ClaimEnds(w, j) \/ ClaimAtNight(w, j) \/ ClaimUnderCap(w, j)
        PROVE  FALSE
    <2>1. state[j] \in Pending /\ ((\E s : Settle(j, s)) \/ Lease(w, j))
      BY <1>1, <1>6, ClaimCases
    <2>2. state[j] # "none" /\ \E s : state' = [state EXCEPT ![j] = s]
      BY <1>1, <2>1 DEF Settle, Lease
    <2> QED
      BY <1>2, <2>2
  <1>7. ASSUME NEW w \in Worker, Fence(w) \/ Record(w)
        PROVE  FALSE
    <2>1. /\ job[w] \in Intent
          /\ UNCHANGED state \/ (Owns(w, job[w]) /\ \E s : Settle(job[w], s))
      BY <1>1, <1>7, FenceCases, RecordCases DEF SendInv
    <2> QED
      BY <1>2, <1>3, <2>1 DEF Settle, Owns
  <1> QED
    BY <1>4, <1>5, <1>6, <1>7 DEF Next, Environment, Dispatch

-----------------------------------------------------------------------------
(* The theorems. *)

\* The types, the ties between workers and rows, and the reservations hold in
\* every state.
THEOREM Invariance == Spec => []SendInv
  <1>1. Init => SendInv
    BY InitInv
  <1>2. SendInv /\ [Next]_vars => SendInv'
    BY NextStep
  <1> QED
    BY <1>1, <1>2, PTL DEF Spec

\* Every variable has its type.
THEOREM TypeCorrect == Spec => []TypeOK
  <1>1. SendInv => TypeOK
    BY DEF SendInv
  <1> QED
    BY <1>1, Invariance, PTL

\* The outbox implements OnceDelivery: under any interleaving of claims, sweeps,
\* refusals, crashes and stalls no notice is sent twice and no row says of a
\* notice what did not happen.
THEOREM Refinement == Spec => NotifiesAtMostOnce
  <1>1. Init => Once!Init
    BY InitOnce
  <1>2. SendInv /\ SendInv' /\ [Next]_vars => Once!Next
    BY NextStep, MovesOnce
  <1> QED
    BY <1>1, <1>2, Invariance, PTL DEF Spec, NotifiesAtMostOnce, Once!Spec

\* The daily cap of Agenda and consolidation, for any cap and number of days:
\* what was taken under one day was reserved that day, and the reservations of
\* a day never exceed the cap, although retries and sweeps move and free them.
THEOREM CapHolds == Spec => []DailyCap
  <1>1. ASSUME SendInv, NEW d \in 1 .. MaxDay
        PROVE  Cardinality({i \in Intent : /\ Kind(i) # "cell_report" /\ accepted[i] > 0
                                           /\ started[i] = d}) <= Cap
    <2> DEFINE Taken == {i \in Intent : /\ Kind(i) # "cell_report" /\ accepted[i] > 0
                                        /\ started[i] = d}
    <2>1. Taken \subseteq Slots(d)
      <3>1. ASSUME NEW i \in Taken PROVE i \in Slots(d)
        <4>1. accepted[i] = 1 /\ i \in Intent
          BY <1>1 DEF SendInv, AcceptInv
        <4>2. reserved[i] = d /\ state[i] \in {"em_envio", "ambiguo", "enviado"}
          BY <1>1, <4>1 DEF SendInv, AcceptInv, StartInv
        <4> QED
          BY <4>1, <4>2 DEF Slots, Reserving, Live
      <3> QED
        BY <3>1
    <2>2. IsFiniteSet(Slots(d)) /\ Cardinality(Slots(d)) <= Cap
      BY <1>1 DEF SendInv, QuotaInv
    <2>3. IsFiniteSet(Taken) /\ Cardinality(Taken) <= Cardinality(Slots(d))
      BY <2>1, <2>2, FS_Subset
    <2>4. Cardinality(Slots(d)) \in Nat /\ Cardinality(Taken) \in Nat
      BY <2>2, <2>3, FS_CardinalityType
    <2> QED
      BY <2>2, <2>3, <2>4, OutboxAssumption
  <1>2. SendInv => DailyCap
    BY <1>1 DEF DailyCap
  <1> QED
    BY <1>2, Invariance, PTL

\* After disable_whatsapp_reminders nothing of that person is waiting or in
\* flight, and no producer, claim or retry brings anything back before the
\* person opts in again.
THEOREM RefusalHolds == Spec => []StoppedMeansFenced
  <1>1. Init => StoppedMeansFenced
    BY DEF Init, StoppedMeansFenced
  <1>2. ASSUME SendInv, StoppedMeansFenced, [Next]_vars
        PROVE  StoppedMeansFenced'
    <2>1. CASE Stop
      BY <2>1 DEF Stop, StoppedMeansFenced, Live, Pending
    <2>2. CASE ~Stop /\ preference' = "disabled"
      <3>1. preference = "disabled"
        BY <1>2, <2>2 DEF Next, Produce, Environment, Dispatch, OptIn, CancelConsolidation,
           Subscribe, EnqueueEvt7, ScheduleReport, MaterialiseConsolidation, Maintain,
           ClaimEnds, ClaimAtNight, ClaimUnderCap, Fence, Post, Record, WindowCloses,
           NextDay, LeaseExpires, Deadline, Crash, vars
      <3>2. \A i \in Intent : state[i] \notin Live
        BY <1>2, <3>1 DEF StoppedMeansFenced
      <3>3. ASSUME NEW i \in Intent, state[i] = "none", state'[i] = "pendente"
            PROVE  FALSE
        <4>1. \E j \in Intent : EnqueueEvt7(j) \/ ScheduleReport(j) \/ MaterialiseConsolidation(j)
          BY <1>2, <2>2, <3>3, Created
        <4> QED
          BY <1>2, <3>1, <3>3, <4>1 DEF EnqueueEvt7, ScheduleReport, MaterialiseConsolidation,
             Allowed, Insert, SendInv, TypeOK
      <3>4. \A i \in Intent : Moves(i)
        BY <1>2, NextStep
      <3> QED
        BY <3>2, <3>3, <3>4 DEF Moves, StoppedMeansFenced, Live, Pending
    <2> QED
      BY <2>1, <2>2 DEF StoppedMeansFenced
  <1> QED
    BY <1>1, <1>2, Invariance, PTL DEF Spec

=============================================================================
