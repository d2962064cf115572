----------------------- MODULE BroadcastDeliveryProofs -----------------------
(***************************************************************************)
(* Theorems about BroadcastDelivery, for any workers, broadcasts, people   *)
(* and faults: it implements OnceDelivery, two workers never transport one *)
(* delivery, and what is closed has nothing left to send.  What a step may *)
(* do to a delivery follows from the rows its worker has claimed or        *)
(* locked, so the invariant relates the two.                               *)
(***************************************************************************)
EXTENDS BroadcastDelivery, TLAPS

-----------------------------------------------------------------------------
(* The invariant. *)

\* Occurrences are counted before they have deliveries.
FreshInv ==
    /\ \A b \in Broadcast : status[b] = "none" => seq[b] = 0
    /\ \A d \in Delivery : delivery[d] # "none" => d[1][2] <= seq[d[1][1]]

\* A worker with a delivery still holds it, unless the reaper gave it up, and
\* nobody else works on it.
JobInv ==
    /\ \A w \in Worker : job[w] # NoDelivery =>
        /\ pc[w] \in {"gate", "fence", "post", "record", "commit"}
        /\ delivery[job[w]] \in {"em_envio", "desconhecido"}
        /\ delivery[job[w]] = "em_envio" => holder[job[w]] = {w}
    /\ \A w \in Worker : pc[w] \in {"gate", "fence", "post", "record"} => job[w] # NoDelivery
    /\ \A v, w \in Worker : v # w /\ job[v] # NoDelivery => job[v] # job[w]

\* An open transaction settles its worker's delivery, suppresses one nobody has
\* claimed, or quarantines orphans; nobody else changes those rows.
WriteInv ==
    /\ DOMAIN write = Worker
    /\ \A w \in Worker, d \in Delivery : d \in DOMAIN write[w] =>
        \/ /\ pc[w] = "reaping"
           /\ delivery[d] = "em_envio" /\ write[w][d] = "desconhecido"
        \/ /\ pc[w] = "commit" /\ d = job[w]
           /\ delivery[d] = "em_envio" /\ write[w][d] = outcome[w]
        \/ /\ pc[w] = "commit" /\ job[w] = NoDelivery
           /\ delivery[d] \in Claimable /\ write[w][d] = "suprimido"
    /\ \A v, w \in Worker, d \in Delivery :
        v # w /\ d \in DOMAIN write[v] => d \notin DOMAIN write[w]

\* What the provider took is in flight, in doubt or recorded, and what a worker
\* is about to record is true.
AcceptInv ==
    /\ \A d \in Delivery :
        /\ accepted[d] \in {0, 1}
        /\ accepted[d] = 1 => delivery[d] \in {"em_envio", "desconhecido", "aceito"}
        /\ delivery[d] = "aceito" => accepted[d] = 1
    /\ \A w \in Worker : job[w] # NoDelivery =>
        /\ pc[w] \in {"gate", "fence", "post"} => accepted[job[w]] = 0
        /\ pc[w] \in {"record", "commit"} /\ outcome[w] = "aceito" => accepted[job[w]] = 1
        /\ pc[w] \in {"record", "commit"}
               /\ outcome[w] \in {"suprimido", "falhou_permanente", "falhou_retentavel"}
               => accepted[job[w]] = 0

SendInv == TypeOK /\ FreshInv /\ JobInv /\ WriteInv /\ AcceptInv

-----------------------------------------------------------------------------
\* The states of a delivery, and the parts of the type invariant.
State == {"none"} \cup Work \cup Settled
PanelTypes ==
    /\ repeats \in [Broadcast -> BOOLEAN]
    /\ status \in [Broadcast -> {"none", "rascunho", "agendado", "enviado"}]
    /\ slot \in [Broadcast -> {"null", "future", "due"}]
    /\ seq \in [Broadcast -> 0 .. MaxSeq]
WorldTypes == eligible \in [Person -> BOOLEAN] /\ online \in BOOLEAN
LedgerTypes ==
    /\ execution \in [Execution -> {"none", "open", "done"}]
    /\ delivery \in [Delivery -> State]
    /\ holder \in [Delivery -> SUBSET Worker]
    /\ lease \in [Delivery -> BOOLEAN]
LocalTypes ==
    /\ pc \in [Worker -> {"idle", "scan", "gate", "fence", "post", "record",
                          "commit", "reaping"}]
    /\ job \in [Worker -> Delivery \cup {NoDelivery}]
    /\ outcome \in [Worker -> Outcome]
    /\ \A w \in Worker : DOMAIN write[w] \subseteq Delivery
                         /\ \A d \in DOMAIN write[w] : write[w][d] \in Outcome
    /\ close \in [Worker -> SUBSET Execution]
HistoryTypes == accepted \in [Delivery -> 0 .. 2] /\ crashes \in 0 .. MaxCrash

LEMMA TypeParts ==
    TypeOK <=> PanelTypes /\ WorldTypes /\ LedgerTypes /\ LocalTypes /\ HistoryTypes
  BY DEF TypeOK, PanelTypes, WorldTypes, LedgerTypes, LocalTypes, HistoryTypes, State

LEMMA DeliveryParts ==
    /\ \A e \in Execution : e[1] \in Broadcast /\ e[2] \in 1 .. MaxSeq
    /\ \A d \in Delivery : d[1] \in Execution /\ d[1][1] \in Broadcast
                           /\ d[1][2] \in 1 .. MaxSeq /\ d[2] \in Person
    /\ \A b \in Broadcast, n \in 1 .. MaxSeq :
          <<b, n>> \in Execution /\ <<b, n>>[1] = b /\ <<b, n>>[2] = n
  BY DEF Delivery, Execution

\* What a step may make of one delivery, and of what the provider has of it.
Moves(d) ==
    \/ delivery'[d] = delivery[d] /\ accepted'[d] = accepted[d]
    \/ /\ accepted'[d] = accepted[d]
       /\ \/ delivery[d] = "none" /\ delivery'[d] = "pendente"
          \/ delivery[d] \in Claimable /\ delivery'[d] = "em_envio"
          \/ delivery[d] = "em_envio" /\ delivery'[d] = "desconhecido"
          \/ delivery[d] = "em_envio" /\ delivery'[d] = "aceito" /\ accepted[d] = 1
          \/ /\ delivery[d] = "em_envio" /\ accepted[d] = 0
             /\ delivery'[d] \in {"falhou_retentavel", "suprimido", "falhou_permanente"}
          \/ delivery[d] \in Claimable /\ delivery'[d] = "suprimido" /\ accepted[d] = 0
    \/ /\ delivery'[d] = delivery[d] /\ delivery[d] \in {"em_envio", "desconhecido"}
       /\ accepted[d] = 0 /\ accepted'[d] = 1

LEMMA Phases ==
    /\ PhaseOf("none") = "absent" /\ PhaseOf("pendente") = "waiting"
    /\ PhaseOf("falhou_retentavel") = "waiting" /\ PhaseOf("em_envio") = "sending"
    /\ PhaseOf("aceito") = "accepted" /\ PhaseOf("desconhecido") = "unknown"
    /\ PhaseOf("suprimido") = "refused" /\ PhaseOf("falhou_permanente") = "refused"
    /\ \A s \in State : PhaseOf(s) \in Once!Phase
  BY DEF PhaseOf, Claimable, State, Work, Settled, Once!Phase

\* Such a step is one of OnceDelivery.
LEMMA MovesOnce ==
    ASSUME SendInv, SendInv', \A d \in Delivery : Moves(d)
    PROVE  Once!Next
  <1> DEFINE phase == [d \in Delivery |-> PhaseOf(delivery[d])]
             phase1 == [d \in Delivery |-> PhaseOf(delivery'[d])]
  <1>1. /\ delivery \in [Delivery -> State] /\ delivery' \in [Delivery -> State]
        /\ accepted \in [Delivery -> 0 .. 2] /\ accepted' \in [Delivery -> 0 .. 2]
    BY DEF SendInv, TypeOK, State
  <1>2. \A d \in Delivery : accepted[d] \in 0 .. 1 /\ accepted'[d] \in 0 .. 1
    BY DEF SendInv, AcceptInv
  <1>3. phase1 \in [Delivery -> Once!Phase]
    BY <1>1, Phases
  <1>4. accepted' \in [Delivery -> 0 .. 1]
    BY <1>1, <1>2
  <1>5. ASSUME NEW d \in Delivery
        PROVE  \/ Once!Step(d)
               \/ phase1[d] = phase[d] /\ accepted'[d] = accepted[d]
    <2>1. phase[d] = PhaseOf(delivery[d]) /\ phase1[d] = PhaseOf(delivery'[d])
      OBVIOUS
    <2>2. Moves(d)
      OBVIOUS
    <2> QED
      BY <2>1, <2>2, Phases DEF Moves, Claimable, Once!Step, Once!Move, Once!Record,
         Once!Begin, Once!Withdraw, Once!Refuse, Once!Accept, Once!Doubt, Once!Take
  <1> QED
    BY <1>3, <1>4, <1>5 DEF Once!Next

LEMMA InitInv == Init => SendInv
  <1> SUFFICES ASSUME Init PROVE SendInv
    OBVIOUS
  <1> USE BroadcastAssumption
  <1>1. TypeOK
    BY DEF Init, TypeOK, NoWrite, Outcome, Settled, Work
  <1>2. FreshInv /\ JobInv /\ AcceptInv
    BY DEF Init, FreshInv, JobInv, AcceptInv
  <1>3. WriteInv
    BY DEF Init, WriteInv, NoWrite
  <1> QED
    BY <1>1, <1>2, <1>3 DEF SendInv

LEMMA InitOnce == Init => Once!Init
  BY DEF Init, Once!Init, PhaseOf, Claimable

-----------------------------------------------------------------------------
(* The panel and the environment. *)

\* The people of an audience get their first state; nobody else is touched.
LEMMA MaterialisedRows ==
    ASSUME SendInv, NEW b \in Broadcast, seq[b] + 1 \in 1 .. MaxSeq,
           delivery' = Materialised(<<b, seq[b] + 1>>), accepted' = accepted
    PROVE  /\ delivery' \in [Delivery -> State]
           /\ \A d \in Delivery : Moves(d)
           /\ \A d \in Delivery : delivery'[d] = delivery[d]
                 \/ /\ delivery[d] = "none" /\ delivery'[d] = "pendente"
                    /\ d[1][1] = b /\ d[1][2] = seq[b] + 1
  <1> USE BroadcastAssumption
  <1>1. delivery \in [Delivery -> State] /\ seq \in [Broadcast -> 0 .. MaxSeq]
    BY DEF SendInv, TypeOK, State
  <1>2. ASSUME NEW d \in Delivery, delivery'[d] # delivery[d]
        PROVE  /\ delivery[d] = "none" /\ delivery'[d] = "pendente"
               /\ d[1][1] = b /\ d[1][2] = seq[b] + 1
    <2>1. d[1] = <<b, seq[b] + 1>> /\ delivery'[d] = "pendente"
      BY <1>2 DEF Materialised
    <2>2. d[1][1] = b /\ d[1][2] = seq[b] + 1
      BY <2>1
    <2>3. ~(d[1][2] <= seq[d[1][1]])
      BY <2>2, <1>1
    <2> QED
      BY <2>1, <2>2, <2>3 DEF SendInv, FreshInv
  <1>3. delivery' \in [Delivery -> State]
    BY <1>1 DEF Materialised, State, Work
  <1> QED
    BY <1>2, <1>3 DEF Moves

\* Deliveries that come to be disturb nothing else.
LEMMA NewRows ==
    ASSUME SendInv, TypeOK', FreshInv',
           UNCHANGED <<holder, local, accepted>>,
           \A d \in Delivery : delivery'[d] = delivery[d] \/ delivery[d] = "none"
    PROVE  JobInv' /\ WriteInv'
  <1>1. JobInv'
    BY DEF SendInv, JobInv, TypeOK, local
  <1>2. WriteInv'
    BY DEF SendInv, WriteInv, local, Claimable
  <1> QED
    BY <1>1, <1>2

LEMMA PanelStep ==
    ASSUME SendInv, Panel
    PROVE  SendInv' /\ \A d \in Delivery : Moves(d)
  <1> USE BroadcastAssumption
  <1> PICK b \in Broadcast : CreateNow(b) \/ Schedule(b) \/ SlotDue(b)
    BY DEF Panel
  <1>1. CASE CreateNow(b) /\ Audience # {}
    <2>1. seq[b] = 0 /\ seq[b] + 1 = 1 /\ seq[b] + 1 \in 1 .. MaxSeq
      BY <1>1 DEF CreateNow, SendInv, FreshInv
    <2>2. delivery' = Materialised(<<b, seq[b] + 1>>) /\ accepted' = accepted
      BY <1>1, <2>1 DEF CreateNow, history
    <2>3. /\ delivery' \in [Delivery -> State]
          /\ \A d \in Delivery : Moves(d)
          /\ \A d \in Delivery : delivery'[d] = delivery[d]
                \/ /\ delivery[d] = "none" /\ delivery'[d] = "pendente"
                   /\ d[1][1] = b /\ d[1][2] = seq[b] + 1
      BY <2>1, <2>2, MaterialisedRows
    <2>4. seq' = [seq EXCEPT ![b] = 1] /\ status' = [status EXCEPT ![b] = "agendado"]
      BY <1>1 DEF CreateNow
    <2>5. TypeOK'
      <3>1. PanelTypes'
        BY <1>1, <2>1, <2>4, TypeParts DEF CreateNow, SendInv, PanelTypes
      <3>2. WorldTypes' /\ LocalTypes' /\ HistoryTypes'
        BY <1>1, TypeParts DEF CreateNow, SendInv, WorldTypes, LocalTypes, HistoryTypes,
           world, local, history
      <3>3. LedgerTypes'
        BY <1>1, <2>3, TypeParts DEF CreateNow, SendInv, LedgerTypes
      <3> QED
        BY <3>1, <3>2, <3>3 DEF TypeOK, PanelTypes, WorldTypes, LedgerTypes, LocalTypes,
           HistoryTypes, State
    <2>6. FreshInv'
      BY <2>1, <2>3, <2>4, DeliveryParts DEF SendInv, FreshInv, TypeOK
    <2>7. JobInv' /\ WriteInv'
      BY <1>1, <2>3, <2>5, <2>6, NewRows DEF CreateNow, local, history
    <2>8. AcceptInv'
      BY <1>1, <2>3 DEF CreateNow, SendInv, AcceptInv, JobInv, local, history
    <2> QED
      BY <2>3, <2>5, <2>6, <2>7, <2>8 DEF SendInv
  <1>2. CASE (CreateNow(b) /\ Audience = {}) \/ Schedule(b) \/ SlotDue(b)
    <2>1. UNCHANGED <<seq, delivery, holder, local, accepted>>
      BY <1>2 DEF CreateNow, Schedule, SlotDue, ledger, history
    <2>2. TypeOK'
      <3>1. UNCHANGED <<ledger, world, local, history>>
        BY <1>2 DEF CreateNow, Schedule, SlotDue, ledger
      <3>2. CASE CreateNow(b) /\ Audience = {}
        BY <3>1, <3>2 DEF CreateNow, SendInv, TypeOK, ledger, world, local, history
      <3>3. CASE Schedule(b)
        BY <3>1, <3>3 DEF Schedule, SendInv, TypeOK, ledger, world, local, history
      <3>4. CASE SlotDue(b)
        BY <3>1, <3>4 DEF SlotDue, SendInv, TypeOK, ledger, world, local, history
      <3> QED
        BY <1>2, <3>2, <3>3, <3>4
    <2>3. \A c \in Broadcast : status'[c] = "none" => status[c] = "none"
      BY <1>2 DEF CreateNow, Schedule, SlotDue, SendInv, TypeOK
    <2>4. FreshInv' /\ AcceptInv'
      BY <2>1, <2>3 DEF SendInv, FreshInv, AcceptInv, local
    <2>5. JobInv' /\ WriteInv'
      BY <2>1, <2>2, <2>4, NewRows
    <2> QED
      BY <2>1, <2>2, <2>4, <2>5 DEF SendInv, Moves
  <1> QED
    BY <1>1, <1>2

\* Nothing of the ledger but leases moves.
LEMMA WorldStep ==
    ASSUME SendInv,
           \/ Reconnect
           \/ \E p \in Person : ChangePerson(p)
           \/ \E d \in Delivery : LeaseExpires(d)
    PROVE  SendInv' /\ \A d \in Delivery : Moves(d)
  <1>1. UNCHANGED <<panel, delivery, holder, local, accepted>>
    BY DEF Reconnect, ChangePerson, LeaseExpires, ledger, history
  <1>2. TypeOK'
    <2>1. PanelTypes' /\ LocalTypes' /\ HistoryTypes'
      BY TypeParts DEF Reconnect, ChangePerson, LeaseExpires, panel, world, local, history,
         SendInv, PanelTypes, LocalTypes, HistoryTypes
    <2>2. WorldTypes'
      BY TypeParts DEF Reconnect, ChangePerson, LeaseExpires, world, SendInv, WorldTypes
    <2>3. LedgerTypes'
      BY TypeParts DEF Reconnect, ChangePerson, LeaseExpires, ledger, SendInv, LedgerTypes
    <2> QED
      BY <2>1, <2>2, <2>3 DEF TypeOK, PanelTypes, WorldTypes, LedgerTypes, LocalTypes,
         HistoryTypes, State
  <1>3. FreshInv' /\ JobInv' /\ WriteInv' /\ AcceptInv'
    BY <1>1 DEF SendInv, FreshInv, JobInv, WriteInv, AcceptInv, panel, local
  <1> QED
    BY <1>1, <1>2, <1>3 DEF SendInv, Moves

-----------------------------------------------------------------------------
(* The worker. *)

LEMMA FinaliseTypes ==
    ASSUME TypeOK, NEW closed \in SUBSET Execution, Finalise(closed)
    PROVE  /\ execution' \in [Execution -> {"none", "open", "done"}]
           /\ status' \in [Broadcast -> {"none", "rascunho", "agendado", "enviado"}]
           /\ \A b \in Broadcast : status'[b] = "none" => status[b] = "none"
  BY DEF TypeOK, Finalise

\* Outside a transaction nothing is locked.
LEMMA NothingLocked ==
    ASSUME SendInv, NEW w \in Worker, pc[w] \notin {"commit", "reaping"}
    PROVE  DOMAIN write[w] = {}
  BY DEF SendInv, WriteInv, TypeOK

\* A worker that leaves forgets its claim and its transaction.
LEMMA LeaveLocal ==
    ASSUME SendInv, NEW w \in Worker, NEW place \in {"idle", "scan"}, Leave(w, place)
    PROVE  /\ LocalTypes'
           /\ DOMAIN write' = Worker /\ DOMAIN write'[w] = {}
           /\ \A v \in Worker \ {w} : write'[v] = write[v] /\ pc'[v] = pc[v]
                                      /\ job'[v] = job[v] /\ outcome'[v] = outcome[v]
           /\ job'[w] = NoDelivery /\ pc'[w] = place
  <1>1. DOMAIN write = Worker /\ write' = [write EXCEPT ![w] = NoWrite] /\ DOMAIN NoWrite = {}
    BY DEF SendInv, WriteInv, Leave, NoWrite
  <1>2. /\ DOMAIN write' = Worker /\ DOMAIN write'[w] = {}
        /\ \A v \in Worker \ {w} : write'[v] = write[v]
    BY <1>1
  <1>3. /\ \A v \in Worker \ {w} : pc'[v] = pc[v] /\ job'[v] = job[v] /\ outcome'[v] = outcome[v]
        /\ job'[w] = NoDelivery /\ pc'[w] = place
    BY DEF SendInv, TypeOK, Leave
  <1>4. /\ pc' \in [Worker -> {"idle", "scan", "gate", "fence", "post", "record",
                              "commit", "reaping"}]
        /\ job' \in [Worker -> Delivery \cup {NoDelivery}]
        /\ outcome' \in [Worker -> Outcome]
        /\ close' \in [Worker -> SUBSET Execution]
    BY DEF SendInv, TypeOK, Leave, Outcome, Settled
  <1>5. \A v \in Worker : DOMAIN write'[v] \subseteq Delivery
                          /\ \A d \in DOMAIN write'[v] : write'[v][d] \in Outcome
    BY <1>2 DEF SendInv, TypeOK
  <1> QED
    BY <1>2, <1>3, <1>4, <1>5 DEF LocalTypes

\* Such a worker, or one that only goes on, leaves the open transactions alone.
LEMMA OthersWrite ==
    ASSUME SendInv, NEW w \in Worker, DOMAIN write' = Worker, DOMAIN write'[w] = {},
           delivery' = delivery, holder' = holder,
           \A v \in Worker \ {w} : write'[v] = write[v] /\ pc'[v] = pc[v]
                                   /\ job'[v] = job[v] /\ outcome'[v] = outcome[v]
    PROVE  WriteInv'
  BY DEF SendInv, WriteInv

\* Only the worker moves, and forgets its claim or keeps it outside any
\* transaction.
LEMMA WorkerMoves ==
    ASSUME SendInv, NEW w \in Worker,
           UNCHANGED <<panel, ledger, world, history>>,
           \/ pc[w] \notin {"commit", "reaping"} /\ Leave(w, "scan")
           \/ Leave(w, "idle")
           \/ pc[w] = "idle" /\ Goto(w, "scan")
           \/ pc[w] = "scan" /\ Goto(w, "idle")
           \/ pc[w] = "gate" /\ Goto(w, "fence")
           \/ pc[w] = "fence" /\ Goto(w, "post")
    PROVE  SendInv' /\ \A d \in Delivery : Moves(d)
  <1>1. PanelTypes' /\ WorldTypes' /\ LedgerTypes' /\ HistoryTypes'
    BY DEF SendInv, TypeOK, PanelTypes, WorldTypes, LedgerTypes, HistoryTypes, State,
       panel, ledger, world, history
  <1>2. LocalTypes'
    <2>1. CASE Leave(w, "scan") \/ Leave(w, "idle")
      BY <2>1, LeaveLocal
    <2>2. CASE \E place \in {"scan", "idle", "fence", "post"} : Goto(w, place)
      BY <2>2 DEF SendInv, TypeOK, LocalTypes, Goto
    <2> QED
      BY <2>1, <2>2
  <1>3. TypeOK'
    BY <1>1, <1>2 DEF TypeOK, PanelTypes, WorldTypes, LedgerTypes, LocalTypes,
       HistoryTypes, State
  <1>4. FreshInv'
    BY DEF SendInv, FreshInv, panel, ledger
  <1>5. JobInv'
    BY DEF SendInv, JobInv, TypeOK, Leave, Goto, ledger
  <1>6. WriteInv'
    <2>1. CASE Leave(w, "scan") \/ Leave(w, "idle")
      BY <2>1, LeaveLocal, OthersWrite DEF ledger
    <2>2. CASE /\ pc[w] \in {"idle", "scan", "gate", "fence"}
               /\ \E place \in {"scan", "idle", "fence", "post"} : Goto(w, place)
      BY <2>2, NothingLocked, OthersWrite DEF SendInv, TypeOK, WriteInv, Goto, ledger
    <2> QED
      BY <2>1, <2>2
  <1>7. AcceptInv'
    BY DEF SendInv, AcceptInv, TypeOK, Leave, Goto, ledger, history
  <1> QED
    BY <1>3, <1>4, <1>5, <1>6, <1>7 DEF SendInv, Moves, ledger, history

\* A transaction is opened on rows nobody else has locked.
LEMMA ChangeStep ==
    ASSUME SendInv, NEW w \in Worker, NEW place, NEW changes, NEW counted \in SUBSET Execution,
           Change(w, place, changes, counted),
           UNCHANGED <<panel, ledger, world, history>>,
           DOMAIN changes \subseteq Delivery \ Locked,
           DOMAIN write[w] = {},
           \/ /\ place = "reaping" /\ job[w] = NoDelivery
              /\ \A d \in DOMAIN changes : delivery[d] = "em_envio" /\ changes[d] = "desconhecido"
           \/ /\ place = "commit" /\ pc[w] = "scan" /\ job[w] = NoDelivery
              /\ \A d \in DOMAIN changes : delivery[d] \in Claimable /\ changes[d] = "suprimido"
           \/ /\ place = "commit" /\ pc[w] = "record" /\ job[w] \in Delivery
              /\ DOMAIN changes = {job[w]} /\ delivery[job[w]] = "em_envio"
              /\ changes[job[w]] = outcome[w]
    PROVE  SendInv' /\ \A d \in Delivery : Moves(d)
  <1>1. PanelTypes' /\ WorldTypes' /\ LedgerTypes' /\ HistoryTypes'
    BY DEF SendInv, TypeOK, PanelTypes, WorldTypes, LedgerTypes, HistoryTypes, State,
       panel, ledger, world, history
  <1>2. \A d \in DOMAIN changes : changes[d] \in Outcome
    BY DEF SendInv, TypeOK, Outcome, Settled
  <1>3. LocalTypes'
    BY <1>2 DEF SendInv, TypeOK, LocalTypes, Change
  <1>4. TypeOK'
    BY <1>1, <1>3 DEF TypeOK, PanelTypes, WorldTypes, LedgerTypes, LocalTypes,
       HistoryTypes, State
  <1>5. FreshInv'
    BY DEF SendInv, FreshInv, panel, ledger
  <1>6. JobInv'
    BY DEF SendInv, JobInv, TypeOK, Change, ledger
  <1>7. WriteInv'
    <2>1. DOMAIN write = Worker /\ write' = [write EXCEPT ![w] = changes]
      BY DEF SendInv, WriteInv, Change
    <2>2. /\ DOMAIN write' = Worker /\ write'[w] = changes
          /\ \A v \in Worker \ {w} : write'[v] = write[v]
      BY <2>1
    <2>3. \A v \in Worker, d \in DOMAIN changes : d \notin DOMAIN write[v]
      BY DEF Locked
    <2>4. /\ pc'[w] = place /\ \A v \in Worker \ {w} : pc'[v] = pc[v]
          /\ job' = job /\ outcome' = outcome /\ delivery' = delivery /\ holder' = holder
      BY DEF Change, ledger, SendInv, TypeOK
    <2>5. ASSUME NEW v \in Worker, NEW d \in Delivery, d \in DOMAIN write'[v]
          PROVE  \/ /\ pc'[v] = "reaping"
                    /\ delivery[d] = "em_envio" /\ write'[v][d] = "desconhecido"
                 \/ /\ pc'[v] = "commit" /\ d = job[v]
                    /\ delivery[d] = "em_envio" /\ write'[v][d] = outcome[v]
                 \/ /\ pc'[v] = "commit" /\ job[v] = NoDelivery
                    /\ delivery[d] \in Claimable /\ write'[v][d] = "suprimido"
      <3>1. CASE v = w
        BY <3>1, <2>2, <2>4, <2>5
      <3>2. CASE v # w
        BY <3>2, <2>2, <2>4, <2>5 DEF SendInv, WriteInv
      <3> QED
        BY <3>1, <3>2
    <2>6. \A u, v \in Worker, d \in Delivery :
            u # v /\ d \in DOMAIN write'[u] => d \notin DOMAIN write'[v]
      BY <2>2, <2>3 DEF SendInv, WriteInv
    <2> QED
      BY <2>2, <2>4, <2>5, <2>6 DEF WriteInv
  <1>8. AcceptInv'
    BY DEF SendInv, AcceptInv, TypeOK, Change, ledger, history
  <1> QED
    BY <1>4, <1>5, <1>6, <1>7, <1>8 DEF SendInv, Moves, ledger, history

LEMMA ReapStep ==
    ASSUME SendInv, NEW w \in Worker, Reap(w)
    PROVE  SendInv' /\ \A d \in Delivery : Moves(d)
  <1> DEFINE expired == {d \in Delivery \ Locked : delivery[d] = "em_envio" /\ ~lease[d]}
             changes == [d \in expired |-> "desconhecido"]
             counted == {d[1] : d \in expired}
  <1>1. /\ pc[w] = "idle" /\ Change(w, "reaping", changes, counted)
        /\ UNCHANGED <<panel, ledger, world, history>>
    BY DEF Reap
  <1>2. counted \in SUBSET Execution
    BY DeliveryParts
  <1>3. DOMAIN changes = expired /\ \A d \in expired : changes[d] = "desconhecido"
    OBVIOUS
  <1>4. job[w] = NoDelivery /\ DOMAIN write[w] = {}
    BY <1>1, NothingLocked DEF SendInv, JobInv
  <1> HIDE DEF changes, counted
  <1> QED
    BY <1>1, <1>2, <1>3, <1>4, ChangeStep

LEMMA RecordStep ==
    ASSUME SendInv, NEW w \in Worker, Record(w)
    PROVE  SendInv' /\ \A d \in Delivery : Moves(d)
  <1> DEFINE changes == [x \in {job[w]} |-> outcome[w]]
  <1>1. /\ pc[w] = "record" /\ job[w] \notin Locked
        /\ UNCHANGED <<panel, ledger, world, history>>
    BY DEF Record
  <1>2. CASE Leave(w, "scan") \/ Leave(w, "idle")
    BY <1>1, <1>2, WorkerMoves
  <1>3. CASE Owns(w, job[w]) /\ Change(w, "commit", changes, {job[w][1]})
    <2>1. job[w] \in Delivery /\ {job[w][1]} \in SUBSET Execution
      BY <1>1, DeliveryParts DEF SendInv, JobInv, TypeOK
    <2>2. DOMAIN changes = {job[w]} /\ changes[job[w]] = outcome[w]
      OBVIOUS
    <2>3. delivery[job[w]] = "em_envio" /\ DOMAIN write[w] = {}
      BY <1>1, <1>3, NothingLocked DEF Owns
    <2> HIDE DEF changes
    <2> QED
      BY <1>1, <1>3, <2>1, <2>2, <2>3, ChangeStep
  <1> QED
    BY <1>2, <1>3 DEF Record

\* Two steps of one worker that touch the history.
LEMMA PostStep ==
    ASSUME SendInv, NEW w \in Worker, Post(w) \/ Crash(w)
    PROVE  SendInv' /\ \A d \in Delivery : Moves(d)
  <1> USE BroadcastAssumption
  <1>1. CASE accepted' = accepted /\ Crash(w)
    <2>1. TypeOK'
      <3>1. PanelTypes' /\ WorldTypes' /\ LedgerTypes'
        BY <1>1 DEF Crash, SendInv, TypeOK, PanelTypes, WorldTypes, LedgerTypes, State,
           panel, ledger, world
      <3>2. LocalTypes'
        BY <1>1, LeaveLocal DEF Crash
      <3>3. HistoryTypes'
        BY <1>1 DEF Crash, SendInv, TypeOK, HistoryTypes
      <3> QED
        BY <3>1, <3>2, <3>3 DEF TypeOK, PanelTypes, WorldTypes, LedgerTypes, LocalTypes,
           HistoryTypes, State
    <2>2. FreshInv'
      BY <1>1 DEF Crash, SendInv, FreshInv, panel, ledger
    <2>3. JobInv'
      BY <1>1 DEF Crash, SendInv, JobInv, TypeOK, Leave, ledger
    <2>4. WriteInv'
      BY <1>1, LeaveLocal, OthersWrite DEF Crash, ledger
    <2>5. AcceptInv'
      BY <1>1 DEF Crash, SendInv, AcceptInv, TypeOK, Leave, ledger
    <2> QED
      BY <1>1, <2>1, <2>2, <2>3, <2>4, <2>5 DEF SendInv, Moves, Crash, ledger
  <1>2. CASE Post(w) \/ (pc[w] = "post" /\ Crash(w) /\ accepted' # accepted)
    <2>1. /\ pc[w] = "post" /\ job[w] \in Delivery /\ accepted[job[w]] = 0
          /\ delivery[job[w]] \in {"em_envio", "desconhecido"}
      BY <1>2 DEF Post, SendInv, JobInv, AcceptInv, TypeOK
    <2>2. \/ accepted' = accepted
          \/ accepted' = [accepted EXCEPT ![job[w]] = 1]
      BY <1>2, <2>1 DEF Post, Crash, SendInv, TypeOK
    <2>3. UNCHANGED <<panel, ledger, world>>
      BY <1>2 DEF Post, Crash
    <2>4. TypeOK'
      <3>1. PanelTypes' /\ WorldTypes' /\ LedgerTypes'
        BY <2>3 DEF SendInv, TypeOK, PanelTypes, WorldTypes, LedgerTypes, State,
           panel, ledger, world
      <3>2. LocalTypes'
        <4>1. CASE Crash(w)
          BY <4>1, LeaveLocal DEF Crash
        <4>2. CASE Post(w)
          BY <4>2 DEF Post, SendInv, TypeOK, LocalTypes
        <4> QED
          BY <1>2, <4>1, <4>2
      <3>3. HistoryTypes'
        BY <1>2, <2>2 DEF Post, Crash, SendInv, TypeOK, HistoryTypes
      <3> QED
        BY <3>1, <3>2, <3>3 DEF TypeOK, PanelTypes, WorldTypes, LedgerTypes, LocalTypes,
           HistoryTypes, State
    <2>5. FreshInv'
      BY <2>3 DEF SendInv, FreshInv, panel, ledger
    <2>6. JobInv'
      <3>1. UNCHANGED <<delivery, holder>>
        BY <2>3 DEF ledger
      <3>2. CASE Crash(w)
        BY <3>1, <3>2 DEF Crash, SendInv, JobInv, TypeOK, Leave
      <3>3. CASE Post(w)
        <4>1. job' = job /\ pc' = [pc EXCEPT ![w] = "record"] /\ pc[w] = "post"
          BY <3>3 DEF Post
        <4> QED
          BY <3>1, <4>1 DEF SendInv, JobInv, TypeOK
      <3> QED
        BY <1>2, <3>2, <3>3
    <2>7. WriteInv'
      <3>1. CASE Crash(w)
        BY <3>1, <2>3, LeaveLocal, OthersWrite DEF Crash, ledger
      <3>2. CASE Post(w)
        BY <3>2, <2>1, <2>3, NothingLocked, OthersWrite
           DEF Post, SendInv, WriteInv, TypeOK, ledger
      <3> QED
        BY <1>2, <3>1, <3>2
    <2>8. \A d \in Delivery : /\ Moves(d)
                              /\ d # job[w] => accepted'[d] = accepted[d]
      BY <2>1, <2>2, <2>3 DEF Moves, SendInv, TypeOK, ledger
    <2>9. AcceptInv'
      <3>1. CASE Post(w)
        BY <3>1, <2>1, <2>3, <2>8 DEF Post, SendInv, AcceptInv, JobInv, TypeOK, ledger,
           Outcome, Settled
      <3>2. CASE Crash(w)
        BY <3>2, <2>1, <2>2, <2>3, <2>8 DEF Crash, SendInv, AcceptInv, JobInv, TypeOK, ledger,
           Leave
      <3> QED
        BY <1>2, <3>1, <3>2
    <2> QED
      BY <2>4, <2>5, <2>6, <2>7, <2>8, <2>9 DEF SendInv
  <1> QED
    BY <1>1, <1>2 DEF Crash

\* A claim the shutdown cancels before the request is put back.
LEMMA CancelStep ==
    ASSUME SendInv, NEW w \in Worker, pc[w] = "gate",
           UNCHANGED <<panel, ledger, world, history, job, write, close>>,
           pc' = [pc EXCEPT ![w] = "record"],
           outcome' = [outcome EXCEPT ![w] = "falhou_retentavel"]
    PROVE  SendInv' /\ \A d \in Delivery : Moves(d)
  <1>1. TypeOK'
    BY DEF SendInv, TypeOK, panel, ledger, world, history, Outcome
  <1>2. FreshInv' /\ JobInv'
    BY DEF SendInv, FreshInv, JobInv, TypeOK, panel, ledger
  <1>3. DOMAIN write[w] = {}
    BY NothingLocked
  <1>4. WriteInv'
    BY <1>3, OthersWrite DEF SendInv, WriteInv, TypeOK, ledger
  <1>5. AcceptInv'
    BY DEF SendInv, AcceptInv, TypeOK, ledger, history
  <1> QED
    BY <1>1, <1>2, <1>4, <1>5 DEF SendInv, Moves, ledger, history

\* The steps that only move the worker, or give its claim up.
LEMMA GoStep ==
    ASSUME SendInv, NEW w \in Worker,
           Discover(w) \/ LeaveScan(w) \/ Fence(w) \/ Gate(w)
    PROVE  SendInv' /\ \A d \in Delivery : Moves(d)
  <1>1. UNCHANGED <<panel, ledger, world, history>>
    BY DEF Discover, LeaveScan, Fence, Gate
  <1>2. CASE Discover(w)
    BY <1>1, <1>2, WorkerMoves DEF Discover
  <1>3. CASE LeaveScan(w)
    BY <1>1, <1>3, WorkerMoves DEF LeaveScan
  <1>4. CASE Fence(w)
    BY <1>1, <1>4, WorkerMoves DEF Fence
  <1>5. CASE Gate(w)
    BY <1>1, <1>5, WorkerMoves, CancelStep DEF Gate
  <1> QED
    BY <1>2, <1>3, <1>4, <1>5

\* A new occurrence and its deliveries come to be together.
LEMMA MaterialiseStep ==
    ASSUME SendInv, NEW w \in Worker, NEW b \in Broadcast, Materialise(w, b)
    PROVE  SendInv' /\ \A d \in Delivery : Moves(d)
  <1> USE BroadcastAssumption
  <1> DEFINE e == <<b, seq[b] + 1>>
  <1>1. /\ seq[b] \in Nat /\ seq[b] + 1 \in 1 .. MaxSeq
        /\ seq' = [seq EXCEPT ![b] = seq[b] + 1]
        /\ delivery' = Materialised(e)
        /\ UNCHANGED <<repeats, holder, lease, world, local, history>>
    BY DEF Materialise, SendInv, TypeOK
  <1>2. /\ delivery' \in [Delivery -> State]
        /\ \A d \in Delivery : Moves(d)
        /\ \A d \in Delivery : delivery'[d] = delivery[d]
              \/ /\ delivery[d] = "none" /\ delivery'[d] = "pendente"
                 /\ d[1][1] = b /\ d[1][2] = seq[b] + 1
    BY <1>1, MaterialisedRows DEF history
  <1>3. status[b] = "agendado" /\ \A c \in Broadcast : status'[c] = "none" => status[c] = "none"
    BY DEF Materialise, SendInv, TypeOK
  <1>4. TypeOK'
    <2>1. PanelTypes'
      BY <1>1 DEF Materialise, SendInv, TypeOK, PanelTypes
    <2>2. WorldTypes' /\ LocalTypes' /\ HistoryTypes'
      BY <1>1 DEF SendInv, TypeOK, WorldTypes, LocalTypes, HistoryTypes, world, local, history
    <2>3. LedgerTypes'
      BY <1>1, <1>2 DEF Materialise, SendInv, TypeOK, LedgerTypes
    <2> QED
      BY <2>1, <2>2, <2>3 DEF TypeOK, PanelTypes, WorldTypes, LedgerTypes, LocalTypes,
         HistoryTypes, State
  <1>5. FreshInv'
    <2>1. \A c \in Broadcast : status'[c] = "none" => seq'[c] = 0
      BY <1>1, <1>3 DEF SendInv, FreshInv, TypeOK
    <2>2. ASSUME NEW d \in Delivery, delivery'[d] # "none"
          PROVE  d[1][2] <= seq'[d[1][1]]
      <3>1. d[1][1] \in Broadcast /\ d[1][2] \in Nat /\ seq \in [Broadcast -> 0 .. MaxSeq]
        BY DeliveryParts DEF SendInv, TypeOK
      <3>2. CASE delivery[d] # "none"
        BY <3>1, <3>2, <1>1 DEF SendInv, FreshInv
      <3>3. CASE delivery[d] = "none"
        BY <3>1, <3>3, <2>2, <1>1, <1>2
      <3> QED
        BY <3>2, <3>3
    <2> QED
      BY <2>1, <2>2 DEF FreshInv
  <1>6. JobInv' /\ WriteInv'
    BY <1>1, <1>2, <1>4, <1>5, NewRows DEF history
  <1>7. AcceptInv'
    <2>1. UNCHANGED <<pc, job, outcome, accepted>>
      BY <1>1 DEF local, history
    <2>2. \A d \in Delivery : accepted[d] = 1 => delivery[d] # "none"
      BY DEF SendInv, AcceptInv
    <2>3. \A d \in Delivery : delivery'[d] = "aceito" => delivery[d] = "aceito"
      BY <1>2
    <2> HIDE DEF e
    <2> QED
      BY <1>2, <2>1, <2>2, <2>3 DEF SendInv, AcceptInv
  <1> QED
    BY <1>2, <1>4, <1>5, <1>6, <1>7 DEF SendInv

\* A claim takes a delivery nobody works on, suppresses one whose person left,
\* or finds no instance connected.
LEMMA ClaimStep ==
    ASSUME SendInv, NEW w \in Worker, NEW d \in Delivery, Claim(w, d)
    PROVE  SendInv' /\ \A x \in Delivery : Moves(x)
  <1>1. /\ pc[w] = "scan" /\ delivery[d] \in Claimable /\ d \notin Locked
        /\ UNCHANGED <<panel, execution, world, history>>
    BY DEF Claim
  <1>2. job[w] = NoDelivery /\ DOMAIN write[w] = {}
    BY <1>1, NothingLocked DEF SendInv, JobInv
  <1>3. CASE Change(w, "commit", [x \in {d} |-> "suprimido"], {d[1]})
             /\ UNCHANGED <<delivery, holder, lease>>
    <2> DEFINE changes == [x \in {d} |-> "suprimido"]
    <2>1. DOMAIN changes = {d} /\ changes[d] = "suprimido"
      OBVIOUS
    <2>2. {d[1]} \in SUBSET Execution
      BY DeliveryParts
    <2>3. UNCHANGED <<panel, ledger, world, history>>
      BY <1>1, <1>3 DEF ledger
    <2> HIDE DEF changes
    <2>4. Change(w, "commit", changes, {d[1]})
      BY <1>3 DEF changes
    <2> QED
      BY <1>1, <1>2, <2>1, <2>2, <2>3, <2>4, ChangeStep
  <1>4. CASE Goto(w, "idle") /\ UNCHANGED <<delivery, holder, lease>>
    BY <1>1, <1>4, WorkerMoves DEF ledger
  <1>5. CASE /\ delivery' = [delivery EXCEPT ![d] = "em_envio"]
             /\ holder' = [holder EXCEPT ![d] = {w}]
             /\ lease' = [lease EXCEPT ![d] = TRUE]
             /\ pc' = [pc EXCEPT ![w] = "gate"]
             /\ job' = [job EXCEPT ![w] = d]
             /\ UNCHANGED <<outcome, write, close>>
    <2>1. TypeOK'
      <3>1. PanelTypes' /\ WorldTypes' /\ HistoryTypes'
        BY <1>1 DEF SendInv, TypeOK, PanelTypes, WorldTypes, HistoryTypes, panel, world, history
      <3>2. LedgerTypes'
        BY <1>1, <1>5 DEF SendInv, TypeOK, LedgerTypes, State, Work
      <3>3. LocalTypes'
        BY <1>5 DEF SendInv, TypeOK, LocalTypes
      <3> QED
        BY <3>1, <3>2, <3>3 DEF TypeOK, PanelTypes, WorldTypes, LedgerTypes, LocalTypes,
           HistoryTypes, State
    <2>2. /\ delivery'[d] = "em_envio" /\ holder'[d] = {w} /\ pc'[w] = "gate" /\ job'[w] = d
          /\ \A x \in Delivery \ {d} : delivery'[x] = delivery[x] /\ holder'[x] = holder[x]
          /\ \A v \in Worker \ {w} : pc'[v] = pc[v] /\ job'[v] = job[v]
          /\ outcome' = outcome /\ write' = write /\ accepted' = accepted
      BY <1>1, <1>5 DEF SendInv, TypeOK, history
    <2>3. \A v \in Worker : job[v] # d
      BY <1>1, BroadcastAssumption DEF SendInv, JobInv, Claimable
    <2>4. \A v \in Worker : d \notin DOMAIN write[v]
      BY <1>1 DEF Locked
    <2>5. accepted[d] = 0
      BY <1>1 DEF SendInv, AcceptInv, Claimable
    <2>6. FreshInv'
      BY <1>1, <2>2 DEF SendInv, FreshInv, Claimable, panel
    <2>7. JobInv'
      <3>1. d # NoDelivery
        BY BroadcastAssumption
      <3>2. \A v \in Worker : job[v] # NoDelivery => job[v] \in Delivery
        BY DEF SendInv, TypeOK
      <3> QED
        BY <2>2, <2>3, <3>1, <3>2 DEF SendInv, JobInv
    <2>8. WriteInv'
      <3>1. \A v \in Worker : DOMAIN write[v] # {} => v # w
        BY <1>2
      <3> QED
        BY <2>2, <2>4, <3>1 DEF SendInv, WriteInv
    <2>9. AcceptInv'
      BY <1>1, <2>2, <2>3, <2>5 DEF SendInv, AcceptInv, JobInv, TypeOK
    <2>10. \A x \in Delivery : Moves(x)
      BY <1>1, <2>2 DEF Moves
    <2> QED
      BY <2>1, <2>6, <2>7, <2>8, <2>9, <2>10 DEF SendInv
  <1> QED
    BY <1>3, <1>4, <1>5 DEF Claim

\* Only executions and broadcasts are closed.
LEMMA ClaimNothingStep ==
    ASSUME SendInv, NEW w \in Worker, ClaimNothing(w)
    PROVE  SendInv' /\ \A d \in Delivery : Moves(d)
  <1> DEFINE closed == {e \in Execution : execution[e] = "open" /\ Finished(NoWrite, e)}
  <1>1. /\ pc[w] = "scan" /\ Finalise(closed) /\ Goto(w, "idle")
        /\ UNCHANGED <<repeats, slot, seq, delivery, holder, lease, world, history>>
    BY DEF ClaimNothing
  <1>2. closed \in SUBSET Execution
    OBVIOUS
  <1> HIDE DEF closed
  <1>3. /\ execution' \in [Execution -> {"none", "open", "done"}]
        /\ status' \in [Broadcast -> {"none", "rascunho", "agendado", "enviado"}]
        /\ \A b \in Broadcast : status'[b] = "none" => status[b] = "none"
    BY <1>1, <1>2, FinaliseTypes DEF SendInv
  <1>4. TypeOK'
    <2>1. PanelTypes' /\ WorldTypes' /\ LedgerTypes' /\ HistoryTypes'
      BY <1>1, <1>3 DEF SendInv, TypeOK, PanelTypes, WorldTypes, LedgerTypes, HistoryTypes,
         State, world, history
    <2>2. LocalTypes'
      BY <1>1 DEF SendInv, TypeOK, LocalTypes, Goto
    <2> QED
      BY <2>1, <2>2 DEF TypeOK, PanelTypes, WorldTypes, LedgerTypes, LocalTypes,
         HistoryTypes, State
  <1>5. FreshInv'
    BY <1>1, <1>3 DEF SendInv, FreshInv
  <1>6. JobInv' /\ AcceptInv'
    BY <1>1 DEF SendInv, JobInv, AcceptInv, TypeOK, Goto, history
  <1>7. WriteInv'
    BY <1>1, NothingLocked, OthersWrite DEF SendInv, TypeOK, WriteInv, Goto
  <1> QED
    BY <1>1, <1>4, <1>5, <1>6, <1>7 DEF SendInv, Moves, history

\* A transaction that settles deliveries commits.
LEMMA CommittedStep ==
    ASSUME SendInv, NEW w \in Worker, NEW place \in {"idle", "scan"},
           pc[w] \in {"commit", "reaping"},
           delivery' = [d \in Delivery |-> After(write[w], d)],
           holder' = [d \in Delivery |-> IF d \in DOMAIN write[w] THEN {} ELSE holder[d]],
           lease' = [d \in Delivery |-> d \notin DOMAIN write[w] /\ lease[d]],
           Finalise(close[w]), Leave(w, place),
           UNCHANGED <<repeats, slot, seq, world, history>>
    PROVE  SendInv' /\ \A d \in Delivery : Moves(d)
  <1>1. \A d \in Delivery :
          \/ d \notin DOMAIN write[w] /\ delivery'[d] = delivery[d] /\ holder'[d] = holder[d]
          \/ d \in DOMAIN write[w] /\ delivery'[d] = write[w][d] /\ write[w][d] \in Outcome
    BY DEF After, SendInv, TypeOK
  <1>2. ASSUME NEW d \in Delivery
        PROVE  Moves(d) /\ (delivery[d] = "none" <=> delivery'[d] = "none")
    <2>1. CASE d \notin DOMAIN write[w]
      BY <2>1, <1>1 DEF Moves, history
    <2>2. CASE d \in DOMAIN write[w] /\ job[w] = d
      <3>1. /\ pc[w] = "commit" /\ delivery[d] = "em_envio" /\ write[w][d] = outcome[w]
            /\ job[w] # NoDelivery /\ outcome[w] \in Outcome
        BY <2>2, BroadcastAssumption DEF SendInv, WriteInv, JobInv, TypeOK
      <3>2. /\ outcome[w] = "aceito" => accepted[d] = 1
            /\ outcome[w] \in {"suprimido", "falhou_permanente", "falhou_retentavel"}
                 => accepted[d] = 0
        BY <2>2, <3>1 DEF SendInv, AcceptInv
      <3> QED
        BY <2>2, <3>1, <3>2, <1>1 DEF Moves, history, Outcome, Settled
    <2>3. CASE d \in DOMAIN write[w] /\ job[w] # d
      <3>1. \/ delivery[d] = "em_envio" /\ write[w][d] = "desconhecido"
            \/ delivery[d] \in Claimable /\ write[w][d] = "suprimido"
        BY <2>3 DEF SendInv, WriteInv
      <3>2. delivery[d] \in Claimable => accepted[d] = 0
        BY DEF SendInv, AcceptInv, Claimable
      <3> QED
        BY <2>3, <3>1, <3>2, <1>1 DEF Moves, history, Claimable
    <2> QED
      BY <2>1, <2>2, <2>3
  <1>3. /\ execution' \in [Execution -> {"none", "open", "done"}]
        /\ status' \in [Broadcast -> {"none", "rascunho", "agendado", "enviado"}]
        /\ \A b \in Broadcast : status'[b] = "none" => status[b] = "none"
    BY FinaliseTypes DEF SendInv, TypeOK
  <1>4. /\ LocalTypes'
        /\ DOMAIN write' = Worker /\ DOMAIN write'[w] = {}
        /\ \A v \in Worker \ {w} : write'[v] = write[v] /\ pc'[v] = pc[v]
                                   /\ job'[v] = job[v] /\ outcome'[v] = outcome[v]
        /\ job'[w] = NoDelivery /\ pc'[w] = place
    BY LeaveLocal
  <1>5. TypeOK'
    <2>1. PanelTypes' /\ WorldTypes' /\ HistoryTypes'
      BY <1>3 DEF SendInv, TypeOK, PanelTypes, WorldTypes, HistoryTypes, world, history
    <2>2. delivery' \in [Delivery -> State]
      BY <1>1 DEF SendInv, TypeOK, State, Outcome, Settled, Work
    <2>3. LedgerTypes'
      BY <1>3, <2>2 DEF SendInv, TypeOK, LedgerTypes
    <2> QED
      BY <2>1, <2>3, <1>4 DEF TypeOK, PanelTypes, WorldTypes, LedgerTypes, LocalTypes,
         HistoryTypes, State
  <1>6. FreshInv'
    BY <1>2, <1>3 DEF SendInv, FreshInv
  <1>7. \A v \in Worker \ {w}, d \in Delivery :
          d \in DOMAIN write[v] \/ (d = job[v] /\ delivery[d] = "em_envio" /\ d \notin DOMAIN write[w])
             => delivery'[d] = delivery[d] /\ holder'[d] = holder[d]
    BY <1>1 DEF SendInv, WriteInv
  <1>8. JobInv'
    <2>1. ASSUME NEW v \in Worker \ {w}, job[v] # NoDelivery
          PROVE  /\ delivery'[job[v]] \in {"em_envio", "desconhecido"}
                 /\ delivery'[job[v]] = "em_envio" => holder'[job[v]] = {v}
      <3>1. /\ job[v] \in Delivery /\ delivery[job[v]] \in {"em_envio", "desconhecido"}
            /\ delivery[job[v]] = "em_envio" => holder[job[v]] = {v}
            /\ job[v] # job[w]
        BY <2>1 DEF SendInv, JobInv, TypeOK
      <3>2. CASE job[v] \notin DOMAIN write[w]
        BY <3>1, <3>2, <1>1
      <3>3. CASE job[v] \in DOMAIN write[w]
        <4>1. write[w][job[v]] = "desconhecido"
          BY <3>1, <3>3 DEF SendInv, WriteInv, Claimable
        <4> QED
          BY <3>1, <3>3, <4>1, <1>1
      <3> QED
        BY <3>2, <3>3
    <2> QED
      BY <2>1, <1>4 DEF SendInv, JobInv
  <1>9. WriteInv'
    <2>1. ASSUME NEW v \in Worker, NEW d \in Delivery, d \in DOMAIN write'[v]
          PROVE  v # w /\ delivery'[d] = delivery[d] /\ write'[v] = write[v]
                 /\ pc'[v] = pc[v] /\ job'[v] = job[v] /\ outcome'[v] = outcome[v]
      BY <2>1, <1>4, <1>7
    <2> QED
      BY <2>1, <1>4 DEF SendInv, WriteInv
  <1>10. AcceptInv'
    <2>1. accepted' = accepted
      BY DEF history
    <2>2. \A d \in Delivery :
            /\ accepted[d] = 1 => delivery'[d] \in {"em_envio", "desconhecido", "aceito"}
            /\ delivery'[d] = "aceito" => accepted[d] = 1
      BY <1>2 DEF Moves, SendInv, AcceptInv, Claimable
    <2> QED
      BY <1>4, <2>1, <2>2 DEF SendInv, AcceptInv
  <1> QED
    BY <1>2, <1>5, <1>6, <1>8, <1>9, <1>10 DEF SendInv

LEMMA CommitStep ==
    ASSUME SendInv, NEW w \in Worker, Commit(w)
    PROVE  SendInv' /\ \A d \in Delivery : Moves(d)
  <1>1. CASE Leave(w, "idle") /\ UNCHANGED <<delivery, holder, lease, execution, status>>
    BY <1>1, WorkerMoves DEF Commit, panel, ledger
  <1>2. CASE /\ delivery' = [d \in Delivery |-> After(write[w], d)]
             /\ holder' = [d \in Delivery |-> IF d \in DOMAIN write[w] THEN {} ELSE holder[d]]
             /\ lease' = [d \in Delivery |-> d \notin DOMAIN write[w] /\ lease[d]]
             /\ Finalise(close[w])
             /\ Leave(w, IF pc[w] = "commit" THEN "scan" ELSE "idle")
    BY <1>2, CommittedStep DEF Commit
  <1> QED
    BY <1>1, <1>2 DEF Commit

-----------------------------------------------------------------------------
(* The theorems. *)

LEMMA NextStep ==
    ASSUME SendInv, [Next]_vars
    PROVE  SendInv' /\ \A d \in Delivery : Moves(d)
  <1>1. CASE UNCHANGED vars
    BY <1>1 DEF vars, panel, ledger, world, local, history, SendInv, TypeOK, FreshInv,
       JobInv, WriteInv, AcceptInv, Moves
  <1>2. CASE Panel
    BY <1>2, PanelStep
  <1>3. CASE Reconnect \/ (\E p \in Person : ChangePerson(p))
             \/ (\E d \in Delivery : LeaseExpires(d))
    BY <1>3, WorldStep
  <1>4. ASSUME NEW w \in Worker, Cycle(w) \/ Crash(w)
        PROVE  SendInv' /\ \A d \in Delivery : Moves(d)
    <2>1. CASE Reap(w)
      BY <2>1, ReapStep
    <2>2. CASE Discover(w) \/ LeaveScan(w) \/ Fence(w) \/ Gate(w)
      BY <2>2, GoStep
    <2>3. CASE ClaimNothing(w)
      BY <2>3, ClaimNothingStep
    <2>4. CASE Post(w) \/ Crash(w)
      BY <2>4, PostStep
    <2>5. CASE Record(w)
      BY <2>5, RecordStep
    <2>6. CASE Commit(w)
      BY <2>6, CommitStep
    <2>7. CASE \E b \in Broadcast : Materialise(w, b)
      BY <2>7, MaterialiseStep
    <2>8. CASE \E d \in Delivery : Claim(w, d)
      BY <2>8, ClaimStep
    <2> QED
      BY <1>4, <2>1, <2>2, <2>3, <2>4, <2>5, <2>6, <2>7, <2>8 DEF Cycle
  <1> QED
    BY <1>1, <1>2, <1>3, <1>4 DEF Next

\* Every row, claim, lease and open transaction of the broadcast ledger keeps
\* its type, and the invariant that ties them together holds in every state.
THEOREM Invariance == Spec => []SendInv
  <1>1. Init => SendInv
    BY InitInv
  <1>2. SendInv /\ [Next]_vars => SendInv'
    BY NextStep
  <1> QED
    BY <1>1, <1>2, PTL DEF Spec

\* Every variable has its type.
THEOREM TypeCorrect == Spec => []TypeOK
  <1>1. SendInv => TypeOK
    BY DEF SendInv
  <1> QED
    BY <1>1, Invariance, PTL

\* Whatever lease expires and whichever worker stalls, two workers never post
\* the same delivery: _claim_next_delivery only takes rows nobody else works on.
THEOREM SingleTransport == Spec => []OneTransport
  <1>1. SendInv => OneTransport
    BY DEF SendInv, JobInv, OneTransport
  <1> QED
    BY <1>1, Invariance, PTL

\* The broadcast ledger implements OnceDelivery: the claim, the fence, the
\* fenced result and the reaper's quarantine send no message twice and record
\* no result that is not true.
THEOREM Refinement == Spec => DeliversAtMostOnce
  <1>1. Init => Once!Init
    BY InitOnce
  <1>2. SendInv /\ SendInv' /\ [Next]_vars => Once!Next
    BY NextStep, MovesOnce
  <1> QED
    BY <1>1, <1>2, Invariance, PTL DEF Spec, DeliversAtMostOnce, Once!Spec

-----------------------------------------------------------------------------
(* What is closed stays settled. *)

\* A broadcast that does not repeat has one occurrence, one that repeats always
\* has a slot, and what is called enviado has nothing to come.
PanelInv == \A b \in Broadcast :
    /\ status[b] \in {"none", "rascunho"} => slot[b] = "null" /\ seq[b] = 0 /\ ~repeats[b]
    /\ repeats[b] => slot[b] # "null"
    /\ ~repeats[b] => seq[b] <= 1
    /\ ~repeats[b] /\ slot[b] # "null" => seq[b] = 0
    /\ status[b] = "enviado" => slot[b] = "null"

\* Only counted occurrences exist; one that is done has no work left, and
\* neither has one of a broadcast called enviado.
ExecutionInv == \A e \in Execution :
    /\ execution[e] # "none" => e[2] <= seq[e[1]]
    /\ execution[e] = "done" => \A d \in Of(e) : delivery[d] \notin Work
    /\ status[e[1]] = "enviado" => execution[e] # "open"

\* What a transaction counted as done will be done when it commits.
CloseInv == \A w \in Worker : \A e \in close[w] :
    e[2] <= seq[e[1]] /\ Finished(write[w], e)

CloseAll == SendInv /\ PanelInv /\ ExecutionInv /\ CloseInv

LEMMA InitClose == Init => PanelInv /\ ExecutionInv /\ CloseInv
  BY BroadcastAssumption DEF Init, PanelInv, ExecutionInv, CloseInv

\* A settled delivery never moves and a counted occurrence gets no new ones, so
\* what was counted as done stays done.
LEMMA StaysDone ==
    ASSUME CloseAll, SendInv', \A d \in Delivery : Moves(d),
           \A d \in Delivery : delivery[d] = "none" /\ d[1][2] <= seq[d[1][1]]
                                  => delivery'[d] = "none",
           \A b \in Broadcast : seq[b] <= seq'[b],
           \A v \in Worker : \/ write'[v] = write[v] /\ close'[v] = close[v]
                             \/ \A e \in close'[v] : /\ e[2] <= seq[e[1]]
                                                     /\ Finished(write'[v], e)
    PROVE  /\ CloseInv'
           /\ \A e \in Execution : execution[e] = "done" =>
                 \A d \in Of(e) : delivery'[d] \notin Work
  <1>1. \A d \in Delivery : delivery[d] \notin Work /\ d[1][2] <= seq[d[1][1]]
                               => delivery'[d] \notin Work
    BY DEF Moves, Work, Claimable
  <1>2. \A e \in Execution : execution[e] = "done" => \A d \in Of(e) : delivery'[d] \notin Work
    BY <1>1 DEF CloseAll, ExecutionInv, Of
  <1>3. ASSUME NEW v \in Worker, NEW e \in close'[v]
        PROVE  e[2] <= seq'[e[1]] /\ Finished(write[v], e)'
    <2>1. e[2] <= seq[e[1]] /\ Finished(write'[v], e) /\ e \in Execution
      BY <1>3 DEF CloseAll, CloseInv, SendInv, TypeOK
    <2>2. e[1] \in Broadcast /\ e[2] \in Nat /\ seq[e[1]] \in Nat /\ seq'[e[1]] \in Nat
      BY <2>1, DeliveryParts DEF CloseAll, SendInv, TypeOK
    <2>3. e[2] <= seq'[e[1]]
      BY <2>1, <2>2
    <2>4. \A d \in Of(e) : d \notin DOMAIN write'[v] => delivery'[d] \notin Work
      BY <1>1, <2>1 DEF Finished, After, Of
    <2>5. \A d \in Of(e) : d \in DOMAIN write'[v] => write'[v][d] \notin Work
      BY <2>1 DEF Finished, After
    <2> QED
      BY <2>3, <2>4, <2>5 DEF Finished, After, Of
  <1> QED
    BY <1>2, <1>3 DEF CloseInv

\* A step that leaves the panel and the executions alone.
LEMMA QuietStep ==
    ASSUME CloseAll, SendInv', \A d \in Delivery : Moves(d),
           UNCHANGED <<panel, execution>>,
           \A d \in Delivery : delivery[d] = "none" => delivery'[d] = "none",
           \A v \in Worker : \/ write'[v] = write[v] /\ close'[v] = close[v]
                             \/ \A e \in close'[v] : /\ e[2] <= seq[e[1]]
                                                     /\ Finished(write'[v], e)
    PROVE  CloseAll'
  <1>1. \A b \in Broadcast : seq[b] <= seq'[b]
    BY DEF panel, CloseAll, SendInv, TypeOK
  <1>2. /\ CloseInv'
        /\ \A e \in Execution : execution[e] = "done" =>
              \A d \in Of(e) : delivery'[d] \notin Work
    BY <1>1, StaysDone
  <1>3. PanelInv' /\ ExecutionInv'
    BY <1>2 DEF CloseAll, PanelInv, ExecutionInv, panel
  <1> QED
    BY <1>2, <1>3 DEF CloseAll

\* Finalising executions that have no work left.
LEMMA FinaliseStep ==
    ASSUME CloseAll, SendInv', \A d \in Delivery : Moves(d),
           NEW closed \in SUBSET Execution, Finalise(closed),
           UNCHANGED <<repeats, slot, seq>>,
           \A d \in Delivery : delivery[d] = "none" => delivery'[d] = "none",
           \A e \in closed : e[2] <= seq[e[1]] /\ \A d \in Of(e) : delivery'[d] \notin Work,
           \A v \in Worker : (write'[v] = write[v] /\ close'[v] = close[v]) \/ close'[v] = {}
    PROVE  CloseAll'
  <1>1. \A b \in Broadcast : seq[b] <= seq'[b]
    BY DEF CloseAll, SendInv, TypeOK
  <1>2. /\ CloseInv'
        /\ \A e \in Execution : execution[e] = "done" =>
              \A d \in Of(e) : delivery'[d] \notin Work
    BY <1>1, StaysDone
  <1>3. \A b \in Broadcast :
          \/ status'[b] = status[b]
          \/ /\ status'[b] = "enviado" /\ status[b] = "agendado" /\ slot[b] = "null"
             /\ \E e \in closed : e[1] = b
    BY DEF Finalise
  <1>4. \A e \in Execution :
          \/ execution'[e] = execution[e] /\ (e \in closed => execution[e] # "open")
          \/ e \in closed /\ execution'[e] = "done" /\ execution[e] = "open"
    BY DEF Finalise
  <1>5. PanelInv'
    BY <1>3 DEF CloseAll, PanelInv
  <1>6. ASSUME NEW e \in Execution, status'[e[1]] = "enviado", execution'[e] = "open"
        PROVE  FALSE
    <2>1. execution[e] = "open" /\ e \notin closed /\ e[1] \in Broadcast
      BY <1>4, <1>6, DeliveryParts
    <2>2. PICK f \in closed : f[1] = e[1] /\ slot[e[1]] = "null"
      BY <1>3, <1>6, <2>1 DEF CloseAll, ExecutionInv
    <2>3. seq[e[1]] \in Nat /\ seq[e[1]] <= 1
      BY <2>1, <2>2 DEF CloseAll, PanelInv, SendInv, TypeOK
    <2>4. e[2] <= seq[e[1]] /\ f[2] <= seq[f[1]] /\ e[2] \in 1 .. MaxSeq /\ f[2] \in 1 .. MaxSeq
      BY <2>1, <2>2, DeliveryParts DEF CloseAll, ExecutionInv
    <2>5. e[2] = 1 /\ f[2] = 1
      BY <2>2, <2>3, <2>4, BroadcastAssumption
    <2>6. e = f
      BY <2>2, <2>5 DEF Execution
    <2> QED
      BY <2>1, <2>6
  <1>7. ExecutionInv'
    BY <1>2, <1>4, <1>6 DEF CloseAll, ExecutionInv
  <1> QED
    BY <1>2, <1>5, <1>7 DEF CloseAll

\* The panel's own steps but the one that creates deliveries.
LEMMA PanelOnly ==
    ASSUME CloseAll, SendInv', NEW b \in Broadcast,
           (CreateNow(b) /\ Audience = {}) \/ Schedule(b) \/ SlotDue(b)
    PROVE  CloseAll'
  <1> USE BroadcastAssumption
  <1>1. UNCHANGED <<seq, execution, delivery, write, close>>
    BY DEF CreateNow, Schedule, SlotDue, ledger, local
  <1>2. PanelInv'
    BY DEF CreateNow, Schedule, SlotDue, CloseAll, PanelInv, SendInv, TypeOK
  <1>3. \A c \in Broadcast : status'[c] = "enviado" => status[c] = "enviado"
    BY DEF CreateNow, Schedule, SlotDue, CloseAll, SendInv, TypeOK
  <1>4. ExecutionInv'
    BY <1>1, <1>3, DeliveryParts DEF CloseAll, ExecutionInv
  <1>5. CloseInv'
    BY <1>1 DEF CloseAll, CloseInv, Finished, After
  <1> QED
    BY <1>2, <1>4, <1>5 DEF CloseAll

\* An occurrence and its deliveries come to be.
LEMMA OccurrenceStep ==
    ASSUME CloseAll, SendInv', \A d \in Delivery : Moves(d), PanelInv',
           NEW b \in Broadcast, NEW state \in {"open", "done"}, seq[b] + 1 \in 1 .. MaxSeq,
           seq' = [seq EXCEPT ![b] = seq[b] + 1],
           delivery' = Materialised(<<b, seq[b] + 1>>),
           execution' = [execution EXCEPT ![<<b, seq[b] + 1>>] = state],
           state = "done" => Audience = {},
           \A c \in Broadcast \ {b} : status'[c] = status[c],
           status'[b] = "enviado" => state = "done" /\ seq[b] = 0,
           UNCHANGED <<write, close, accepted>>
    PROVE  CloseAll'
  <1> DEFINE e == <<b, seq[b] + 1>>
  <1>1. /\ seq \in [Broadcast -> 0 .. MaxSeq] /\ execution \in [Execution -> {"none", "open", "done"}]
        /\ e \in Execution /\ e[1] = b /\ e[2] = seq[b] + 1
    BY DeliveryParts DEF CloseAll, SendInv, TypeOK
  <1>2. /\ \A c \in Broadcast : seq[c] <= seq'[c] /\ seq[c] \in Nat /\ seq'[c] \in Nat
        /\ seq'[b] = seq[b] + 1
    BY <1>1, BroadcastAssumption
  <1>3. \A d \in Delivery : delivery[d] = "none" /\ d[1][2] <= seq[d[1][1]]
                               => delivery'[d] = "none"
    <2> SUFFICES ASSUME NEW d \in Delivery, d[1][2] <= seq[d[1][1]], delivery[d] = "none"
                 PROVE  delivery'[d] = "none"
      OBVIOUS
    <2>1. d[1] # e
      BY <1>1, <1>2
    <2> QED
      BY <2>1 DEF Materialised
  <1>4. /\ CloseInv'
        /\ \A f \in Execution : execution[f] = "done" =>
              \A d \in Of(f) : delivery'[d] \notin Work
    BY <1>2, <1>3, StaysDone
  <1>5. ASSUME NEW f \in Execution
        PROVE  /\ execution'[f] # "none" => f[2] <= seq'[f[1]]
               /\ execution'[f] = "done" => \A d \in Of(f) : delivery'[d] \notin Work
               /\ status'[f[1]] = "enviado" => execution'[f] # "open"
    <2>1. CASE f = e
      <3>1. execution'[f] = state /\ f[2] <= seq'[f[1]]
        BY <2>1, <1>1, <1>2
      <3>2. ASSUME state = "done", NEW d \in Of(f) PROVE delivery'[d] \notin Work
        <4>1. d \in Delivery /\ delivery'[d] = delivery[d] /\ ~(d[1][2] <= seq[d[1][1]])
          BY <2>1, <3>2, <1>1, <1>2 DEF Of, Materialised
        <4> QED
          BY <4>1 DEF CloseAll, SendInv, FreshInv, Work
      <3> QED
        BY <2>1, <1>1, <3>1, <3>2
    <2>2. CASE f # e
      <3>1. execution'[f] = execution[f] /\ f[1] \in Broadcast /\ f[2] \in 1 .. MaxSeq
        BY <2>2, <1>1, DeliveryParts
      <3>2. execution'[f] # "none" => f[2] <= seq[f[1]]
        BY <3>1 DEF CloseAll, ExecutionInv
      <3>3. execution'[f] # "none" => f[2] <= seq'[f[1]]
        BY <3>1, <3>2, <1>2, BroadcastAssumption
      <3>4. status'[f[1]] = "enviado" => execution'[f] # "open"
        <4>1. CASE f[1] = b
          BY <4>1, <3>1, <3>2, BroadcastAssumption
        <4>2. CASE f[1] # b
          BY <4>2, <3>1 DEF CloseAll, ExecutionInv
        <4> QED
          BY <4>1, <4>2
      <3> QED
        BY <3>1, <3>3, <3>4, <1>4
    <2> QED
      BY <2>1, <2>2
  <1> QED
    BY <1>4, <1>5 DEF CloseAll, ExecutionInv

\* The first occurrence of a broadcast sent now, and those that fall due.
LEMMA NewOccurrence ==
    ASSUME CloseAll, SendInv', \A d \in Delivery : Moves(d), NEW b \in Broadcast,
           \/ CreateNow(b) /\ Audience # {}
           \/ \E w \in Worker : Materialise(w, b)
    PROVE  CloseAll'
  <1> USE BroadcastAssumption
  <1>1. CASE CreateNow(b) /\ Audience # {}
    <2>1. seq[b] = 0 /\ seq[b] + 1 = 1 /\ seq[b] + 1 \in 1 .. MaxSeq
      BY <1>1 DEF CreateNow, CloseAll, SendInv, FreshInv
    <2>2. /\ status' = [status EXCEPT ![b] = "agendado"]
          /\ seq' = [seq EXCEPT ![b] = seq[b] + 1]
          /\ delivery' = Materialised(<<b, seq[b] + 1>>)
          /\ execution' = [execution EXCEPT ![<<b, seq[b] + 1>>] = "open"]
          /\ UNCHANGED <<repeats, slot, write, close, accepted>>
      BY <1>1, <2>1 DEF CreateNow, local, history
    <2>3. \A c \in Broadcast \ {b} : status'[c] = status[c]
      BY <2>2
    <2>4. status'[b] = "agendado" /\ status[b] = "none"
      BY <1>1, <2>2 DEF CreateNow, CloseAll, SendInv, TypeOK
    <2>5. PanelInv'
      BY <2>1, <2>2, <2>4 DEF CloseAll, PanelInv, SendInv, TypeOK
    <2> QED
      BY <2>1, <2>2, <2>3, <2>4, <2>5, OccurrenceStep
  <1>2. ASSUME NEW w \in Worker, Materialise(w, b)
        PROVE  CloseAll'
    <2> DEFINE state == IF Audience = {} THEN "done" ELSE "open"
    <2>1. /\ status[b] = "agendado" /\ slot[b] = "due"
          /\ seq[b] \in Nat /\ seq[b] + 1 \in 1 .. MaxSeq
          /\ seq' = [seq EXCEPT ![b] = seq[b] + 1]
          /\ delivery' = Materialised(<<b, seq[b] + 1>>)
          /\ execution' = [execution EXCEPT ![<<b, seq[b] + 1>>] = state]
          /\ slot' = [slot EXCEPT ![b] = IF repeats[b] THEN "future" ELSE "null"]
          /\ status' = [status EXCEPT ![b] =
                           IF Audience = {} /\ ~repeats[b] THEN "enviado" ELSE @]
          /\ UNCHANGED <<repeats, write, close, accepted>>
      BY <1>2 DEF Materialise, CloseAll, SendInv, TypeOK, local, history
    <2>2. state \in {"open", "done"} /\ (state = "done" => Audience = {})
      OBVIOUS
    <2>3. \A c \in Broadcast \ {b} : status'[c] = status[c]
      BY <2>1
    <2>4. status'[b] = "enviado" => state = "done" /\ seq[b] = 0
      BY <2>1 DEF CloseAll, PanelInv, SendInv, TypeOK
    <2>5. PanelInv'
      BY <2>1 DEF CloseAll, PanelInv, SendInv, TypeOK
    <2> HIDE DEF state
    <2> QED
      BY <2>1, <2>2, <2>3, <2>4, <2>5, OccurrenceStep
  <1> QED
    BY <1>1, <1>2

\* How a worker's transaction looks after a step that opens one.
LEMMA WorkerOpens ==
    ASSUME CloseAll, NEW w \in Worker, NEW place, NEW changes, NEW counted \in SUBSET Execution,
           \A e \in counted : e[2] <= seq[e[1]],
           Change(w, place, changes, counted)
    PROVE  \A v \in Worker : \/ write'[v] = write[v] /\ close'[v] = close[v]
                             \/ \A e \in close'[v] : /\ e[2] <= seq[e[1]]
                                                     /\ Finished(write'[v], e)
  <1>1. DOMAIN write = Worker /\ DOMAIN close = Worker
    BY DEF CloseAll, SendInv, TypeOK, WriteInv
  <1>2. /\ write'[w] = changes /\ close'[w] = {e \in counted : Finished(changes, e)}
        /\ \A v \in Worker \ {w} : write'[v] = write[v] /\ close'[v] = close[v]
    BY <1>1 DEF Change
  <1> QED
    BY <1>2

\* And after one that gives it up.
LEMMA WorkerLeaves ==
    ASSUME CloseAll, NEW w \in Worker, NEW place, Leave(w, place)
    PROVE  \A v \in Worker : (write'[v] = write[v] /\ close'[v] = close[v]) \/ close'[v] = {}
  BY DEF CloseAll, SendInv, TypeOK, WriteInv, Leave

\* A worker that commits nothing closes nothing.
LEMMA WorkerQuiet ==
    ASSUME CloseAll, SendInv', \A d \in Delivery : Moves(d), NEW w \in Worker,
           \/ Reap(w) \/ Discover(w) \/ LeaveScan(w) \/ Gate(w) \/ Fence(w) \/ Post(w)
           \/ Record(w) \/ Crash(w) \/ (\E d \in Delivery : Claim(w, d))
           \/ Commit(w) /\ UNCHANGED <<delivery, holder, lease, execution, status>>
                        /\ Leave(w, "idle")
    PROVE  CloseAll'
  <1> DEFINE Opened == \A v \in Worker :
                 \/ write'[v] = write[v] /\ close'[v] = close[v]
                 \/ \A e \in close'[v] : e[2] <= seq[e[1]] /\ Finished(write'[v], e)
  <1>1. \A d \in Delivery : delivery[d] # "none" => d[1] \in Execution
                               /\ d[1][2] <= seq[d[1][1]]
    BY DeliveryParts DEF CloseAll, SendInv, FreshInv
  <1>2. CASE Reap(w)
    <2> DEFINE expired == {d \in Delivery \ Locked : delivery[d] = "em_envio" /\ ~lease[d]}
               counted == {d[1] : d \in expired}
               changes == [d \in expired |-> "desconhecido"]
    <2>1. counted \in SUBSET Execution /\ \A e \in counted : e[2] <= seq[e[1]]
      BY <1>1
    <2>2. Change(w, "reaping", changes, counted) /\ UNCHANGED <<panel, ledger>>
      BY <1>2 DEF Reap
    <2> HIDE DEF counted, changes
    <2>3. Opened
      BY <2>1, <2>2, WorkerOpens
    <2> QED
      BY <2>2, <2>3, QuietStep DEF ledger
  <1>3. CASE Discover(w) \/ LeaveScan(w) \/ Gate(w) \/ Fence(w) \/ Post(w) \/ Crash(w)
    <2>1. UNCHANGED <<panel, ledger>>
      BY <1>3 DEF Discover, LeaveScan, Gate, Fence, Post, Crash
    <2>2. UNCHANGED <<write, close>> \/ Leave(w, "scan") \/ Leave(w, "idle")
      BY <1>3 DEF Discover, LeaveScan, Gate, Fence, Post, Crash, Goto
    <2>3. Opened
      BY <2>2, WorkerLeaves
    <2> QED
      BY <2>1, <2>3, QuietStep DEF ledger
  <1>4. CASE Record(w)
    <2> DEFINE changes == [x \in {job[w]} |-> outcome[w]]
    <2>1. /\ UNCHANGED <<panel, ledger>>
          /\ \/ Owns(w, job[w]) /\ Change(w, "commit", changes, {job[w][1]})
             \/ Leave(w, "scan") \/ Leave(w, "idle")
      BY <1>4 DEF Record
    <2>2. ASSUME Owns(w, job[w])
          PROVE  {job[w][1]} \in SUBSET Execution /\ \A e \in {job[w][1]} : e[2] <= seq[e[1]]
      <3>1. job[w] \in Delivery /\ delivery[job[w]] # "none"
        BY <1>4, <2>2 DEF Owns, Record, CloseAll, SendInv, JobInv, TypeOK
      <3> QED
        BY <3>1, <1>1
    <2> HIDE DEF changes
    <2>3. Opened
      <3>1. CASE Leave(w, "scan") \/ Leave(w, "idle")
        BY <3>1, WorkerLeaves
      <3>2. CASE Owns(w, job[w]) /\ Change(w, "commit", changes, {job[w][1]})
        BY <3>2, <2>2, WorkerOpens
      <3> QED
        BY <2>1, <3>1, <3>2
    <2> QED
      BY <2>1, <2>3, QuietStep DEF ledger
  <1>5. ASSUME NEW d \in Delivery, Claim(w, d) PROVE CloseAll'
    <2> DEFINE changes == [x \in {d} |-> "suprimido"]
    <2>1. /\ UNCHANGED <<panel, execution>> /\ delivery[d] \in Claimable
          /\ \/ Change(w, "commit", changes, {d[1]}) /\ delivery' = delivery
             \/ Goto(w, "idle") /\ delivery' = delivery
             \/ UNCHANGED <<write, close>> /\ delivery' = [delivery EXCEPT ![d] = "em_envio"]
      BY <1>5 DEF Claim
    <2>2. {d[1]} \in SUBSET Execution /\ \A e \in {d[1]} : e[2] <= seq[e[1]]
      BY <1>1, <2>1 DEF Claimable
    <2> HIDE DEF changes
    <2>3. Opened
      <3>1. CASE Change(w, "commit", changes, {d[1]})
        BY <3>1, <2>2, WorkerOpens
      <3>2. CASE UNCHANGED <<write, close>>
        BY <3>2
      <3> QED
        BY <2>1, <3>1, <3>2 DEF Goto
    <2>4. \A x \in Delivery : delivery[x] = "none" => delivery'[x] = "none"
      BY <2>1 DEF Claimable, CloseAll, SendInv, TypeOK
    <2> QED
      BY <2>1, <2>3, <2>4, QuietStep
  <1>6. CASE UNCHANGED <<delivery, holder, lease, execution, status>>
             /\ Leave(w, "idle") /\ Commit(w)
    <2>1. UNCHANGED <<panel, execution, delivery>>
      BY <1>6 DEF Commit, panel
    <2>2. Opened
      BY <1>6, WorkerLeaves
    <2> QED
      BY <2>1, <2>2, QuietStep
  <1> QED
    BY <1>2, <1>3, <1>4, <1>5, <1>6

\* A worker that finalises executions.
LEMMA WorkerCloses ==
    ASSUME CloseAll, SendInv', \A d \in Delivery : Moves(d), NEW w \in Worker,
           \/ ClaimNothing(w)
           \/ /\ Commit(w) /\ Finalise(close[w]) /\ \E place : Leave(w, place)
              /\ delivery' = [d \in Delivery |-> After(write[w], d)]
    PROVE  CloseAll'
  <1>1. CASE ClaimNothing(w)
    <2> DEFINE closed == {e \in Execution : execution[e] = "open" /\ Finished(NoWrite, e)}
    <2>1. /\ Finalise(closed) /\ closed \in SUBSET Execution
          /\ UNCHANGED <<repeats, slot, seq, delivery, write, close>>
      BY <1>1 DEF ClaimNothing, Goto
    <2>2. \A e \in closed : e[2] <= seq[e[1]] /\ \A d \in Of(e) : delivery'[d] \notin Work
      BY <2>1 DEF CloseAll, ExecutionInv, Finished, After, NoWrite
    <2> HIDE DEF closed
    <2> QED
      BY <2>1, <2>2, FinaliseStep
  <1>2. CASE /\ Commit(w) /\ Finalise(close[w]) /\ \E place : Leave(w, place)
             /\ delivery' = [d \in Delivery |-> After(write[w], d)]
    <2>1. close[w] \in SUBSET Execution /\ UNCHANGED <<repeats, slot, seq>>
      BY <1>2 DEF Commit, CloseAll, SendInv, TypeOK
    <2>2. \A e \in close[w] : e[2] <= seq[e[1]] /\ \A d \in Of(e) : delivery'[d] \notin Work
      BY <1>2 DEF CloseAll, CloseInv, Finished, Of
    <2>3. \A v \in Worker : (write'[v] = write[v] /\ close'[v] = close[v]) \/ close'[v] = {}
      BY <1>2 DEF Leave, CloseAll, SendInv, TypeOK, WriteInv
    <2>4. \A d \in Delivery : delivery[d] = "none" => delivery'[d] = "none"
      BY <1>2 DEF After, CloseAll, SendInv, WriteInv, Claimable
    <2> QED
      BY <1>2, <2>1, <2>2, <2>3, <2>4, FinaliseStep
  <1> QED
    BY <1>1, <1>2

LEMMA CloseStep ==
    ASSUME CloseAll, [Next]_vars
    PROVE  CloseAll'
  <1>1. SendInv' /\ \A d \in Delivery : Moves(d)
    BY NextStep DEF CloseAll
  <1>2. CASE UNCHANGED vars \/ Reconnect \/ (\E p \in Person : ChangePerson(p))
             \/ (\E d \in Delivery : LeaseExpires(d))
    <2>1. UNCHANGED <<panel, execution, delivery, write, close>>
      BY <1>2 DEF vars, Reconnect, ChangePerson, LeaseExpires, ledger, local
    <2> QED
      BY <1>1, <2>1, QuietStep
  <1>3. CASE Panel
    BY <1>1, <1>3, PanelOnly, NewOccurrence DEF Panel
  <1>4. ASSUME NEW w \in Worker, Cycle(w) \/ Crash(w)
        PROVE  CloseAll'
    <2>1. CASE Commit(w)
      BY <1>1, <2>1, WorkerQuiet, WorkerCloses DEF Commit
    <2>2. CASE ClaimNothing(w)
      BY <1>1, <2>2, WorkerCloses
    <2>3. CASE \E b \in Broadcast : Materialise(w, b)
      BY <1>1, <2>3, NewOccurrence
    <2>4. CASE \/ Reap(w) \/ Discover(w) \/ LeaveScan(w) \/ Gate(w) \/ Fence(w) \/ Post(w)
               \/ Record(w) \/ Crash(w) \/ (\E d \in Delivery : Claim(w, d))
      BY <1>1, <2>4, WorkerQuiet
    <2> QED
      BY <1>4, <2>1, <2>2, <2>3, <2>4 DEF Cycle
  <1> QED
    BY <1>2, <1>3, <1>4 DEF Next

\* A finalised execution has nothing left to send, and a broadcast shown as
\* enviado no open execution, although two transactions that settle the last
\* deliveries count them at READ COMMITTED and each may miss the other's.
THEOREM Settlement == Spec => []ClosedMeansSettled
  <1>1. Init => CloseAll
    BY InitInv, InitClose DEF CloseAll
  <1>2. CloseAll /\ [Next]_vars => CloseAll'
    BY CloseStep
  <1>3. CloseAll => ClosedMeansSettled
    BY DeliveryParts DEF CloseAll, PanelInv, ExecutionInv, ClosedMeansSettled
  <1> QED
    BY <1>1, <1>2, <1>3, PTL DEF Spec

=============================================================================
