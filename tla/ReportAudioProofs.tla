-------------------------- MODULE ReportAudioProofs --------------------------
(***************************************************************************)
(* What ReportAudio guarantees for every set of audios and of workers and  *)
(* for every ceiling.  The invariant has a part per question: who may hold *)
(* a row (JobInv), what has been paid (PaidInv), what money is promised    *)
(* (MoneyInv), what may still be said (SilenceInv), and what stands in     *)
(* storage (UploadInv, StoreInv).                                          *)
(***************************************************************************)
EXTENDS ReportAudio, FiniteSetTheorems, TLAPS

Reasons == {"none", "mime", "contexto", "orcamento", "transcricao", "extracao", "falha",
            "perdida", "handoff", "revogado", "relatorio", "retencao"}
Replies == Unsent \cup {"nenhuma", "enviada", "ambigua", "sem_resposta", "suprimida"}
Row == [state : Live \cup Ended \cup Absent, version : {"none", "v1", "v2"},
        consent : 0..MaxCommands, lease : {"none", "live", "lapsed"},
        token : Worker \cup {None}, expired : BOOLEAN,
        purge : {"ativa", "pendente", "purgada"}, reason : Reasons]
WorkerState == [at : Steps, job : Input \cup {None}, tried : BOOLEAN, ok : BOOLEAN, cost : 0..2]

RowType == row \in [Input -> Row]
OutType == out \in [Input -> Replies]
WorkType == worker \in [Worker -> WorkerState]
TalkType ==
    /\ said \in Seq({"accept", "revoke"}) /\ Len(said) <= MaxCommands
    /\ heard \subseteq DOMAIN said
    /\ notice \in [state : {"none", "preparado", "entregue", "cancelado"}, at : 0..MaxCommands]
MoneyType ==
    /\ res \in [Input -> {"nenhuma", "reservada", "liquidada"}]
    /\ ext \in [Input -> {"nenhuma", "reservada", "liquidada"}]
    /\ calls \in [Input -> Nat]
StoreType ==
    /\ blob \in [Input -> BOOLEAN]
    /\ post \in [Input -> {"none", "flying", "landed", "dropped"}]
    /\ owner \in [Input -> BOOLEAN]
    /\ task \in [Input -> {"nenhuma", "pendente", "concluida"}]
    /\ seen \subseteq Input
    /\ purger \in [at : {"idle", "remove", "finish"}, job : Input \cup {None}]
WorldType ==
    /\ human \in BOOLEAN /\ erased \in BOOLEAN /\ gate \in BOOLEAN
    /\ crashes \in 0..MaxCrashes

Types == RowType /\ OutType /\ WorkType /\ TalkType /\ MoneyType /\ StoreType /\ WorldType

Fresh == {"nova", "aguardando_aceite", "pendente"}
Unpaid == {"download", "begin", "post", "posting", "reserve", "transcribe"}
Early == Unpaid \cup {"settle", "stage", "deny", "denied"}

\* A row that a worker was given is never given again.
JobInv ==
    /\ \A w \in Worker :
        IF worker[w].at = "idle" THEN worker[w] = Idle
        ELSE /\ worker[w].job \in Input
             /\ row[worker[w].job].state \notin Fresh
             /\ row[worker[w].job].version = "v2" \/ row[worker[w].job].state = "apagada"
    /\ \A v, w \in Worker :
        worker[v].job = worker[w].job /\ worker[w].at # "idle" => v = w

PaidInv ==
    /\ \A i \in Input : calls[i] <= 1 /\ (row[i].state \in Fresh => calls[i] = 0)
    /\ \A w \in Worker : worker[w].at \in Unpaid => calls[worker[w].job] = 0

\* A worker between a reservation and its settlement holds one reserved unit;
\* one whose call is not billed, or cost nothing, holds one unit unspent.
Holding == {w \in Worker : worker[w].at \in {"transcribe", "settle", "extract", "complete"}}
Unspent == {w \in Holding : worker[w].at \in {"transcribe", "extract"} \/ worker[w].cost = 0}

\* What has been billed, every call up to its estimate.
Due == spent - overrun

MoneyInv ==
    /\ budget \in [reserved : Nat, settled : Nat]
    /\ spent \in Nat /\ overrun \in Nat /\ Due \in Nat
    /\ budget.reserved + budget.settled <= DailyLimit
    /\ IsFiniteSet(Holding) /\ Cardinality(Holding) <= budget.reserved
    /\ Due + Cardinality(Unspent) <= budget.reserved + budget.settled

\* The rows of the first consent text hold nothing that could still be sent.
RowInv ==
    \A i \in Input :
        /\ row[i].state = "nova" => row[i] = NoRow
        /\ row[i].version # "v2" => row[i].state \notin {"pendente", "processando"}
                                    /\ out[i] \notin Unsent
        /\ row[i].purge = "pendente" \/ row[i].state = "purgada" => row[i].version # "v2"

SilenceInv ==
    /\ \A i \in Input : out[i] \in Unsent => row[i].state \in {"processando", "transcrita"}
    /\ \A w \in Worker : worker[w].at \in Early => out[worker[w].job] \notin Unsent
    /\ RevokedMeansSilent

\* Whoever may still write the object owns the upload.
UploadInv ==
    /\ \A i \in Input :
        /\ post[i] = "flying" => owner[i]
        /\ i \in seen => post[i] = "landed"
        /\ task[i] = "concluida" => ~blob[i] /\ ~owner[i]
        /\ task[i] # "nenhuma" => erased
    /\ \A w \in Worker :
        /\ worker[w].at = "post" => owner[worker[w].job]
        /\ worker[w].at \in {"download", "begin", "post"} => post[worker[w].job] = "none"

StoreInv ==
    /\ \A i \in Input :
        /\ post[i] # "none" => row[i].version = "v2" \/ row[i].state = "apagada"
        /\ post[i] # "none" => row[i].state \notin Fresh
        /\ row[i].state = "apagada" => task[i] # "nenhuma"
    /\ purger.at # "idle" =>
        /\ purger.job \in Input
        /\ row[purger.job].state # "nova" /\ row[purger.job].version # "v2"
        /\ purger.at = "finish" /\ row[purger.job].state # "apagada" => ~blob[purger.job]
    /\ NoStrandedObject

AudioInv ==
    Types /\ JobInv /\ PaidInv /\ MoneyInv /\ RowInv /\ SilenceInv /\ UploadInv /\ StoreInv

-----------------------------------------------------------------------------
(* What a step may do to one audio and to its reply *)

Keeps(j) ==
    /\ row'[j].version = row[j].version
    /\ row'[j].consent = row[j].consent
    /\ row'[j].purge = row[j].purge

\* No revocation that was recorded is later than the acceptance of the row.
Heeded(j) == \A k \in heard : k <= row[j].consent

Rests(j) ==
    /\ Keeps(j) /\ row'[j].state = row[j].state
    /\ row[j].state = "nova" => row'[j] = row[j]
    /\ out'[j] \in Unsent => out[j] \in Unsent
Ends(j) ==
    /\ Keeps(j) /\ row[j].state \notin Absent \cup {"purgada"}
    /\ row'[j].state \in {"cancelada", "ambigua"} /\ out'[j] \notin Unsent
    /\ row[j].state \in Ended => row'[j].state \in Ended
Starts(j) ==
    /\ row[j].state = "nova" /\ ~erased /\ out'[j] \notin Unsent
    /\ row'[j].purge = "ativa" /\ row'[j].version \in {"none", "v2"}
    /\ \/ row'[j].state \in {"aguardando_aceite", "cancelada"}
       \/ row'[j].state = "pendente" /\ row'[j].version = "v2"
          /\ \A k \in heard : k <= row'[j].consent
IsTaken(j) ==
    /\ Keeps(j) /\ Heeded(j) /\ out'[j] = out[j]
    /\ row[j].state = "pendente" /\ row'[j].state = "processando"
Tells(j) ==
    /\ Keeps(j) /\ Heeded(j)
    /\ row[j].state = "processando" /\ row'[j].state \in {"processando", "transcrita"}
    /\ \E w \in Worker : Job(w) = j /\ worker[w].at # "idle" /\ worker'[w].at \notin Early
Shelved(j) ==
    /\ row[j].state \notin Absent /\ row[j].version # "v2"
    /\ row'[j].state \notin Live \cup Absent /\ out'[j] \notin Unsent
    /\ row'[j].version = row[j].version /\ row'[j].consent = row[j].consent
    /\ row'[j].state = "purgada" =>
         row[j].state = "purgada" \/ (purger.at = "finish" /\ purger.job = j)
IsGone(j) ==
    /\ row[j].state \notin Absent /\ task'[j] = "pendente"
    /\ row'[j] = [NoRow EXCEPT !.state = "apagada"] /\ out'[j] \notin Unsent

Effect(j) ==
    \/ Rests(j) \/ Ends(j) \/ Starts(j) \/ IsTaken(j) \/ Tells(j) \/ Shelved(j) \/ IsGone(j)

Base == RowType /\ OutType /\ WorkType /\ TalkType /\ JobInv /\ RowInv /\ SilenceInv /\ StoreType
RowsMove == RowType' /\ OutType' /\ \A j \in Input : Effect(j)

\* Neither rows nor replies change.
LEMMA QuietEffect ==
    ASSUME Base, UNCHANGED <<row, out>> PROVE RowsMove
BY DEF Base, RowsMove, RowType, OutType, Effect, Rests, Keeps

LEMMA TerminalFacts ==
    ASSUME NEW r \in Row, NEW s \in {"cancelada", "ambigua"}, NEW why \in Reasons,
           NEW e \in BOOLEAN
    PROVE  /\ Terminal(r, s, why, e) \in Row
           /\ Terminal(r, s, why, e).state = s
           /\ Terminal(r, s, why, e).version = r.version
           /\ Terminal(r, s, why, e).consent = r.consent
           /\ Terminal(r, s, why, e).purge = r.purge
BY DEF Terminal, Row, Ended, Live, Absent

LEMMA CancelledFacts ==
    ASSUME RowType, NEW why \in Reasons
    PROVE  /\ Cancelled(why) \in [Input -> Row]
           /\ \A j \in Input :
                IF row[j].state \in Live
                THEN /\ Cancelled(why)[j].state \in {"cancelada", "ambigua"}
                     /\ Cancelled(why)[j].version = row[j].version
                     /\ Cancelled(why)[j].consent = row[j].consent
                     /\ Cancelled(why)[j].purge = row[j].purge
                ELSE Cancelled(why)[j] = row[j]
<1>1. ASSUME NEW j \in Input
      PROVE  /\ Cancelled(why)[j] \in Row
             /\ IF row[j].state \in Live
                THEN /\ Cancelled(why)[j].state \in {"cancelada", "ambigua"}
                     /\ Cancelled(why)[j].version = row[j].version
                     /\ Cancelled(why)[j].consent = row[j].consent
                     /\ Cancelled(why)[j].purge = row[j].purge
                ELSE Cancelled(why)[j] = row[j]
  <2>1. row[j] \in Row
    BY DEF RowType
  <2>2. CASE row[j].state \in Live
    <3> DEFINE s == IF row[j].state = "processando" THEN "ambigua" ELSE "cancelada"
    <3>1. Cancelled(why)[j] = Terminal(row[j], s, why, TRUE)
      BY <2>2 DEF Cancelled
    <3>2. TRUE \in BOOLEAN /\ s \in {"cancelada", "ambigua"}
      OBVIOUS
    <3>3. /\ Terminal(row[j], s, why, TRUE) \in Row
          /\ Terminal(row[j], s, why, TRUE).state = s
          /\ Terminal(row[j], s, why, TRUE).version = row[j].version
          /\ Terminal(row[j], s, why, TRUE).consent = row[j].consent
          /\ Terminal(row[j], s, why, TRUE).purge = row[j].purge
      <4> HIDE DEF s
      <4> QED BY <2>1, <3>2, TerminalFacts
    <3> QED BY <2>2, <3>1, <3>2, <3>3
  <2>3. CASE row[j].state \notin Live
    BY <2>1, <2>3 DEF Cancelled
  <2> QED BY <2>2, <2>3
<1> QED BY <1>1 DEF Cancelled

LEMMA SilencedFacts ==
    ASSUME OutType, NEW S \in SUBSET Input
    PROVE  /\ Silenced(S) \in [Input -> Replies]
           /\ \A j \in Input : /\ Silenced(S)[j] \in Unsent => out[j] \in Unsent
                               /\ j \in S => Silenced(S)[j] \notin Unsent
BY DEF Silenced, OutType, Replies, Unsent

LEMMA FencedFacts ==
    ASSUME OutType
    PROVE  /\ Fenced \in [Input -> Replies]
           /\ \A j \in Input : Fenced[j] \notin Unsent
<1>1. ASSUME NEW j \in Input PROVE Fenced[j] \in Replies /\ Fenced[j] \notin Unsent
  BY DEF Fenced, OutType, Replies, Unsent
<1> QED BY <1>1 DEF Fenced

\* The latest event, and nothing recorded after it.
LEMMA ActiveConsentFacts ==
    ASSUME TalkType
    PROVE  /\ ActiveConsent \in 0..MaxCommands
           /\ ActiveConsent # 0 => ActiveConsent \in heard
           /\ ActiveConsent # 0 => \A k \in heard : k <= ActiveConsent
<1>1. heard \subseteq 1..MaxCommands /\ MaxCommands \in Nat
  BY BoundsAssumption DEF TalkType
<1>2. CASE \E k \in heard : Later(heard, k) = {} /\ said[k] = "accept"
  <2>1. ActiveConsent = CHOOSE k \in heard : Later(heard, k) = {}
    BY <1>2 DEF ActiveConsent
  <2>2. ActiveConsent \in heard /\ Later(heard, ActiveConsent) = {}
    BY <1>2, <2>1
  <2>3. \A k \in heard : ~(k > ActiveConsent)
    BY <2>2 DEF Later
  <2>4. \A k \in heard : k <= ActiveConsent
    BY <1>1, <2>2, <2>3
  <2> QED BY <1>1, <2>2, <2>4
<1>3. CASE ~\E k \in heard : Later(heard, k) = {} /\ said[k] = "accept"
  BY <1>1, <1>3 DEF ActiveConsent
<1> QED BY <1>2, <1>3

\* What is allowed answers to no later revocation.
LEMMA AllowedFacts ==
    ASSUME TalkType, NEW i \in Input, Allowed(i)
    PROVE  Heeded(i) /\ ~erased /\ ~human
BY ActiveConsentFacts DEF Allowed, Heeded

LEMMA InContextFacts ==
    ASSUME TalkType, NEW w \in Worker, Job(w) \in Input, InContext(w)
    PROVE  row[Job(w)].state = "processando" /\ Heeded(Job(w)) /\ ~erased /\ ~human
BY AllowedFacts DEF InContext, Owns

\* A hand-off ends what lives and fences every reply.
LEMMA HandOffEffect ==
    ASSUME Base, NEW i \in Input, row[i].state = "processando",
           NEW s \in {"cancelada", "ambigua"}, NEW why \in Reasons, HandOff(i, s, why)
    PROVE  RowsMove /\ \A j \in Input : Rests(j) \/ Ends(j)
<1> DEFINE C == Cancelled("handoff")
<1>0. "handoff" \in Reasons /\ RowType /\ OutType /\ row[i] \in Row
  BY DEF Base, Reasons, RowType
<1>1. /\ C \in [Input -> Row]
      /\ \A j \in Input :
           IF row[j].state \in Live
           THEN /\ C[j].state \in {"cancelada", "ambigua"}
                /\ C[j].version = row[j].version
                /\ C[j].consent = row[j].consent
                /\ C[j].purge = row[j].purge
           ELSE C[j] = row[j]
  BY <1>0, CancelledFacts
<1>2. row' = [C EXCEPT ![i] = Terminal(row[i], s, why, TRUE)] /\ out' = Fenced
  BY DEF HandOff
<1>3. OutType' /\ \A j \in Input : out'[j] \notin Unsent
  BY <1>0, <1>2, FencedFacts DEF OutType
<1>4. RowType' /\ \A j \in Input : IF j = i THEN row'[j] = Terminal(row[i], s, why, TRUE)
                                            ELSE row'[j] = C[j]
  <2> HIDE DEF C
  <2>1. Terminal(row[i], s, why, TRUE) \in Row
    BY <1>0, TerminalFacts
  <2> QED BY <1>1, <1>2, <2>1 DEF RowType
<1>5. ASSUME NEW j \in Input PROVE Rests(j) \/ Ends(j)
  <2> HIDE DEF C
  <2>1. CASE j = i
    <3>1. /\ row'[i].state = s /\ row'[i].version = row[i].version
          /\ row'[i].consent = row[i].consent /\ row'[i].purge = row[i].purge
      <4> DEFINE gone == Terminal(row[i], s, why, TRUE)
      <4>1. row'[i] = gone
        BY <1>4
      <4>2. row[i] \in Row /\ TRUE \in BOOLEAN
        BY <1>0
      <4>3. /\ gone.state = s /\ gone.version = row[i].version
            /\ gone.consent = row[i].consent /\ gone.purge = row[i].purge
        BY <4>2, TerminalFacts
      <4> HIDE DEF gone
      <4> QED BY <4>1, <4>3
    <3>2. Ends(i)
      BY <1>3, <3>1 DEF Ends, Keeps, Absent, Ended
    <3> QED BY <2>1, <3>2
  <2>2. CASE j # i /\ row[j].state \in Live
    BY <1>1, <1>3, <1>4, <2>2 DEF Ends, Keeps, Absent, Live, Ended
  <2>3. CASE j # i /\ row[j].state \notin Live
    BY <1>1, <1>3, <1>4, <2>3 DEF Rests, Keeps
  <2> QED BY <2>1, <2>2, <2>3
<1> HIDE DEF C
<1>6. \A j \in Input : Effect(j)
  BY <1>5 DEF Effect
<1> QED BY <1>3, <1>4, <1>5, <1>6 DEF RowsMove

\* A revocation, or a reply that lost its authority, ends and silences what lives.
LEMMA CancelEffect ==
    ASSUME Base, row' = Cancelled("revogado"), out' = Silenced(LiveInputs)
    PROVE  /\ RowsMove /\ \A j \in Input : Rests(j) \/ Ends(j)
           /\ \A j \in Input : row'[j].state \notin Live /\ out'[j] \notin Unsent
<1> DEFINE C == Cancelled("revogado")
<1>1. "revogado" \in Reasons /\ RowType /\ OutType /\ LiveInputs \in SUBSET Input
  BY DEF Base, Reasons, LiveInputs
<1>2. /\ C \in [Input -> Row]
      /\ \A j \in Input :
           IF row[j].state \in Live
           THEN /\ C[j].state \in {"cancelada", "ambigua"}
                /\ C[j].version = row[j].version
                /\ C[j].consent = row[j].consent
                /\ C[j].purge = row[j].purge
           ELSE C[j] = row[j]
  BY <1>1, CancelledFacts
<1>3. /\ OutType'
      /\ \A j \in Input : /\ out'[j] \in Unsent => out[j] \in Unsent
                          /\ j \in LiveInputs => out'[j] \notin Unsent
  BY <1>1, SilencedFacts DEF OutType
<1>4. row' = C
  OBVIOUS
<1> HIDE DEF C
<1>5. ASSUME NEW j \in Input PROVE Rests(j) \/ Ends(j)
  <2>1. CASE row[j].state \in Live
    <3>1. out'[j] \notin Unsent
      BY <1>3, <2>1 DEF LiveInputs
    <3> QED BY <1>2, <1>4, <2>1, <3>1 DEF Ends, Keeps, Absent, Live, Ended
  <2>2. CASE row[j].state \notin Live
    BY <1>2, <1>3, <1>4, <2>2 DEF Rests, Keeps
  <2> QED BY <2>1, <2>2
<1>6. \A j \in Input : Effect(j)
  BY <1>5 DEF Effect
<1>7. ASSUME NEW j \in Input PROVE row'[j].state \notin Live /\ out'[j] \notin Unsent
  <2>1. CASE row[j].state \in Live
    BY <1>2, <1>3, <1>4, <2>1 DEF LiveInputs, Live
  <2>2. CASE row[j].state \notin Live
    BY <1>2, <1>3, <1>4, <2>2 DEF Base, SilenceInv, Live
  <2> QED BY <2>1, <2>2
<1> QED BY <1>2, <1>3, <1>4, <1>5, <1>6, <1>7 DEF RowsMove, RowType

\* One row changes and replies stay.
LEMMA OneRowEffect ==
    ASSUME Base, NEW i \in Input, NEW r \in Row, row' = [row EXCEPT ![i] = r],
           UNCHANGED out, Effect(i)
    PROVE  RowsMove
<1>1. RowType' /\ OutType'
  BY DEF Base, RowType, OutType
<1>2. ASSUME NEW j \in Input, j # i PROVE Rests(j)
  BY <1>2 DEF Base, RowType, Rests, Keeps
<1> QED BY <1>1, <1>2 DEF RowsMove, Effect

\* The row keeps what it is; its reply goes one way.
LEMMA OneReplyEffect ==
    ASSUME Base, NEW i \in Input, NEW o \in Replies, out' = [out EXCEPT ![i] = o],
           UNCHANGED row, out[i] \in Unsent
    PROVE  RowsMove /\ \A j \in Input : Rests(j)
<1>1. RowType' /\ OutType'
  BY DEF Base, RowType, OutType
<1>2. ASSUME NEW j \in Input PROVE Rests(j)
  BY DEF Base, OutType, Rests, Keeps
<1> QED BY <1>1, <1>2 DEF RowsMove, Effect

LEMMA EndOneEffect ==
    ASSUME Base, NEW i \in Input, NEW s \in {"cancelada", "ambigua"}, NEW why \in Reasons,
           NEW e \in BOOLEAN, row' = [row EXCEPT ![i] = Terminal(row[i], s, why, e)],
           UNCHANGED out, row[i].state \notin Absent \cup {"purgada"}, out[i] \notin Unsent
    PROVE  RowsMove /\ Ends(i)
<1>1. row[i] \in Row
  BY DEF Base, RowType
<1>2. /\ Terminal(row[i], s, why, e) \in Row
      /\ Terminal(row[i], s, why, e).state = s
      /\ Terminal(row[i], s, why, e).version = row[i].version
      /\ Terminal(row[i], s, why, e).consent = row[i].consent
      /\ Terminal(row[i], s, why, e).purge = row[i].purge
  BY <1>1, TerminalFacts
<1>3. row'[i] = Terminal(row[i], s, why, e)
  BY DEF Base, RowType
<1>4. Ends(i)
  BY <1>2, <1>3 DEF Ends, Keeps, Ended
<1> QED BY <1>2, <1>4, OneRowEffect DEF Effect

LEMMA CaptureEffect ==
    ASSUME Base, NEW i \in Input, Capture(i)
    PROVE  RowsMove
<1> DEFINE v == IF ActiveConsent = 0 THEN "none" ELSE "v2"
           n == [row[i] EXCEPT !.consent = ActiveConsent, !.version = v]
           q == [n EXCEPT !.state = IF ActiveConsent = 0 THEN "aguardando_aceite"
                                                        ELSE "pendente"]
<1>1. row[i] \in Row /\ row[i] = NoRow /\ row[i].state = "nova"
  BY DEF Base, RowType, RowInv, Capture
<1>2. /\ ActiveConsent \in 0..MaxCommands
      /\ ActiveConsent # 0 => \A k \in heard : k <= ActiveConsent
  BY ActiveConsentFacts DEF Base
<1>3. n \in Row /\ q \in Row
  BY <1>1, <1>2 DEF Row, NoRow, Live
<1>4. /\ n.version = v /\ n.purge = "ativa" /\ n.consent = ActiveConsent
      /\ q.version = v /\ q.purge = "ativa" /\ q.consent = ActiveConsent
      /\ q.state = IF ActiveConsent = 0 THEN "aguardando_aceite" ELSE "pendente"
  BY <1>1 DEF NoRow, Row
<1>5. out[i] \notin Unsent /\ out' = out /\ ~erased
  BY <1>1 DEF Base, RowInv, Capture, NoRow
<1>6. CASE row' = [row EXCEPT ![i] = Terminal(n, "cancelada", "mime", FALSE)]
  <2> HIDE DEF n
  <2>0. FALSE \in BOOLEAN /\ "mime" \in Reasons
    BY DEF Reasons
  <2>1. /\ Terminal(n, "cancelada", "mime", FALSE) \in Row
        /\ Terminal(n, "cancelada", "mime", FALSE).state = "cancelada"
        /\ Terminal(n, "cancelada", "mime", FALSE).version = n.version
        /\ Terminal(n, "cancelada", "mime", FALSE).purge = n.purge
    BY <1>3, <2>0, TerminalFacts
  <2>2. row'[i] = Terminal(n, "cancelada", "mime", FALSE)
    BY <1>6 DEF Base, RowType
  <2>3. Starts(i)
    BY <1>1, <1>4, <1>5, <2>1, <2>2 DEF Starts
  <2> QED BY <1>5, <1>6, <2>1, <2>3, OneRowEffect DEF Effect
<1>7. CASE row' = [row EXCEPT ![i] = q]
  <2> HIDE DEF q
  <2>1. row'[i] = q
    BY <1>7 DEF Base, RowType
  <2>2. Starts(i)
    BY <1>1, <1>2, <1>4, <1>5, <2>1 DEF Starts
  <2> QED BY <1>3, <1>5, <1>7, <2>2, OneRowEffect DEF Effect
<1>8. \/ row' = [row EXCEPT ![i] = Terminal(n, "cancelada", "mime", FALSE)]
      \/ row' = [row EXCEPT ![i] = q]
  BY <1>1 DEF Capture, Base, RowType, Row
<1> QED BY <1>6, <1>7, <1>8

\* A clock ticks over one row.
LEMMA ClockEffect ==
    ASSUME Base, NEW i \in Input, Expire(i) \/ LeaseLapses(i)
    PROVE  RowsMove
<1>1. row[i] \in Row
  BY DEF Base, RowType
<1>2. PICK r \in Row :
        /\ row' = [row EXCEPT ![i] = r] /\ r.state = row[i].state /\ row[i].state # "nova"
        /\ r.version = row[i].version /\ r.consent = row[i].consent /\ r.purge = row[i].purge
  <2>1. CASE Expire(i)
    <3>1. [row[i] EXCEPT !.expired = TRUE] \in Row
      BY <1>1 DEF Row
    <3> QED BY <1>1, <2>1, <3>1 DEF Expire, Row, Absent
  <2>2. CASE LeaseLapses(i)
    <3>1. [row[i] EXCEPT !.lease = "lapsed"] \in Row
      BY <1>1 DEF Row
    <3>2. row[i].state # "nova"
      BY <2>2 DEF LeaseLapses, Base, RowInv, NoRow
    <3> QED BY <1>1, <2>2, <3>1, <3>2 DEF LeaseLapses, Row
  <2> QED BY <2>1, <2>2
<1>3. UNCHANGED out
  BY DEF Expire, LeaseLapses
<1>4. row'[i] = r
  BY <1>2 DEF Base, RowType
<1>5. Rests(i)
  BY <1>2, <1>3, <1>4 DEF Rests, Keeps
<1> QED BY <1>2, <1>3, <1>5, OneRowEffect DEF Effect

LEMMA ClaimEffect ==
    ASSUME Base, NEW w \in Worker, NEW i \in Input, Claim(w, i)
    PROVE  RowsMove
<1>1. row[i] \in Row /\ row[i].state = "pendente" /\ UNCHANGED out
  BY DEF Base, RowType, Claim
<1>2. CASE Allowed(i)
  <2> DEFINE r == [row[i] EXCEPT !.state = "processando", !.lease = "live", !.token = w]
  <2>1. r \in Row
    BY <1>1 DEF Row, Live
  <2>2. row' = [row EXCEPT ![i] = r]
    BY <1>2 DEF Claim, Base, RowType, Row
  <2>3. IsTaken(i)
    BY <1>1, <1>2, <2>2, AllowedFacts DEF IsTaken, Keeps, Base, RowType, Row
  <2> HIDE DEF r
  <2> QED BY <1>1, <2>1, <2>2, <2>3, OneRowEffect DEF Effect
<1>3. CASE ~Allowed(i)
  <2>1. row' = [row EXCEPT ![i] = Terminal(row[i], "cancelada", "contexto", FALSE)]
    BY <1>3 DEF Claim
  <2>2. out[i] \notin Unsent /\ row[i].state \notin Absent \cup {"purgada"}
    BY <1>1 DEF Base, SilenceInv, Absent
  <2>3. FALSE \in BOOLEAN /\ "contexto" \in Reasons
    BY DEF Reasons
  <2> QED BY <1>1, <2>1, <2>2, <2>3, EndOneEffect
<1> QED BY <1>2, <1>3

\* What a worker at work knows of its job.
LEMMA JobFacts ==
    ASSUME JobInv, NEW w \in Worker, worker[w].at # "idle"
    PROVE  /\ Job(w) \in Input /\ row[Job(w)].state \notin Fresh
           /\ row[Job(w)].version = "v2" \/ row[Job(w)].state = "apagada"
           /\ \A v \in Worker : Job(v) = Job(w) => v = w
BY DEF JobInv, Job

LEMMA ReserveEffect ==
    ASSUME Base, NEW w \in Worker, Reserve(w)
    PROVE  RowsMove
<1>1. Job(w) \in Input /\ UNCHANGED out /\ worker[w].at = "reserve"
  BY JobFacts DEF Base, Reserve
<1>2. CASE UNCHANGED row
  BY <1>1, <1>2, QuietEffect
<1>3. CASE /\ InContext(w)
           /\ row' = [row EXCEPT ![Job(w)] = Terminal(row[Job(w)], "cancelada", "orcamento", FALSE)]
  <2>1. row[Job(w)].state \notin Absent \cup {"purgada"}
    BY <1>1, <1>3, InContextFacts DEF Base, Absent
  <2>2. out[Job(w)] \notin Unsent
    BY <1>1 DEF Base, SilenceInv, Early, Unpaid, Job
  <2>3. FALSE \in BOOLEAN /\ "orcamento" \in Reasons
    BY DEF Reasons
  <2> QED BY <1>1, <1>3, <2>1, <2>2, <2>3, EndOneEffect
<1>4. \/ UNCHANGED row
      \/ /\ InContext(w)
         /\ row' = [row EXCEPT ![Job(w)] = Terminal(row[Job(w)], "cancelada", "orcamento", FALSE)]
  <2>1. CASE ~InContext(w)
    BY <2>1 DEF Reserve
  <2>2. CASE InContext(w) /\ Reservations < MaxAudios /\ DayHasRoom
    BY <2>2 DEF Reserve
  <2>3. CASE InContext(w) /\ ~(Reservations < MaxAudios /\ DayHasRoom)
    BY <1>1, <2>3 DEF Reserve, Base, RowType
  <2> QED BY <2>1, <2>2, <2>3
<1> QED BY <1>2, <1>3, <1>4

\* The reply of a row in context is written down.
LEMMA TellEffect ==
    ASSUME Base, NEW i \in Input, row[i].state = "processando", Heeded(i),
           NEW o \in {"pendente", "sem_resposta"}, Transcribed(i, o),
           \E w \in Worker : Job(w) = i /\ worker[w].at # "idle" /\ worker'[w].at \notin Early
    PROVE  RowsMove /\ Tells(i) /\ \A j \in Input \ {i} : Rests(j)
<1> DEFINE r == [row[i] EXCEPT !.state = "transcrita", !.lease = "none", !.token = None]
<1>1. row[i] \in Row /\ r \in Row
  <2>1. row[i] \in Row
    BY DEF Base, RowType
  <2> QED BY <2>1 DEF Row, Live
<1>2. row' = [row EXCEPT ![i] = r] /\ out' = [out EXCEPT ![i] = o]
  BY <1>1 DEF Transcribed, Base, RowType, Row
<1>3. Tells(i)
  <2>1. row'[i] = r
    BY <1>2 DEF Base, RowType
  <2>2. Keeps(i) /\ row'[i].state = "transcrita"
    BY <1>1, <2>1 DEF Keeps, Row
  <2> QED BY <2>2 DEF Tells
<1>4. \A j \in Input \ {i} : Rests(j)
  <2> HIDE DEF r
  <2> QED BY <1>2 DEF Rests, Keeps, Base, RowType, OutType
<1>5. RowType' /\ OutType'
  <2> HIDE DEF r
  <2> QED BY <1>1, <1>2 DEF Base, RowType, OutType, Replies, Unsent
<1> QED BY <1>3, <1>4, <1>5 DEF RowsMove, Effect

LEMMA StageEffect ==
    ASSUME Base, NEW w \in Worker, Stage(w)
    PROVE  RowsMove
<1> DEFINE i == Job(w)
<1>1. i \in Input /\ worker[w].at = "stage" /\ TalkType
  BY JobFacts DEF Base, Stage
<1>2. CASE UNCHANGED <<row, out>>
  BY <1>2, QuietEffect
<1>3. CASE /\ Owns(w) /\ UNCHANGED out
           /\ row' = [row EXCEPT ![i] = Terminal(row[i], "cancelada", "contexto", TRUE)]
  <2>1. row[i].state \notin Absent \cup {"purgada"}
    BY <1>3 DEF Owns, Absent
  <2>2. out[i] \notin Unsent
    BY <1>1 DEF Base, SilenceInv, Early, Job
  <2>3. TRUE \in BOOLEAN /\ "contexto" \in Reasons
    BY DEF Reasons
  <2> QED BY <1>1, <1>3, <2>1, <2>2, <2>3, EndOneEffect
<1>4. CASE InContext(w) /\ HandOff(i, "cancelada", "transcricao")
  <2>1. row[i].state = "processando" /\ "transcricao" \in Reasons
    BY <1>1, <1>4, InContextFacts DEF Reasons
  <2> HIDE DEF i
  <2> QED BY <1>1, <1>4, <2>1, HandOffEffect
<1>5. CASE /\ InContext(w) /\ worker'[w].at \notin Early
           /\ Transcribed(i, "sem_resposta") \/ Transcribed(i, "pendente")
  <2>1. /\ row[i].state = "processando" /\ Heeded(i)
        /\ Job(w) = i /\ worker[w].at # "idle" /\ worker'[w].at \notin Early
    BY <1>1, <1>5, InContextFacts
  <2> HIDE DEF i
  <2> QED BY <1>1, <1>5, <2>1, TellEffect
<1>6. CASE /\ InContext(w) /\ worker'[w].at \notin Early
           /\ UNCHANGED row /\ out' = [out EXCEPT ![i] = "reservada"]
  <2>1. /\ row[i].state = "processando" /\ Heeded(i)
        /\ Job(w) = i /\ worker[w].at # "idle" /\ worker'[w].at \notin Early
    BY <1>1, <1>6, InContextFacts
  <2> HIDE DEF i
  <2>2. RowType' /\ OutType'
    BY <1>6 DEF Base, RowType, OutType, Replies, Unsent
  <2>3. Tells(i)
    BY <1>6, <2>1 DEF Tells, Keeps
  <2>4. \A j \in Input \ {i} : Rests(j)
    BY <1>6 DEF Rests, Keeps, Base, OutType
  <2> QED BY <2>2, <2>3, <2>4 DEF RowsMove, Effect
<1>7. \/ UNCHANGED <<row, out>>
      \/ /\ Owns(w) /\ UNCHANGED out
         /\ row' = [row EXCEPT ![i] = Terminal(row[i], "cancelada", "contexto", TRUE)]
      \/ InContext(w) /\ HandOff(i, "cancelada", "transcricao")
      \/ /\ InContext(w) /\ worker'[w].at \notin Early
         /\ Transcribed(i, "sem_resposta") \/ Transcribed(i, "pendente")
      \/ /\ InContext(w) /\ worker'[w].at \notin Early
         /\ UNCHANGED row /\ out' = [out EXCEPT ![i] = "reservada"]
  <2>1. Rest(w) => worker'[w].at \notin Early
    BY DEF Rest, Base, WorkType, Idle, Early, Unpaid
  <2>2. Go(w, "extract") => worker'[w].at \notin Early
    BY DEF Go, Base, WorkType, WorkerState, Early, Unpaid
  <2> QED BY <1>1, <2>1, <2>2 DEF Stage, Base, RowType
<1> QED BY <1>2, <1>3, <1>4, <1>5, <1>6, <1>7

LEMMA CompleteEffect ==
    ASSUME Base, NEW w \in Worker, Complete(w)
    PROVE  RowsMove
<1> DEFINE i == Job(w)
<1>1. i \in Input /\ TalkType
  BY JobFacts DEF Base, Complete
<1>2. CASE InContext(w) /\ out[i] = "reservada"
  <2>1. row[i].state = "processando" /\ Heeded(i) /\ "extracao" \in Reasons
    BY <1>1, <1>2, InContextFacts DEF Reasons
  <2>2. Transcribed(i, "pendente") \/ HandOff(i, "cancelada", "extracao")
    BY <1>2 DEF Complete
  <2>3. Job(w) = i /\ worker[w].at # "idle" /\ worker'[w].at \notin Early
    BY DEF Complete, Rest, Base, WorkType, Idle, Early, Unpaid
  <2> HIDE DEF i
  <2> QED BY <1>1, <2>1, <2>2, <2>3, TellEffect, HandOffEffect
<1>3. CASE ~(InContext(w) /\ out[i] = "reservada")
  BY <1>3, QuietEffect DEF Complete
<1> QED BY <1>2, <1>3

LEMMA DeniedEffect ==
    ASSUME Base, NEW w \in Worker, Denied(w)
    PROVE  RowsMove
<1> DEFINE i == Job(w)
<1>1. i \in Input /\ worker[w].at = "denied" /\ UNCHANGED out /\ worker[w].tried \in BOOLEAN
  BY JobFacts DEF Base, Denied, WorkType, WorkerState
<1>2. CASE /\ Owns(w)
           /\ row' = [row EXCEPT ![i] = Terminal(row[i], "cancelada", "contexto",
                                                 worker[w].tried)]
  <2>1. row[i].state \notin Absent \cup {"purgada"}
    BY <1>2 DEF Owns, Absent
  <2>2. out[i] \notin Unsent /\ "contexto" \in Reasons
    BY <1>1 DEF Base, SilenceInv, Early, Job, Reasons
  <2> HIDE DEF i
  <2> QED BY <1>1, <1>2, <2>1, <2>2, EndOneEffect
<1>3. CASE UNCHANGED row
  BY <1>1, <1>3, QuietEffect
<1>4. \/ UNCHANGED row
      \/ /\ Owns(w)
         /\ row' = [row EXCEPT ![i] = Terminal(row[i], "cancelada", "contexto",
                                               worker[w].tried)]
  BY <1>1 DEF Denied, Base, RowType
<1> QED BY <1>2, <1>3, <1>4

\* The failure of a claim, by its worker or by the recovery of its lease.
LEMMA FailEffect ==
    ASSUME Base,
           (\E w \in Worker : Failed(w)) \/ (\E i \in Input : Recover(i))
    PROVE  RowsMove
<1>1. ASSUME NEW w \in Worker, Failed(w) PROVE RowsMove
  <2>1. Job(w) \in Input
    BY <1>1, JobFacts DEF Base, Failed
  <2>2. CASE Owns(w) /\ \E s \in {"cancelada", "ambigua"} : HandOff(Job(w), s, "falha")
    <3>1. row[Job(w)].state = "processando" /\ "falha" \in Reasons
      BY <2>2 DEF Owns, Reasons
    <3> QED BY <2>1, <2>2, <3>1, HandOffEffect
  <2>3. CASE UNCHANGED <<row, out>>
    BY <2>3, QuietEffect
  <2> QED BY <1>1, <2>2, <2>3 DEF Failed
<1>2. ASSUME NEW i \in Input, Recover(i) PROVE RowsMove
  <2>1. row[i].state = "processando" /\ "perdida" \in Reasons
    BY <1>2 DEF Recover, Reasons
  <2> QED BY <1>2, <2>1, HandOffEffect DEF Recover
<1> QED BY <1>1, <1>2

LEMMA ReplyEffect ==
    ASSUME Base, NEW i \in Input, SendReply(i) \/ ReplyAnswered(i) \/ SuppressReply(i)
    PROVE  RowsMove
<1>1. CASE SendReply(i)
  <2>1. "em_transporte" \in Replies /\ out[i] \in Unsent
    BY <1>1 DEF SendReply, Replies, Unsent
  <2> QED BY <1>1, <2>1, OneReplyEffect DEF SendReply
<1>2. CASE ReplyAnswered(i)
  <2>1. PICK o \in {"enviada", "ambigua", "pendente"} : out' = [out EXCEPT ![i] = o]
    BY <1>2 DEF ReplyAnswered
  <2>2. o \in Replies /\ out[i] \in Unsent /\ UNCHANGED row
    BY <1>2 DEF ReplyAnswered, Replies, Unsent
  <2> QED BY <2>1, <2>2, OneReplyEffect
<1>3. CASE SuppressReply(i)
  BY <1>3, CancelEffect DEF SuppressReply
<1> QED BY <1>1, <1>2, <1>3

LEMMA ReportEffect ==
    ASSUME Base, NEW i \in Input, OfficialReport(i)
    PROVE  RowsMove
<1> DEFINE fed == {j \in Input : res[j] # "nenhuma"
                                  /\ row[j].state \notin Absent \cup {"purgada"}}
           end(j) == IF row[j].state = "processando" THEN "ambigua" ELSE "cancelada"
<1>1. /\ out' = Silenced(fed)
      /\ row' = [j \in Input |-> IF j \in fed THEN Terminal(row[j], end(j), "relatorio", TRUE)
                                              ELSE row[j]]
  BY DEF OfficialReport
<1>2. fed \in SUBSET Input /\ OutType /\ RowType
  BY DEF Base
<1>3. /\ OutType'
      /\ \A j \in Input : /\ out'[j] \in Unsent => out[j] \in Unsent
                          /\ j \in fed => out'[j] \notin Unsent
  <2> HIDE DEF fed
  <2> QED BY <1>1, <1>2, SilencedFacts DEF OutType
<1>4. ASSUME NEW j \in Input PROVE row'[j] \in Row /\ (Rests(j) \/ Ends(j))
  <2>1. CASE j \in fed
    <3>1. end(j) \in {"cancelada", "ambigua"} /\ "relatorio" \in Reasons
          /\ row[j] \in Row /\ TRUE \in BOOLEAN
      BY <1>2 DEF Reasons, RowType
    <3>2. row[j].state \notin Absent \cup {"purgada"}
      BY <2>1
    <3>3. row'[j] = Terminal(row[j], end(j), "relatorio", TRUE)
      BY <1>1, <2>1
    <3> HIDE DEF fed, end
    <3>4. /\ Terminal(row[j], end(j), "relatorio", TRUE) \in Row
          /\ Terminal(row[j], end(j), "relatorio", TRUE).state = end(j)
          /\ Terminal(row[j], end(j), "relatorio", TRUE).version = row[j].version
          /\ Terminal(row[j], end(j), "relatorio", TRUE).consent = row[j].consent
          /\ Terminal(row[j], end(j), "relatorio", TRUE).purge = row[j].purge
      BY <3>1, TerminalFacts
    <3> QED BY <1>3, <2>1, <3>1, <3>2, <3>3, <3>4 DEF Ends, Keeps, Ended
  <2>2. CASE j \notin fed
    <3>1. row'[j] = row[j]
      BY <1>1, <2>2
    <3> HIDE DEF fed
    <3> QED BY <1>2, <1>3, <3>1 DEF Rests, Keeps, RowType
  <2> QED BY <2>1, <2>2
<1>5. RowType'
  BY <1>1, <1>4 DEF RowType
<1> QED BY <1>3, <1>4, <1>5 DEF RowsMove, Effect

LEMMA PurgeEffect ==
    ASSUME Base, StoreInv, (\E i \in Input : PurgeClaim(i)) \/ PurgeFinish
    PROVE  RowsMove
<1>1. ASSUME NEW i \in Input, PurgeClaim(i) PROVE RowsMove
  <2> DEFINE b == IF row[i].state \in Ended THEN row[i]
                  ELSE Terminal(row[i], "cancelada", "retencao", FALSE)
             r == [b EXCEPT !.purge = "pendente"]
  <2>1. row[i] \in Row /\ FALSE \in BOOLEAN /\ "retencao" \in Reasons
    BY DEF Base, RowType, Reasons
  <2>2. /\ b \in Row /\ b.version = row[i].version /\ b.consent = row[i].consent
        /\ IF row[i].state \in Ended THEN b.state = row[i].state ELSE b.state = "cancelada"
    <3>1. CASE row[i].state \in Ended
      BY <2>1, <3>1
    <3>2. CASE row[i].state \notin Ended
      BY <2>1, <3>2, TerminalFacts
    <3> QED BY <3>1, <3>2
  <2>3. row' = [row EXCEPT ![i] = r] /\ UNCHANGED out
    BY <1>1 DEF PurgeClaim, Base, RowType
  <2> HIDE DEF b
  <2>4. r \in Row /\ r.version = b.version /\ r.consent = b.consent /\ r.state = b.state
    BY <2>2 DEF Row
  <2>5. row[i].state \notin Absent /\ row[i].version # "v2" /\ out[i] \notin Unsent
    BY <1>1 DEF PurgeClaim, Base, RowInv
  <2>6. row'[i] = r
    BY <2>3 DEF Base, RowType
  <2> HIDE DEF r
  <2>7. Shelved(i)
    BY <2>2, <2>3, <2>4, <2>5, <2>6 DEF Shelved, Ended, Live, Absent
  <2> QED BY <2>3, <2>4, <2>7, OneRowEffect DEF Effect
<1>2. ASSUME PurgeFinish PROVE RowsMove
  <2> DEFINE i == purger.job
             r == [row[i] EXCEPT !.state = "purgada", !.purge = "purgada"]
  <2>1. CASE UNCHANGED row
    BY <1>2, <2>1, QuietEffect DEF PurgeFinish
  <2>2. CASE row' = [row EXCEPT ![i] = r] /\ row[i].state \notin Absent
    <3>1. i \in Input /\ row[i].version # "v2" /\ purger.at = "finish"
      BY <1>2 DEF PurgeFinish, StoreInv
    <3>2. row[i] \in Row
      BY <3>1 DEF Base, RowType
    <3>3. r \in Row /\ r.state = "purgada" /\ r.version = row[i].version
          /\ r.consent = row[i].consent
      BY <3>2 DEF Row, Ended
    <3> HIDE DEF r
    <3>4. row'[i] = r
      BY <2>2, <3>1 DEF Base, RowType
    <3>5. UNCHANGED out /\ out[i] \notin Unsent
      BY <1>2, <3>1 DEF PurgeFinish, Base, RowInv
    <3>6. Shelved(i)
      BY <2>2, <3>1, <3>3, <3>4, <3>5 DEF Shelved, Live, Absent
    <3> HIDE DEF i
    <3> QED BY <2>2, <3>1, <3>3, <3>5, <3>6, OneRowEffect DEF Effect
  <2>3. \/ UNCHANGED row
        \/ row' = [row EXCEPT ![i] = r] /\ row[i].state \notin Absent
    <3>1. purger.job \in Input
      BY <1>2 DEF PurgeFinish, StoreInv
    <3>2. row[i] \in Row
      BY <3>1 DEF Base, RowType
    <3> QED BY <1>2, <3>1, <3>2 DEF PurgeFinish, Base, RowType, Row
  <2> QED BY <2>1, <2>2, <2>3
<1> QED BY <1>1, <1>2

LEMMA EraseEffect ==
    ASSUME Base, Erase
    PROVE  RowsMove
<1> DEFINE gone == {i \in Input : row[i].state \notin Absent}
<1>1. /\ row' = [i \in Input |-> IF i \in gone THEN [NoRow EXCEPT !.state = "apagada"]
                                               ELSE row[i]]
      /\ out' = [i \in Input |-> "nenhuma"]
      /\ task' = [i \in Input |-> IF i \in gone THEN "pendente" ELSE task[i]]
  BY DEF Erase
<1>2. [NoRow EXCEPT !.state = "apagada"] \in Row
  <2>1. 0 \in 0..MaxCommands
    BY BoundsAssumption
  <2>2. NoRow \in Row
    BY <2>1 DEF NoRow, Row, Absent, Reasons
  <2> QED BY <2>2 DEF Row, Absent
<1>3. OutType' /\ \A j \in Input : out'[j] \notin Unsent
  BY <1>1 DEF OutType, Replies, Unsent
<1>4. ASSUME NEW j \in Input PROVE row'[j] \in Row /\ (Rests(j) \/ IsGone(j))
  <2>1. CASE j \in gone
    <3>1. row[j].state \notin Absent
      BY <2>1
    <3>2. row'[j] = [NoRow EXCEPT !.state = "apagada"] /\ task'[j] = "pendente"
      BY <1>1, <2>1
    <3> QED BY <1>2, <1>3, <3>1, <3>2 DEF IsGone
  <2>2. CASE j \notin gone
    <3>1. row'[j] = row[j]
      BY <1>1, <2>2
    <3> QED BY <1>3, <3>1 DEF Rests, Keeps, Base, RowType
  <2> QED BY <2>1, <2>2
<1>5. RowType'
  BY <1>1, <1>4 DEF RowType
<1> QED BY <1>3, <1>4, <1>5 DEF RowsMove, Effect

-----------------------------------------------------------------------------
(* Every step *)

\* The steps no dispatcher takes.
Outside ==
    \/ Say \/ PrepareNotice \/ SettleNotice \/ TurnGate \/ PurgeRemove \/ PurgeFinish \/ Erase
    \/ \E k \in 1..MaxCommands : Accept(k) \/ Revoke(k)
    \/ \E i \in Input :
        \/ Capture(i) \/ Expire(i) \/ LeaseLapses(i) \/ Land(i) \/ Recover(i)
        \/ SendReply(i) \/ ReplyAnswered(i) \/ SuppressReply(i) \/ OfficialReport(i)
        \/ PurgeClaim(i) \/ Clean(i, TRUE) \/ Clean(i, FALSE) \/ WitnessRead(i) \/ WitnessRelease(i)

LEMMA NextCases ==
    ASSUME Next
    PROVE  \/ Outside
           \/ \E w \in Worker : WorkerStep(w) \/ Crash(w)
           \/ \E w \in Worker, i \in Input : Claim(w, i)
BY DEF Next, Outside

LEMMA OutsideEffect ==
    ASSUME Base, StoreInv, Outside
    PROVE  RowsMove /\ UNCHANGED worker
<1>1. CASE Say \/ PrepareNotice \/ SettleNotice \/ TurnGate \/ PurgeRemove
  BY <1>1, QuietEffect DEF Say, PrepareNotice, SettleNotice, TurnGate, PurgeRemove
<1>2. CASE PurgeFinish
  BY <1>2, PurgeEffect DEF PurgeFinish
<1>3. CASE Erase
  BY <1>3, EraseEffect DEF Erase
<1>4. ASSUME NEW k \in 1..MaxCommands, Accept(k) \/ Revoke(k) PROVE RowsMove /\ UNCHANGED worker
  BY <1>4, QuietEffect, CancelEffect DEF Accept, Revoke
<1>5. ASSUME NEW i \in Input, Capture(i) PROVE RowsMove /\ UNCHANGED worker
  BY <1>5, CaptureEffect DEF Capture
<1>6. ASSUME NEW i \in Input, Expire(i) \/ LeaseLapses(i) PROVE RowsMove /\ UNCHANGED worker
  BY <1>6, ClockEffect DEF Expire, LeaseLapses
<1>7. ASSUME NEW i \in Input, Recover(i) PROVE RowsMove /\ UNCHANGED worker
  BY <1>7, FailEffect DEF Recover
<1>8. ASSUME NEW i \in Input, SendReply(i) \/ ReplyAnswered(i) \/ SuppressReply(i)
      PROVE  RowsMove /\ UNCHANGED worker
  BY <1>8, ReplyEffect DEF SendReply, ReplyAnswered, SuppressReply
<1>9. ASSUME NEW i \in Input, OfficialReport(i) PROVE RowsMove /\ UNCHANGED worker
  BY <1>9, ReportEffect DEF OfficialReport
<1>10. ASSUME NEW i \in Input, PurgeClaim(i) PROVE RowsMove /\ UNCHANGED worker
  BY <1>10, PurgeEffect DEF PurgeClaim
<1>11. ASSUME NEW i \in Input,
              Land(i) \/ Clean(i, TRUE) \/ Clean(i, FALSE) \/ WitnessRead(i) \/ WitnessRelease(i)
       PROVE  RowsMove /\ UNCHANGED worker
  BY <1>11, QuietEffect DEF Land, Clean, WitnessRead, WitnessRelease
<1> QED
  BY <1>1, <1>2, <1>3, <1>4, <1>5, <1>6, <1>7, <1>8, <1>9, <1>10, <1>11 DEF Outside

LEMMA InsideEffect ==
    ASSUME Base, NEW w \in Worker, WorkerStep(w) \/ Crash(w)
    PROVE  RowsMove
<1>1. CASE \/ Authorise(w) \/ Refuse(w) \/ Download(w) \/ Begin(w) \/ Post(w) \/ Finish(w)
           \/ Unknown(w)
  BY <1>1, QuietEffect DEF Authorise, Refuse, Download, Begin, Post, Finish, Unknown
<1>2. CASE \/ Transcribe(w) \/ Settle(w) \/ Extract(w) \/ Reopen(w) \/ Crash(w)
  BY <1>2, QuietEffect DEF Transcribe, Settle, Extract, Reopen, Crash
<1>3. CASE Reserve(w) \/ Stage(w) \/ Complete(w) \/ Denied(w) \/ Failed(w)
  BY <1>3, ReserveEffect, StageEffect, CompleteEffect, DeniedEffect, FailEffect
<1> QED BY <1>1, <1>2, <1>3 DEF WorkerStep

\* What every step does to rows and replies.
LEMMA NextEffect ==
    ASSUME Base, StoreInv, [Next]_vars
    PROVE  RowsMove
<1>1. CASE UNCHANGED vars
  BY <1>1, QuietEffect DEF vars
<1>2. CASE Next
  BY <1>2, NextCases, OutsideEffect, InsideEffect, ClaimEffect
<1> QED BY <1>1, <1>2

\* What a step may do to the dispatchers: leave them, let one go, move one on,
\* or give one a row that waits.
Paying == {"transcribe", "settle", "extract", "complete"}
PayStep(w) ==
    Reserve(w) \/ Transcribe(w) \/ Settle(w) \/ Stage(w) \/ Extract(w) \/ Complete(w)
Others(w) == \A v \in Worker \ {w} : worker'[v] = worker[v]
LetsGo(w) == worker[w].at # "idle" /\ worker'[w] = Idle
MovesOn(w) ==
    /\ worker[w].at # "idle" /\ worker'[w].at # "idle"
    /\ worker'[w].job = worker[w].job
    /\ worker'[w].at \in Unpaid => worker[w].at \in Unpaid
    /\ worker'[w].at \in Early => worker[w].at \in Early
    /\ worker'[w].at \in {"download", "begin"} => worker[w].at \in {"download", "begin"}
    /\ worker'[w].at = "post" => worker[w].at = "post" \/ Begin(w)
    /\ worker'[w].at \in Paying =>
         PayStep(w) \/ (worker'[w].at = worker[w].at /\ worker'[w].cost = worker[w].cost)
TakesUp(w) ==
    /\ worker[w] = Idle
    /\ \E i \in Input : /\ row[i].state = "pendente" /\ row'[i].state = "processando"
                        /\ worker'[w] = [Idle EXCEPT !.at = "download", !.job = i]
WorkersMove ==
    /\ WorkType'
    /\ \/ UNCHANGED worker
       \/ \E w \in Worker : Others(w) /\ (LetsGo(w) \/ MovesOn(w) \/ TakesUp(w))

LEMMA IdleFacts == Idle \in WorkerState /\ Idle.at = "idle" /\ Idle.job = None
BY DEF Idle, WorkerState, Steps

LEMMA GoFacts ==
    ASSUME WorkType, NEW w \in Worker, NEW a \in Steps, Go(w, a)
    PROVE  /\ WorkType' /\ Others(w) /\ worker'[w].at = a /\ worker'[w].job = worker[w].job
           /\ worker'[w].cost = worker[w].cost
BY DEF WorkType, Go, Others, WorkerState

LEMMA PaidFacts ==
    ASSUME WorkType, NEW w \in Worker, NEW a \in Steps, Paid(w, a)
    PROVE  /\ WorkType' /\ Others(w) /\ worker'[w].job = worker[w].job
           /\ \E cost \in 0..2 :
                /\ spent' = spent + cost /\ overrun' = overrun + Above(cost)
                /\ \/ worker'[w].at = a /\ worker'[w].cost = cost
                   \/ worker'[w].at = "fail"
<1>1. PICK cost \in 0..2 :
        /\ spent' = spent + cost /\ overrun' = overrun + Above(cost)
        /\ \/ worker' = [worker EXCEPT ![w].at = a, ![w].ok = FALSE, ![w].cost = cost]
           \/ Go(w, "fail")
  BY DEF Paid
<1>2. CASE worker' = [worker EXCEPT ![w].at = a, ![w].ok = FALSE, ![w].cost = cost]
  BY <1>1, <1>2 DEF WorkType, Others, WorkerState
<1>3. CASE Go(w, "fail")
  <2>1. "fail" \in Steps
    BY DEF Steps
  <2> QED BY <1>1, <1>3, <2>1, GoFacts
<1> QED BY <1>1, <1>2, <1>3

LEMMA BeginFacts ==
    ASSUME WorkType, NEW w \in Worker,
           worker' = [worker EXCEPT ![w].at = "post", ![w].ok = FALSE, ![w].tried = TRUE]
    PROVE  /\ WorkType' /\ Others(w)
           /\ worker'[w].at = "post" /\ worker'[w].job = worker[w].job
<1>1. worker[w] \in WorkerState /\ "post" \in Steps
  BY DEF WorkType, Steps
<1>2. DOMAIN worker = Worker /\ \A v \in Worker : worker[v] \in WorkerState
  BY DEF WorkType
<1> DEFINE u == [worker[w] EXCEPT !.at = "post", !.ok = FALSE, !.tried = TRUE]
<1>3. u \in WorkerState /\ u.at = "post" /\ u.job = worker[w].job
  BY <1>1 DEF WorkerState
<1>4. worker' = [worker EXCEPT ![w] = u]
  BY <1>1, <1>2 DEF WorkerState
<1> HIDE DEF u
<1> QED BY <1>2, <1>3, <1>4 DEF WorkType, Others

LEMMA RestFacts ==
    ASSUME WorkType, NEW w \in Worker, Rest(w)
    PROVE  WorkType' /\ Others(w) /\ worker'[w] = Idle
BY IdleFacts DEF WorkType, Rest, Others

LEMMA MoveEffect ==
    ASSUME Base, NEW w \in Worker, WorkerStep(w)
    PROVE  WorkersMove
<1>0. WorkType /\ {"begin", "post", "posting", "reserve", "transcribe", "settle", "stage",
                   "extract", "complete", "deny", "denied", "fail", "failed"} \subseteq Steps
  BY DEF Base, Steps
<1> USE DEF MovesOn, Early, Unpaid, Paying, PayStep
<1>1. CASE Authorise(w)
  BY <1>0, <1>1 DEF Authorise, WorkType, WorkerState, WorkersMove, Others, Boundary
<1>2. CASE Refuse(w)
  BY <1>0, <1>2, GoFacts DEF Refuse, WorkersMove, Boundary
<1>3. CASE Download(w)
  BY <1>0, <1>3, GoFacts DEF Download, WorkersMove
<1>4. CASE Begin(w)
  <2>1. CASE Go(w, "deny")
    BY <1>0, <1>4, <2>1, GoFacts DEF Begin, WorkersMove
  <2>2. CASE worker' = [worker EXCEPT ![w].at = "post", ![w].ok = FALSE, ![w].tried = TRUE]
    <3>1. worker[w].at = "begin" /\ Begin(w)
      BY <1>4 DEF Begin
    <3>2. /\ WorkType' /\ Others(w)
          /\ worker'[w].at = "post" /\ worker'[w].job = worker[w].job
      BY <1>0, <2>2, BeginFacts
    <3> QED BY <3>1, <3>2 DEF WorkersMove
  <2> QED BY <1>4, <2>1, <2>2 DEF Begin
<1>5. CASE Post(w)
  BY <1>0, <1>5, GoFacts DEF Post, WorkersMove
<1>6. CASE Finish(w)
  BY <1>0, <1>6, GoFacts DEF Finish, WorkersMove
<1>7. CASE Unknown(w)
  BY <1>0, <1>7, GoFacts DEF Unknown, WorkersMove
<1>8. CASE Reserve(w)
  <2>1. Go(w, "fail") \/ Go(w, "transcribe")
    BY <1>8 DEF Reserve
  <2> QED BY <1>0, <1>8, <2>1, GoFacts DEF Reserve, WorkersMove
<1>9. CASE Transcribe(w)
  BY <1>0, <1>9, PaidFacts DEF Transcribe, WorkersMove
<1>10. CASE Settle(w)
  BY <1>0, <1>10, GoFacts DEF Settle, WorkersMove
<1>11. CASE Stage(w)
  <2>1. Rest(w) \/ Go(w, "extract") \/ Go(w, "fail")
    BY <1>11 DEF Stage
  <2> QED BY <1>0, <1>11, <2>1, GoFacts, RestFacts DEF Stage, WorkersMove, LetsGo
<1>12. CASE Extract(w)
  BY <1>0, <1>12, PaidFacts DEF Extract, WorkersMove
<1>13. CASE Complete(w) \/ Denied(w) \/ Failed(w)
  BY <1>0, <1>13, RestFacts DEF Complete, Denied, Failed, WorkersMove, LetsGo
<1>14. CASE Reopen(w)
  BY <1>0, <1>14, GoFacts DEF Reopen, WorkersMove
<1> QED
  BY <1>1, <1>2, <1>3, <1>4, <1>5, <1>6, <1>7, <1>8, <1>9, <1>10, <1>11, <1>12, <1>13, <1>14
     DEF WorkerStep

LEMMA WorkEffect ==
    ASSUME Base, StoreInv, [Next]_vars
    PROVE  WorkersMove
<1>1. CASE UNCHANGED vars
  BY <1>1 DEF vars, WorkersMove, Base, WorkType
<1>2. CASE Outside
  BY <1>2, OutsideEffect DEF WorkersMove, Base, WorkType
<1>3. ASSUME NEW w \in Worker, WorkerStep(w) PROVE WorkersMove
  BY <1>3, MoveEffect
<1>4. ASSUME NEW w \in Worker, Crash(w) PROVE WorkersMove
  <2>0. Rest(w) /\ worker[w] # Idle
    BY <1>4 DEF Crash
  <2>1. worker[w].at # "idle"
    <3>1. worker[w].at = "idle" => worker[w] = Idle
      BY DEF Base, JobInv
    <3> QED BY <2>0, <3>1
  <2> QED BY <2>0, <2>1, RestFacts DEF Base, WorkersMove, LetsGo
<1>5. ASSUME NEW w \in Worker, NEW i \in Input, Claim(w, i) PROVE WorkersMove
  <2>1. CASE Allowed(i)
    <3>1. worker' = [worker EXCEPT ![w] = [Idle EXCEPT !.at = "download", !.job = i]]
      BY <1>5, <2>1 DEF Claim
    <3>2. row[i].state = "pendente" /\ row'[i].state = "processando" /\ worker[w] = Idle
      BY <1>5, <2>1 DEF Claim, Base, RowType, Row
    <3>3. [Idle EXCEPT !.at = "download", !.job = i] \in WorkerState
      <4>1. "download" \in Steps /\ i \in Input \cup {None} /\ Idle \in WorkerState
        BY IdleFacts DEF Steps
      <4> QED BY <4>1 DEF WorkerState
    <3> QED BY <3>1, <3>2, <3>3 DEF WorkersMove, Others, TakesUp, Base, WorkType
  <2>2. CASE ~Allowed(i)
    BY <1>5, <2>2 DEF Claim, WorkersMove, Base, WorkType
  <2> QED BY <2>1, <2>2
<1> QED BY <1>1, <1>2, <1>3, <1>4, <1>5, NextCases

-----------------------------------------------------------------------------
(* Types *)

\* The steps that touch what was said.
LEMMA TalkCases ==
    ASSUME [Next]_vars
    PROVE  \/ Say \/ PrepareNotice \/ SettleNotice \/ UNCHANGED talk
           \/ \E k \in 1..MaxCommands : Accept(k) \/ Revoke(k)
<1>1. CASE Outside
  <2>1. CASE TurnGate \/ PurgeRemove \/ PurgeFinish \/ Erase
    BY <2>1 DEF TurnGate, PurgeRemove, PurgeFinish, Erase, talk
  <2>2. ASSUME NEW i \in Input,
               \/ Capture(i) \/ Expire(i) \/ LeaseLapses(i) \/ Land(i) \/ Recover(i)
               \/ SendReply(i) \/ ReplyAnswered(i) \/ SuppressReply(i) \/ OfficialReport(i)
               \/ PurgeClaim(i) \/ Clean(i, TRUE) \/ Clean(i, FALSE) \/ WitnessRead(i)
               \/ WitnessRelease(i)
        PROVE UNCHANGED talk
    BY <2>2 DEF Capture, Expire, LeaseLapses, Land, Recover, SendReply, ReplyAnswered,
                SuppressReply, OfficialReport, PurgeClaim, Clean, WitnessRead,
                WitnessRelease, talk
  <2> QED BY <1>1, <2>1, <2>2 DEF Outside
<1>2. ASSUME NEW w \in Worker, WorkerStep(w) \/ Crash(w) PROVE UNCHANGED talk
  BY <1>2 DEF WorkerStep, Authorise, Refuse, Download, Begin, Post, Finish, Unknown, Reserve,
              Transcribe, Settle, Stage, Extract, Complete, Reopen, Denied, Failed, Crash, talk
<1>3. ASSUME NEW w \in Worker, NEW i \in Input, Claim(w, i) PROVE UNCHANGED talk
  BY <1>3 DEF Claim, talk
<1>4. CASE UNCHANGED vars
  BY <1>4 DEF vars, talk
<1> QED BY <1>1, <1>2, <1>3, <1>4, NextCases

LEMMA TalkTypeStep ==
    ASSUME TalkType, [Next]_vars PROVE TalkType'
<1>0. MaxCommands \in Nat /\ Len(said) \in Nat
  BY BoundsAssumption DEF TalkType
<1>1. CASE Say
  <2>1. PICK c \in {"accept", "revoke"} : said' = Append(said, c)
    BY <1>1 DEF Say
  <2>2. /\ said' \in Seq({"accept", "revoke"}) /\ Len(said') = Len(said) + 1
        /\ DOMAIN said' = 1..(Len(said) + 1) /\ DOMAIN said = 1..Len(said)
    BY <2>1 DEF TalkType
  <2>3. Len(said') <= MaxCommands /\ heard' \subseteq DOMAIN said' /\ UNCHANGED notice
    BY <1>0, <1>1, <2>2 DEF Say, talk, TalkType
  <2> QED BY <2>2, <2>3 DEF TalkType
<1>2. ASSUME NEW k \in 1..MaxCommands, Accept(k) \/ Revoke(k) PROVE TalkType'
  <2>1. UNCHANGED said /\ heard' \subseteq DOMAIN said
    BY <1>2 DEF Accept, Revoke, TalkType, talk
  <2>2. notice' \in [state : {"none", "preparado", "entregue", "cancelado"}, at : 0..MaxCommands]
    BY <1>2 DEF Accept, Revoke, TalkType
  <2> QED BY <2>1, <2>2 DEF TalkType
<1>3. CASE PrepareNotice
  BY <1>3 DEF PrepareNotice, TalkType
<1>4. CASE SettleNotice
  BY <1>0, <1>4 DEF SettleNotice, TalkType
<1>5. CASE UNCHANGED talk
  BY <1>5 DEF talk, TalkType
<1> QED BY <1>1, <1>2, <1>3, <1>4, <1>5, TalkCases

\* The steps that touch money, and what they leave of it.
LEMMA MoneyCases ==
    ASSUME [Next]_vars
    PROVE  \/ UNCHANGED money
           \/ Erase
           \/ \E w \in Worker : \/ Reserve(w) \/ Transcribe(w) \/ Settle(w) \/ Stage(w)
                                \/ Extract(w) \/ Complete(w)
<1>1. CASE UNCHANGED vars
  BY <1>1 DEF vars, money
<1>2. CASE Outside
  <2>1. CASE Say \/ PrepareNotice \/ SettleNotice \/ TurnGate \/ PurgeRemove \/ PurgeFinish
    BY <2>1 DEF Say, PrepareNotice, SettleNotice, TurnGate, PurgeRemove, PurgeFinish, money
  <2>2. ASSUME NEW k \in 1..MaxCommands, Accept(k) \/ Revoke(k) PROVE UNCHANGED money
    BY <2>2 DEF Accept, Revoke, money
  <2>3. ASSUME NEW i \in Input,
               \/ Capture(i) \/ Expire(i) \/ LeaseLapses(i) \/ Land(i) \/ Recover(i)
               \/ SendReply(i) \/ ReplyAnswered(i) \/ SuppressReply(i) \/ OfficialReport(i)
               \/ PurgeClaim(i) \/ Clean(i, TRUE) \/ Clean(i, FALSE) \/ WitnessRead(i)
               \/ WitnessRelease(i)
        PROVE UNCHANGED money
    BY <2>3 DEF Capture, Expire, LeaseLapses, Land, Recover, SendReply, ReplyAnswered,
                SuppressReply, OfficialReport, PurgeClaim, Clean, WitnessRead,
                WitnessRelease, money
  <2> QED BY <1>2, <2>1, <2>2, <2>3 DEF Outside
<1>3. ASSUME NEW w \in Worker, WorkerStep(w) \/ Crash(w)
      PROVE  \/ UNCHANGED money
             \/ Reserve(w) \/ Transcribe(w) \/ Settle(w) \/ Stage(w) \/ Extract(w) \/ Complete(w)
  BY <1>3 DEF WorkerStep, Authorise, Refuse, Download, Begin, Post, Finish, Unknown, Reopen,
              Denied, Failed, Crash, money
<1>4. ASSUME NEW w \in Worker, NEW i \in Input, Claim(w, i) PROVE UNCHANGED money
  BY <1>4 DEF Claim, money
<1> QED BY <1>1, <1>2, <1>3, <1>4, NextCases

LEMMA MoneyTypeStep ==
    ASSUME Base, MoneyType, [Next]_vars PROVE MoneyType'
<1>1. CASE UNCHANGED money
  BY <1>1 DEF money, MoneyType
<1>2. CASE Erase
  BY <1>2 DEF Erase, MoneyType
<1>3. ASSUME NEW w \in Worker,
             Reserve(w) \/ Transcribe(w) \/ Settle(w) \/ Stage(w) \/ Extract(w) \/ Complete(w)
      PROVE  MoneyType'
  <2>1. Job(w) \in Input
    BY <1>3, JobFacts DEF Base, Reserve, Transcribe, Settle, Stage, Extract, Complete
  <2>2. CASE Reserve(w)
    BY <2>2 DEF Reserve, MoneyType
  <2>3. CASE Transcribe(w)
    <3>1. calls[Job(w)] + 1 \in Nat
      BY <2>1 DEF MoneyType
    <3> QED BY <2>3, <3>1 DEF Transcribe, MoneyType
  <2>4. CASE Settle(w)
    BY <2>4 DEF Settle, MoneyType
  <2>5. CASE Stage(w)
    BY <2>5 DEF Stage, MoneyType
  <2>6. CASE Extract(w)
    BY <2>6 DEF Extract, MoneyType
  <2>7. CASE Complete(w)
    BY <2>7 DEF Complete, MoneyType
  <2> QED BY <1>3, <2>2, <2>3, <2>4, <2>5, <2>6, <2>7
<1> QED BY <1>1, <1>2, <1>3, MoneyCases

\* The steps that touch storage, its ledgers and the retention pass.
LEMMA StoreCases ==
    ASSUME [Next]_vars
    PROVE  \/ UNCHANGED <<storage, purger, erased>>
           \/ Erase \/ PurgeRemove \/ PurgeFinish
           \/ \E i \in Input : \/ PurgeClaim(i) \/ Land(i) \/ Clean(i, TRUE) \/ Clean(i, FALSE)
                               \/ WitnessRead(i) \/ WitnessRelease(i)
           \/ \E w \in Worker : Begin(w) \/ Post(w) \/ Finish(w) \/ Reopen(w)
<1>1. CASE UNCHANGED vars
  BY <1>1 DEF vars, storage
<1>2. CASE Outside
  <2>1. CASE Say \/ PrepareNotice \/ SettleNotice \/ TurnGate
    BY <2>1 DEF Say, PrepareNotice, SettleNotice, TurnGate, storage, world
  <2>2. ASSUME NEW k \in 1..MaxCommands, Accept(k) \/ Revoke(k)
        PROVE  UNCHANGED <<storage, purger, erased>>
    BY <2>2 DEF Accept, Revoke, storage, world
  <2>3. ASSUME NEW i \in Input,
               \/ Capture(i) \/ Expire(i) \/ LeaseLapses(i) \/ Recover(i) \/ SendReply(i)
               \/ ReplyAnswered(i) \/ SuppressReply(i) \/ OfficialReport(i)
        PROVE  UNCHANGED <<storage, purger, erased>>
    BY <2>3 DEF Capture, Expire, LeaseLapses, Recover, SendReply, ReplyAnswered,
                SuppressReply, OfficialReport, storage, world
  <2> QED BY <1>2, <2>1, <2>2, <2>3 DEF Outside
<1>3. ASSUME NEW w \in Worker, WorkerStep(w) \/ Crash(w)
      PROVE  \/ UNCHANGED <<storage, purger, erased>>
             \/ Begin(w) \/ Post(w) \/ Finish(w) \/ Reopen(w)
  BY <1>3 DEF WorkerStep, Authorise, Refuse, Download, Unknown, Reserve, Transcribe, Settle,
              Stage, Extract, Complete, Denied, Failed, Crash, storage, world
<1>4. ASSUME NEW w \in Worker, NEW i \in Input, Claim(w, i)
      PROVE  UNCHANGED <<storage, purger, erased>>
  BY <1>4 DEF Claim, storage, world
<1> QED BY <1>1, <1>2, <1>3, <1>4, NextCases

LEMMA StoreTypeStep ==
    ASSUME Base, [Next]_vars PROVE StoreType'
<1>0. StoreType
  BY DEF Base
<1>1. CASE UNCHANGED <<storage, purger, erased>>
  BY <1>0, <1>1 DEF storage, StoreType
<1>2. CASE Erase
  BY <1>0, <1>2 DEF Erase, StoreType
<1>3. CASE PurgeRemove \/ PurgeFinish
  <2>1. Resting \in [at : {"idle", "remove", "finish"}, job : Input \cup {None}]
    BY DEF Resting
  <2> QED BY <1>0, <1>3, <2>1 DEF PurgeRemove, PurgeFinish, StoreType, storage
<1>4. ASSUME NEW i \in Input, PurgeClaim(i) PROVE StoreType'
  <2>1. purger' \in [at : {"idle", "remove", "finish"}, job : Input \cup {None}]
    BY <1>4 DEF PurgeClaim
  <2> QED BY <1>0, <1>4, <2>1 DEF PurgeClaim, StoreType, storage
<1>5. ASSUME NEW i \in Input, Land(i) \/ Clean(i, TRUE) \/ Clean(i, FALSE) PROVE StoreType'
  BY <1>0, <1>5 DEF Land, Clean, StoreType
<1>6. ASSUME NEW i \in Input, WitnessRead(i) \/ WitnessRelease(i) PROVE StoreType'
  BY <1>0, <1>6 DEF WitnessRead, WitnessRelease, StoreType
<1>7. ASSUME NEW w \in Worker, Begin(w) \/ Post(w) \/ Finish(w) \/ Reopen(w) PROVE StoreType'
  BY <1>0, <1>7 DEF Begin, Post, Finish, Reopen, Reopened, StoreType
<1> QED BY <1>1, <1>2, <1>3, <1>4, <1>5, <1>6, <1>7, StoreCases

LEMMA WorldTypeStep ==
    ASSUME WorldType, [Next]_vars PROVE WorldType'
<1>1. CASE UNCHANGED vars
  BY <1>1 DEF vars, WorldType
<1>2. CASE Outside
  <2>1. CASE \/ Say \/ PrepareNotice \/ SettleNotice \/ TurnGate \/ PurgeRemove \/ PurgeFinish
             \/ Erase
    BY <2>1 DEF Say, PrepareNotice, SettleNotice, TurnGate, PurgeRemove, PurgeFinish, Erase,
                WorldType, world
  <2>2. ASSUME NEW k \in 1..MaxCommands, Accept(k) \/ Revoke(k) PROVE WorldType'
    BY <2>2 DEF Accept, Revoke, WorldType, world
  <2>3. ASSUME NEW i \in Input,
               \/ Capture(i) \/ Expire(i) \/ LeaseLapses(i) \/ Land(i) \/ Recover(i)
               \/ SendReply(i) \/ ReplyAnswered(i) \/ SuppressReply(i) \/ OfficialReport(i)
               \/ PurgeClaim(i) \/ Clean(i, TRUE) \/ Clean(i, FALSE) \/ WitnessRead(i)
               \/ WitnessRelease(i)
        PROVE  WorldType'
    BY <2>3 DEF Capture, Expire, LeaseLapses, Land, Recover, SendReply, ReplyAnswered,
                SuppressReply, OfficialReport, PurgeClaim, Clean, WitnessRead, WitnessRelease,
                HandOff, WorldType, world
  <2> QED BY <1>2, <2>1, <2>2, <2>3 DEF Outside
<1>3. ASSUME NEW w \in Worker, WorkerStep(w) PROVE WorldType'
  BY <1>3 DEF WorkerStep, Authorise, Refuse, Download, Begin, Post, Finish, Unknown, Reserve,
              Transcribe, Settle, Stage, Extract, Complete, Reopen, Denied, Failed, HandOff,
              Transcribed, WorldType, world
<1>4. ASSUME NEW w \in Worker, Crash(w) PROVE WorldType'
  BY <1>4, BoundsAssumption DEF Crash, WorldType
<1>5. ASSUME NEW w \in Worker, NEW i \in Input, Claim(w, i) PROVE WorldType'
  BY <1>5 DEF Claim, WorldType, world
<1> QED BY <1>1, <1>2, <1>3, <1>4, <1>5, NextCases

-----------------------------------------------------------------------------
(* Who holds a row, and what was paid for it *)

LEMMA RowKeeps ==
    ASSUME NEW j \in Input, Effect(j)
    PROVE  /\ row[j].state \notin Fresh => row'[j].state \notin Fresh
           /\ row[j].state \notin Fresh /\ (row[j].version = "v2" \/ row[j].state = "apagada")
                => row'[j].version = "v2" \/ row'[j].state = "apagada"
           /\ row[j].state # "nova" => row'[j].state # "nova"
<1>1. CASE Rests(j)
  BY <1>1 DEF Rests, Keeps
<1>2. CASE Ends(j)
  BY <1>2 DEF Ends, Keeps, Fresh, Absent
<1>3. CASE Starts(j)
  BY <1>3 DEF Starts, Fresh
<1>4. CASE IsTaken(j) \/ Tells(j)
  BY <1>4 DEF IsTaken, Tells, Keeps, Fresh
<1>5. CASE Shelved(j)
  BY <1>5 DEF Shelved, Fresh, Live, Absent
<1>6. CASE IsGone(j)
  BY <1>6 DEF IsGone, Fresh, NoRow
<1> QED BY <1>1, <1>2, <1>3, <1>4, <1>5, <1>6 DEF Effect

LEMMA JobStep ==
    ASSUME Base, StoreInv, [Next]_vars PROVE JobInv'
<1>1. RowType' /\ (\A j \in Input : Effect(j)) /\ WorkersMove
  BY NextEffect, WorkEffect DEF RowsMove
<1>2. \A w \in Worker : worker[w].at = "idle" => worker[w] = Idle
  BY DEF Base, JobInv
<1>3. \A w \in Worker : worker[w].at # "idle" =>
        /\ worker[w].job \in Input
        /\ row[worker[w].job].state \notin Fresh
        /\ row[worker[w].job].version = "v2" \/ row[worker[w].job].state = "apagada"
  BY DEF Base, JobInv
<1>4. \A v, w \in Worker : worker[v].job = worker[w].job /\ worker[w].at # "idle" => v = w
  BY DEF Base, JobInv
<1>5. None \notin Input
  BY BoundsAssumption
<1>6. ASSUME NEW w \in Worker, worker[w].at # "idle"
      PROVE  /\ row'[worker[w].job].state \notin Fresh
             /\ row'[worker[w].job].version = "v2" \/ row'[worker[w].job].state = "apagada"
  BY <1>1, <1>3, <1>6, RowKeeps
<1>7. CASE UNCHANGED worker
  BY <1>2, <1>3, <1>4, <1>6, <1>7 DEF JobInv
<1>8. ASSUME NEW w \in Worker, Others(w), LetsGo(w) PROVE JobInv'
  <2>1. ASSUME NEW v \in Worker
        PROVE  IF worker'[v].at = "idle" THEN worker'[v] = Idle
               ELSE /\ worker'[v].job \in Input
                    /\ row'[worker'[v].job].state \notin Fresh
                    /\ \/ row'[worker'[v].job].version = "v2"
                       \/ row'[worker'[v].job].state = "apagada"
    BY <1>2, <1>3, <1>6, <1>8, IdleFacts DEF Others, LetsGo
  <2>2. ASSUME NEW u \in Worker, NEW v \in Worker, worker'[u].job = worker'[v].job,
               worker'[v].at # "idle"
        PROVE  u = v
    BY <1>2, <1>3, <1>4, <1>5, <1>8, <2>2, IdleFacts DEF Others, LetsGo
  <2> QED BY <2>1, <2>2 DEF JobInv
<1>9. ASSUME NEW w \in Worker, Others(w), MovesOn(w) PROVE JobInv'
  <2>1. ASSUME NEW v \in Worker
        PROVE  IF worker'[v].at = "idle" THEN worker'[v] = Idle
               ELSE /\ worker'[v].job \in Input
                    /\ row'[worker'[v].job].state \notin Fresh
                    /\ \/ row'[worker'[v].job].version = "v2"
                       \/ row'[worker'[v].job].state = "apagada"
    <3>1. CASE v = w
      BY <1>3, <1>6, <1>9, <3>1 DEF MovesOn
    <3>2. CASE v # w
      BY <1>2, <1>3, <1>6, <1>9, <3>2 DEF Others
    <3> QED BY <3>1, <3>2
  <2>2. ASSUME NEW u \in Worker, NEW v \in Worker, worker'[u].job = worker'[v].job,
               worker'[v].at # "idle"
        PROVE  u = v
    <3>1. \A x \in Worker : worker'[x].job = worker[x].job
                            /\ (worker'[x].at # "idle" => worker[x].at # "idle")
      BY <1>9 DEF Others, MovesOn
    <3> QED BY <1>4, <2>2, <3>1
  <2> QED BY <2>1, <2>2 DEF JobInv
<1>10. ASSUME NEW w \in Worker, Others(w), TakesUp(w) PROVE JobInv'
  <2>1. PICK i \in Input :
          /\ row[i].state = "pendente" /\ row'[i].state = "processando"
          /\ worker'[w] = [Idle EXCEPT !.at = "download", !.job = i]
    BY <1>10 DEF TakesUp
  <2>2. worker'[w].at = "download" /\ worker'[w].job = i /\ worker[w] = Idle
    BY <1>10, <2>1 DEF Idle, TakesUp
  <2>3. row'[i].version = "v2"
    BY <1>1, <2>1 DEF Effect, Rests, Ends, Starts, IsTaken, Tells, Shelved, IsGone, Keeps,
                      Live, Absent, NoRow, Base, RowInv
  <2>4. \A v \in Worker : v # w => worker'[v] = worker[v] /\ worker[v].job # i
    <3>1. ASSUME NEW v \in Worker, v # w, worker[v].job = i PROVE FALSE
      <4>1. CASE worker[v].at = "idle"
        BY <1>2, <1>5, <3>1, <4>1, IdleFacts
      <4>2. CASE worker[v].at # "idle"
        BY <1>3, <2>1, <3>1, <4>2 DEF Fresh
      <4> QED BY <4>1, <4>2
    <3> QED BY <1>10, <3>1 DEF Others
  <2>5. ASSUME NEW v \in Worker
        PROVE  IF worker'[v].at = "idle" THEN worker'[v] = Idle
               ELSE /\ worker'[v].job \in Input
                    /\ row'[worker'[v].job].state \notin Fresh
                    /\ \/ row'[worker'[v].job].version = "v2"
                       \/ row'[worker'[v].job].state = "apagada"
    <3>1. CASE v = w
      BY <2>1, <2>2, <2>3, <3>1 DEF Fresh
    <3>2. CASE v # w
      BY <1>2, <1>3, <1>6, <2>4, <3>2
    <3> QED BY <3>1, <3>2
  <2>6. ASSUME NEW u \in Worker, NEW v \in Worker, worker'[u].job = worker'[v].job,
               worker'[v].at # "idle"
        PROVE  u = v
    BY <1>4, <2>2, <2>4, <2>6
  <2> QED BY <2>5, <2>6 DEF JobInv
<1> QED BY <1>1, <1>7, <1>8, <1>9, <1>10 DEF WorkersMove

LEMMA PaidStep ==
    ASSUME Base, StoreInv, MoneyType, PaidInv, [Next]_vars PROVE PaidInv'
<1>1. (\A j \in Input : Effect(j)) /\ WorkersMove
  BY NextEffect, WorkEffect DEF RowsMove
<1>2. \A j \in Input : row'[j].state \in Fresh => row[j].state \in Fresh
  BY <1>1, RowKeeps
<1>3. /\ \A i \in Input : calls[i] <= 1 /\ (row[i].state \in Fresh => calls[i] = 0)
      /\ \A w \in Worker : worker[w].at \in Unpaid => calls[worker[w].job] = 0
  BY DEF PaidInv
<1>4. ASSUME NEW w \in Worker, Transcribe(w) PROVE PaidInv'
  <2> DEFINE i == Job(w)
  <2>1. /\ worker[w].at = "transcribe" /\ calls' = [calls EXCEPT ![i] = @ + 1]
        /\ UNCHANGED row
    BY <1>4 DEF Transcribe
  <2>2. /\ i \in Input /\ row[i].state \notin Fresh
        /\ \A v \in Worker : worker[v].job = i => v = w
    BY <2>1, JobFacts DEF Base, Job
  <2>3. calls[i] = 0 /\ calls'[i] = 1
    BY <1>3, <2>1, <2>2 DEF Job, Unpaid, MoneyType
  <2>4. \A j \in Input : j # i => calls'[j] = calls[j]
    BY <2>1 DEF MoneyType
  <2>5. Others(w) /\ worker'[w].at \notin Unpaid
    <3>1. "settle" \in Steps /\ WorkType
      BY DEF Steps, Base
    <3> QED BY <1>4, <3>1, PaidFacts DEF Transcribe, Unpaid
  <2>6. \A j \in Input : calls'[j] <= 1 /\ (row'[j].state \in Fresh => calls'[j] = 0)
    BY <1>3, <2>1, <2>2, <2>3, <2>4
  <2>7. ASSUME NEW v \in Worker, worker'[v].at \in Unpaid PROVE calls'[worker'[v].job] = 0
    <3>1. v # w /\ worker'[v] = worker[v] /\ worker[v].job # i
      BY <2>2, <2>5, <2>7 DEF Others
    <3>2. worker[v].at # "idle"
      BY <2>7, <3>1 DEF Unpaid
    <3>3. worker[v].job \in Input
      BY <3>2, JobFacts DEF Base, Job
    <3> QED BY <1>3, <2>4, <2>7, <3>1, <3>3
  <2> QED BY <2>6, <2>7 DEF PaidInv
<1>5. CASE UNCHANGED calls
  <2>1. \A i \in Input : calls'[i] <= 1 /\ (row'[i].state \in Fresh => calls'[i] = 0)
    BY <1>2, <1>3, <1>5
  <2>2. ASSUME NEW v \in Worker, worker'[v].at \in Unpaid PROVE calls[worker'[v].job] = 0
    <3>1. CASE worker'[v] = worker[v]
      BY <1>3, <2>2, <3>1
    <3>2. CASE LetsGo(v)
      BY <2>2, <3>2, IdleFacts DEF LetsGo, Unpaid
    <3>3. CASE MovesOn(v)
      BY <1>3, <2>2, <3>3 DEF MovesOn
    <3>4. CASE TakesUp(v)
      <4>1. PICK i \in Input :
              row[i].state = "pendente" /\ worker'[v] = [Idle EXCEPT !.at = "download", !.job = i]
        BY <3>4 DEF TakesUp
      <4>2. worker'[v].job = i
        BY <4>1 DEF Idle
      <4> QED BY <1>3, <4>1, <4>2 DEF Fresh
    <3> QED BY <1>1, <3>1, <3>2, <3>3, <3>4 DEF WorkersMove, Others
  <2> QED BY <1>5, <2>1, <2>2 DEF PaidInv
<1>6. UNCHANGED calls \/ \E w \in Worker : Transcribe(w)
  BY MoneyCases DEF money, Erase, Reserve, Settle, Stage, Extract, Complete
<1> QED BY <1>4, <1>5, <1>6

-----------------------------------------------------------------------------
(* What may still be said *)

LEMMA RowInvStep ==
    ASSUME Base, StoreInv, [Next]_vars PROVE RowInv'
<1>1. RowType' /\ \A j \in Input : Effect(j)
  BY NextEffect DEF RowsMove
<1>2. ASSUME NEW j \in Input
      PROVE  /\ row'[j].state = "nova" => row'[j] = NoRow
             /\ row'[j].version # "v2" => row'[j].state \notin {"pendente", "processando"}
                                          /\ out'[j] \notin Unsent
             /\ row'[j].purge = "pendente" \/ row'[j].state = "purgada" => row'[j].version # "v2"
  <2>1. /\ row[j].state = "nova" => row[j] = NoRow
        /\ row[j].version # "v2" => row[j].state \notin {"pendente", "processando"}
                                    /\ out[j] \notin Unsent
        /\ row[j].purge = "pendente" \/ row[j].state = "purgada" => row[j].version # "v2"
    BY DEF Base, RowInv
  <2>2. CASE Rests(j)
    BY <2>1, <2>2 DEF Rests, Keeps
  <2>3. CASE Ends(j)
    BY <2>1, <2>3 DEF Ends, Keeps
  <2>4. CASE Starts(j)
    BY <2>4 DEF Starts
  <2>5. CASE IsTaken(j) \/ Tells(j)
    BY <2>1, <2>5 DEF IsTaken, Tells, Keeps
  <2>6. CASE Shelved(j)
    BY <2>1, <2>6 DEF Shelved, Live, Absent
  <2>7. CASE IsGone(j)
    BY <2>7 DEF IsGone, NoRow
  <2> QED BY <1>1, <2>2, <2>3, <2>4, <2>5, <2>6, <2>7 DEF Effect
<1> QED BY <1>2 DEF RowInv

LEMMA SilenceStep ==
    ASSUME Base, StoreInv, [Next]_vars PROVE SilenceInv'
<1>1. (\A j \in Input : Effect(j)) /\ WorkersMove
  BY NextEffect, WorkEffect DEF RowsMove
<1>2. /\ \A i \in Input : out[i] \in Unsent => row[i].state \in {"processando", "transcrita"}
      /\ \A w \in Worker : worker[w].at \in Early => out[worker[w].job] \notin Unsent
      /\ \A i \in Input, k \in heard : said[k] = "revoke" /\ k > row[i].consent =>
            row[i].state \notin {"pendente", "processando"} /\ out[i] \notin Unsent
  BY DEF Base, SilenceInv, RevokedMeansSilent
<1>3. ASSUME NEW i \in Input, out'[i] \in Unsent
      PROVE  row'[i].state \in {"processando", "transcrita"}
  BY <1>1, <1>2, <1>3 DEF Effect, Rests, Ends, Starts, IsTaken, Tells, Shelved, IsGone, Unsent
<1>4. ASSUME NEW v \in Worker, worker'[v].at \in Early PROVE out'[worker'[v].job] \notin Unsent
  <2>0. worker'[v].at # "idle"
    BY <1>4 DEF Early, Unpaid
  <2>1. CASE worker[v].at # "idle" /\ worker[v].at \in Early /\ worker'[v].job = worker[v].job
    <3> DEFINE i == worker[v].job
    <3>1. /\ i \in Input /\ out[i] \notin Unsent
          /\ \A w \in Worker : Job(w) = i => w = v
      BY <1>2, <2>1, JobFacts DEF Base, Job
    <3>2. Effect(i) /\ ~Tells(i)
      BY <1>1, <1>4, <3>1 DEF Tells
    <3> HIDE DEF i
    <3>3. out'[i] \notin Unsent
      BY <3>1, <3>2 DEF Effect, Rests, Ends, Starts, IsTaken, Shelved, IsGone
    <3> QED BY <2>1, <3>3 DEF i
  <2>2. CASE TakesUp(v)
    <3>1. PICK i \in Input : /\ row[i].state = "pendente"
                             /\ worker'[v] = [Idle EXCEPT !.at = "download", !.job = i]
      BY <2>2 DEF TakesUp
    <3>2. worker'[v].job = i /\ out[i] \notin Unsent
      BY <1>2, <3>1 DEF Idle
    <3>3. out'[i] \notin Unsent
      BY <1>1, <3>1, <3>2 DEF Effect, Rests, Ends, Starts, IsTaken, Tells, Shelved, IsGone
    <3> QED BY <3>2, <3>3
  <2>3. \/ TakesUp(v)
        \/ worker[v].at # "idle" /\ worker[v].at \in Early /\ worker'[v].job = worker[v].job
    <3>1. CASE worker'[v] = worker[v]
      BY <1>4, <2>0, <3>1
    <3>2. CASE LetsGo(v)
      BY <2>0, <3>2, IdleFacts DEF LetsGo
    <3>3. CASE MovesOn(v)
      BY <1>4, <3>3 DEF MovesOn
    <3> QED BY <1>1, <3>1, <3>2, <3>3 DEF WorkersMove, Others
  <2> QED BY <2>1, <2>2, <2>3
<1>5. CASE \A k \in heard' : said'[k] = "revoke" => k \in heard /\ said[k] = "revoke"
  <2>1. ASSUME NEW i \in Input, NEW k \in heard', said'[k] = "revoke", k > row'[i].consent
        PROVE  row'[i].state \notin {"pendente", "processando"} /\ out'[i] \notin Unsent
    <3>1. k \in heard /\ said[k] = "revoke" /\ k \in Nat
      BY <1>5, <2>1 DEF Base, TalkType
    <3>2. Effect(i) /\ RowType' /\ RowType
      BY <1>1, NextEffect DEF RowsMove, Base
    <3>3. CASE Rests(i)
      BY <1>2, <2>1, <3>1, <3>3 DEF Rests, Keeps
    <3>4. CASE Ends(i)
      BY <3>4 DEF Ends
    <3>5. CASE Starts(i)
      <4>1. row'[i].consent \in Nat
        BY <3>2 DEF RowType, Row
      <4> QED BY <2>1, <3>1, <3>5, <4>1 DEF Starts
    <3>6. CASE IsTaken(i) \/ Tells(i)
      <4>1. row[i].consent \in Nat
        BY <3>2 DEF RowType, Row
      <4>2. Heeded(i) /\ Keeps(i)
        BY <3>6 DEF IsTaken, Tells
      <4> QED BY <2>1, <3>1, <4>1, <4>2 DEF Heeded, Keeps
    <3>7. CASE Shelved(i)
      BY <3>7 DEF Shelved, Live
    <3>8. CASE IsGone(i)
      BY <3>8 DEF IsGone, NoRow
    <3> QED BY <3>2, <3>3, <3>4, <3>5, <3>6, <3>7, <3>8 DEF Effect
  <2> QED BY <1>3, <1>4, <2>1 DEF SilenceInv, RevokedMeansSilent
<1>6. ASSUME NEW k \in 1..MaxCommands, Revoke(k) PROVE SilenceInv'
  <2>1. \A j \in Input : row'[j].state \notin Live /\ out'[j] \notin Unsent
    BY <1>6, CancelEffect DEF Revoke
  <2> QED BY <1>3, <1>4, <2>1 DEF SilenceInv, RevokedMeansSilent, Live
<1>7. \/ \A k \in heard' : said'[k] = "revoke" => k \in heard /\ said[k] = "revoke"
      \/ \E k \in 1..MaxCommands : Revoke(k)
  <2>1. CASE UNCHANGED <<said, heard>>
    BY <2>1
  <2>2. CASE Say
    <3>1. PICK c \in {"accept", "revoke"} : said' = Append(said, c) /\ heard' = heard
      BY <2>2 DEF Say
    <3>2. \A k \in heard : said'[k] = said[k]
      BY <3>1 DEF Base, TalkType
    <3> QED BY <3>1, <3>2
  <2>3. ASSUME NEW k \in 1..MaxCommands, Accept(k)
        PROVE  \A j \in heard' : said'[j] = "revoke" => j \in heard /\ said[j] = "revoke"
    BY <2>3 DEF Accept
  <2>4. \/ UNCHANGED <<said, heard>> \/ Say
        \/ \E k \in 1..MaxCommands : Accept(k) \/ Revoke(k)
    BY TalkCases DEF PrepareNotice, SettleNotice, talk
  <2> QED BY <2>1, <2>2, <2>3, <2>4
<1> QED BY <1>5, <1>6, <1>7

-----------------------------------------------------------------------------
(* What stands in storage *)

\* A worker that has not posted yet: nobody has posted for its audio.
LEMMA NotPosted ==
    ASSUME Base, StoreInv, UploadInv, [Next]_vars, NEW v \in Worker,
           worker'[v].at \in {"download", "begin", "post"}
    PROVE  /\ worker'[v].job \in Input /\ post[worker'[v].job] = "none"
           /\ worker'[v].at = "post" => Begin(v) \/ owner[worker'[v].job]
           /\ \A w \in Worker : worker[w].at # "idle" /\ Job(w) = worker'[v].job =>
                w = v /\ worker[w].at \in {"download", "begin", "post"}
<1>1. WorkersMove
  BY WorkEffect
<1>2. CASE worker'[v] = worker[v] \/ MovesOn(v)
  <2>1. /\ worker[v].at \in {"download", "begin", "post"}
        /\ worker'[v].job = Job(v)
        /\ worker'[v].at = "post" => worker[v].at = "post" \/ Begin(v)
    <3>1. CASE worker'[v] = worker[v]
      BY <3>1 DEF Job
    <3>2. CASE MovesOn(v)
      BY <3>2 DEF MovesOn, Begin, Job
    <3> QED BY <1>2, <3>1, <3>2
  <2>2. Job(v) \in Input /\ \A w \in Worker : Job(w) = Job(v) => w = v
    BY <2>1, JobFacts DEF Base
  <2>3. post[Job(v)] = "none" /\ (worker[v].at = "post" => owner[Job(v)])
    BY <2>1 DEF UploadInv, Job
  <2> QED BY <2>1, <2>2, <2>3
<1>3. CASE TakesUp(v)
  <2>1. PICK i \in Input :
          row[i].state = "pendente" /\ worker'[v] = [Idle EXCEPT !.at = "download", !.job = i]
    BY <1>3 DEF TakesUp
  <2>2. worker'[v].job = i /\ worker'[v].at = "download"
    BY <2>1 DEF Idle
  <2>3. post[i] = "none"
    BY <2>1 DEF StoreInv, Fresh
  <2>4. \A w \in Worker : worker[w].at # "idle" => Job(w) # i
    BY <2>1, JobFacts DEF Base, Fresh
  <2> QED BY <2>1, <2>2, <2>3, <2>4
<1>4. CASE LetsGo(v)
  BY <1>4, IdleFacts DEF LetsGo
<1> QED BY <1>1, <1>2, <1>3, <1>4 DEF WorkersMove, Others

LEMMA UploadStep ==
    ASSUME Base, StoreInv, UploadInv, WorldType, [Next]_vars PROVE UploadInv'
<1> DEFINE Good(i) == /\ post[i] = "flying" => owner[i]
                      /\ i \in seen => post[i] = "landed"
                      /\ task[i] = "concluida" => ~blob[i] /\ ~owner[i]
                      /\ task[i] # "nenhuma" => erased
           Early0 == {"download", "begin", "post"}
           Ready(v) == /\ worker'[v].at = "post" => owner'[worker'[v].job]
                       /\ worker'[v].at \in Early0 => post'[worker'[v].job] = "none"
<1>0. StoreType /\ \A i \in Input : Good(i)
  BY DEF Base, UploadInv
<1>1. \A v \in Worker : worker'[v].at \in Early0 =>
        /\ worker'[v].job \in Input /\ post[worker'[v].job] = "none"
        /\ worker'[v].at = "post" => Begin(v) \/ owner[worker'[v].job]
        /\ \A w \in Worker : worker[w].at # "idle" /\ Job(w) = worker'[v].job =>
             w = v /\ worker[w].at \in Early0
  BY NotPosted
<1>2. ASSUME \A i \in Input : Good(i)', \A v \in Worker : Ready(v)
      PROVE  UploadInv'
  BY <1>2 DEF UploadInv
<1>3. CASE UNCHANGED <<storage, purger, erased>>
  <2>1. UNCHANGED <<blob, post, owner, task, seen, erased>>
    BY <1>3 DEF storage
  <2>2. \A i \in Input : Good(i)'
    BY <1>0, <2>1
  <2>3. ASSUME NEW v \in Worker PROVE Ready(v)
    <3>1. ~Begin(v)
      BY <2>1, JobFacts DEF Begin, Go, Base, WorkType, WorkerState, StoreType
    <3> QED BY <1>1, <2>1, <3>1
  <2> QED BY <1>2, <2>2, <2>3
<1>4. CASE Erase \/ PurgeRemove \/ PurgeFinish \/ \E i \in Input : PurgeClaim(i)
  <2>1. UNCHANGED <<post, owner, seen, worker>>
    BY <1>4 DEF Erase, PurgeRemove, PurgeFinish, PurgeClaim, storage
  <2>2. ASSUME NEW i \in Input PROVE Good(i)'
    <3>1. CASE Erase
      BY <1>0, <3>1 DEF Erase, StoreType
    <3>2. CASE PurgeRemove \/ PurgeFinish \/ \E j \in Input : PurgeClaim(j)
      <4>1. UNCHANGED <<task, erased>>
        BY <3>2 DEF PurgeRemove, PurgeFinish, PurgeClaim, storage, world
      <4>2. blob'[i] => blob[i]
        BY <1>0, <3>2 DEF PurgeRemove, PurgeFinish, PurgeClaim, storage, StoreType
      <4> QED BY <1>0, <2>1, <4>1, <4>2
    <3> QED BY <1>4, <3>1, <3>2
  <2>3. ASSUME NEW v \in Worker PROVE Ready(v)
    BY <2>1 DEF UploadInv
  <2> QED BY <1>2, <2>2, <2>3
<1>5. ASSUME NEW j \in Input, Land(j) PROVE UploadInv'
  <2>1. ASSUME NEW i \in Input PROVE Good(i)'
    BY <1>0, <1>5 DEF Land, StoreType, world
  <2>2. ASSUME NEW v \in Worker PROVE Ready(v)
    <3>1. post[j] = "flying" /\ UNCHANGED <<owner, worker>> /\ post' = [post EXCEPT ![j] = post'[j]]
      BY <1>0, <1>5 DEF Land, StoreType
    <3>2. \A i \in Input : post[i] = "none" => post'[i] = "none"
      BY <1>0, <3>1 DEF StoreType
    <3> QED BY <1>1, <3>1, <3>2 DEF UploadInv
  <2> QED BY <1>2, <2>1, <2>2
<1>6. ASSUME NEW j \in Input, Clean(j, TRUE) \/ Clean(j, FALSE) \/ WitnessRead(j)
      PROVE  UploadInv'
  <2>1. ASSUME NEW i \in Input PROVE Good(i)'
    <3>1. CASE Clean(j, TRUE) \/ Clean(j, FALSE)
      BY <1>0, <3>1 DEF Clean, StoreType, world
    <3>2. CASE WitnessRead(j)
      BY <1>0, <3>2 DEF WitnessRead, StoreType, world
    <3> QED BY <1>6, <3>1, <3>2
  <2>2. ASSUME NEW v \in Worker PROVE Ready(v)
    BY <1>6 DEF Clean, WitnessRead, UploadInv
  <2> QED BY <1>2, <2>1, <2>2
<1>7. ASSUME NEW j \in Input, WitnessRelease(j) PROVE UploadInv'
  <2>1. post[j] = "landed" /\ UNCHANGED <<post, blob, task, worker, erased>>
    BY <1>0, <1>7 DEF WitnessRelease, world
  <2>2. ASSUME NEW i \in Input
        PROVE  /\ owner'[i] => owner[i]
               /\ i # j => owner'[i] = owner[i]
               /\ i \in seen' => i \in seen
    BY <1>0, <1>7 DEF WitnessRelease, StoreType
  <2>3. ASSUME NEW i \in Input PROVE Good(i)'
    BY <1>0, <2>1, <2>2
  <2>4. ASSUME NEW v \in Worker PROVE Ready(v)
    <3>1. worker'[v].at \in Early0 => worker'[v].job # j
      BY <1>1, <2>1
    <3> QED BY <1>1, <2>1, <2>2, <3>1 DEF UploadInv
  <2> QED BY <1>2, <2>3, <2>4
<1>8. ASSUME NEW w \in Worker, Begin(w) \/ Post(w) \/ Finish(w) \/ Reopen(w) PROVE UploadInv'
  <2> DEFINE j == Job(w)
  <2>0. j \in Input /\ worker[w].at # "idle"
    BY <1>8, JobFacts DEF Base, Begin, Post, Finish, Reopen
  <2>1. CASE Begin(w)
    <3>1. /\ UNCHANGED <<blob, post, task, seen, erased>>
          /\ owner' = owner \/ (owner' = [owner EXCEPT ![j] = TRUE] /\ ~erased)
      BY <2>1 DEF Begin, world
    <3>2. ASSUME NEW i \in Input PROVE Good(i)'
      BY <1>0, <3>1 DEF StoreType
    <3>3. \A i \in Input : owner[i] => owner'[i]
      BY <1>0, <3>1 DEF StoreType
    <3>4. worker'[w].at = "post" => owner'[j] /\ worker'[w].job = j
      BY <1>0, <2>0, <2>1 DEF Begin, Go, Job, Base, WorkType, WorkerState, StoreType
    <3>5. ASSUME NEW v \in Worker PROVE Ready(v)
      <4>1. CASE v = w
        BY <1>1, <3>1, <3>4, <4>1
      <4>2. CASE v # w
        <5>1. worker'[v] = worker[v]
          BY <2>1, <4>2 DEF Begin, Go, Base, WorkType
        <5> QED BY <1>1, <3>1, <3>3, <5>1 DEF UploadInv
      <4> QED BY <4>1, <4>2
    <3> QED BY <1>2, <3>2, <3>5
  <2>2. CASE Post(w)
    <3>1. /\ UNCHANGED <<blob, owner, task, seen, erased>> /\ worker[w].at = "post"
          /\ post' = [post EXCEPT ![j] = "flying"] /\ Go(w, "posting")
      BY <2>2 DEF Post, world
    <3>2. owner[j] /\ post[j] = "none"
      BY <3>1 DEF UploadInv, Job
    <3>3. ASSUME NEW i \in Input PROVE Good(i)'
      BY <1>0, <2>0, <3>1, <3>2 DEF StoreType
    <3>4. worker'[w].at = "posting" /\ ~\E v \in Worker : Begin(v)
      <4>1. worker'[w].at = "posting"
        BY <3>1 DEF Go, Base, WorkType, WorkerState
      <4>2. post'[j] = "flying"
        BY <1>0, <2>0, <3>1 DEF StoreType
      <4>3. post' # post
        BY <3>2, <4>2
      <4> QED BY <4>1, <4>3 DEF Begin
    <3>5. ASSUME NEW v \in Worker PROVE Ready(v)
      <4>1. CASE v = w
        BY <3>4, <4>1
      <4>2. CASE v # w /\ worker'[v].at \in Early0
        <5>1. worker'[v].job # j
          BY <1>1, <2>0, <4>2
        <5> QED BY <1>0, <1>1, <3>1, <3>4, <4>2, <5>1 DEF StoreType
      <4> QED BY <4>1, <4>2
    <3> QED BY <1>2, <3>3, <3>5
  <2>3. CASE Finish(w) \/ Reopen(w)
    <3>1. /\ UNCHANGED <<blob, post, seen, erased>>
          /\ owner' = owner \/ (owner' = [owner EXCEPT ![j] = FALSE] /\ post[j] = "landed")
          /\ task' = task \/ task' = Reopened(j)
      BY <2>3 DEF Finish, Reopen, world
    <3>2. ASSUME NEW i \in Input PROVE Good(i)'
      BY <1>0, <2>0, <3>1 DEF StoreType, Reopened
    <3>3. ~\E v \in Worker : worker'[v].at = "post" /\ Begin(v)
      BY <2>3 DEF Finish, Reopen, Begin, Go, Base, WorkType, WorkerState
    <3>4. ASSUME NEW v \in Worker PROVE Ready(v)
      <4>1. CASE worker'[v].at \in Early0
        <5>1. owner[worker'[v].job] => owner'[worker'[v].job]
          BY <1>0, <1>1, <3>1, <4>1 DEF StoreType
        <5> QED BY <1>1, <3>1, <3>3, <4>1, <5>1
      <4> QED BY <4>1
    <3> QED BY <1>2, <3>2, <3>4
  <2> QED BY <1>8, <2>1, <2>2, <2>3
<1> QED BY <1>3, <1>4, <1>5, <1>6, <1>7, <1>8, StoreCases

\* How far one step can change what stands and what is to be removed.
LEMMA StoreEffect ==
    ASSUME StoreType, [Next]_vars, NEW i \in Input
    PROVE  /\ task[i] # "nenhuma" => task'[i] # "nenhuma"
           /\ blob'[i] /\ task[i] = "pendente" => task'[i] = "pendente"
           /\ blob'[i] => blob[i] \/ Land(i)
           /\ post'[i] # "none" => post[i] # "none" \/ \E w \in Worker : Post(w) /\ Job(w) = i
<1>1. CASE UNCHANGED <<storage, purger, erased>>
  BY <1>1 DEF storage
<1>2. CASE Erase \/ PurgeRemove \/ PurgeFinish \/ \E j \in Input : PurgeClaim(j)
  <2>1. CASE Erase
    BY <2>1 DEF Erase, StoreType
  <2>2. CASE PurgeRemove
    <3>1. UNCHANGED <<task, post>> /\ (blob' = blob \/ blob' = [blob EXCEPT ![purger.job] = FALSE])
      BY <2>2 DEF PurgeRemove
    <3> QED BY <3>1 DEF StoreType
  <2>3. CASE PurgeFinish \/ \E j \in Input : PurgeClaim(j)
    BY <2>3 DEF PurgeFinish, PurgeClaim, storage
  <2> QED BY <1>2, <2>1, <2>2, <2>3
<1>3. ASSUME NEW j \in Input, Land(j)
      PROVE  /\ UNCHANGED task /\ (blob'[i] => blob[i] \/ Land(i))
             /\ post'[i] # "none" => post[i] # "none"
  BY <1>3 DEF Land, StoreType
<1>4. ASSUME NEW j \in Input, Clean(j, TRUE) \/ Clean(j, FALSE)
      PROVE  /\ UNCHANGED post /\ (blob'[i] => blob[i])
             /\ task[i] # "nenhuma" => task'[i] # "nenhuma"
             /\ blob'[i] /\ task[i] = "pendente" => task'[i] = "pendente"
  BY <1>4 DEF Clean, StoreType
<1>5. ASSUME NEW j \in Input, WitnessRead(j) \/ WitnessRelease(j)
      PROVE  UNCHANGED <<blob, post, task>>
  BY <1>5 DEF WitnessRead, WitnessRelease
<1>6. ASSUME NEW w \in Worker, Begin(w) \/ Finish(w) \/ Reopen(w)
      PROVE  /\ UNCHANGED <<blob, post>> /\ (task[i] # "nenhuma" => task'[i] # "nenhuma")
             /\ task[i] = "pendente" => task'[i] = "pendente"
  BY <1>6 DEF Begin, Finish, Reopen, Reopened, StoreType
<1>7. ASSUME NEW w \in Worker, Post(w)
      PROVE  /\ UNCHANGED <<blob, task>> /\ (post'[i] # "none" => post[i] # "none" \/ Job(w) = i)
  BY <1>7 DEF Post, StoreType
<1> QED BY <1>1, <1>2, <1>3, <1>4, <1>5, <1>6, <1>7, StoreCases

LEMMA StoreStep ==
    ASSUME Base, StoreInv, UploadInv, [Next]_vars PROVE StoreInv'
<1>1. RowType' /\ StoreType' /\ \A j \in Input : Effect(j)
  BY NextEffect, StoreTypeStep DEF RowsMove
<1>2. StoreType
  BY DEF Base
<1>3. \A i \in Input :
        /\ post[i] # "none" => row[i].version = "v2" \/ row[i].state = "apagada"
        /\ post[i] # "none" => row[i].state \notin Fresh
        /\ row[i].state = "apagada" => task[i] # "nenhuma"
        /\ blob[i] => row[i].state \notin Absent \cup {"purgada"} \/ task[i] = "pendente"
  BY DEF StoreInv, NoStrandedObject
<1>4. ASSUME NEW i \in Input, Land(i)
      PROVE  /\ row' = row /\ (row[i].version = "v2" \/ row[i].state = "apagada")
             /\ row[i].state \notin Absent \cup {"purgada"} \/ task'[i] = "pendente"
  <2>1. row' = row /\ task' = task /\ post[i] = "flying"
    BY <1>4 DEF Land
  <2>2. task[i] # "concluida" /\ task[i] \in {"nenhuma", "pendente", "concluida"}
    BY <1>2, <2>1 DEF UploadInv, StoreType
  <2>3. row[i].version = "v2" \/ row[i].state = "apagada"
    BY <1>3, <2>1
  <2>4. CASE row[i].state = "apagada"
    BY <1>3, <2>1, <2>2, <2>3, <2>4
  <2>5. CASE row[i].state # "apagada"
    BY <2>1, <2>3, <2>5 DEF Base, RowInv, NoRow, Absent
  <2> QED BY <2>1, <2>3, <2>4, <2>5
<1>5. ASSUME NEW i \in Input
      PROVE  /\ post'[i] # "none" => row'[i].version = "v2" \/ row'[i].state = "apagada"
             /\ post'[i] # "none" => row'[i].state \notin Fresh
  <2>1. ASSUME post'[i] # "none"
        PROVE  /\ row[i].state \notin Fresh
               /\ row[i].version = "v2" \/ row[i].state = "apagada"
    <3>1. CASE post[i] # "none"
      BY <1>3, <3>1
    <3>2. ASSUME NEW w \in Worker, Post(w), Job(w) = i
          PROVE  /\ row[i].state \notin Fresh
                 /\ row[i].version = "v2" \/ row[i].state = "apagada"
      BY <3>2, JobFacts DEF Base, Post
    <3> QED BY <1>2, <2>1, <3>1, <3>2, StoreEffect
  <2> QED BY <1>1, <2>1, RowKeeps
<1>6. ASSUME NEW i \in Input, row'[i].state = "apagada" PROVE task'[i] # "nenhuma"
  <2>1. row[i].state = "apagada" \/ IsGone(i)
    BY <1>1, <1>6 DEF Effect, Rests, Ends, Starts, IsTaken, Tells, Shelved, Live, Absent
  <2> QED BY <1>2, <1>3, <2>1, StoreEffect DEF IsGone
<1>7. ASSUME NEW i \in Input, blob'[i]
      PROVE  row'[i].state \notin Absent \cup {"purgada"} \/ task'[i] = "pendente"
  <2>1. CASE Land(i)
    BY <1>4, <2>1
  <2>2. CASE blob[i] /\ task[i] = "pendente"
    BY <1>2, <1>7, <2>2, StoreEffect
  <2>3. CASE blob[i] /\ row[i].state \notin Absent \cup {"purgada"}
    <3>1. CASE Rests(i) \/ Ends(i) \/ IsTaken(i) \/ Tells(i)
      BY <2>3, <3>1 DEF Rests, Ends, IsTaken, Tells, Absent
    <3>2. CASE Starts(i)
      BY <2>3, <3>2 DEF Starts, Absent
    <3>3. CASE Shelved(i)
      <4>1. ~(purger.at = "finish" /\ purger.job = i)
        BY <2>3 DEF StoreInv, Absent
      <4> QED BY <2>3, <3>3, <4>1 DEF Shelved, Absent
    <3>4. CASE IsGone(i)
      BY <3>4 DEF IsGone
    <3> QED BY <1>1, <3>1, <3>2, <3>3, <3>4 DEF Effect
  <2> QED BY <1>2, <1>3, <1>7, <2>1, <2>2, <2>3, StoreEffect
<1>8. ASSUME purger'.at # "idle"
      PROVE  /\ purger'.job \in Input
             /\ row'[purger'.job].state # "nova" /\ row'[purger'.job].version # "v2"
             /\ purger'.at = "finish" /\ row'[purger'.job].state # "apagada"
                  => ~blob'[purger'.job]
  <2>1. CASE UNCHANGED purger
    <3> DEFINE i == purger.job
    <3>1. /\ i \in Input /\ row[i].state # "nova" /\ row[i].version # "v2"
          /\ purger.at = "finish" /\ row[i].state # "apagada" => ~blob[i]
      BY <1>8, <2>1 DEF StoreInv
    <3> HIDE DEF i
    <3>2. row'[i].state # "nova" /\ row'[i].version # "v2"
      BY <1>1, <3>1 DEF Effect, Rests, Ends, Starts, IsTaken, Tells, Shelved, IsGone, Keeps,
                        NoRow, Live, Absent
    <3>3. row'[i].state # "apagada" => row[i].state # "apagada"
      BY <1>1, <3>1 DEF Effect, Rests, Ends, Starts, IsTaken, Tells, Shelved, IsGone, Absent
    <3>4. blob'[i] => blob[i] \/ row[i].state = "apagada"
      BY <1>2, <1>4, <3>1, StoreEffect
    <3> QED BY <2>1, <3>1, <3>2, <3>3, <3>4 DEF i
  <2>2. ASSUME NEW i \in Input, PurgeClaim(i)
        PROVE  /\ purger'.job = i /\ purger'.at = "remove"
               /\ row'[i].state # "nova" /\ row'[i].version # "v2"
    <3>1. /\ purger' = [at |-> "remove", job |-> i] /\ row[i].state # "nova"
          /\ row[i].version # "v2"
      BY <2>2 DEF PurgeClaim, Absent
    <3> QED BY <1>1, <3>1 DEF Effect, Rests, Ends, Starts, IsTaken, Tells, Shelved, IsGone,
                              Keeps, NoRow, Live, Absent
  <2>3. CASE PurgeRemove
    <3>1. CASE purger' = Resting
      BY <1>8, <3>1 DEF Resting
    <3>2. CASE /\ purger' = [purger EXCEPT !.at = "finish"]
               /\ blob' = [blob EXCEPT ![purger.job] = FALSE]
      <4>1. /\ purger.job \in Input /\ row[purger.job].state # "nova"
            /\ row[purger.job].version # "v2" /\ UNCHANGED row
        BY <2>3 DEF PurgeRemove, StoreInv
      <4>2. purger'.job = purger.job
        BY <1>2, <3>2 DEF StoreType
      <4> QED BY <1>2, <3>2, <4>1, <4>2 DEF StoreType
    <3> QED BY <2>3, <3>1, <3>2 DEF PurgeRemove
  <2>4. CASE PurgeFinish
    BY <1>8, <2>4 DEF PurgeFinish, Resting
  <2>5. UNCHANGED purger \/ PurgeRemove \/ PurgeFinish \/ \E i \in Input : PurgeClaim(i)
    BY StoreCases DEF Erase, Land, Clean, WitnessRead, WitnessRelease, Begin, Post, Finish, Reopen
  <2> QED BY <1>8, <2>1, <2>2, <2>3, <2>4, <2>5
<1> QED BY <1>5, <1>6, <1>7, <1>8 DEF StoreInv, NoStrandedObject

-----------------------------------------------------------------------------
(* Money *)

Free(at, cost) == at \in {"transcribe", "extract"} \/ cost = 0

\* What one dispatcher's move does to the two sets.
LEMMA SetsMove ==
    ASSUME NEW w \in Worker, Others(w)
    PROVE  /\ worker'[w].at \notin Paying => Holding' = Holding \ {w} /\ Unspent' = Unspent \ {w}
           /\ worker'[w].at \in Paying => Holding' = Holding \cup {w}
           /\ worker'[w].at \in Paying /\ Free(worker'[w].at, worker'[w].cost) =>
                Unspent' = Unspent \cup {w}
           /\ worker'[w].at \in Paying /\ ~Free(worker'[w].at, worker'[w].cost) =>
                Unspent' = Unspent \ {w}
<1>1. Holding' = {v \in Worker : worker'[v].at \in Paying}
  BY DEF Holding, Paying
<1>2. Unspent' = {v \in Worker : worker'[v].at \in Paying /\ Free(worker'[v].at, worker'[v].cost)}
  BY DEF Unspent, Holding, Paying, Free
<1>3. Holding = {v \in Worker : worker[v].at \in Paying}
  BY DEF Holding, Paying
<1>4. Unspent = {v \in Worker : worker[v].at \in Paying /\ Free(worker[v].at, worker[v].cost)}
  BY DEF Unspent, Holding, Paying, Free
<1>5. \A v \in Worker : v # w => worker'[v] = worker[v]
  BY DEF Others
<1> HIDE DEF Free, Paying
<1> QED BY <1>1, <1>2, <1>3, <1>4, <1>5

LEMMA SetsFinite ==
    ASSUME MoneyInv
    PROVE  /\ IsFiniteSet(Holding) /\ IsFiniteSet(Unspent) /\ Unspent \subseteq Holding
           /\ Cardinality(Holding) \in Nat /\ Cardinality(Unspent) \in Nat
<1>1. IsFiniteSet(Holding) /\ Unspent \subseteq Holding
  BY DEF MoneyInv, Unspent
<1>2. IsFiniteSet(Unspent)
  BY <1>1, FS_Subset
<1> QED BY <1>1, <1>2, FS_CardinalityType

\* A dispatcher that makes no claim on the budget.
LEMMA MoneyIdle ==
    ASSUME MoneyInv, UNCHANGED <<budget, spent, overrun>>, NEW w \in Worker, Others(w),
           \/ worker'[w].at \notin Paying
           \/ worker'[w].at = worker[w].at /\ worker'[w].cost = worker[w].cost
    PROVE  MoneyInv'
<1>1. Holding' \subseteq Holding /\ Unspent' \subseteq Unspent
  <2>1. CASE worker'[w].at \notin Paying
    BY <2>1, SetsMove
  <2>2. CASE worker'[w].at = worker[w].at /\ worker'[w].cost = worker[w].cost
    BY <2>2 DEF Holding, Unspent, Others
  <2> QED BY <2>1, <2>2
<1>2. /\ IsFiniteSet(Holding') /\ Cardinality(Holding') <= Cardinality(Holding)
      /\ Cardinality(Unspent') <= Cardinality(Unspent)
      /\ Cardinality(Holding') \in Nat /\ Cardinality(Unspent') \in Nat
  BY <1>1, SetsFinite, FS_Subset, FS_CardinalityType
<1>3. /\ budget.reserved \in Nat /\ budget.settled \in Nat
      /\ spent \in Nat /\ overrun \in Nat /\ Due \in Nat
      /\ Cardinality(Holding) <= budget.reserved
      /\ Due + Cardinality(Unspent) <= budget.reserved + budget.settled
      /\ budget \in [reserved : Nat, settled : Nat]
      /\ budget.reserved + budget.settled <= DailyLimit
  BY DEF MoneyInv
<1>4. Cardinality(Holding') <= budget.reserved
  BY <1>2, <1>3, SetsFinite
<1>5. Due' = Due
  BY DEF Due
<1>6. Due' + Cardinality(Unspent') <= budget.reserved + budget.settled
  BY <1>2, <1>3, <1>5, SetsFinite
<1> QED BY <1>2, <1>3, <1>4, <1>5, <1>6 DEF MoneyInv

\* A reservation: one unit more, held and unspent.
LEMMA MoneyReserve ==
    ASSUME MoneyInv, DayHasRoom, budget' = Reserved, UNCHANGED <<spent, overrun>>, NEW w \in Worker, Others(w),
           worker[w].at \notin Paying, worker'[w].at \in {"transcribe", "extract"}
    PROVE  MoneyInv'
<1>1. Holding' = Holding \cup {w} /\ Unspent' = Unspent \cup {w}
  BY SetsMove DEF Paying, Free
<1>2. w \notin Holding /\ w \notin Unspent
  BY DEF Holding, Unspent, Paying
<1>3. /\ IsFiniteSet(Holding') /\ Cardinality(Holding') = Cardinality(Holding) + 1
      /\ Cardinality(Unspent') = Cardinality(Unspent) + 1
  BY <1>1, <1>2, SetsFinite, FS_AddElement
<1>4. /\ budget'.reserved = budget.reserved + 1 /\ budget'.settled = budget.settled
      /\ budget' \in [reserved : Nat, settled : Nat]
  BY DEF MoneyInv, Reserved
<1>5. /\ budget.reserved \in Nat /\ budget.settled \in Nat
      /\ spent \in Nat /\ overrun \in Nat /\ Due \in Nat
      /\ Cardinality(Holding) <= budget.reserved
      /\ Due + Cardinality(Unspent) <= budget.reserved + budget.settled
      /\ budget.reserved + budget.settled + 1 <= DailyLimit
  BY DEF MoneyInv, DayHasRoom
<1>6. DailyLimit \in Nat /\ Due' = Due
  BY BoundsAssumption DEF Due
<1>7. /\ budget'.reserved + budget'.settled <= DailyLimit
      /\ Cardinality(Holding') <= budget'.reserved
      /\ Due' \in Nat /\ Due' + Cardinality(Unspent') <= budget'.reserved + budget'.settled
  BY <1>3, <1>4, <1>5, <1>6, SetsFinite
<1> QED BY <1>3, <1>4, <1>5, <1>7 DEF MoneyInv

\* A call: the unit is spent, or the answer was lost with it.
LEMMA MoneyPaid ==
    ASSUME MoneyInv, UNCHANGED budget, NEW w \in Worker, Others(w),
           worker[w].at \in {"transcribe", "extract"},
           NEW cost \in 0..2, spent' = spent + cost, overrun' = overrun + Above(cost),
           \/ worker'[w].at \in {"settle", "complete"} /\ worker'[w].cost = cost
           \/ worker'[w].at = "fail"
    PROVE  MoneyInv'
<1>0. spent \in Nat /\ overrun \in Nat /\ Due \in Nat
  BY DEF MoneyInv
<1>8. /\ spent' \in Nat /\ overrun' \in Nat /\ Due' \in Nat
      /\ Due' = IF cost = 0 THEN Due ELSE Due + 1
  BY <1>0 DEF Due, Above
<1>1. w \in Holding /\ w \in Unspent
  BY DEF Holding, Unspent
<1>2. /\ IsFiniteSet(Holding) /\ IsFiniteSet(Unspent)
      /\ Cardinality(Holding) \in Nat /\ Cardinality(Unspent) \in Nat
  BY SetsFinite
<1>3. /\ IsFiniteSet(Holding \ {w}) /\ Cardinality(Holding \ {w}) = Cardinality(Holding) - 1
      /\ Cardinality(Unspent \ {w}) = Cardinality(Unspent) - 1
  BY <1>1, <1>2, FS_RemoveElement
<1>4. /\ budget.reserved \in Nat /\ budget.settled \in Nat
      /\ spent \in Nat /\ overrun \in Nat /\ Due \in Nat
      /\ budget \in [reserved : Nat, settled : Nat]
      /\ Cardinality(Holding) <= budget.reserved
      /\ Due + Cardinality(Unspent) <= budget.reserved + budget.settled
      /\ budget.reserved + budget.settled <= DailyLimit
  BY DEF MoneyInv
<1>5. /\ IsFiniteSet(Holding') /\ Cardinality(Holding') <= Cardinality(Holding)
      /\ Due' + Cardinality(Unspent') <= Due + Cardinality(Unspent)
      /\ Cardinality(Holding') \in Nat
  <2>1. CASE worker'[w].at = "fail"
    <3>1. Holding' = Holding \ {w} /\ Unspent' = Unspent \ {w}
      BY <2>1, SetsMove DEF Paying
    <3>2. /\ IsFiniteSet(Holding') /\ Cardinality(Holding') = Cardinality(Holding) - 1
          /\ Cardinality(Unspent') = Cardinality(Unspent) - 1
      BY <1>3, <3>1
    <3>3. Cardinality(Holding') \in Nat
      BY <3>2, FS_CardinalityType
    <3> QED BY <1>2, <1>4, <1>8, <3>2, <3>3
  <2>2. CASE worker'[w].at \in {"settle", "complete"} /\ worker'[w].cost = cost /\ cost # 0
    <3>1. Holding' = Holding \cup {w} /\ Unspent' = Unspent \ {w}
      BY <2>2, SetsMove DEF Paying, Free
    <3>2. Holding' = Holding
      BY <1>1, <3>1
    <3>3. /\ IsFiniteSet(Holding') /\ Cardinality(Holding') = Cardinality(Holding)
          /\ Cardinality(Unspent') = Cardinality(Unspent) - 1
      BY <1>2, <1>3, <3>1, <3>2
    <3> QED BY <1>2, <1>4, <1>8, <2>2, <3>3
  <2>3. CASE worker'[w].at \in {"settle", "complete"} /\ worker'[w].cost = cost /\ cost = 0
    <3>1. Holding' = Holding \cup {w} /\ Unspent' = Unspent \cup {w}
      BY <2>3, SetsMove DEF Paying, Free
    <3>2. Holding' = Holding /\ Unspent' = Unspent
      BY <1>1, <3>1
    <3> QED BY <1>2, <1>4, <1>8, <2>3, <3>2
  <2> QED BY <2>1, <2>2, <2>3
<1>6. Cardinality(Holding') <= budget.reserved
  BY <1>2, <1>4, <1>5
<1>7. Due' + Cardinality(Unspent') <= budget.reserved + budget.settled
  <2>1. IsFiniteSet(Unspent')
    <3>1. Unspent' \subseteq Holding'
      BY DEF Unspent
    <3> QED BY <1>5, <3>1, FS_Subset
  <2>2. Cardinality(Unspent') \in Nat
    BY <2>1, FS_CardinalityType
  <2> QED BY <1>2, <1>4, <1>5, <1>8, <2>2
<1> QED BY <1>4, <1>5, <1>6, <1>7, <1>8 DEF MoneyInv

\* A settlement: the unit becomes what the call cost.
LEMMA MoneySettle ==
    ASSUME MoneyInv, NEW w \in Worker, Others(w), worker[w].at \in {"settle", "complete"},
           worker[w].cost \in 0..1, worker'[w].at \notin Paying,
           budget' = Settled(worker[w].cost), UNCHANGED <<spent, overrun>>
    PROVE  MoneyInv'
<1>1. w \in Holding /\ (w \in Unspent <=> worker[w].cost = 0)
  BY DEF Holding, Unspent
<1>2. /\ IsFiniteSet(Holding) /\ IsFiniteSet(Unspent)
      /\ Cardinality(Holding) \in Nat /\ Cardinality(Unspent) \in Nat
  BY SetsFinite
<1>3. Holding' = Holding \ {w} /\ Unspent' = Unspent \ {w}
  BY SetsMove
<1>4. /\ IsFiniteSet(Holding') /\ Cardinality(Holding') = Cardinality(Holding) - 1
      /\ Cardinality(Unspent') = IF worker[w].cost = 0 THEN Cardinality(Unspent) - 1
                                                       ELSE Cardinality(Unspent)
  BY <1>1, <1>2, <1>3, FS_RemoveElement
<1>5. /\ budget.reserved \in Nat /\ budget.settled \in Nat
      /\ spent \in Nat /\ overrun \in Nat /\ Due \in Nat
      /\ budget \in [reserved : Nat, settled : Nat]
      /\ Cardinality(Holding) <= budget.reserved
      /\ Due + Cardinality(Unspent) <= budget.reserved + budget.settled
      /\ budget.reserved + budget.settled <= DailyLimit
  BY DEF MoneyInv
<1>6. Cardinality(Holding') \in Nat
  BY <1>4, FS_CardinalityType
<1>7. budget.reserved - 1 \in Nat
  BY <1>2, <1>4, <1>5, <1>6
<1>8. /\ budget'.reserved = budget.reserved - 1
      /\ budget'.settled = budget.settled + worker[w].cost
      /\ budget' \in [reserved : Nat, settled : Nat]
  <2>1. budget.settled + worker[w].cost \in Nat
    BY <1>5
  <2>2. budget' = [reserved |-> budget.reserved - 1,
                   settled |-> budget.settled + worker[w].cost]
    BY <1>5 DEF Settled
  <2> QED BY <1>7, <2>1, <2>2
<1>9. DailyLimit \in Nat /\ Due' = Due
  BY BoundsAssumption DEF Due
<1>10. /\ budget'.reserved + budget'.settled <= DailyLimit
       /\ Cardinality(Holding') <= budget'.reserved
       /\ Due' + Cardinality(Unspent') <= budget'.reserved + budget'.settled
  <2>1. CASE worker[w].cost = 0
    BY <1>2, <1>4, <1>5, <1>8, <1>9, <2>1
  <2>2. CASE worker[w].cost = 1
    BY <1>2, <1>4, <1>5, <1>8, <1>9, <2>2
  <2> QED BY <2>1, <2>2
<1> QED BY <1>4, <1>5, <1>8, <1>9, <1>10 DEF MoneyInv

LEMMA MoneyStep ==
    ASSUME Base, StoreInv, MoneyInv, [Next]_vars PROVE MoneyInv'
<1>0. WorkType
  BY DEF Base
<1>1. ASSUME NEW w \in Worker, Reserve(w) PROVE MoneyInv'
  <2>0. worker[w].at = "reserve" /\ "fail" \in Steps /\ "transcribe" \in Steps /\ UNCHANGED <<spent, overrun>>
    BY <1>1 DEF Reserve, Steps
  <2>1. CASE Go(w, "fail") /\ UNCHANGED budget
    <3>1. Others(w) /\ worker'[w].at \notin Paying
      BY <1>0, <2>0, <2>1, GoFacts DEF Paying
    <3> QED BY <2>0, <2>1, <3>1, MoneyIdle
  <2>2. CASE Go(w, "transcribe") /\ DayHasRoom /\ budget' = Reserved
    <3>1. Others(w) /\ worker'[w].at = "transcribe" /\ worker[w].at \notin Paying
      BY <1>0, <2>0, <2>2, GoFacts DEF Paying
    <3> QED BY <2>0, <2>2, <3>1, MoneyReserve
  <2> QED BY <1>1, <2>1, <2>2 DEF Reserve
<1>2. ASSUME NEW w \in Worker, Transcribe(w) \/ Extract(w) PROVE MoneyInv'
  <2>1. PICK a \in {"settle", "complete"} : Paid(w, a)
    BY <1>2 DEF Transcribe, Extract
  <2>2. UNCHANGED budget /\ worker[w].at \in {"transcribe", "extract"} /\ a \in Steps
    BY <1>2 DEF Transcribe, Extract, Steps
  <2>3. Others(w)
    BY <1>0, <2>1, <2>2, PaidFacts
  <2>4. PICK cost \in 0..2 :
          /\ spent' = spent + cost /\ overrun' = overrun + Above(cost)
          /\ (worker'[w].at = a /\ worker'[w].cost = cost) \/ worker'[w].at = "fail"
    BY <1>0, <2>1, <2>2, PaidFacts
  <2> QED BY <2>1, <2>2, <2>3, <2>4, MoneyPaid
<1>3. ASSUME NEW w \in Worker, Settle(w) PROVE MoneyInv'
  <2>0. /\ worker[w].at = "settle" /\ "fail" \in Steps /\ "stage" \in Steps /\ UNCHANGED <<spent, overrun>>
    BY <1>3 DEF Settle, Steps
  <2>1. CASE Go(w, "fail") /\ UNCHANGED budget
    <3>1. Others(w) /\ worker'[w].at \notin Paying
      BY <1>0, <2>0, <2>1, GoFacts DEF Paying
    <3> QED BY <2>0, <2>1, <3>1, MoneyIdle
  <2>2. CASE Go(w, "stage") /\ budget' = Settled(worker[w].cost) /\ worker[w].cost <= 1
    <3>0. worker[w].cost \in 0..1
      BY <1>0, <2>2 DEF WorkType, WorkerState
    <3>1. Others(w) /\ worker'[w].at \notin Paying
      BY <1>0, <2>0, <2>2, GoFacts DEF Paying
    <3> QED BY <2>0, <2>2, <3>0, <3>1, MoneySettle
  <2> QED BY <1>3, <2>1, <2>2 DEF Settle
<1>4. ASSUME NEW w \in Worker, Stage(w) PROVE MoneyInv'
  <2>0. worker[w].at = "stage" /\ "fail" \in Steps /\ "extract" \in Steps /\ UNCHANGED <<spent, overrun>>
    BY <1>4 DEF Stage, Steps
  <2>1. CASE (Rest(w) \/ Go(w, "fail")) /\ UNCHANGED budget
    <3>1. Others(w) /\ worker'[w].at \notin Paying
      BY <1>0, <2>0, <2>1, GoFacts, RestFacts, IdleFacts DEF Paying
    <3> QED BY <2>0, <2>1, <3>1, MoneyIdle
  <2>2. CASE Go(w, "extract") /\ DayHasRoom /\ budget' = Reserved
    <3>1. Others(w) /\ worker'[w].at = "extract" /\ worker[w].at \notin Paying
      BY <1>0, <2>0, <2>2, GoFacts DEF Paying
    <3> QED BY <2>0, <2>2, <3>1, MoneyReserve
  <2> QED BY <1>4, <2>1, <2>2 DEF Stage
<1>5. ASSUME NEW w \in Worker, Complete(w) PROVE MoneyInv'
  <2>0. /\ worker[w].at = "complete" /\ UNCHANGED <<spent, overrun>> /\ worker[w].cost \in 0..2
        /\ Others(w) /\ worker'[w].at \notin Paying
    BY <1>0, <1>5, RestFacts, IdleFacts DEF Complete, WorkType, WorkerState, Paying
  <2>1. UNCHANGED budget \/ (budget' = Settled(worker[w].cost) /\ worker[w].cost <= 1)
    BY <1>5, Zenon DEF Complete
  <2>2. worker[w].cost <= 1 => worker[w].cost \in 0..1
    BY <2>0
  <2> QED BY <2>0, <2>1, <2>2, MoneyIdle, MoneySettle
<1>6. CASE UNCHANGED <<budget, spent, overrun>> /\ ~\E w \in Worker : PayStep(w)
  <2>1. CASE UNCHANGED worker
    BY <1>6, <2>1 DEF MoneyInv, Due, Holding, Unspent
  <2>2. ASSUME NEW w \in Worker, Others(w), LetsGo(w) \/ MovesOn(w) \/ TakesUp(w)
        PROVE  MoneyInv'
    <3>1. \/ worker'[w].at \notin Paying
          \/ worker'[w].at = worker[w].at /\ worker'[w].cost = worker[w].cost
      BY <1>6, <2>2, IdleFacts DEF LetsGo, MovesOn, TakesUp, Idle, Paying
    <3> QED BY <1>6, <2>2, <3>1, MoneyIdle
  <2> QED BY <2>1, <2>2, WorkEffect DEF WorkersMove
<1>7. (UNCHANGED <<budget, spent, overrun>> /\ ~\E w \in Worker : PayStep(w)) \/ \E w \in Worker : PayStep(w)
  <2>1. CASE UNCHANGED money \/ Erase
    BY <2>1 DEF money, Erase
  <2>2. UNCHANGED money \/ Erase \/ \E w \in Worker : PayStep(w)
    BY MoneyCases DEF PayStep
  <2> QED BY <2>1, <2>2
<1> QED BY <1>1, <1>2, <1>3, <1>4, <1>5, <1>6, <1>7 DEF PayStep

-----------------------------------------------------------------------------
(* The invariant *)

LEMMA InitInvariant == Init => AudioInv
<1> SUFFICES ASSUME Init PROVE AudioInv
  OBVIOUS
<1>0. /\ MaxCommands \in Nat \ {0} /\ DailyLimit \in Nat /\ MaxCrashes \in Nat
      /\ None \notin Input /\ Legacy \subseteq Input
  BY BoundsAssumption
<1>1. /\ NoRow.state = "nova" /\ NoRow.version = "none" /\ NoRow.purge = "ativa"
      /\ NoRow.consent = 0
      /\ OldRow.state = "transcrita" /\ OldRow.version = "v1" /\ OldRow.purge = "ativa"
      /\ OldRow.consent = 0
  BY DEF NoRow, OldRow
<1>2. NoRow \in Row /\ OldRow \in Row
  <2>1. 0 \in 0..MaxCommands
    BY <1>0
  <2> QED BY <2>1 DEF NoRow, OldRow, Row, Absent, Live, Reasons
<1>3. RowType /\ OutType
  BY <1>2 DEF Init, RowType, OutType, Replies
<1>4. WorkType /\ \A w \in Worker : worker[w] = Idle
  BY IdleFacts DEF Init, WorkType
<1>5. TalkType
  <2>1. CASE said = <<"accept">> /\ heard = {1} /\ notice = [state |-> "entregue", at |-> 0]
    <3>1. Len(said) = 1 /\ DOMAIN said = {1} /\ said \in Seq({"accept", "revoke"})
      BY <2>1
    <3> QED BY <1>0, <2>1, <3>1 DEF TalkType
  <2>2. CASE said = <<>> /\ heard = {} /\ notice = [state |-> "none", at |-> 0]
    BY <1>0, <2>2 DEF TalkType
  <2> QED BY <2>1, <2>2 DEF Init
<1>6. MoneyType /\ WorldType
  <2>1. MoneyType
    BY DEF Init, MoneyType
  <2>2. human = FALSE /\ erased = FALSE /\ gate = TRUE /\ crashes = 0
    BY DEF Init
  <2>3. crashes \in 0..MaxCrashes
    BY <1>0, <2>2
  <2> QED BY <2>1, <2>2, <2>3 DEF WorldType
<1>7. StoreType
  <2>0. /\ blob = [i \in Input |-> i \in Legacy]
        /\ post = [i \in Input |-> "none"] /\ owner = [i \in Input |-> FALSE]
        /\ task = [i \in Input |-> "nenhuma"] /\ seen = {}
        /\ purger = [at |-> "idle", job |-> None]
    BY DEF Init, Resting
  <2>1. blob \in [Input -> BOOLEAN]
    <3>1. \A i \in Input : (i \in Legacy) \in BOOLEAN
      OBVIOUS
    <3> QED BY <2>0, <3>1, Zenon
  <2>2. /\ post \in [Input -> {"none", "flying", "landed", "dropped"}]
        /\ owner \in [Input -> BOOLEAN]
        /\ task \in [Input -> {"nenhuma", "pendente", "concluida"}]
        /\ seen \subseteq Input
        /\ purger \in [at : {"idle", "remove", "finish"}, job : Input \cup {None}]
    BY <2>0
  <2> QED BY <2>1, <2>2 DEF StoreType
<1>8. JobInv
  BY <1>4, IdleFacts DEF JobInv
<1>9. PaidInv
  BY <1>4, IdleFacts DEF Init, PaidInv, Unpaid
<1>10. MoneyInv
  <2>1. Holding = {} /\ Unspent = {}
    BY <1>4, IdleFacts DEF Holding, Unspent
  <2>2. budget.reserved = 0 /\ budget.settled = 0 /\ spent = 0 /\ overrun = 0
        /\ budget \in [reserved : Nat, settled : Nat]
    BY DEF Init
  <2> QED BY <1>0, <2>1, <2>2, FS_EmptySet DEF MoneyInv, Due
<1>11. RowInv
  BY <1>1 DEF Init, RowInv, Unsent
<1>12. SilenceInv
  <2>1. \A k \in heard : said[k] # "revoke"
    BY DEF Init
  <2> QED BY <1>4, <2>1, IdleFacts
          DEF Init, SilenceInv, RevokedMeansSilent, Unsent, Early, Unpaid
<1>13. UploadInv
  BY <1>4, IdleFacts DEF Init, UploadInv
<1>14. StoreInv
  BY <1>0, <1>1 DEF Init, StoreInv, NoStrandedObject, Resting, Absent
<1> QED BY <1>3, <1>4, <1>5, <1>6, <1>7, <1>8, <1>9, <1>10, <1>11, <1>12, <1>13, <1>14
        DEF AudioInv, Types

LEMMA StepInvariant == AudioInv /\ [Next]_vars => AudioInv'
<1> SUFFICES ASSUME AudioInv, [Next]_vars PROVE AudioInv'
  OBVIOUS
<1>1. Base /\ StoreInv /\ MoneyType /\ WorldType /\ PaidInv /\ MoneyInv /\ UploadInv
  BY DEF AudioInv, Types, Base
<1>2. RowType' /\ OutType' /\ WorkType'
  BY <1>1, NextEffect, WorkEffect DEF RowsMove, WorkersMove
<1>3. TalkType' /\ MoneyType' /\ StoreType' /\ WorldType'
  BY <1>1, TalkTypeStep, MoneyTypeStep, StoreTypeStep, WorldTypeStep DEF Base
<1>4. JobInv' /\ PaidInv' /\ MoneyInv'
  BY <1>1, JobStep, PaidStep, MoneyStep
<1>5. RowInv' /\ SilenceInv' /\ UploadInv' /\ StoreInv'
  BY <1>1, RowInvStep, SilenceStep, UploadStep, StoreStep
<1> QED BY <1>2, <1>3, <1>4, <1>5 DEF AudioInv, Types

-----------------------------------------------------------------------------
(* The theorems *)

\* The invariant holds of every behaviour.
THEOREM Invariance == Spec => []AudioInv
<1>1. Init => AudioInv
  BY InitInvariant
<1>2. AudioInv /\ [Next]_vars => AudioInv'
  BY StepInvariant
<1> QED BY <1>1, <1>2, PTL DEF Spec

\* The tables and the processes keep their shapes.
THEOREM TypeCorrect == Spec => []TypeOK
<1>1. AudioInv => TypeOK
  <2> SUFFICES ASSUME AudioInv PROVE TypeOK
    OBVIOUS
  <2>1. budget \in [reserved : 0..DailyLimit, settled : 0..DailyLimit]
    <3>1. /\ budget \in [reserved : Nat, settled : Nat] /\ DailyLimit \in Nat
          /\ budget.reserved + budget.settled <= DailyLimit
      BY BoundsAssumption DEF AudioInv, MoneyInv
    <3>2. budget.reserved \in 0..DailyLimit /\ budget.settled \in 0..DailyLimit
      BY <3>1
    <3> QED BY <3>1, <3>2
  <2>2. spent \in Nat /\ overrun \in Nat
    BY DEF AudioInv, MoneyInv
  <2>3. RowType /\ OutType /\ WorkType /\ TalkType /\ MoneyType /\ StoreType /\ WorldType
    BY DEF AudioInv, Types
  <2> QED
    BY <2>1, <2>2, <2>3 DEF TypeOK, RowType, OutType, WorkType, TalkType, MoneyType, StoreType,
       WorldType, Row, Replies, WorkerState, Reasons
<1> QED BY <1>1, Invariance, PTL

\* A claim is the last time an audio can be paid for, whoever dies or recovers
\* (_claim_next_audio_input, _recover_expired_audio_handoff).
THEOREM PaidAtMostOnce == Spec => []PaidOnce
<1>1. AudioInv => PaidOnce
  BY DEF AudioInv, PaidInv, PaidOnce
<1> QED BY <1>1, Invariance, PTL

\* What the provider billed, every call up to its estimate, is reserved or
\* settled, and that stays within the day's ceiling, though a bill above its
\* estimate is refused (reserve_ and _settle_audio_transcription_budget).
THEOREM WithinBudget == Spec => []LedgerCoversEstimates
<1>1. AudioInv => LedgerCoversEstimates
  <2> SUFFICES ASSUME AudioInv PROVE LedgerCoversEstimates
    OBVIOUS
  <2>1. MoneyInv
    BY DEF AudioInv
  <2>2. Cardinality(Unspent) \in Nat
    BY <2>1, SetsFinite
  <2>3. /\ Due \in Nat /\ budget.reserved \in Nat /\ budget.settled \in Nat
        /\ Due + Cardinality(Unspent) <= budget.reserved + budget.settled
        /\ budget.reserved + budget.settled <= DailyLimit
    BY <2>1 DEF MoneyInv
  <2>4. Due <= budget.reserved + budget.settled
    BY <2>2, <2>3
  <2> QED BY <2>3, <2>4 DEF LedgerCoversEstimates, Due
<1> QED BY <1>1, Invariance, PTL

\* Nothing captured under an acceptance is left to run or to be sent after a
\* later revocation was recorded (record_audio_consent_command).
THEOREM Silence == Spec => []RevokedMeansSilent
<1>1. AudioInv => RevokedMeansSilent
  BY DEF AudioInv, SilenceInv
<1> QED BY <1>1, Invariance, PTL

\* A finished erasure stays true, however late an upload lands
\* (private_deletion_uploads).
THEOREM Erasure == Spec => []ErasedForGood
<1>1. AudioInv => ErasedForGood
  BY DEF AudioInv, UploadInv, ErasedForGood
<1> QED BY <1>1, Invariance, PTL

\* No object is left without a row that keeps it or a task that removes it
\* (private_delete_content, _finish_audio_purge).
THEOREM NothingStranded == Spec => []NoStrandedObject
<1>1. AudioInv => NoStrandedObject
  BY DEF AudioInv, StoreInv
<1> QED BY <1>1, Invariance, PTL

\* An audio that ended is never taken up again (the lease token of every write).
THEOREM EndIsFinal == Spec => EndedStays
<1>1. AudioInv /\ [Next]_vars
        => [\A i \in Input :
              row[i].state \in Ended => row'[i].state \in Ended \cup {"apagada"}]_vars
  <2> SUFFICES ASSUME AudioInv, [Next]_vars, NEW i \in Input, row[i].state \in Ended
               PROVE  row'[i].state \in Ended \cup {"apagada"}
    OBVIOUS
  <2>1. RowType' /\ Effect(i)
    BY NextEffect DEF AudioInv, Types, Base, RowsMove
  <2>2. row'[i].state \in Live \cup Ended \cup Absent
    BY <2>1 DEF RowType, Row
  <2>3. CASE Rests(i) \/ Ends(i)
    BY <2>3 DEF Rests, Ends
  <2>4. CASE Starts(i) \/ IsTaken(i) \/ Tells(i)
    BY <2>4 DEF Starts, IsTaken, Tells, Ended
  <2>5. CASE Shelved(i)
    BY <2>2, <2>5 DEF Shelved
  <2>6. CASE IsGone(i)
    BY <2>6 DEF IsGone, NoRow
  <2> QED BY <2>1, <2>3, <2>4, <2>5, <2>6 DEF Effect
<1> QED BY <1>1, Invariance, PTL DEF Spec, EndedStays

=============================================================================
