--------------------------- MODULE AgentReplyProofs ---------------------------
(***************************************************************************)
(* Theorems about AgentReply, for any workers, turns, retry budget and     *)
(* faults.  Every step of Next has a small effect on the ledger (Effect);  *)
(* the invariants of the ledger follow from the effect alone, and so does  *)
(* the refinement of OnceDelivery.  That an acknowledged claim is settled  *)
(* needs the execution lock and the places of the workers as well.         *)
(***************************************************************************)
EXTENDS AgentReply, TLAPS

-----------------------------------------------------------------------------
(* Types. *)

\* A worker on its way has a turn.
TurnHeld == \A w \in Worker : pc[w] \notin {"idle", "gone"} => turn[w] \in Turn

\* Only open claims are owned, and they have an attempt left.
Budget ==
    \A t \in Turn :
        /\ owner[t] # NoWorker => claim[t] = "open"
        /\ claim[t] = "open" => attempts[t] < MaxAttempts

Types == TypeOK /\ TurnHeld /\ Budget

LEMMA FencedRows ==
    ASSUME NEW rows \in [Turn -> ReplyState]
    PROVE  /\ Fenced(rows) \in [Turn -> ReplyState]
           /\ \A t \in Turn :
                 /\ rows[t] \in Unsent => Fenced(rows)[t] = "SUPPRESSED"
                 /\ rows[t] = "IN_FLIGHT" => Fenced(rows)[t] = "AMBIGUOUS"
                 /\ rows[t] \notin Unsent \cup {"IN_FLIGHT"} => Fenced(rows)[t] = rows[t]
  BY DEF Fenced, ReplyState, Unsent, Terminal

\* A claim check only moves its worker.
LEMMA GuardTypes ==
    ASSUME Types, NEW w \in Worker, NEW place \in PC, NEW pass \in PC, NEW fail \in PC,
           place \notin {"idle", "gone"}, GuardAt(w, place, pass, fail)
    PROVE  Types'
  BY DEF Types, TypeOK, TurnHeld, Budget, GuardAt, Guard, Goto, Ending, Result,
         ledger, others, conversation, queue, history

LEMMA TypesInit == Init => Types
  <1> SUFFICES ASSUME Init PROVE Types
    OBVIOUS
  <1>1. attempts \in [Turn -> 0 .. MaxAttempts] /\ Budget
    BY ReplyAssumption DEF Init, Budget
  <1>2. optout \in BOOLEAN /\ estado \in {"ia", "humano"}
    BY DEF Init
  <1> QED
    BY <1>1, <1>2 DEF Init, Types, TypeOK, TurnHeld, ReplyState, SendState, PC, Result

LEMMA ConfirmRows ==
    ASSUME Types, NEW w \in Worker, Confirm(w)
    PROVE  /\ row' \in [Turn -> ReplyState]
           /\ \A t \in Turn :
                 \/ row'[t] = row[t]
                 \/ row[t] \in Unsent /\ row'[t] = "SUPPRESSED"
                 \/ row[t] = "IN_FLIGHT" /\ row'[t] = "AMBIGUOUS"
                 \/ t = turn[w] /\ row[t] = "IN_FLIGHT" /\ row'[t] = "CONFIRMED"
           /\ estado' = estado \/ \A t \in Turn : row'[t] \notin Unsent \cup {"IN_FLIGHT"}
  <1> DEFINE rows == [row EXCEPT ![turn[w]] = "CONFIRMED"]
  <1>1. \/ row' = row /\ estado' = estado
        \/ row' = rows /\ estado' = estado /\ Row(w) = "IN_FLIGHT"
        \/ row' = Fenced(rows) /\ estado' = "humano" /\ Row(w) = "IN_FLIGHT"
    BY DEF Confirm, CanMove
  <1>2. rows \in [Turn -> ReplyState]
    BY DEF Types, TypeOK, ReplyState, Terminal
  <1>3. \A t \in Turn : rows[t] = row[t] \/ (t = turn[w] /\ rows[t] = "CONFIRMED")
    BY DEF Types, TypeOK
  <1> HIDE DEF rows
  <1>4. /\ Fenced(rows) \in [Turn -> ReplyState]
        /\ \A t \in Turn :
              /\ rows[t] \in Unsent => Fenced(rows)[t] = "SUPPRESSED"
              /\ rows[t] = "IN_FLIGHT" => Fenced(rows)[t] = "AMBIGUOUS"
              /\ rows[t] \notin Unsent \cup {"IN_FLIGHT"} => Fenced(rows)[t] = rows[t]
    BY <1>2, FencedRows
  <1>5. row' \in [Turn -> ReplyState]
    BY <1>1, <1>2, <1>4 DEF Types, TypeOK
  <1>6. ASSUME NEW t \in Turn
        PROVE  \/ row'[t] = row[t]
               \/ row[t] \in Unsent /\ row'[t] = "SUPPRESSED"
               \/ row[t] = "IN_FLIGHT" /\ row'[t] = "AMBIGUOUS"
               \/ t = turn[w] /\ row[t] = "IN_FLIGHT" /\ row'[t] = "CONFIRMED"
    BY <1>1, <1>3, <1>4 DEF Unsent, Row
  <1>7. estado' = estado \/ \A t \in Turn : row'[t] \notin Unsent \cup {"IN_FLIGHT"}
    BY <1>1, <1>2, <1>4 DEF Unsent
  <1> QED
    BY <1>5, <1>6, <1>7

LEMMA TypesExecute ==
    ASSUME Types, NEW w \in Worker, Execute(w)
    PROVE  Types'
  <1> USE ReplyAssumption
  <1>1. CASE FirstGuard(w)
    BY <1>1, GuardTypes DEF FirstGuard, PC, BeforeTools, AfterTools, Transport
  <1>2. CASE Reserve(w)
    <2>1. row' \in [Turn -> ReplyState]
      BY <1>2, FencedRows DEF Reserve, Reserved, Types, TypeOK, ReplyState, Unsent, Terminal
    <2> QED
      BY <1>2, <2>1 DEF Reserve, Reserved, Types, TypeOK, TurnHeld, Budget, Goto, Ending, Result, PC,
         BeforeTools, AfterTools, Transport, others, conversation, queue, history
  <1>3. CASE Acquire(w)
    BY <1>3 DEF Acquire, LockFree, Types, TypeOK, TurnHeld, Budget, Goto, Ending, Result, PC,
       ledger, conversation, queue, history
  <1>4. CASE Reload(w)
    BY <1>4 DEF Reload, Types, TypeOK, TurnHeld, Budget, Goto, Ending, Result, PC,
       ledger, others, conversation, queue, history
  <1>5. CASE BeginGuard(w)
    BY <1>5, GuardTypes DEF BeginGuard, PC, BeforeTools, AfterTools, Transport
  <1>6. CASE Begin(w)
    <2>1. row' \in [Turn -> ReplyState]
      BY <1>6 DEF Begin, Transition, Types, TypeOK, ReplyState, Unsent, Terminal
    <2> QED
      BY <1>6, <2>1 DEF Begin, Transition, Types, TypeOK, TurnHeld, Budget, Goto, Ending, Result, PC,
         BeforeTools, AfterTools, Transport, others, conversation, queue, history
  <1>7. CASE Reread(w)
    BY <1>7 DEF Reread, Types, TypeOK, TurnHeld, Budget, Goto, Ending, Result, PC,
       ledger, others, conversation, queue, history
  <1>8. CASE ToolsGuard(w)
    BY <1>8, GuardTypes DEF ToolsGuard, PC, BeforeTools, AfterTools, Transport
  <1>9. CASE Unbegin(w)
    <2>1. row' \in [Turn -> ReplyState]
      BY <1>9 DEF Unbegin, Transition, Types, TypeOK, ReplyState, Unsent, Terminal
    <2> QED
      BY <1>9, <2>1 DEF Unbegin, Transition, Types, TypeOK, TurnHeld, Budget, Goto, Ending, Result, PC,
         BeforeTools, AfterTools, Transport, others, conversation, queue, history
  <1>10. CASE RunTools(w)
    <2>1. row' \in [Turn -> ReplyState]
      BY <1>10, FencedRows DEF RunTools, Types, TypeOK, ReplyState, Unsent, Terminal
    <2>2. optout' \in BOOLEAN /\ estado' \in {"ia", "humano"}
      BY <1>10 DEF RunTools, Types, TypeOK, conversation
    <2>3. /\ pc[w] = "tools"
          /\ tools' = [tools EXCEPT ![turn[w]] = @ + 1]
          /\ Goto(w, "afterGuard") \/ Ending(w, "abort", "failed")
          /\ UNCHANGED <<send, lock, queue, posts, accepted>>
      BY <1>10 DEF RunTools
    <2> QED
      BY <2>1, <2>2, <2>3 DEF Types, TypeOK, TurnHeld, Budget, Goto, Ending, Result, PC,
         BeforeTools, AfterTools, Transport, others, conversation, queue, history
  <1>11. CASE AfterGuard(w)
    BY <1>11, GuardTypes DEF AfterGuard, PC, BeforeTools, AfterTools, Transport
  <1>12. CASE Silent(w)
    <2>1. row' \in [Turn -> ReplyState]
      BY <1>12 DEF Silent, Transition, Types, TypeOK, ReplyState, Unsent, Terminal
    <2> QED
      BY <1>12, <2>1 DEF Silent, Transition, Types, TypeOK, TurnHeld, Budget, Goto, Ending, Result, PC,
         BeforeTools, AfterTools, Transport, others, conversation, queue, history
  <1>13. CASE Prepare(w)
    <2>1. row' \in [Turn -> ReplyState]
      BY <1>13, FencedRows DEF Prepare, Prepared, Types, TypeOK, ReplyState, Unsent, Terminal
    <2> QED
      BY <1>13, <2>1 DEF Prepare, Prepared, Types, TypeOK, TurnHeld, Budget, Goto, Ending, Result, PC,
         BeforeTools, AfterTools, Transport, others, conversation, queue, history
  <1>14. CASE Abort(w)
    <2>1. row' \in [Turn -> ReplyState]
      BY <1>14 DEF Abort, Transition, Types, TypeOK, ReplyState, Unsent, Terminal
    <2> QED
      BY <1>14, <2>1 DEF Abort, Transition, Types, TypeOK, TurnHeld, Budget, Goto, Ending, Result, PC,
         BeforeTools, AfterTools, Transport, others, conversation, queue, history
  <1>15. CASE Unlock(w)
    BY <1>15 DEF Unlock, Types, TypeOK, TurnHeld, Budget, Goto, Ending, Result, PC,
       ledger, conversation, queue, history
  <1>16. CASE End(w)
    BY <1>16 DEF End, Exhausted, Disowned, Types, TypeOK, TurnHeld, Budget, Goto, Ending, Result, PC,
       ledger, conversation, queue, history
  <1> QED
    BY <1>1, <1>2, <1>3, <1>4, <1>5, <1>6, <1>7, <1>8, <1>9, <1>10, <1>11, <1>12, <1>13, <1>14, <1>15, <1>16 DEF Execute

LEMMA TypesDeliver ==
    ASSUME Types, NEW w \in Worker, Deliver(w)
    PROVE  Types'
  <1> USE ReplyAssumption
  <1>1. CASE Check(w)
    <2>1. row' \in [Turn -> ReplyState]
      BY <1>1, FencedRows DEF Check, Suppress, Types, TypeOK, ReplyState, Unsent, Terminal
    <2> QED
      BY <1>1, <2>1 DEF Check, Suppress, Types, TypeOK, TurnHeld, Budget, Goto, Ending, Result, PC,
         BeforeTools, AfterTools, Transport, others, conversation, queue, history
  <1>2. CASE SendGuard(w)
    BY <1>2, GuardTypes DEF SendGuard, PC, BeforeTools, AfterTools, Transport
  <1>3. CASE Send(w)
    <2>1. row' \in [Turn -> ReplyState]
      BY <1>3 DEF Send, MaySend, ledger, SendState, Types, TypeOK, ReplyState, Unsent, Terminal
    <2> QED
      BY <1>3, <2>1 DEF Send, MaySend, ledger, SendState, Types, TypeOK, TurnHeld, Budget, Goto, Ending, Result, PC,
         BeforeTools, AfterTools, Transport, others, conversation, queue, history
  <1>4. CASE Missed(w)
    <2>1. row' \in [Turn -> ReplyState]
      BY <1>4, FencedRows DEF Missed, Suppress, Types, TypeOK, ReplyState, Unsent, Terminal
    <2> QED
      BY <1>4, <2>1 DEF Missed, Suppress, Types, TypeOK, TurnHeld, Budget, Goto, Ending, Result, PC,
         BeforeTools, AfterTools, Transport, others, conversation, queue, history
  <1>5. CASE Precheck(w)
    <2>1. row' \in [Turn -> ReplyState]
      BY <1>5, FencedRows DEF Precheck, Suppress, Types, TypeOK, ReplyState, Unsent, Terminal
    <2> QED
      BY <1>5, <2>1 DEF Precheck, Suppress, Types, TypeOK, TurnHeld, Budget, Goto, Ending, Result, PC,
         BeforeTools, AfterTools, Transport, others, conversation, queue, history
  <1>6. CASE PreGuard(w)
    BY <1>6, GuardTypes DEF PreGuard, PC, BeforeTools, AfterTools, Transport
  <1>7. CASE Status(w)
    BY <1>7 DEF Status, Transport, Types, TypeOK, TurnHeld, Budget, Goto, Ending, Result, PC,
       ledger, others, conversation, queue, history
  <1>8. CASE LastCheck(w)
    <2>1. row' \in [Turn -> ReplyState]
      BY <1>8, FencedRows DEF LastCheck, Suppress, Types, TypeOK, ReplyState, Unsent, Terminal
    <2> QED
      BY <1>8, <2>1 DEF LastCheck, Suppress, Types, TypeOK, TurnHeld, Budget, Goto, Ending, Result, PC,
         BeforeTools, AfterTools, Transport, others, conversation, queue, history
  <1>9. CASE Renew(w)
    BY <1>9 DEF Renew, Transport, Types, TypeOK, TurnHeld, Budget, Goto, Ending, Result, PC,
       ledger, others, conversation, queue, history
  <1>10. CASE PostGuard(w)
    BY <1>10, GuardTypes DEF PostGuard, PC, BeforeTools, AfterTools, Transport
  <1>11. CASE Post(w)
    BY <1>11 DEF Post, PostOutcome, Transport, Types, TypeOK, TurnHeld, Budget, Goto, Ending, Result, PC,
       ledger, conversation, queue, history
  <1>12. CASE Unsend(w)
    <2>1. row' \in [Turn -> ReplyState]
      BY <1>12 DEF Unsend, Transition, Types, TypeOK, ReplyState, Unsent, Terminal
    <2> QED
      BY <1>12, <2>1 DEF Unsend, Transition, Types, TypeOK, TurnHeld, Budget, Goto, Ending, Result, PC,
         BeforeTools, AfterTools, Transport, others, conversation, queue, history
  <1>13. CASE AcceptedGuard(w)
    BY <1>13, GuardTypes DEF AcceptedGuard, PC, BeforeTools, AfterTools, Transport
  <1>14. CASE Confirm(w)
    <2>1. row' \in [Turn -> ReplyState]
      BY <1>14, ConfirmRows DEF Types, TypeOK
    <2> QED
      BY <1>14, <2>1 DEF Confirm, CanMove, Types, TypeOK, TurnHeld, Budget, Goto, Ending, Result, PC,
         BeforeTools, AfterTools, Transport, others, conversation, queue, history
  <1>15. CASE Release(w)
    <2>1. row' \in [Turn -> ReplyState]
      BY <1>15 DEF Release, Transition, Types, TypeOK, ReplyState, Unsent, Terminal
    <2> QED
      BY <1>15, <2>1 DEF Release, Transition, Types, TypeOK, TurnHeld, Budget, Goto, Ending, Result, PC,
         BeforeTools, AfterTools, Transport, others, conversation, queue, history
  <1>16. CASE Quarantine(w)
    <2>1. row' \in [Turn -> ReplyState]
      BY <1>16 DEF Quarantine, Transition, Types, TypeOK, ReplyState, Unsent, Terminal
    <2> QED
      BY <1>16, <2>1 DEF Quarantine, Transition, Types, TypeOK, TurnHeld, Budget, Goto, Ending, Result, PC,
         BeforeTools, AfterTools, Transport, others, conversation, queue, history
  <1>17. CASE Discard(w)
    <2>1. row' \in [Turn -> ReplyState]
      BY <1>17 DEF Discard, Transition, Types, TypeOK, ReplyState, Unsent, Terminal
    <2> QED
      BY <1>17, <2>1 DEF Discard, Transition, Types, TypeOK, TurnHeld, Budget, Goto, Ending, Result, PC,
         BeforeTools, AfterTools, Transport, others, conversation, queue, history
  <1>18. CASE Reject(w)
    <2>1. row' \in [Turn -> ReplyState]
      BY <1>18 DEF Reject, Transition, Types, TypeOK, ReplyState, Unsent, Terminal
    <2> QED
      BY <1>18, <2>1 DEF Reject, Transition, Types, TypeOK, TurnHeld, Budget, Goto, Ending, Result, PC,
         BeforeTools, AfterTools, Transport, others, conversation, queue, history
  <1>19. CASE Finish(w)
    BY <1>19 DEF Finish, SendState, Types, TypeOK, TurnHeld, Budget, Goto, Ending, Result, PC,
       others, conversation, queue, history, ledger
  <1> QED
    BY <1>1, <1>2, <1>3, <1>4, <1>5, <1>6, <1>7, <1>8, <1>9, <1>10, <1>11, <1>12, <1>13, <1>14, <1>15, <1>16, <1>17, <1>18, <1>19 DEF Deliver

LEMMA TypesNext ==
    ASSUME Types, [Next]_vars
    PROVE  Types'
  <1> USE ReplyAssumption
  <1>1. ASSUME NEW w \in Worker, Step(w) PROVE Types'
    BY <1>1, TypesExecute, TypesDeliver DEF Step
  <1>2. ASSUME NEW w \in Worker, Crash(w) PROVE Types'
    BY <1>2 DEF Crash, Disowned, Types, TypeOK, TurnHeld, Budget, PC,
       ledger, conversation
  <1>3. ASSUME NEW w \in Worker, NEW t \in Turn, Take(w, t) PROVE Types'
    BY <1>3 DEF Take, Types, TypeOK, TurnHeld, Budget, PC, Result,
       ledger, conversation, history
  <1>4. ASSUME NEW t \in Turn, DropLock(t) \/ ExpireSend(t) PROVE Types'
    BY <1>4 DEF DropLock, ExpireSend, Types, TypeOK, TurnHeld, Budget, SendState,
       ledger, others, conversation, queue, local, history
  <1>5. CASE Handoff \/ ReturnToIA \/ OptOut \/ Reactivate
    <2>1. row' \in [Turn -> ReplyState]
      BY <1>5, FencedRows DEF Handoff, ReturnToIA, OptOut, Reactivate, Types, TypeOK, ledger
    <2>2. optout' \in BOOLEAN /\ estado' \in {"ia", "humano"}
      BY <1>5 DEF Handoff, ReturnToIA, OptOut, Reactivate, Types, TypeOK
    <2>3. UNCHANGED <<send, lock, queue, local, history>>
      BY <1>5 DEF Handoff, ReturnToIA, OptOut, Reactivate, ledger
    <2> QED
      BY <2>1, <2>2, <2>3 DEF Types, TypeOK, TurnHeld, Budget, queue, local, history
  <1>6. CASE UNCHANGED vars
    BY <1>6 DEF vars, Types, TypeOK, TurnHeld, Budget,
       ledger, conversation, queue, local, history
  <1> QED
    BY <1>1, <1>2, <1>3, <1>4, <1>5, <1>6 DEF Next

\* Every variable keeps its type, and a claim never has more attempts than
\* MAX_ATTEMPTS.
THEOREM TypeCorrect == Spec => []TypeOK
  <1>1. Types => TypeOK
    BY DEF Types
  <1> QED
    BY <1>1, TypesInit, TypesNext, PTL DEF Spec

-----------------------------------------------------------------------------
(* What a step of worker w does to the ledger; NoWorker stands for a step of *)
(* the environment.                                                          *)

\* The moves a worker makes on its own row, and where it makes them.
Own(w, t) ==
    /\ w \in Worker
    /\ t = turn[w]
    /\ \/ pc[w] = "reserve" /\ row[t] = "none" /\ row'[t] = "RESERVED" /\ estado # "humano"
       \/ pc[w] = "begin" /\ row[t] = "RESERVED" /\ row'[t] = "EXECUTING"
       \/ /\ pc[w] = "unbegin" /\ row[t] = "EXECUTING" /\ row'[t] = "RESERVED"
          /\ pc'[w] = "unlock"
       \/ /\ pc[w] \in {"silent", "abort"} /\ row[t] = "EXECUTING"
          /\ row'[t] \in {"NO_RESPONSE", "EXECUTION_AMBIGUOUS"}
       \/ /\ pc[w] = "prepare" /\ row[t] \in {"none", "RESERVED", "EXECUTING"}
          /\ row'[t] = "PENDING" /\ estado # "humano"
       \/ pc[w] = "send" /\ row[t] = "PENDING" /\ row'[t] = "IN_FLIGHT"
       \/ pc[w] \in {"unsend", "release"} /\ row[t] = "IN_FLIGHT" /\ row'[t] = "PENDING"
       \/ /\ pc[w] \in {"precheck", "lastCheck", "discard", "reject"}
          /\ row[t] = "IN_FLIGHT" /\ row'[t] \in {"SUPPRESSED", "FAILED"}
          /\ pc'[w] \notin {"renew", "postGuard", "post"}
       \/ pc[w] = "confirm" /\ row[t] = "IN_FLIGHT" /\ row'[t] = "CONFIRMED"

RowEffect(w) ==
    \A t \in Turn :
        \/ row'[t] = row[t]
        \/ row[t] \in Unsent /\ row'[t] = "SUPPRESSED"
        \/ row[t] = "IN_FLIGHT" /\ row'[t] = "AMBIGUOUS"
        \/ Own(w, t)

\* A step that makes the conversation human fences every row.
HumanEffect ==
    estado' = "humano" /\ estado # "humano" =>
        \A t \in Turn : row'[t] \notin Unsent \cup {"IN_FLIGHT"}

\* Where worker w may arrive, and the other workers stay where they are.
Unposted == Transport \ {"accepted", "confirm", "quarantine"}

FlowEffect(w) ==
    /\ \A v \in Worker \ {w} : pc'[v] = pc[v] /\ turn'[v] = turn[v]
    /\ w \in Worker =>
        /\ turn'[w] = turn[w] \/ pc'[w] \in {"idle", "gone", "guard"}
        /\ pc'[w] = "toolsGuard" =>
              pc[w] = "begin" /\ row[turn[w]] = "RESERVED" /\ row'[turn[w]] = "EXECUTING"
        /\ pc'[w] \in {"unbegin", "tools"} => pc[w] = "toolsGuard"
        /\ pc'[w] \in Transport \cup {"finish"} =>
              \/ pc[w] \in Transport
              \/ /\ pc[w] = "send" /\ pc'[w] = "precheck" /\ row[turn[w]] = "PENDING"
                 /\ send[turn[w]] = "none" /\ send'[turn[w]] # "none"
        /\ pc'[w] \in Unposted => pc[w] \in Unposted \cup {"send"}
        /\ pc'[w] \in {"postGuard", "post"} => pc[w] \in {"renew", "postGuard"}
        /\ pc'[w] = "renew" =>
              pc[w] = "lastCheck" /\ row[turn[w]] = "IN_FLIGHT" /\ row'[turn[w]] = "IN_FLIGHT"
        /\ pc'[w] = "confirm" => pc[w] = "accepted"
        /\ pc'[w] = "accepted" => pc[w] = "post" /\ accepted'[turn[w]] > accepted[turn[w]]

\* The send ownership and the history.
HistoryEffect(w) ==
    \A t \in Turn :
        /\ send[t] # "none" /\ send'[t] = "none" => w \in Worker /\ t = turn[w] /\ pc[w] = "finish"
        /\ \/ tools'[t] = tools[t]
           \/ /\ w \in Worker /\ t = turn[w] /\ pc[w] = "tools"
              /\ tools'[t] = tools[t] + 1
        /\ \/ accepted'[t] = accepted[t]
           \/ /\ w \in Worker /\ t = turn[w] /\ pc[w] = "post"
              /\ accepted'[t] = accepted[t] + 1
              /\ row'[t] = row[t]
              /\ "late" \notin Faults => pc'[w] \notin Unposted

Effect(w) == RowEffect(w) /\ HumanEffect /\ FlowEffect(w) /\ HistoryEffect(w)

LEMMA ExecuteEffect ==
    ASSUME Types, NEW w \in Worker, Execute(w)
    PROVE  Effect(w)
  <1>1. CASE FirstGuard(w)
    BY <1>1 DEF FirstGuard, GuardAt, Guard, Goto, Ending, Types, TypeOK, TurnHeld, PC,
       Effect, RowEffect, Own, HumanEffect, FlowEffect, HistoryEffect, Unposted,
       Unsent, Terminal, BeforeTools, AfterTools, Transport,
       ledger, others, conversation, queue, history
  <1>2. CASE Reserve(w)
    BY <1>2, FencedRows DEF Reserve, Reserved, Goto, Ending, Types, TypeOK, TurnHeld, PC,
       Effect, RowEffect, Own, HumanEffect, FlowEffect, HistoryEffect, Unposted,
       Unsent, Terminal, BeforeTools, AfterTools, Transport,
       ledger, others, conversation, queue, history
  <1>3. CASE Acquire(w)
    BY <1>3 DEF Acquire, LockFree, Goto, Ending, Types, TypeOK, TurnHeld, PC,
       Effect, RowEffect, Own, HumanEffect, FlowEffect, HistoryEffect, Unposted,
       Unsent, Terminal, BeforeTools, AfterTools, Transport,
       ledger, others, conversation, queue, history
  <1>4. CASE Reload(w)
    BY <1>4 DEF Reload, Row, Goto, Ending, Types, TypeOK, TurnHeld, PC,
       Effect, RowEffect, Own, HumanEffect, FlowEffect, HistoryEffect, Unposted,
       Unsent, Terminal, BeforeTools, AfterTools, Transport,
       ledger, others, conversation, queue, history
  <1>5. CASE BeginGuard(w)
    BY <1>5 DEF BeginGuard, GuardAt, Guard, Goto, Ending, Types, TypeOK, TurnHeld, PC,
       Effect, RowEffect, Own, HumanEffect, FlowEffect, HistoryEffect, Unposted,
       Unsent, Terminal, BeforeTools, AfterTools, Transport,
       ledger, others, conversation, queue, history
  <1>6. CASE Begin(w)
    BY <1>6 DEF Begin, Transition, CanMove, Row, Goto, Ending, Types, TypeOK, TurnHeld, PC,
       Effect, RowEffect, Own, HumanEffect, FlowEffect, HistoryEffect, Unposted,
       Unsent, Terminal, BeforeTools, AfterTools, Transport,
       ledger, others, conversation, queue, history
  <1>7. CASE Reread(w)
    BY <1>7 DEF Reread, Row, Goto, Ending, Types, TypeOK, TurnHeld, PC,
       Effect, RowEffect, Own, HumanEffect, FlowEffect, HistoryEffect, Unposted,
       Unsent, Terminal, BeforeTools, AfterTools, Transport,
       ledger, others, conversation, queue, history
  <1>8. CASE ToolsGuard(w)
    BY <1>8 DEF ToolsGuard, GuardAt, Guard, Goto, Ending, Types, TypeOK, TurnHeld, PC,
       Effect, RowEffect, Own, HumanEffect, FlowEffect, HistoryEffect, Unposted,
       Unsent, Terminal, BeforeTools, AfterTools, Transport,
       ledger, others, conversation, queue, history
  <1>9. CASE Unbegin(w)
    BY <1>9 DEF Unbegin, Transition, CanMove, Row, Goto, Ending, Types, TypeOK, TurnHeld, PC,
       Effect, RowEffect, Own, HumanEffect, FlowEffect, HistoryEffect, Unposted,
       Unsent, Terminal, BeforeTools, AfterTools, Transport,
       ledger, others, conversation, queue, history
  <1>10. CASE RunTools(w)
    BY <1>10, FencedRows DEF RunTools, Goto, Ending, Types, TypeOK, TurnHeld, PC,
       Effect, RowEffect, Own, HumanEffect, FlowEffect, HistoryEffect, Unposted,
       Unsent, Terminal, BeforeTools, AfterTools, Transport,
       ledger, others, conversation, queue, history
  <1>11. CASE AfterGuard(w)
    BY <1>11 DEF AfterGuard, GuardAt, Guard, Goto, Ending, Types, TypeOK, TurnHeld, PC,
       Effect, RowEffect, Own, HumanEffect, FlowEffect, HistoryEffect, Unposted,
       Unsent, Terminal, BeforeTools, AfterTools, Transport,
       ledger, others, conversation, queue, history
  <1>12. CASE Silent(w)
    BY <1>12 DEF Silent, Transition, CanMove, Row, Goto, Ending, Types, TypeOK, TurnHeld, PC,
       Effect, RowEffect, Own, HumanEffect, FlowEffect, HistoryEffect, Unposted,
       Unsent, Terminal, BeforeTools, AfterTools, Transport,
       ledger, others, conversation, queue, history
  <1>13. CASE Prepare(w)
    BY <1>13, FencedRows DEF Prepare, Prepared, Goto, Ending, Types, TypeOK, TurnHeld, PC,
       Effect, RowEffect, Own, HumanEffect, FlowEffect, HistoryEffect, Unposted,
       Unsent, Terminal, BeforeTools, AfterTools, Transport,
       ledger, others, conversation, queue, history
  <1>14. CASE Abort(w)
    BY <1>14 DEF Abort, Transition, CanMove, Row, Goto, Ending, Types, TypeOK, TurnHeld, PC,
       Effect, RowEffect, Own, HumanEffect, FlowEffect, HistoryEffect, Unposted,
       Unsent, Terminal, BeforeTools, AfterTools, Transport,
       ledger, others, conversation, queue, history
  <1>15. CASE Unlock(w)
    BY <1>15 DEF Unlock, Goto, Ending, Types, TypeOK, TurnHeld, PC,
       Effect, RowEffect, Own, HumanEffect, FlowEffect, HistoryEffect, Unposted,
       Unsent, Terminal, BeforeTools, AfterTools, Transport,
       ledger, others, conversation, queue, history
  <1>16. CASE End(w)
    BY <1>16 DEF End, Exhausted, Disowned, Goto, Ending, Types, TypeOK, TurnHeld, PC,
       Effect, RowEffect, Own, HumanEffect, FlowEffect, HistoryEffect, Unposted,
       Unsent, Terminal, BeforeTools, AfterTools, Transport,
       ledger, others, conversation, queue, history
  <1> QED
    BY <1>1, <1>2, <1>3, <1>4, <1>5, <1>6, <1>7, <1>8, <1>9, <1>10, <1>11, <1>12, <1>13, <1>14, <1>15, <1>16 DEF Execute

LEMMA DeliverEffect ==
    ASSUME Types, NEW w \in Worker, Deliver(w)
    PROVE  Effect(w)
  <1>1. CASE Check(w)
    BY <1>1, FencedRows DEF Check, Suppress, Row, Goto, Ending, Types, TypeOK, TurnHeld, PC,
       Effect, RowEffect, Own, HumanEffect, FlowEffect, HistoryEffect, Unposted,
       Unsent, Terminal, BeforeTools, AfterTools, Transport,
       ledger, others, conversation, queue, history
  <1>2. CASE SendGuard(w)
    BY <1>2 DEF SendGuard, GuardAt, Guard, Goto, Ending, Types, TypeOK, TurnHeld, PC,
       Effect, RowEffect, Own, HumanEffect, FlowEffect, HistoryEffect, Unposted,
       Unsent, Terminal, BeforeTools, AfterTools, Transport,
       ledger, others, conversation, queue, history
  <1>3. CASE Send(w)
    BY <1>3 DEF Send, MaySend, Row, Goto, Ending, Types, TypeOK, TurnHeld, PC,
       Effect, RowEffect, Own, HumanEffect, FlowEffect, HistoryEffect, Unposted,
       Unsent, Terminal, BeforeTools, AfterTools, Transport,
       ledger, others, conversation, queue, history
  <1>4. CASE Missed(w)
    BY <1>4, FencedRows DEF Missed, Suppress, Row, Goto, Ending, Types, TypeOK, TurnHeld, PC,
       Effect, RowEffect, Own, HumanEffect, FlowEffect, HistoryEffect, Unposted,
       Unsent, Terminal, BeforeTools, AfterTools, Transport,
       ledger, others, conversation, queue, history
  <1>5. CASE Precheck(w)
    BY <1>5, FencedRows DEF Precheck, Suppress, Row, Goto, Ending, Types, TypeOK, TurnHeld, PC,
       Effect, RowEffect, Own, HumanEffect, FlowEffect, HistoryEffect, Unposted,
       Unsent, Terminal, BeforeTools, AfterTools, Transport,
       ledger, others, conversation, queue, history
  <1>6. CASE PreGuard(w)
    BY <1>6 DEF PreGuard, GuardAt, Guard, Goto, Ending, Types, TypeOK, TurnHeld, PC,
       Effect, RowEffect, Own, HumanEffect, FlowEffect, HistoryEffect, Unposted,
       Unsent, Terminal, BeforeTools, AfterTools, Transport,
       ledger, others, conversation, queue, history
  <1>7. CASE Status(w)
    BY <1>7 DEF Status, Goto, Ending, Types, TypeOK, TurnHeld, PC,
       Effect, RowEffect, Own, HumanEffect, FlowEffect, HistoryEffect, Unposted,
       Unsent, Terminal, BeforeTools, AfterTools, Transport,
       ledger, others, conversation, queue, history
  <1>8. CASE LastCheck(w)
    BY <1>8, FencedRows DEF LastCheck, Suppress, Row, Goto, Ending, Types, TypeOK, TurnHeld, PC,
       Effect, RowEffect, Own, HumanEffect, FlowEffect, HistoryEffect, Unposted,
       Unsent, Terminal, BeforeTools, AfterTools, Transport,
       ledger, others, conversation, queue, history
  <1>9. CASE Renew(w)
    BY <1>9 DEF Renew, Goto, Ending, Types, TypeOK, TurnHeld, PC,
       Effect, RowEffect, Own, HumanEffect, FlowEffect, HistoryEffect, Unposted,
       Unsent, Terminal, BeforeTools, AfterTools, Transport,
       ledger, others, conversation, queue, history
  <1>10. CASE PostGuard(w)
    BY <1>10 DEF PostGuard, GuardAt, Guard, Goto, Ending, Types, TypeOK, TurnHeld, PC,
       Effect, RowEffect, Own, HumanEffect, FlowEffect, HistoryEffect, Unposted,
       Unsent, Terminal, BeforeTools, AfterTools, Transport,
       ledger, others, conversation, queue, history
  <1>11. CASE Post(w)
    BY <1>11 DEF Post, PostOutcome, Goto, Ending, Types, TypeOK, TurnHeld, PC,
       Effect, RowEffect, Own, HumanEffect, FlowEffect, HistoryEffect, Unposted,
       Unsent, Terminal, BeforeTools, AfterTools, Transport,
       ledger, others, conversation, queue, history
  <1>12. CASE Unsend(w)
    BY <1>12 DEF Unsend, Transition, CanMove, Row, Goto, Ending, Types, TypeOK, TurnHeld, PC,
       Effect, RowEffect, Own, HumanEffect, FlowEffect, HistoryEffect, Unposted,
       Unsent, Terminal, BeforeTools, AfterTools, Transport,
       ledger, others, conversation, queue, history
  <1>13. CASE AcceptedGuard(w)
    BY <1>13 DEF AcceptedGuard, GuardAt, Guard, Goto, Ending, Types, TypeOK, TurnHeld, PC,
       Effect, RowEffect, Own, HumanEffect, FlowEffect, HistoryEffect, Unposted,
       Unsent, Terminal, BeforeTools, AfterTools, Transport,
       ledger, others, conversation, queue, history
  <1>14. CASE Confirm(w)
    <2>1. /\ pc[w] = "confirm"
          /\ Goto(w, "finish") \/ Goto(w, "quarantine")
          /\ UNCHANGED <<send, history>>
      BY <1>14 DEF Confirm
    <2>2. RowEffect(w) /\ HumanEffect
      BY <1>14, <2>1, ConfirmRows DEF RowEffect, Own, HumanEffect
    <2> QED
      BY <2>1, <2>2 DEF Goto, Types, TypeOK, Effect, FlowEffect, HistoryEffect, Unposted,
         Transport, history
  <1>15. CASE Release(w)
    BY <1>15 DEF Release, Transition, CanMove, Row, Goto, Ending, Types, TypeOK, TurnHeld, PC,
       Effect, RowEffect, Own, HumanEffect, FlowEffect, HistoryEffect, Unposted,
       Unsent, Terminal, BeforeTools, AfterTools, Transport,
       ledger, others, conversation, queue, history
  <1>16. CASE Quarantine(w)
    BY <1>16 DEF Quarantine, Transition, CanMove, Row, Goto, Ending, Types, TypeOK, TurnHeld, PC,
       Effect, RowEffect, Own, HumanEffect, FlowEffect, HistoryEffect, Unposted,
       Unsent, Terminal, BeforeTools, AfterTools, Transport,
       ledger, others, conversation, queue, history
  <1>17. CASE Discard(w)
    BY <1>17 DEF Discard, Transition, CanMove, Row, Goto, Ending, Types, TypeOK, TurnHeld, PC,
       Effect, RowEffect, Own, HumanEffect, FlowEffect, HistoryEffect, Unposted,
       Unsent, Terminal, BeforeTools, AfterTools, Transport,
       ledger, others, conversation, queue, history
  <1>18. CASE Reject(w)
    BY <1>18 DEF Reject, Transition, CanMove, Row, Goto, Ending, Types, TypeOK, TurnHeld, PC,
       Effect, RowEffect, Own, HumanEffect, FlowEffect, HistoryEffect, Unposted,
       Unsent, Terminal, BeforeTools, AfterTools, Transport,
       ledger, others, conversation, queue, history
  <1>19. CASE Finish(w)
    BY <1>19 DEF Finish, Goto, Ending, Types, TypeOK, TurnHeld, PC,
       Effect, RowEffect, Own, HumanEffect, FlowEffect, HistoryEffect, Unposted,
       Unsent, Terminal, BeforeTools, AfterTools, Transport,
       ledger, others, conversation, queue, history
  <1> QED
    BY <1>1, <1>2, <1>3, <1>4, <1>5, <1>6, <1>7, <1>8, <1>9, <1>10, <1>11, <1>12, <1>13, <1>14, <1>15, <1>16, <1>17, <1>18, <1>19 DEF Deliver

\* A crash and a new claim move one worker.
LEMMA ClaimEffect ==
    ASSUME Types, NEW w \in Worker, Crash(w) \/ \E t \in Turn : Take(w, t)
    PROVE  Effect(w)
  <1> USE ReplyAssumption DEF Effect, RowEffect, Own, HumanEffect, FlowEffect, HistoryEffect,
          Types, TypeOK
  <1>1. CASE Crash(w)
    BY <1>1 DEF Crash, ledger, conversation, TurnHeld, Unposted, Transport
  <1>2. ASSUME NEW t \in Turn, Take(w, t) PROVE Effect(w)
    BY <1>2 DEF Take, ledger, conversation, history, Unposted, Transport
  <1> HIDE DEF Effect
  <1> QED
    BY <1>1, <1>2

\* The steps no worker takes.
Environment ==
    \/ \E t \in Turn : DropLock(t) \/ ExpireSend(t)
    \/ Handoff \/ ReturnToIA \/ OptOut \/ Reactivate
    \/ UNCHANGED vars

LEMMA EnvironmentEffect ==
    ASSUME Types, Environment
    PROVE  Effect(NoWorker) /\ UNCHANGED local
  <1> USE ReplyAssumption DEF Effect, RowEffect, Own, HumanEffect, FlowEffect, HistoryEffect,
          Types, TypeOK
  <1>1. ASSUME NEW t \in Turn, DropLock(t) \/ ExpireSend(t)
        PROVE  Effect(NoWorker) /\ UNCHANGED local
    BY <1>1 DEF DropLock, ExpireSend, ledger, others, conversation, local, history
  <1>2. CASE Handoff \/ ReturnToIA \/ OptOut \/ Reactivate
    <2>1. UNCHANGED <<send, local, history>>
      BY <1>2 DEF Handoff, ReturnToIA, OptOut, Reactivate, ledger
    <2>2. RowEffect(NoWorker) /\ HumanEffect
      BY <1>2, FencedRows DEF Handoff, ReturnToIA, OptOut, Reactivate, ledger, Unsent
    <2> QED
      BY <2>1, <2>2 DEF local, history
  <1>3. CASE UNCHANGED vars
    BY <1>3 DEF vars, ledger, conversation, local, history
  <1> HIDE DEF Effect
  <1> QED
    BY <1>1, <1>2, <1>3 DEF Environment

\* Every step is one of a worker, or of the environment.
LEMMA NextCases ==
    ASSUME [Next]_vars
    PROVE  Environment \/ \E w \in Worker : Step(w) \/ Crash(w) \/ \E t \in Turn : Take(w, t)
  BY DEF Next, Environment

LEMMA WorkerEffect ==
    ASSUME Types, NEW w \in Worker, Step(w) \/ Crash(w) \/ \E t \in Turn : Take(w, t)
    PROVE  Effect(w)
  BY ExecuteEffect, DeliverEffect, ClaimEffect DEF Step

\* Every step has the effect of a worker, or of none.
LEMMA NextEffect ==
    ASSUME Types, [Next]_vars
    PROVE  \E w \in Worker \cup {NoWorker} : Effect(w)
  BY NextCases, WorkerEffect, EnvironmentEffect

-----------------------------------------------------------------------------
(* The tools. *)

\* A turn whose row can still be begun has not run its tools, and a worker
\* about to run them is the only one.
ToolsInv ==
    \A t \in Turn :
        /\ tools[t] <= 1
        /\ row[t] \in {"none", "RESERVED"} => tools[t] = 0
        /\ \A w \in Worker :
              turn[w] = t /\ pc[w] \in BeforeTools =>
                 /\ tools[t] = 0
                 /\ row[t] \notin {"none", "RESERVED"}
                 /\ \A v \in Worker : turn[v] = t /\ pc[v] \in BeforeTools => v = w

LEMMA ToolsStep ==
    ASSUME Types, ToolsInv, NEW w \in Worker \cup {NoWorker}, Effect(w)
    PROVE  ToolsInv'
  <1> USE DEF Effect, Types, TypeOK, BeforeTools
  <1> SUFFICES ASSUME NEW t \in Turn
               PROVE  /\ tools'[t] <= 1
                      /\ row'[t] \in {"none", "RESERVED"} => tools'[t] = 0
                      /\ \A u \in Worker :
                            turn'[u] = t /\ pc'[u] \in BeforeTools =>
                               /\ tools'[t] = 0
                               /\ row'[t] \notin {"none", "RESERVED"}
                               /\ \A v \in Worker : turn'[v] = t /\ pc'[v] \in BeforeTools => v = u
    BY DEF ToolsInv
  <1>1. \A u \in Worker :
           turn'[u] = t /\ pc'[u] \in BeforeTools =>
              \/ turn[u] = t /\ pc[u] \in BeforeTools /\ (u = w => pc[u] = "toolsGuard")
              \/ u = w /\ row[t] = "RESERVED" /\ row'[t] = "EXECUTING"
    BY DEF FlowEffect
  <1>2. tools'[t] = tools[t] \/
           (w \in Worker /\ turn[w] = t /\ pc[w] = "tools" /\ tools'[t] = tools[t] + 1)
    BY DEF HistoryEffect
  <1>3. row'[t] \in {"none", "RESERVED"} =>
           \/ row[t] \in {"none", "RESERVED"}
           \/ w \in Worker /\ turn[w] = t /\ pc[w] = "unbegin" /\ pc'[w] = "unlock"
    BY DEF RowEffect, Own, Unsent
  <1>4. w \in Worker => turn'[w] = turn[w] \/ pc'[w] \in {"idle", "gone", "guard"}
    BY DEF FlowEffect
  <1> QED
    BY <1>1, <1>2, <1>3, <1>4 DEF ToolsInv

\* The agent's tools run at most once per inbound message: for any number of
\* workers and turns and under every fault, the loss of the advisory lock
\* included (the RESERVED to EXECUTING move of run_agent_for_message).
THEOREM ToolsOnce == Spec => []ToolsAtMostOnce
  <1>1. Init => ToolsInv
    BY DEF Init, ToolsInv, BeforeTools
  <1>2. Types /\ ToolsInv /\ [Next]_vars => ToolsInv'
    BY NextEffect, ToolsStep
  <1>3. ToolsInv => ToolsAtMostOnce
    BY DEF ToolsInv, ToolsAtMostOnce
  <1> QED
    BY <1>1, <1>2, <1>3, TypesInit, TypesNext, PTL DEF Spec

-----------------------------------------------------------------------------
(* The transport. *)

\* A worker in transport holds the send ownership, alone.
OwnershipHeld ==
    \A t \in Turn, w \in Worker : InTransport(w, t) => send[t] # "none"

TransportInv == OwnershipHeld /\ SingleTransport

LEMMA TransportStep ==
    ASSUME Types, TransportInv, NEW w \in Worker \cup {NoWorker}, Effect(w)
    PROVE  TransportInv'
  <1> USE DEF Effect, Types, TypeOK, InTransport
  <1>1. ASSUME NEW t \in Turn, NEW u \in Worker, InTransport(u, t)'
        PROVE  \/ InTransport(u, t) /\ (u = w => pc[u] # "finish")
               \/ u = w /\ send[t] = "none" /\ send'[t] # "none"
    BY <1>1 DEF FlowEffect, Transport
  <1>2. ASSUME NEW t \in Turn, send[t] # "none", send'[t] = "none"
        PROVE  w \in Worker /\ InTransport(w, t) /\ pc[w] = "finish"
    BY <1>2 DEF HistoryEffect
  <1>3. OwnershipHeld'
    <2> SUFFICES ASSUME NEW t \in Turn, NEW u \in Worker, InTransport(u, t)'
                 PROVE  send'[t] # "none"
      BY DEF OwnershipHeld
    <2> QED
      BY <1>1, <1>2 DEF TransportInv, OwnershipHeld, SingleTransport
  <1>4. SingleTransport'
    <2> SUFFICES ASSUME NEW t \in Turn, NEW u \in Worker, NEW v \in Worker,
                        InTransport(u, t)', InTransport(v, t)'
                 PROVE  u = v
      BY DEF SingleTransport
    <2> QED
      BY <1>1 DEF TransportInv, OwnershipHeld, SingleTransport
  <1> QED
    BY <1>3, <1>4 DEF TransportInv

LEMMA TransportInvariant == Spec => []TransportInv
  <1>1. Init => TransportInv
    BY DEF Init, TransportInv, OwnershipHeld, SingleTransport, InTransport, Transport
  <1>2. Types /\ TransportInv /\ [Next]_vars => TransportInv'
    BY NextEffect, TransportStep
  <1> QED
    BY <1>1, <1>2, TypesInit, TypesNext, PTL DEF Spec

\* Two workers are never in transport for one reply, whatever happened to the
\* claim and to the advisory lock (the PENDING to IN_FLIGHT move and the
\* primary key of private_deletion_sends).
THEOREM OneTransport == Spec => []SingleTransport
  <1>1. TransportInv => SingleTransport
    BY DEF TransportInv
  <1> QED
    BY <1>1, TransportInvariant, PTL

-----------------------------------------------------------------------------
(* The handoff fence and the terminal states. *)

LEMMA HumanStep ==
    ASSUME Types, HumanMeansFenced, NEW w \in Worker \cup {NoWorker}, Effect(w)
    PROVE  HumanMeansFenced'
  <1> SUFFICES ASSUME estado' = "humano", NEW t \in Turn
               PROVE  row'[t] \notin Unsent \cup {"IN_FLIGHT"}
    BY DEF HumanMeansFenced
  <1>1. CASE estado # "humano"
    BY <1>1 DEF Effect, HumanEffect
  <1>2. CASE estado = "humano"
    BY <1>2 DEF Effect, RowEffect, Own, HumanMeansFenced, Unsent
  <1> QED
    BY <1>1, <1>2

\* While a human has the conversation none of its replies can start or is in
\* transport (the checks of conversations.estado under the conversation lock).
THEOREM HumanFenced == Spec => []HumanMeansFenced
  <1>1. Init => HumanMeansFenced
    BY DEF Init, HumanMeansFenced
  <1>2. Types /\ HumanMeansFenced /\ [Next]_vars => HumanMeansFenced'
    BY NextEffect, HumanStep
  <1> QED
    BY <1>1, <1>2, TypesInit, TypesNext, PTL DEF Spec

\* No step leaves a terminal reply state, not even the return of the
\* conversation to the agent (compare and set in every transition).
THEOREM TerminalStates == Spec => TerminalFinal
  <1>1. Types /\ [Next]_vars => [\A t \in Turn : row[t] \in Terminal => row'[t] = row[t]]_vars
    <2> SUFFICES ASSUME Types, [Next]_vars, NEW t \in Turn, row[t] \in Terminal
                 PROVE  row'[t] = row[t]
      OBVIOUS
    <2> QED
      BY NextEffect DEF Effect, RowEffect, Own, Unsent, Terminal
  <1> QED
    BY <1>1, TypesInit, TypesNext, PTL DEF Spec, TerminalFinal

-----------------------------------------------------------------------------
(* What the provider accepted. *)

\* From the last handoff check to the request only a handoff moves the row.
FenceInv ==
    \A w \in Worker :
        pc[w] \in {"renew", "postGuard", "post"} => row[turn[w]] \in {"IN_FLIGHT", "AMBIGUOUS"}

LEMMA FenceStep ==
    ASSUME Types, TransportInv, FenceInv, NEW w \in Worker \cup {NoWorker}, Effect(w)
    PROVE  FenceInv'
  <1> USE DEF Effect
  <1> SUFFICES ASSUME NEW u \in Worker, pc'[u] \in {"renew", "postGuard", "post"}
               PROVE  row'[turn'[u]] \in {"IN_FLIGHT", "AMBIGUOUS"}
    BY DEF FenceInv
  <1>1. turn'[u] = turn[u]
    BY DEF FlowEffect
  <1>2. CASE u # w
    <2>1. /\ pc[u] \in {"renew", "postGuard", "post"}
          /\ turn[u] \in Turn
          /\ row[turn[u]] \in {"IN_FLIGHT", "AMBIGUOUS"}
          /\ InTransport(u, turn[u])
      BY <1>2 DEF FlowEffect, FenceInv, Types, TurnHeld, InTransport, Transport
    <2>2. ~Own(w, turn[u]) \/ row'[turn[u]] \in {"IN_FLIGHT", "AMBIGUOUS"}
      BY <1>2, <2>1 DEF Own, TransportInv, SingleTransport, InTransport, Transport
    <2> QED
      BY <1>1, <2>1, <2>2 DEF RowEffect, Unsent
  <1>3. CASE u = w
    <2>1. \/ pc[w] \in {"renew", "postGuard"}
          \/ row'[turn[w]] = "IN_FLIGHT"
      BY <1>3 DEF FlowEffect
    <2>2. CASE pc[w] \in {"renew", "postGuard"}
      <3>1. turn[w] \in Turn /\ row[turn[w]] \in {"IN_FLIGHT", "AMBIGUOUS"}
        BY <1>3, <2>2 DEF FenceInv, Types, TurnHeld
      <3> QED
        BY <1>1, <1>3, <2>2, <3>1 DEF RowEffect, Own, Unsent
    <2> QED
      BY <1>1, <1>3, <2>1, <2>2
  <1> QED
    BY <1>2, <1>3

LEMMA FenceInvariant == Spec => [](TransportInv /\ FenceInv)
  <1>1. Init => FenceInv
    BY DEF Init, FenceInv
  <1>2. Types /\ TransportInv /\ FenceInv /\ [Next]_vars => FenceInv'
    BY NextEffect, FenceStep
  <1> QED
    BY <1>1, <1>2, TransportInvariant, TypesInit, TypesNext, PTL DEF Spec

\* While a request is made its row is IN_FLIGHT, or AMBIGUOUS after a handoff:
\* nothing else overtakes it (before_transport in _deliver_agent_reply_intent).
THEOREM PostFenced == Spec => []PostUnderFence
  <1>1. FenceInv => PostUnderFence
    BY DEF FenceInv, PostUnderFence, Row
  <1> QED
    BY <1>1, FenceInvariant, PTL

\* A worker that saw "aceito" confirms an accepted reply.
AckInv ==
    /\ \A w \in Worker : pc[w] \in {"accepted", "confirm"} => accepted[turn[w]] >= 1
    /\ ConfirmedMeansAccepted

LEMMA AckStep ==
    ASSUME Types, AckInv, NEW w \in Worker \cup {NoWorker}, Effect(w)
    PROVE  AckInv'
  <1> USE DEF Effect, Types, TypeOK
  <1>1. \A t \in Turn : accepted'[t] \in Nat /\ accepted[t] \in Nat /\ accepted'[t] >= accepted[t]
    BY DEF HistoryEffect
  <1>2. ASSUME NEW u \in Worker, pc'[u] \in {"accepted", "confirm"}
        PROVE  accepted'[turn'[u]] >= 1
    <2>1. /\ turn'[u] = turn[u]
          /\ \/ pc[u] \in {"accepted", "confirm"}
             \/ pc[u] = "post" /\ accepted'[turn[u]] > accepted[turn[u]]
      BY <1>2 DEF FlowEffect
    <2>2. turn[u] \in Turn
      BY <2>1 DEF TurnHeld
    <2> QED
      BY <1>1, <2>1, <2>2 DEF AckInv
  <1>3. ConfirmedMeansAccepted'
    <2> SUFFICES ASSUME NEW t \in Turn, row'[t] = "CONFIRMED"
                 PROVE  accepted'[t] >= 1
      BY DEF ConfirmedMeansAccepted
    <2>1. row[t] = "CONFIRMED" \/ (w \in Worker /\ t = turn[w] /\ pc[w] = "confirm")
      BY DEF RowEffect, Own
    <2> QED
      BY <1>1, <2>1 DEF AckInv, ConfirmedMeansAccepted
  <1> QED
    BY <1>2, <1>3 DEF AckInv

LEMMA AckInvariant == Spec => []AckInv
  <1>1. Init => AckInv
    BY DEF Init, AckInv, ConfirmedMeansAccepted
  <1>2. Types /\ AckInv /\ [Next]_vars => AckInv'
    BY NextEffect, AckStep
  <1> QED
    BY <1>1, <1>2, TypesInit, TypesNext, PTL DEF Spec

\* CONFIRMED is only recorded for a reply the provider accepted, also when
\* requests time out after they were accepted.
THEOREM ConfirmedAccepted == Spec => []ConfirmedMeansAccepted
  <1>1. AckInv => ConfirmedMeansAccepted
    BY DEF AckInv
  <1> QED
    BY <1>1, AckInvariant, PTL

\* An accepted reply is in transport or recorded as such, and a worker that
\* may still send or undo the transport acts for a reply not yet accepted.
AcceptInv ==
    \A t \in Turn :
        /\ accepted[t] <= 1
        /\ accepted[t] >= 1 => row[t] \in {"IN_FLIGHT", "AMBIGUOUS", "CONFIRMED"}
        /\ \A w \in Worker : turn[w] = t /\ pc[w] \in Unposted => accepted[t] = 0

LEMMA AcceptStep ==
    ASSUME "late" \notin Faults, Types, TransportInv, FenceInv, AcceptInv,
           NEW w \in Worker \cup {NoWorker}, Effect(w)
    PROVE  AcceptInv'
  <1> USE DEF Effect, Types, TypeOK
  <1> SUFFICES ASSUME NEW t \in Turn
               PROVE  /\ accepted'[t] <= 1
                      /\ accepted'[t] >= 1 => row'[t] \in {"IN_FLIGHT", "AMBIGUOUS", "CONFIRMED"}
                      /\ \A u \in Worker : turn'[u] = t /\ pc'[u] \in Unposted => accepted'[t] = 0
    BY DEF AcceptInv
  <1>1. ASSUME NEW u \in Worker, turn'[u] = t, pc'[u] \in Unposted
        PROVE  /\ turn[u] = t
               /\ pc[u] \in Unposted \/ (pc[u] = "send" /\ row[t] = "PENDING")
               /\ u # w => pc[u] \in Unposted
    BY <1>1 DEF FlowEffect, Unposted, Transport
  <1>2. CASE accepted'[t] = accepted[t]
    <2>1. accepted[t] >= 1 => row'[t] \in {"IN_FLIGHT", "AMBIGUOUS", "CONFIRMED"}
      BY DEF AcceptInv, RowEffect, Own, Unsent, Unposted, Transport
    <2>2. ASSUME NEW u \in Worker, turn'[u] = t, pc'[u] \in Unposted
          PROVE  accepted[t] = 0
      BY <1>1, <2>2 DEF AcceptInv
    <2> QED
      BY <1>2, <2>1, <2>2 DEF AcceptInv
  <1>3. CASE accepted'[t] # accepted[t]
    <2>1. /\ w \in Worker /\ turn[w] = t /\ pc[w] = "post"
          /\ accepted'[t] = accepted[t] + 1
          /\ pc'[w] \notin Unposted
      BY <1>3 DEF HistoryEffect
    <2>2. accepted[t] = 0 /\ row[t] \in {"IN_FLIGHT", "AMBIGUOUS"}
      BY <2>1 DEF AcceptInv, FenceInv, Unposted, Transport
    <2>3. row'[t] \in {"IN_FLIGHT", "AMBIGUOUS"}
      BY <2>1, <2>2 DEF RowEffect, Own, Unsent
    <2>4. ASSUME NEW u \in Worker, turn'[u] = t, pc'[u] \in Unposted
          PROVE  FALSE
      <3>1. u # w /\ turn[u] = t /\ pc[u] \in Unposted
        BY <1>1, <2>1, <2>4
      <3> QED
        BY <2>1, <3>1 DEF TransportInv, SingleTransport, InTransport, Unposted, Transport
    <2> QED
      BY <2>1, <2>2, <2>3, <2>4
  <1> QED
    BY <1>2, <1>3

LEMMA AcceptInvariant ==
    ASSUME "late" \notin Faults
    PROVE  Spec => [](Types /\ AcceptInv)
  <1>1. Init => AcceptInv
    BY DEF Init, AcceptInv, Unposted, Transport
  <1>2. Types /\ TransportInv /\ FenceInv /\ AcceptInv /\ [Next]_vars => AcceptInv'
    BY NextEffect, AcceptStep
  <1> QED
    BY <1>1, <1>2, FenceInvariant, TypesInit, TypesNext, PTL DEF Spec

LEMMA Phases ==
    /\ PhaseOf("none") = "absent" /\ PhaseOf("IN_FLIGHT") = "sending"
    /\ PhaseOf("CONFIRMED") = "accepted" /\ PhaseOf("AMBIGUOUS") = "unknown"
    /\ \A s \in Unsent : PhaseOf(s) = "waiting"
    /\ \A s \in {"EXECUTION_AMBIGUOUS", "FAILED", "SUPPRESSED", "NO_RESPONSE"} :
          PhaseOf(s) = "refused"
    /\ \A s \in ReplyState : PhaseOf(s) \in Once!Phase
  BY DEF PhaseOf, Unsent, Terminal, ReplyState, Once!Phase

\* What every step does to a reply is a step of OnceDelivery.
LEMMA EffectOnce ==
    ASSUME Types, Types', AckInv, AcceptInv, AcceptInv',
           NEW w \in Worker \cup {NoWorker}, Effect(w)
    PROVE  Once!Next
  <1> DEFINE phase == [t \in Turn |-> PhaseOf(row[t])]
             phase1 == [t \in Turn |-> PhaseOf(row'[t])]
  <1>1. /\ row \in [Turn -> ReplyState] /\ row' \in [Turn -> ReplyState]
        /\ accepted \in [Turn -> Nat] /\ accepted' \in [Turn -> Nat]
    BY DEF Types, TypeOK
  <1>2. \A t \in Turn : accepted[t] \in 0 .. 1 /\ accepted'[t] \in 0 .. 1
    BY <1>1 DEF AcceptInv
  <1>3. phase1 \in [Turn -> Once!Phase] /\ accepted' \in [Turn -> 0 .. 1]
    BY <1>1, <1>2, Phases
  <1>4. ASSUME NEW t \in Turn
        PROVE  \/ Once!Step(t)
               \/ phase1[t] = phase[t] /\ accepted'[t] = accepted[t]
    <2> USE Phases DEF Once!Step, Once!Move
    <2>1. phase[t] = PhaseOf(row[t]) /\ phase1[t] = PhaseOf(row'[t])
      OBVIOUS
    <2>2. accepted[t] # 0 => row[t] \notin Unsent
      BY <1>2 DEF AcceptInv, Unsent
    <2>3. w \in Worker /\ t = turn[w] /\ pc[w] \in Unposted => accepted[t] = 0
      BY DEF AcceptInv
    <2>4. w \in Worker /\ t = turn[w] /\ pc[w] = "confirm" => accepted[t] = 1
      BY <1>2 DEF AckInv
    <2>5. CASE accepted'[t] # accepted[t]
      <3>1. accepted'[t] = accepted[t] + 1 /\ row'[t] = row[t]
        BY <2>5 DEF Effect, HistoryEffect
      <3>2. accepted[t] = 0 /\ accepted'[t] = 1
        BY <1>2, <3>1
      <3>3. row'[t] \in {"IN_FLIGHT", "AMBIGUOUS", "CONFIRMED"}
        BY <3>2 DEF AcceptInv
      <3>4. row[t] # "CONFIRMED"
        BY <3>2 DEF AckInv, ConfirmedMeansAccepted
      <3> QED
        BY <2>1, <3>1, <3>2, <3>3, <3>4 DEF Once!Take
    <2>6. CASE accepted'[t] = accepted[t]
      <3>1. CASE row'[t] = row[t]
        BY <2>1, <2>6, <3>1
      <3>2. CASE row[t] \in Unsent /\ row'[t] = "SUPPRESSED"
        BY <2>1, <2>2, <2>6, <3>2 DEF Once!Refuse
      <3>3. CASE row[t] = "IN_FLIGHT" /\ row'[t] = "AMBIGUOUS"
        BY <2>1, <2>6, <3>3 DEF Once!Doubt
      <3>4. CASE Own(w, t)
        <4>1. CASE row[t] = "none"
          BY <2>1, <2>6, <3>4, <4>1 DEF Own, Unsent, Once!Record
        <4>2. CASE row[t] \in Unsent
          BY <2>1, <2>2, <2>6, <3>4, <4>2 DEF Own, Unsent, Once!Begin, Once!Refuse
        <4>3. CASE row[t] = "IN_FLIGHT"
          BY <2>1, <2>3, <2>4, <2>6, <3>4, <4>3
             DEF Own, Unsent, Unposted, Transport, Once!Withdraw, Once!Refuse, Once!Accept
        <4> QED
          BY <3>4, <4>1, <4>2, <4>3 DEF Own, Unsent
      <3> QED
        BY <3>1, <3>2, <3>3, <3>4 DEF Effect, RowEffect
    <2> QED
      BY <2>5, <2>6
  <1> QED
    BY <1>3, <1>4 DEF Once!Next

\* When a timeout or 5xx never hides an accepted request, the reply ledger
\* implements OnceDelivery: crashes, stale workers, lost locks and handoffs
\* cause no second delivery, no untrue record and no second try of a doubtful
\* one (Release after send_agent_text answered falhou_retentavel).
THEOREM Refinement ==
    ASSUME "late" \notin Faults
    PROVE  Spec => RepliesAtMostOnce
  <1>1. Init => Once!Init
    BY DEF Init, Once!Init, PhaseOf, Unsent
  <1>2. Types /\ Types' /\ AckInv /\ AcceptInv /\ AcceptInv' /\ [Next]_vars => Once!Next
    BY NextEffect, EffectOnce
  <1> QED
    BY <1>1, <1>2, AckInvariant, AcceptInvariant, PTL DEF Spec, RepliesAtMostOnce, Once!Spec

\* Under the same condition a reply recorded as suppressed or failed never
\* reached the contact: no handoff, revocation or late worker relabels a reply
\* that the provider has (fence_agent_replies_for_handoff).
THEOREM SuppressedUnsent ==
    ASSUME "late" \notin Faults
    PROVE  Spec => []SuppressedMeansUnsent
  <1>1. Types /\ AcceptInv => SuppressedMeansUnsent
    BY DEF Types, TypeOK, AcceptInv, SuppressedMeansUnsent
  <1> QED
    BY <1>1, AcceptInvariant, PTL

-----------------------------------------------------------------------------
(* An acknowledged claim leaves nothing behind, as long as the advisory    *)
(* execution lock is not lost and the database does not raise: then the    *)
(* lock makes its holder the only one that moves the row, so a worker      *)
(* knows the state of its row from where it is; and what a worker of       *)
(* another claim or a stalled one may still do to a settled row keeps it   *)
(* settled.                                                                *)


\* The lock holds and transactions succeed: the faults under which the
\* property fails, one by one.
Steady == {"db", "commit", "drop"} \cap Faults = {}

-----------------------------------------------------------------------------
(* The lease, and the row of its holder. *)

\* From the acquisition of the lock to its release.
InLease ==
    {"reload", "beginGuard", "begin", "reread", "abort", "check", "sendGuard",
     "send", "missed", "finish", "unlock"}
    \cup BeforeTools \cup AfterTools \cup Transport

\* Where a worker w is tells who has the lock, and the state of its row; a
\* handoff, an opt-out or a revocation may have made it terminal.
Leased(w) ==
    /\ pc[w] \in InLease => lock[turn[w]] = w
    /\ pc[w] \in InLease \cup {"acquire"} => Row(w) # "none"
    /\ pc[w] \in {"beginGuard", "begin"} => Row(w) \in {"RESERVED"} \cup Terminal
    /\ pc[w] \in BeforeTools \cup AfterTools \cup {"abort"} =>
          Row(w) \in {"EXECUTING"} \cup Terminal
    /\ pc[w] \in {"check", "sendGuard", "send"} => Row(w) \in {"PENDING"} \cup Terminal
    /\ pc[w] \in Transport => Row(w) \in {"IN_FLIGHT"} \cup Terminal
    /\ pc[w] \in {"reread", "missed"} => Row(w) \in Terminal

\* A turn about to end well has released or closed its row.
Ended(w) ==
    /\ pc[w] \in {"unbegin", "unsend"} => result[w] = "lost"
    /\ pc[w] \in {"finish", "unlock"} /\ result[w] = "completed" =>
          Row(w) \in {"IN_FLIGHT"} \cup Terminal

Place(w) == Leased(w) /\ Ended(w)

LEMMA PlaceExecute ==
    ASSUME Steady, Types, NEW w \in Worker, Place(w), Execute(w)
    PROVE  Place(w)'
  <1> USE DEF Steady, Raises, Row, Goto, Ending, Types, TypeOK, TurnHeld, Place, Leased, Ended,
          ledger, others, conversation, queue, history
  <1>1. CASE FirstGuard(w)
    BY <1>1 DEF FirstGuard, GuardAt, Guard, InLease, BeforeTools, AfterTools, Transport
  <1>2. CASE Reserve(w)
    BY <1>2, FencedRows DEF Reserve, Reserved, InLease, BeforeTools, AfterTools, Transport
  <1>3. CASE Acquire(w)
    BY <1>3 DEF Acquire, LockFree, InLease, BeforeTools, AfterTools, Transport
  <1>4. CASE Reload(w)
    BY <1>4 DEF Reload, ReplyState, Unsent, Terminal, InLease, BeforeTools, AfterTools, Transport
  <1>5. CASE BeginGuard(w)
    BY <1>5 DEF BeginGuard, GuardAt, Guard, InLease, BeforeTools, AfterTools, Transport
  <1>6. CASE Begin(w)
    BY <1>6 DEF Begin, Transition, CanMove, Terminal, InLease, BeforeTools, AfterTools, Transport
  <1>7. CASE Reread(w)
    BY <1>7 DEF Reread, Terminal, InLease, BeforeTools, AfterTools, Transport
  <1>8. CASE ToolsGuard(w)
    BY <1>8 DEF ToolsGuard, GuardAt, Guard, InLease, BeforeTools, AfterTools, Transport
  <1>9. CASE Unbegin(w)
    BY <1>9 DEF Unbegin, Transition, CanMove, Terminal, InLease, BeforeTools, AfterTools, Transport
  <1>10. CASE RunTools(w)
    BY <1>10, FencedRows DEF RunTools, Unsent, Terminal, InLease, BeforeTools, AfterTools, Transport
  <1>11. CASE AfterGuard(w)
    BY <1>11 DEF AfterGuard, GuardAt, Guard, InLease, BeforeTools, AfterTools, Transport
  <1>12. CASE Silent(w)
    BY <1>12 DEF Silent, Transition, CanMove, Terminal, InLease, BeforeTools, AfterTools, Transport
  <1>13. CASE Prepare(w)
    BY <1>13, FencedRows DEF Prepare, Prepared, Unsent, Terminal, InLease, BeforeTools, AfterTools, Transport
  <1>14. CASE Abort(w)
    BY <1>14 DEF Abort, Transition, CanMove, Terminal, InLease, BeforeTools, AfterTools, Transport
  <1>15. CASE Unlock(w)
    BY <1>15 DEF Unlock, InLease, BeforeTools, AfterTools, Transport
  <1>16. CASE End(w)
    BY <1>16 DEF End, InLease, BeforeTools, AfterTools, Transport
  <1> QED
    BY <1>1, <1>2, <1>3, <1>4, <1>5, <1>6, <1>7, <1>8, <1>9, <1>10, <1>11, <1>12, <1>13, <1>14, <1>15, <1>16 DEF Execute

LEMMA PlaceDeliver ==
    ASSUME Steady, Types, NEW w \in Worker, Place(w), Deliver(w)
    PROVE  Place(w)'
  <1> USE DEF Steady, Raises, Row, Goto, Ending, Types, TypeOK, TurnHeld, Place, Leased, Ended,
          ledger, others, conversation, queue, history
  <1>1. CASE Check(w)
    BY <1>1, FencedRows DEF Check, Suppress, Unsent, Terminal, InLease, BeforeTools, AfterTools, Transport
  <1>2. CASE SendGuard(w)
    BY <1>2 DEF SendGuard, GuardAt, Guard, InLease, BeforeTools, AfterTools, Transport
  <1>3. CASE Send(w)
    BY <1>3 DEF Send, MaySend, Terminal, InLease, BeforeTools, AfterTools, Transport
  <1>4. CASE Missed(w)
    BY <1>4, FencedRows DEF Missed, Suppress, Unsent, Terminal, InLease, BeforeTools, AfterTools, Transport
  <1>5. CASE Precheck(w)
    BY <1>5, FencedRows DEF Precheck, Suppress, Unsent, Terminal, InLease, BeforeTools, AfterTools, Transport
  <1>6. CASE PreGuard(w)
    BY <1>6 DEF PreGuard, GuardAt, Guard, InLease, BeforeTools, AfterTools, Transport
  <1>7. CASE Status(w)
    BY <1>7 DEF Status, InLease, BeforeTools, AfterTools, Transport
  <1>8. CASE LastCheck(w)
    BY <1>8, FencedRows DEF LastCheck, Suppress, Unsent, Terminal, InLease, BeforeTools, AfterTools, Transport
  <1>9. CASE Renew(w)
    BY <1>9 DEF Renew, InLease, BeforeTools, AfterTools, Transport
  <1>10. CASE PostGuard(w)
    BY <1>10 DEF PostGuard, GuardAt, Guard, InLease, BeforeTools, AfterTools, Transport
  <1>11. CASE Post(w)
    BY <1>11 DEF Post, PostOutcome, InLease, BeforeTools, AfterTools, Transport
  <1>12. CASE Unsend(w)
    BY <1>12 DEF Unsend, Transition, CanMove, Terminal, InLease, BeforeTools, AfterTools, Transport
  <1>13. CASE AcceptedGuard(w)
    BY <1>13 DEF AcceptedGuard, GuardAt, Guard, InLease, BeforeTools, AfterTools, Transport
  <1>14. CASE Confirm(w)
    <2>1. /\ Goto(w, "finish") \/ Goto(w, "quarantine")
          /\ UNCHANGED lock
          /\ pc[w] = "confirm"
      BY <1>14 DEF Confirm
    <2>2. row'[turn[w]] \in {"IN_FLIGHT"} \cup Terminal
      BY <1>14, ConfirmRows DEF Confirm, InLease, Transport, Unsent, Terminal
    <2> QED
      BY <2>1, <2>2 DEF Terminal, InLease, BeforeTools, AfterTools, Transport
  <1>15. CASE Release(w)
    BY <1>15 DEF Release, Transition, CanMove, Terminal, InLease, BeforeTools, AfterTools, Transport
  <1>16. CASE Quarantine(w)
    BY <1>16 DEF Quarantine, Transition, CanMove, Terminal, InLease, BeforeTools, AfterTools, Transport
  <1>17. CASE Discard(w)
    BY <1>17 DEF Discard, Transition, CanMove, Terminal, InLease, BeforeTools, AfterTools, Transport
  <1>18. CASE Reject(w)
    BY <1>18 DEF Reject, Transition, CanMove, Terminal, InLease, BeforeTools, AfterTools, Transport
  <1>19. CASE Finish(w)
    BY <1>19 DEF Finish, InLease, BeforeTools, AfterTools, Transport
  <1> QED
    BY <1>1, <1>2, <1>3, <1>4, <1>5, <1>6, <1>7, <1>8, <1>9, <1>10, <1>11, <1>12, <1>13, <1>14, <1>15, <1>16, <1>17, <1>18, <1>19 DEF Deliver

-----------------------------------------------------------------------------
(* What a step of worker w does to the lock and to the claims.              *)

\* Where a worker acts on a row it found worth acting on.
Running == InLease \ {"reload", "beginGuard", "unlock"}

Moves(w) ==
    /\ \A v \in Worker \ {w} : result'[v] = result[v]
    /\ \A t \in Turn :
        /\ lock[t] \in Worker \ {w} => lock'[t] = lock[t]
        /\ owner'[t] \in {owner[t], NoWorker} \/ (w \in Worker /\ owner'[t] = w /\ pc'[w] = "guard")
        /\ claim'[t] = "done" =>
              \/ claim[t] = "done"
              \/ /\ w \in Worker /\ t = turn[w] /\ pc[w] = "end"
                 /\ result[w] = "completed" /\ owner[t] = w
    /\ w \in Worker =>
        /\ pc'[w] \in Running =>
              \/ pc[w] \in Running
              \/ pc[w] = "beginGuard" /\ owner[turn[w]] = w
              \/ pc[w] = "reload" /\ Row(w) \in {"EXECUTING", "PENDING"}
        /\ pc'[w] = "end" /\ result'[w] = "completed" =>
              \/ pc[w] = "unlock" /\ result[w] = "completed"
              \/ pc[w] = "reserve" /\ row'[turn[w]] = "none"

LEMMA ExecuteMoves ==
    ASSUME Types, NEW w \in Worker, Execute(w)
    PROVE  Moves(w)
  <1> USE DEF Moves, Row, Goto, Ending, Types, TypeOK, TurnHeld, others, ledger,
          conversation, queue, history, Running, InLease, BeforeTools, AfterTools, Transport
  <1>1. CASE FirstGuard(w)
    BY <1>1 DEF FirstGuard, GuardAt, Guard
  <1>2. CASE Reserve(w)
    BY <1>2 DEF Reserve
  <1>3. CASE Acquire(w)
    BY <1>3, ReplyAssumption DEF Acquire, LockFree
  <1>4. CASE Reload(w)
    BY <1>4 DEF Reload
  <1>5. CASE BeginGuard(w)
    BY <1>5 DEF BeginGuard, GuardAt, Guard
  <1>6. CASE Begin(w)
    BY <1>6 DEF Begin, Transition
  <1>7. CASE Reread(w)
    BY <1>7 DEF Reread
  <1>8. CASE ToolsGuard(w)
    BY <1>8 DEF ToolsGuard, GuardAt, Guard
  <1>9. CASE Unbegin(w)
    BY <1>9 DEF Unbegin, Transition
  <1>10. CASE RunTools(w)
    BY <1>10 DEF RunTools
  <1>11. CASE AfterGuard(w)
    BY <1>11 DEF AfterGuard, GuardAt, Guard
  <1>12. CASE Silent(w)
    BY <1>12 DEF Silent, Transition
  <1>13. CASE Prepare(w)
    BY <1>13 DEF Prepare
  <1>14. CASE Abort(w)
    BY <1>14 DEF Abort, Transition
  <1>15. CASE Unlock(w)
    BY <1>15, ReplyAssumption DEF Unlock
  <1>16. CASE End(w)
    BY <1>16, ReplyAssumption DEF End, Disowned
  <1> QED
    BY <1>1, <1>2, <1>3, <1>4, <1>5, <1>6, <1>7, <1>8, <1>9, <1>10, <1>11, <1>12, <1>13, <1>14, <1>15, <1>16 DEF Execute

LEMMA DeliverMoves ==
    ASSUME Types, NEW w \in Worker, Deliver(w)
    PROVE  Moves(w)
  <1> USE DEF Moves, Row, Goto, Ending, Types, TypeOK, TurnHeld, others, ledger,
          conversation, queue, history, Running, InLease, BeforeTools, AfterTools, Transport
  <1>1. CASE Check(w) \/ Missed(w) \/ Precheck(w) \/ LastCheck(w)
    BY <1>1 DEF Check, Missed, Precheck, LastCheck, Suppress
  <1>2. CASE SendGuard(w) \/ PreGuard(w) \/ PostGuard(w) \/ AcceptedGuard(w)
    BY <1>2 DEF SendGuard, PreGuard, PostGuard, AcceptedGuard, GuardAt, Guard
  <1>3. CASE Send(w) \/ Finish(w)
    BY <1>3 DEF Send, Finish
  <1>4. CASE Status(w) \/ Renew(w) \/ Post(w)
    BY <1>4 DEF Status, Renew, Post, PostOutcome
  <1>5. CASE Unsend(w) \/ Release(w) \/ Quarantine(w) \/ Discard(w) \/ Reject(w)
    BY <1>5 DEF Unsend, Release, Quarantine, Discard, Reject, Transition
  <1>6. CASE Confirm(w)
    BY <1>6 DEF Confirm
  <1> QED
    BY <1>1, <1>2, <1>3, <1>4, <1>5, <1>6 DEF Deliver

LEMMA WorkerMoves ==
    ASSUME Types, NEW w \in Worker, Step(w) \/ Crash(w) \/ \E t \in Turn : Take(w, t)
    PROVE  Moves(w)
  <1> USE ReplyAssumption DEF Moves, Types, TypeOK, TurnHeld, ledger, conversation, queue, history,
          Running, InLease, BeforeTools, AfterTools, Transport
  <1>1. CASE Step(w)
    BY <1>1, ExecuteMoves, DeliverMoves DEF Step
  <1>2. CASE Crash(w)
    BY <1>2 DEF Crash, Disowned
  <1>3. ASSUME NEW t \in Turn, Take(w, t) PROVE Moves(w)
    BY <1>3 DEF Take
  <1> QED
    BY <1>1, <1>2, <1>3

LEMMA EnvironmentMoves ==
    ASSUME Steady, Types, Environment
    PROVE  Moves(NoWorker)
  <1>1. UNCHANGED <<lock, queue, local>>
    BY DEF Steady, Environment, DropLock, ExpireSend, Handoff, ReturnToIA, OptOut, Reactivate,
       vars, others
  <1> QED
    BY <1>1, ReplyAssumption DEF Moves, queue, local

-----------------------------------------------------------------------------
(* The places are kept by every step. *)

\* The steps of the others leave the row of a lease holder to it.
LEMMA PlaceOthers ==
    ASSUME Types, NEW w \in Worker \cup {NoWorker}, Effect(w), Moves(w),
           NEW u \in Worker, u # w, Place(u), w \in Worker => Place(w)
    PROVE  Place(u)'
  <1>1. pc'[u] = pc[u] /\ turn'[u] = turn[u] /\ result'[u] = result[u]
    BY DEF Effect, FlowEffect, Moves
  <1>2. CASE pc[u] \notin InLease \cup {"acquire"}
    BY <1>1, <1>2 DEF Place, Leased, Ended, InLease, BeforeTools, AfterTools, Transport
  <1>3. CASE pc[u] \in InLease \cup {"acquire"}
    <2>1. turn[u] \in Turn
      BY <1>3 DEF Types, TurnHeld, InLease, BeforeTools, AfterTools, Transport
    <2>2. pc[u] \in InLease => lock[turn[u]] = u /\ lock'[turn[u]] = u
      BY <2>1 DEF Place, Leased, Moves
    <2>3. \/ row'[turn[u]] = row[turn[u]]
          \/ row'[turn[u]] \in Terminal
          \/ Own(w, turn[u])
      BY <2>1 DEF Effect, RowEffect, Terminal
    <2>4. Own(w, turn[u]) => pc[u] = "acquire" /\ row'[turn[u]] # "none"
      BY <2>1, <2>2, <1>3 DEF Own, Place, Leased, Row, InLease, BeforeTools, AfterTools, Transport
    <2>5. Leased(u)'
      BY <1>1, <2>2, <2>3, <2>4 DEF Place, Leased, Row, Terminal, InLease, BeforeTools, AfterTools, Transport
    <2>6. Ended(u)'
      BY <1>1, <1>3, <2>3, <2>4 DEF Place, Ended, Row, InLease, Transport
    <2> QED
      BY <2>5, <2>6 DEF Place
  <1> QED
    BY <1>2, <1>3

Places == \A w \in Worker : Place(w)

LEMMA PlacesStep ==
    ASSUME Steady, Types, Places, [Next]_vars
    PROVE  /\ Places'
           /\ \E w \in Worker \cup {NoWorker} : Effect(w) /\ Moves(w)
  <1>1. CASE Environment
    <2>1. Effect(NoWorker) /\ Moves(NoWorker)
      BY <1>1, EnvironmentEffect, EnvironmentMoves
    <2>2. ASSUME NEW u \in Worker PROVE Place(u)'
      BY <2>1, PlaceOthers, ReplyAssumption DEF Places
    <2> QED
      BY <2>1, <2>2 DEF Places
  <1>2. ASSUME NEW w \in Worker, Step(w) \/ Crash(w) \/ \E t \in Turn : Take(w, t)
        PROVE  Places' /\ Effect(w) /\ Moves(w)
    <2>1. Effect(w) /\ Moves(w)
      BY <1>2, WorkerEffect, WorkerMoves
    <2>2. Place(w)'
      <3>1. CASE Step(w)
        BY <3>1, PlaceExecute, PlaceDeliver DEF Step, Places
      <3>2. CASE pc'[w] \in {"gone", "guard"}
        BY <3>2 DEF Place, Leased, Ended, InLease, BeforeTools, AfterTools, Transport
      <3> QED
        BY <1>2, <3>1, <3>2 DEF Crash, Take, Types, TypeOK
    <2>3. ASSUME NEW u \in Worker, u # w PROVE Place(u)'
      BY <2>1, <2>3, PlaceOthers DEF Places
    <2> QED
      BY <2>1, <2>2, <2>3 DEF Places
  <1> QED
    BY <1>1, <1>2, NextCases

-----------------------------------------------------------------------------
(* Settled turns stay settled.                                              *)

\* Nobody can move the row any more, except a handoff that closes it.
Stuck(t) ==
    \/ row[t] \in Terminal
    \/ row[t] = "IN_FLIGHT" /\ \A w \in Worker : turn[w] = t => pc[w] \notin Transport

\* Nobody acts on a row that was at most reserved.
Parked(t) ==
    /\ row[t] \in {"none", "RESERVED"}
    /\ \A w \in Worker : turn[w] = t => pc[w] \notin Running

Settled(t) == Stuck(t) \/ Parked(t)

LEMMA StuckKept ==
    ASSUME NEW w \in Worker \cup {NoWorker}, Effect(w), NEW t \in Turn, Stuck(t)
    PROVE  Stuck(t)'
  <1>1. row'[t] = row[t] \/ row'[t] \in Terminal
    BY DEF Effect, RowEffect, Own, Stuck, Unsent, Terminal, Transport
  <1>2. ASSUME row[t] = "IN_FLIGHT", row'[t] = "IN_FLIGHT", NEW u \in Worker,
               turn'[u] = t, pc'[u] \in Transport
        PROVE  FALSE
    <2>1. turn[u] = t /\ pc[u] \in Transport
      BY <1>2 DEF Effect, FlowEffect, Transport
    <2> QED
      BY <1>2, <2>1 DEF Stuck, Terminal
  <1> QED
    BY <1>1, <1>2 DEF Stuck, Terminal

\* Only a worker whose fence passes could start on a parked row.
LEMMA ParkedKept ==
    ASSUME NEW w \in Worker \cup {NoWorker}, Effect(w), Moves(w), NEW t \in Turn, Parked(t),
           \A u \in Worker : turn[u] = t /\ pc[u] = "beginGuard" => owner[t] # u
    PROVE  Settled(t)'
  <1>1. row'[t] \in {"none", "RESERVED"} \cup Terminal
    BY DEF Effect, RowEffect, Own, Parked, Terminal, Running, InLease, BeforeTools, AfterTools,
       Transport
  <1>2. ASSUME NEW u \in Worker, turn'[u] = t, pc'[u] \in Running
        PROVE  FALSE
    <2>1. turn[u] = t
      BY <1>2 DEF Effect, FlowEffect, Running, InLease, BeforeTools, AfterTools, Transport
    <2>2. \/ pc[u] \in Running
          \/ pc[u] = "beginGuard" /\ owner[t] = u
          \/ row[t] \in {"EXECUTING", "PENDING"}
      BY <1>2, <2>1 DEF Effect, FlowEffect, Moves, Row
    <2> QED
      BY <2>1, <2>2 DEF Parked
  <1> QED
    BY <1>1, <1>2 DEF Settled, Stuck, Parked

\* A worker about to release the lock after a good turn leaves a stuck row.
LEMMA UnlockStuck ==
    ASSUME Types, Places, NEW w \in Worker, pc[w] = "unlock", result[w] = "completed"
    PROVE  Stuck(turn[w])
  <1>1. turn[w] \in Turn /\ lock[turn[w]] = w /\ Row(w) \in {"IN_FLIGHT"} \cup Terminal
    BY DEF Types, TurnHeld, Places, Place, Leased, Ended, InLease
  <1>2. \A v \in Worker : turn[v] = turn[w] /\ pc[v] \in Transport => v = w
    BY <1>1 DEF Places, Place, Leased, InLease
  <1> QED
    BY <1>1, <1>2 DEF Stuck, Row, Transport

\* The turns whose claim is acknowledged, and those whose worker has only the
\* acknowledgement left.
SettledInv ==
    /\ \A t \in Turn : claim[t] = "done" => Settled(t)
    /\ \A t \in Turn : \A w \in Worker :
          turn[w] = t /\ pc[w] = "end" /\ result[w] = "completed" /\ owner[t] = w => Settled(t)

LEMMA SettledKept ==
    ASSUME Types, NEW w \in Worker \cup {NoWorker}, Effect(w), Moves(w), NEW t \in Turn, Settled(t),
           \A u \in Worker : turn[u] = t /\ pc[u] = "beginGuard" => owner[t] # u
    PROVE  Settled(t)'
  BY StuckKept, ParkedKept DEF Settled

LEMMA SettledStep ==
    ASSUME Types, Places, SettledInv, Places', Types',
           NEW w \in Worker \cup {NoWorker}, Effect(w), Moves(w)
    PROVE  SettledInv'
  <1>1. ASSUME NEW t \in Turn, claim'[t] = "done" PROVE Settled(t)'
    <2>1. CASE claim[t] = "done"
      <3>1. owner[t] = NoWorker
        BY <2>1 DEF Types, Budget
      <3> QED
        BY <2>1, <3>1, SettledKept, ReplyAssumption DEF SettledInv
    <2>2. CASE claim[t] # "done"
      <3>1. w \in Worker /\ t = turn[w] /\ pc[w] = "end" /\ result[w] = "completed" /\ owner[t] = w
        BY <1>1, <2>2 DEF Moves
      <3> QED
        BY <3>1, SettledKept DEF SettledInv
    <2> QED
      BY <2>1, <2>2
  <1>2. ASSUME NEW t \in Turn, NEW u \in Worker, turn'[u] = t, pc'[u] = "end",
               result'[u] = "completed", owner'[t] = u
        PROVE  Settled(t)'
    <2>1. turn[u] = t
      BY <1>2 DEF Effect, FlowEffect
    <2>2. owner[t] = u
      BY <1>2, ReplyAssumption DEF Moves
    <2>3. CASE u # w \/ pc[u] = "end"
      <3>1. pc[u] = "end" /\ result[u] = "completed"
        BY <1>2, <2>3 DEF Effect, FlowEffect, Moves
      <3> QED
        BY <2>1, <2>2, <3>1, SettledKept DEF SettledInv
    <2>4. CASE u = w /\ pc[u] = "unlock" /\ result[u] = "completed"
      BY <2>1, <2>4, UnlockStuck, StuckKept DEF Settled
    <2>5. CASE row'[t] = "none"
      <3>1. Parked(t)'
        BY <2>5 DEF Parked, Places, Place, Leased, Row, Running
      <3> QED
        BY <3>1 DEF Settled
    <2> QED
      BY <1>2, <2>1, <2>3, <2>4, <2>5 DEF Moves
  <1> QED
    BY <1>1, <1>2 DEF SettledInv

\* Once a claim is acknowledged, its turn has neither an execution nobody
\* accounts for nor a prepared reply nobody sends, whatever crashes, stalled
\* workers, expired ownerships, unreachable fences, raising agents and hidden
\* answers there were: as long as the advisory lock is not lost and the
\* database does not raise (_AgentExecutionLease; ends of run_agent_for_message).
THEOREM CompletedSettled ==
    ASSUME Steady
    PROVE  Spec => []CompletedMeansSettled
  <1>1. Init => Places /\ SettledInv
    BY DEF Init, Places, Place, Leased, Ended, SettledInv, InLease, BeforeTools, AfterTools, Transport
  <1>2. Types /\ Places /\ SettledInv /\ [Next]_vars => Places' /\ SettledInv'
    BY PlacesStep, SettledStep, TypesNext
  <1>3. SettledInv => CompletedMeansSettled
    BY DEF SettledInv, Settled, Stuck, Parked, CompletedMeansSettled, Terminal
  <1> QED
    BY <1>1, <1>2, <1>3, TypesInit, TypesNext, PTL DEF Spec

=============================================================================
