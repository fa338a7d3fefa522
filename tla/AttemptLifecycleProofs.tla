------------------------ MODULE AttemptLifecycleProofs ------------------------
(***************************************************************************)
(* Proofs about AttemptLifecycle, for any number of Subtasks, Attempts and *)
(* crashes and for both backends.                                          *)
(*                                                                         *)
(* Type correctness comes first, then what one step may do to items,       *)
(* receipts, outcomes, answers and Subtasks.  A lawful step keeps the      *)
(* inductive invariant and is a step of AttemptLedger.  Every action is    *)
(* shown to be lawful, most of them by being gentle; the landings and the  *)
(* restart, which store receipts, and the staging of an accepted result,   *)
(* on their own.  Last: a container that executes has an active row, which *)
(* is what complete_task looks at.                                         *)
(***************************************************************************)
EXTENDS AttemptLifecycle, TLAPS

\* The operators on item statuses stay within them.
LEMMA ItemOperators ==
    ASSUME NEW i \in ItemStatuses
    PROVE  MarkTerminal(i) \in ItemStatuses /\ MarkUncertain(i) \in ItemStatuses
  BY DEF ItemStatuses, Indexed, Closed, MarkTerminal, MarkUncertain

\* An event of the inbox has the fields its type promises.
LEMMA EventFields ==
    ASSUME TypeOK, NEW e \in inbox
    PROVE  /\ e.type \in {"outcome", "yield", "lost"} => e.attempt \in Attempts
           /\ e.type = "recover" => e.subtask \in Subtasks /\ e.kind \in Kinds
           /\ e.type = "repair" => e.subtask \in Subtasks
  BY DEF TypeOK, Events

\* The events the Server stores are events.
LEMMA EventsTyped ==
    /\ \A a \in Attempts : [type |-> "outcome", attempt |-> a] \in Events
    /\ \A a \in Attempts : [type |-> "yield", attempt |-> a] \in Events
    /\ \A a \in Attempts : [type |-> "lost", attempt |-> a] \in Events
    /\ \A s \in Subtasks, k \in Kinds :
          [type |-> "recover", subtask |-> s, kind |-> Again(k)] \in Events
    /\ \A s \in Subtasks :
          [type |-> "recover", subtask |-> s, kind |-> "continuation"] \in Events
    /\ \A s \in Subtasks, n \in 0..MaxRepairs - 1 :
          [type |-> "repair", subtask |-> s, ordinal |-> n] \in Events
  BY DEF Events, Kinds, Again

LEMMA SubtaskTyped ==
    ASSUME TypeOK, NEW a \in Attempts
    PROVE  SubtaskOf(a) \in Subtasks /\ plan[a].kind \in Kinds
  BY DEF TypeOK, SubtaskOf

\* What land writes.
LandTyped ==
    /\ item' \in [Attempts -> ItemStatuses] /\ subtask' \in [Subtasks -> Statuses]
    /\ receipt' \in [Attempts -> Receipts] /\ outcome' \in [Attempts -> Outcomes]
    /\ inbox' \subseteq Events

LEMMA ReportTypes ==
    ASSUME TypeOK, NEW a \in Attempts, NEW kind \in Outcomes, Report(a, kind)
    PROVE  outcome' \in [Attempts -> Outcomes] /\ inbox' \subseteq Events
<1>1. outcome' \in [Attempts -> Outcomes]
  BY DEF TypeOK, Report
<1>2. [type |-> "outcome", attempt |-> a] \in Events
  BY EventsTyped
<1>3. inbox' \subseteq Events
  BY <1>2 DEF TypeOK, Report
<1> QED BY <1>1, <1>3

LEMMA LandTypes ==
    ASSUME TypeOK, NEW a \in Attempts, NEW kind \in Receipts, NEW next \in Statuses,
           Land(a, kind, next)
    PROVE  LandTyped
<1>1. item' \in [Attempts -> ItemStatuses] /\ receipt' \in [Attempts -> Receipts]
  BY ItemOperators DEF Land, TypeOK
<1>2. subtask' \in [Subtasks -> Statuses]
  BY Zenon DEF Land, TypeOK
<1>3. outcome' \in [Attempts -> Outcomes] /\ inbox' \subseteq Events
  <2>1. Terminal(kind, CancellationWon(a)) \in Outcomes
    BY DEF Terminal, Outcomes
  <2> QED BY <2>1, ReportTypes DEF Land
<1> QED BY <1>1, <1>2, <1>3 DEF LandTyped

\* What a landing of the runner writes.
LEMMA RunnerLandsTypes ==
    ASSUME TypeOK, NEW a \in Attempts, NEW kind \in Receipts, NEW next \in Statuses,
           RunnerLands(a, kind, next)
    PROVE  LandTyped /\ claim' \in [Attempts -> Claims] /\ run' \in [Attempts -> Places]
<1>1. claim' \in [Attempts -> Claims] /\ run' \in [Attempts -> Places]
  <2>1. /\ \E c \in {claim[a], "none", "claimed"} : claim' = [claim EXCEPT ![a] = c]
        /\ \E r \in {"landed", "threw"} : run' = [run EXCEPT ![a] = r]
    BY Zenon DEF RunnerLands
  <2>2. claim \in [Attempts -> Claims] /\ run \in [Attempts -> Places]
    BY Zenon DEF TypeOK
  <2>3. claim[a] \in Claims /\ {"none", "claimed"} \subseteq Claims
        /\ {"landed", "threw"} \subseteq Places
    BY <2>2 DEF Claims, Places, Returned
  <2> QED BY <2>1, <2>2, <2>3
<1>2. LandTyped
  <2>1. CASE Land(a, kind, next) BY <2>1, LandTypes
  <2>2. CASE UNCHANGED <<item, subtask, results>>
    BY <2>2 DEF LandTyped, TypeOK, results
  <2> QED BY <2>1, <2>2 DEF RunnerLands
<1> QED BY <1>1, <1>2

LEMMA FailTypes ==
    ASSUME TypeOK, NEW a \in Attempts, Fail(a)
    PROVE  LandTyped /\ claim' \in [Attempts -> Claims] /\ run' \in [Attempts -> Places]
  BY RunnerLandsTypes DEF Fail, Receipts, Statuses

LEMMA StartTypes ==
    ASSUME TypeOK, NEW a \in Attempts, Start(a)
    PROVE  LandTyped /\ claim' \in [Attempts -> Claims] /\ run' \in [Attempts -> Places]
<1>1. CASE Fail(a) BY <1>1, FailTypes
<1>2. CASE ~ Fail(a)
  BY <1>2, Zenon DEF Start, TypeOK, LandTyped, results, Statuses, Claims, Places, Claimed
<1> QED BY <1>1, <1>2

-----------------------------------------------------------------------------
LEMMA RunnerTypes ==
    ASSUME TypeOK, NEW a \in Attempts, Runner(a)
    PROVE  TypeOK'
<1> USE DEF server, items, results, holdings, executions
<1>1. CASE Launch(a)
  BY <1>1, Zenon DEF Launch, TypeOK, ItemStatuses, Closed, Indexed, Places, Returned
<1>2. CASE ClaimUnit(a)
  <2>1. LandTyped /\ claim' \in [Attempts -> Claims] /\ run' \in [Attempts -> Places]
    <3>1. CASE Start(a) BY <3>1, StartTypes
    <3>2. CASE ~ Start(a)
      BY <1>2, <3>2, Zenon DEF ClaimUnit, TypeOK, LandTyped, Claims, Places, Claimed
    <3> QED BY <3>1, <3>2
  <2> QED BY <1>2, <2>1 DEF ClaimUnit, TypeOK, LandTyped
<1>3. CASE NotClaimed(a)
  BY <1>3 DEF NotClaimed, TypeOK, Places, Returned
<1>4. CASE ReadBegan(a)
  <2>1. LandTyped /\ claim' \in [Attempts -> Claims] /\ run' \in [Attempts -> Places]
    BY <1>4, StartTypes, FailTypes DEF ReadBegan
  <2> QED BY <1>4, <2>1 DEF ReadBegan, TypeOK, LandTyped
<1>5. CASE Prepared(a)
  <2>1. LandTyped /\ claim' \in [Attempts -> Claims] /\ run' \in [Attempts -> Places]
    <3>1. CASE Fail(a) BY <3>1, FailTypes
    <3>2. CASE ~ Fail(a)
      BY <1>5, <3>2, Zenon DEF Prepared, TypeOK, LandTyped, Places, Claimed
    <3> QED BY <3>1, <3>2
  <2> QED BY <1>5, <2>1 DEF Prepared, TypeOK, LandTyped
<1>6. CASE Spawn(a)
  BY <1>6 DEF Spawn, TypeOK, Places, Claimed
<1>7. CASE SpawnFails(a)
  BY <1>7, FailTypes DEF SpawnFails, TypeOK, LandTyped
<1>8. CASE Exit(a)
  <2>1. LandTyped /\ claim' \in [Attempts -> Claims] /\ run' \in [Attempts -> Places]
    <3>1. CASE Fail(a) BY <3>1, FailTypes
    <3>2. CASE RunnerLands(a, "uncertified", "awaiting_decision")
      BY <3>2, RunnerLandsTypes DEF Receipts, Statuses
    <3>3. CASE run' = [run EXCEPT ![a] = "sealing"] /\ UNCHANGED <<item, subtask, results, claim>>
      BY <3>3 DEF TypeOK, LandTyped, Places, Claimed
    <3> QED BY <1>8, <3>1, <3>2, <3>3, Zenon DEF Exit
  <2> QED BY <1>8, <2>1, Zenon DEF Exit, TypeOK, LandTyped
<1>9. CASE Seal(a)
  <2>1. LandTyped /\ claim' \in [Attempts -> Claims] /\ run' \in [Attempts -> Places]
    BY <1>9, RunnerLandsTypes, FailTypes DEF Seal, Receipts, Statuses
  <2> QED BY <1>9, <2>1 DEF Seal, TypeOK, LandTyped
<1>10. CASE Return(a)
  BY <1>10, Zenon DEF Return, Release, TypeOK, Claims, Places, Returned
<1>11. CASE Settle(a)
  <2>1. outcome' \in [Attempts -> Outcomes] /\ inbox' \subseteq Events
    <3>1. CASE Report(a, "failed") BY <3>1, ReportTypes DEF Outcomes
    <3>2. CASE ~ Report(a, "failed") BY <1>11, <3>2, EventsTyped DEF Settle, TypeOK
    <3> QED BY <3>1, <3>2
  <2>2. item' \in [Attempts -> ItemStatuses] /\ run' \in [Attempts -> Places]
    BY <1>11, ItemOperators DEF Settle, TypeOK, Places
  <2>3. claim' \in [Attempts -> Claims] /\ owner' \subseteq Attempts
    BY <1>11 DEF Settle, Release, TypeOK, Claims
  <2> QED BY <1>11, <2>1, <2>2, <2>3 DEF Settle, TypeOK
<1>12. CASE SubmitThrows(a)
  <2>1. item' \in [Attempts -> ItemStatuses] /\ outcome' \in [Attempts -> Outcomes]
    BY <1>12, ItemOperators DEF SubmitThrows, TypeOK, Outcomes
  <2>2. inbox' \subseteq Events
    BY <1>12, EventsTyped DEF SubmitThrows, TypeOK
  <2> QED BY <1>12, <2>1, <2>2 DEF SubmitThrows, TypeOK, Places
<1>13. CASE Heartbeat(a)
  BY <1>13 DEF Heartbeat, TypeOK, Claims
<1>14. CASE Sweep(a)
  <2>1. LandTyped
    <3>1. CASE Land(a, "heartbeat_lost", "awaiting_decision")
      BY <3>1, LandTypes DEF Receipts, Statuses
    <3>2. CASE ~ Land(a, "heartbeat_lost", "awaiting_decision")
      BY <1>14, <3>2 DEF Sweep, LandHeartbeatLost, HasUnpersistedWrite, TypeOK, LandTyped
    <3> QED BY <3>1, <3>2
  <2> QED BY <1>14, <2>1, Zenon DEF Sweep, TypeOK, LandTyped, Claims
<1> QED
  BY <1>1, <1>2, <1>3, <1>4, <1>5, <1>6, <1>7, <1>8, <1>9, <1>10, <1>11, <1>12, <1>13,
     <1>14 DEF Runner

-----------------------------------------------------------------------------
\* What an authorization writes.
LEMMA AuthorizeTypes ==
    ASSUME TypeOK, NEW s \in Subtasks, NEW kind \in Kinds, Authorize(s, kind)
    PROVE  /\ item' \in [Attempts -> ItemStatuses]
           /\ plan' \in [Attempts -> [subtask : Subtasks, kind : Kinds]]
  BY DEF Authorize, TypeOK, ItemStatuses

\* What block_work writes.
LEMMA BlockTypes ==
    ASSUME TypeOK, NEW s \in Subtasks, Block(s)
    PROVE  subtask' \in [Subtasks -> Statuses]
  BY DEF Block, TypeOK, Statuses

LEMMA RequestTypes ==
    ASSUME TypeOK, NEW ss
    PROVE  RequestCancellation(ss) \in [Attempts -> ItemStatuses]
  BY DEF RequestCancellation, TypeOK, ItemStatuses, Indexed, Closed

LEMMA CancelTypes ==
    ASSUME TypeOK, NEW ss, Cancel(ss), task' \in {"running", "cancelled", "succeeded"}
    PROVE  TypeOK'
  BY RequestTypes
     DEF Cancel, TypeOK, Statuses, server, results, holdings, executions

LEMMA DecisionTypes ==
    ASSUME TypeOK, NEW e \in inbox,
           \/ DecideOutcome(e) \/ DecideResult(e) \/ DecideYield(e) \/ DecideLost(e)
           \/ DecideRecover(e) \/ DecideRepair(e)
    PROVE  TypeOK'
<1> USE DEF server, items, results, holdings, executions
<1>1. CASE DecideOutcome(e)
  <2>1. SubtaskOf(e.attempt) \in Subtasks
    BY <1>1, EventFields, SubtaskTyped DEF DecideOutcome
  <2>2. /\ item' \in [Attempts -> ItemStatuses]
        /\ plan' \in [Attempts -> [subtask : Subtasks, kind : Kinds]]
    <3>1. CASE Authorize(SubtaskOf(e.attempt), "continuation")
      BY <3>1, <2>1, AuthorizeTypes DEF Kinds
    <3>2. CASE UNCHANGED <<item, plan>> BY <3>2 DEF TypeOK
    <3> QED BY <1>1, <3>1, <3>2, Zenon DEF DecideOutcome
  <2>3. subtask' \in [Subtasks -> Statuses]
    <3>1. CASE Block(SubtaskOf(e.attempt)) BY <3>1, <2>1, BlockTypes
    <3>2. CASE UNCHANGED subtask BY <3>2 DEF TypeOK
    <3> QED BY <1>1, <3>1, <3>2, Zenon DEF DecideOutcome
  <2> QED BY <1>1, <2>2, <2>3 DEF DecideOutcome, Drop, TypeOK
<1>2. CASE DecideYield(e)
  <2>1. SubtaskOf(e.attempt) \in Subtasks
    BY <1>2, EventFields, SubtaskTyped, Zenon DEF DecideYield
  <2>2. subtask' \in [Subtasks -> Statuses]
    <3>1. CASE Block(SubtaskOf(e.attempt)) BY <3>1, <2>1, BlockTypes
    <3>2. CASE UNCHANGED subtask BY <3>2 DEF TypeOK
    <3> QED BY <1>2, <3>1, <3>2 DEF DecideYield
  <2> QED BY <1>2, <2>2 DEF DecideYield, Drop, TypeOK
<1>3. CASE DecideLost(e)
  <2> DEFINE a == e.attempt
             s == SubtaskOf(a)
             r == [type |-> "recover", subtask |-> s, kind |-> Again(plan[a].kind)]
  <2>1. a \in Attempts
    BY <1>3, EventFields DEF DecideLost
  <2>2. s \in Subtasks /\ plan[a].kind \in Kinds
    BY <2>1, SubtaskTyped
  <2>3. r \in Events
    BY <2>2, EventsTyped
  <2> HIDE DEF r
  <2>4. inbox' \subseteq Events
    BY <1>3, <2>3 DEF DecideLost, Drop, TypeOK, r
  <2>5. item' \in [Attempts -> ItemStatuses]
    BY <1>3, <2>1, ItemOperators DEF DecideLost, TypeOK
  <2>6. subtask' \in [Subtasks -> Statuses]
    <3>1. CASE Block(s) BY <3>1, <2>2, BlockTypes
    <3>2. CASE ~ Block(s)
      BY <1>3, <2>2, <3>2 DEF DecideLost, TypeOK, Statuses, Expected
    <3> QED BY <3>1, <3>2
  <2> QED BY <1>3, <2>4, <2>5, <2>6 DEF DecideLost, TypeOK
<1>4. CASE DecideRecover(e)
  <2>1. e.subtask \in Subtasks /\ e.kind \in Kinds
    <3>1. e \in inbox /\ e.type = "recover" BY <1>4, Zenon DEF DecideRecover
    <3> QED BY <3>1, EventFields, Zenon
  <2>2. /\ item' \in [Attempts -> ItemStatuses]
        /\ plan' \in [Attempts -> [subtask : Subtasks, kind : Kinds]]
    <3>1. CASE Authorize(e.subtask, e.kind) BY <3>1, <2>1, AuthorizeTypes
    <3>2. CASE UNCHANGED <<item, plan>> BY <3>2 DEF TypeOK
    <3> QED BY <1>4, <3>1, <3>2, Zenon DEF DecideRecover
  <2>3. subtask' \in [Subtasks -> Statuses]
    <3>1. CASE Block(e.subtask) BY <3>1, <2>1, BlockTypes
    <3>2. CASE UNCHANGED subtask BY <3>2 DEF TypeOK
    <3> QED BY <1>4, <3>1, <3>2, SMTT(30) DEF DecideRecover
  <2> QED BY <1>4, <2>2, <2>3, SMTT(30) DEF DecideRecover, Drop, TypeOK
<1>5. CASE DecideResult(e)
  <2>1. SubtaskOf(e.attempt) \in Subtasks
    BY <1>5, EventFields, SubtaskTyped DEF DecideResult
  <2>2. subtask' \in [Subtasks -> Statuses]
    <3>1. CASE Block(SubtaskOf(e.attempt)) BY <3>1, <2>1, BlockTypes
    <3>2. CASE ~ Block(SubtaskOf(e.attempt))
      BY <1>5, <2>1, <3>2 DEF DecideResult, TypeOK, Statuses
    <3> QED BY <3>1, <3>2
  <2> QED BY <1>5, <2>2 DEF DecideResult, Drop, TypeOK
<1>6. CASE DecideRepair(e)
  <2>1. e.subtask \in Subtasks
    <3>1. e \in inbox /\ e.type = "repair" BY <1>6, Zenon DEF DecideRepair
    <3> QED BY <3>1, EventFields, Zenon
  <2>2. /\ item' \in [Attempts -> ItemStatuses]
        /\ plan' \in [Attempts -> [subtask : Subtasks, kind : Kinds]]
    <3>1. CASE Authorize(e.subtask, "repair") BY <3>1, <2>1, AuthorizeTypes DEF Kinds
    <3>2. CASE UNCHANGED <<item, plan>> BY <3>2 DEF TypeOK
    <3> QED BY <1>6, <3>1, <3>2, Zenon DEF DecideRepair
  <2>3. subtask' \in [Subtasks -> Statuses]
    <3>1. CASE Block(e.subtask) BY <3>1, <2>1, BlockTypes
    <3>2. CASE UNCHANGED subtask BY <3>2 DEF TypeOK
    <3> QED BY <1>6, <3>1, <3>2, Zenon DEF DecideRepair
  <2> QED BY <1>6, <2>2, <2>3, Zenon DEF DecideRepair, Drop, TypeOK
<1> QED BY <1>1, <1>2, <1>3, <1>4, <1>5, <1>6

\* The service repair is asked for, and the Subtask reopened.
LEMMA RepairTypes ==
    ASSUME TypeOK,
           (\E s \in Subtasks : RequestRepair(s)) \/ (\E a \in Attempts : Reopen(a))
    PROVE  TypeOK'
<1> USE DEF server, items, results, holdings, executions
<1>1. ASSUME NEW s \in Subtasks, RequestRepair(s) PROVE TypeOK'
  <2>1. Rounds(s) \in 0..MaxRepairs - 1
    BY <1>1, Zenon DEF RequestRepair
  <2>2. [type |-> "repair", subtask |-> s, ordinal |-> Rounds(s)] \in Events
    BY <2>1, EventsTyped, Zenon
  <2>3. inbox' \subseteq Events
    BY <1>1, <2>2, Zenon DEF RequestRepair, TypeOK
  <2> QED BY <1>1, <2>3, Zenon DEF RequestRepair, TypeOK
<1>2. ASSUME NEW a \in Attempts, Reopen(a) PROVE TypeOK'
  BY <1>2, Zenon DEF Reopen, TypeOK, Statuses
<1> QED BY <1>1, <1>2

\* The user answers for an uncertified result, and an accepted one is staged.
LEMMA AnswerTypes ==
    ASSUME TypeOK, NEW a \in Attempts, AcceptResult(a) \/ RetryResult(a) \/ StageAccepted(a)
    PROVE  TypeOK'
<1> USE DEF server, items, results, holdings, executions
<1>1. CASE AcceptResult(a)
  BY <1>1 DEF AcceptResult, TypeOK, Answers
<1>2. CASE RetryResult(a)
  BY <1>2, Zenon DEF RetryResult, TypeOK, Answers, Statuses
<1>3. CASE StageAccepted(a)
  BY <1>3, Zenon DEF StageAccepted, TypeOK, Answers, Statuses
<1> QED BY <1>1, <1>2, <1>3

LEMMA KernelTypes ==
    ASSUME TypeOK, Kernel
    PROVE  TypeOK'
<1> USE DEF server, items, results, holdings, executions
<1>1. ASSUME NEW s \in Subtasks, DispatchReady(s) PROVE TypeOK'
  <2>1. /\ item' \in [Attempts -> ItemStatuses]
        /\ plan' \in [Attempts -> [subtask : Subtasks, kind : Kinds]]
    BY <1>1, AuthorizeTypes DEF DispatchReady, Kinds
  <2> QED BY <1>1, <2>1 DEF DispatchReady, TypeOK
<1>2. ASSUME NEW s \in Subtasks, Resume(s) PROVE TypeOK'
  <2>1. [type |-> "recover", subtask |-> s, kind |-> "continuation"] \in Events
    BY EventsTyped, Zenon
  <2>2. inbox' \subseteq Events
    BY <1>2, <2>1 DEF Resume, TypeOK
  <2> QED BY <1>2, <2>2 DEF Resume, TypeOK, Statuses
<1>3. ASSUME NEW s \in Subtasks, CancelSubtask(s) PROVE TypeOK'
  BY <1>3, CancelTypes DEF CancelSubtask, TypeOK
<1>4. ASSUME NEW a \in Attempts, InsertBatch(a) PROVE TypeOK'
  BY <1>4 DEF InsertBatch, TypeOK, ItemStatuses, Indexed, Closed
<1>5. ASSUME NEW e \in inbox,
             \/ DecideOutcome(e) \/ DecideResult(e) \/ DecideYield(e) \/ DecideLost(e)
             \/ DecideRecover(e) \/ DecideRepair(e)
      PROVE  TypeOK'
  BY <1>5, DecisionTypes
<1>6. CASE CompleteTask
  BY <1>6 DEF CompleteTask, TypeOK
<1>7. CASE CancelTask
  BY <1>7, CancelTypes DEF CancelTask
<1> QED
  BY <1>1, <1>2, <1>3, <1>4, <1>5, <1>6, <1>7, RepairTypes, AnswerTypes DEF Kernel

-----------------------------------------------------------------------------
LEMMA RecoveryTypes ==
    ASSUME TypeOK, ConstantsFit, Recovery
    PROVE  TypeOK'
<1> USE DEF server, items, results, holdings, executions
<1>1. ASSUME NEW a \in Attempts, RecoverCancelling(a) PROVE TypeOK'
  BY <1>1 DEF RecoverCancelling, TypeOK, ItemStatuses, Closed
<1>2. ASSUME NEW a \in Attempts, OrphanExit(a) PROVE TypeOK'
  BY <1>2 DEF OrphanExit, TypeOK
<1>3. ASSUME NEW a \in Attempts, LandOrphan(a) PROVE TypeOK'
  <2>1. LandTyped
    <3>1. CASE Land(a, "heartbeat_lost", "awaiting_decision")
      BY <3>1, LandTypes DEF Receipts, Statuses
    <3>2. CASE ~ Land(a, "heartbeat_lost", "awaiting_decision")
      BY <1>3, <3>2 DEF LandOrphan, LandHeartbeatLost, HasUnpersistedWrite, TypeOK, LandTyped
    <3> QED BY <3>1, <3>2
  <2> QED BY <1>3, <2>1, Zenon DEF LandOrphan, TypeOK, LandTyped, Claims
<1>4. ASSUME NEW a \in Attempts, StartupThrows(a) PROVE TypeOK'
  BY <1>4 DEF StartupThrows, TypeOK
<1>5. CASE GitRecovery
  BY <1>5 DEF GitRecovery, TypeOK
<1>6. CASE Crash
  <2>1. crashes' \in 0..MaxCrashes
    BY <1>6 DEF Crash, TypeOK, ConstantsFit
  <2>2. item' \in [Attempts -> ItemStatuses] /\ run' \in [Attempts -> Places]
    BY <1>6 DEF Crash, TypeOK, ItemStatuses, Indexed, Places
  <2>3. claim' \in [Attempts -> Claims] /\ owner' \subseteq Attempts
    BY <1>6 DEF Crash, TypeOK, Claims
  <2>4. executing' \subseteq Attempts
    BY <1>6 DEF Crash, TypeOK
  <2> QED BY <1>6, <2>1, <2>2, <2>3, <2>4 DEF Crash, TypeOK
<1>7. CASE Restart
  <2>1. item' \in [Attempts -> ItemStatuses]
    BY <1>7, ItemOperators DEF Restart, TypeOK
  <2>2. receipt' \in [Attempts -> Receipts] /\ claim' \in [Attempts -> Claims]
    BY <1>7 DEF Restart, TypeOK, Receipts, Claims
  <2> QED BY <1>7, <2>1, <2>2 DEF Restart, TypeOK
<1>8. CASE StopBackends
  BY <1>8 DEF StopBackends, TypeOK
<1>9. CASE RecordLosses
  <2>1. item' \in [Attempts -> ItemStatuses]
    BY <1>9, ItemOperators, Zenon DEF RecordLosses, TypeOK, ItemStatuses, Closed
  <2>2. inbox' \subseteq Events
    <3>1. \E open \in SUBSET lost : inbox' = inbox \cup {[type |-> "lost", attempt |-> b] : b \in open}
      BY <1>9, Zenon DEF RecordLosses
    <3>2. inbox \subseteq Events /\ lost \subseteq Attempts
      BY Zenon DEF TypeOK
    <3> QED BY <3>1, <3>2, EventsTyped, Zenon
  <2> QED BY <1>9, <2>1, <2>2, ZenonT(30) DEF RecordLosses, TypeOK
<1>10. CASE StartupDone
  BY <1>10 DEF StartupDone, TypeOK, ItemStatuses, Indexed
<1> QED
  BY <1>1, <1>2, <1>3, <1>4, <1>5, <1>6, <1>7, <1>8, <1>9, <1>10 DEF Recovery

LEMMA StutterTypes ==
    ASSUME TypeOK, UNCHANGED vars
    PROVE  TypeOK'
  BY DEF TypeOK, vars, server, items, results, holdings, executions

\* The initial state is typed.
LEMMA InitTypes ==
    ASSUME Init
    PROVE  TypeOK
<1> USE ConstantsFit
<1>1. /\ subtask \in [Subtasks -> Statuses] /\ answer \in [Attempts -> Answers]
      /\ item \in [Attempts -> ItemStatuses]
      /\ sandbox \in [Attempts -> {"none", "active", "removed", "missing"}]
      /\ receipt \in [Attempts -> Receipts]
      /\ outcome \in [Attempts -> Outcomes]
      /\ claim \in [Attempts -> Claims]
      /\ run \in [Attempts -> Places]
  BY DEF Init, Statuses, Answers, ItemStatuses, Receipts, Outcomes, Claims, Places
<1>2. plan \in [Attempts -> [subtask : Subtasks, kind : Kinds]]
  BY ZenonT(30) DEF Init, Kinds, ConstantsFit
<1>3. backend \in {"native", "docker"} /\ readers \subseteq Subtasks
  BY DEF Init, ConstantsFit
<1>4. process = "up" /\ crashes \in 0..MaxCrashes /\ task = "running"
  BY DEF Init, ConstantsFit
<1> QED BY <1>1, <1>2, <1>3, <1>4 DEF Init, TypeOK

\* Every variable of AttemptLifecycle keeps its type.
THEOREM TypeCorrect == Spec => []TypeOK
<1>1. Init => TypeOK
  BY InitTypes
<1>2. TypeOK /\ [Next]_vars => TypeOK'
  BY ConstantsFit, RunnerTypes, KernelTypes, RecoveryTypes, StutterTypes DEF Next
<1> QED BY <1>1, <1>2, PTL DEF Spec

-----------------------------------------------------------------------------
(* What a step may do: Lawful.                                             *)

Absent == {"none", "authorized", "refused"}
Launchable == {"pending_launch", "launching"}
Unlaunched == Absent \cup Launchable

\* An Attempt that was not launched has no receipt, no outcome and no runner.
Untouched ==
    \A a \in Attempts :
        item[a] \in Unlaunched => receipt[a] = "none" /\ outcome[a] = "none" /\ run[a] = "none"

\* A runner without a receipt has not reported an outcome either.
FirstOutcome ==
    \A a \in Attempts : outcome[a] # "none" => receipt[a] # "none" \/ run[a] = "none"

\* Only an uncertified result is answered for.
Answered == \A a \in Attempts : answer[a] # "none" => receipt[a] = "uncertified"

Core == OneLiveItem /\ ReceiptSealed /\ Untouched /\ FirstOutcome /\ Answered

IInv == TypeOK /\ Core /\ CompletionIsOwned

\* Where a dispatch item may go.
Progress(i, j) ==
    /\ i \in Closed => j \in Closed
    /\ i = "uncertain" => j \in {"uncertain", "cancelling"} \cup Closed
    /\ i = "cancelling" => j \in {"cancelling"} \cup Closed
    /\ i \in Launchable \cup {"running"} => j \notin Absent
    /\ i \in Absent => j \in Unlaunched \cup Closed
    /\ i # "none" => j # "none"
    /\ j \in Unlaunched => i \in Unlaunched

PlanKept == \A a \in Attempts : item[a] # "none" => plan'[a] = plan[a]
ItemsProgress == \A a \in Attempts : Progress(item[a], item'[a])
CancelledKept ==
    /\ task = "cancelled" => task' = "cancelled"
    /\ \A s \in Subtasks : subtask[s] = "cancelled" => subtask'[s] = "cancelled"

\* A service repair of s is authorized and not inserted yet.
Permitted(s) ==
    \E a \in Attempts : item[a] = "authorized" /\ plan[a].kind = "repair" /\ SubtaskOf(a) = s

DoneKept ==
    \A s \in Subtasks :
        /\ subtask'[s] = "done" => subtask[s] = "done"
        /\ subtask[s] = "done" => subtask'[s] = "done" \/ Permitted(s)

\* A receipt is not changed, and a new one comes with the close of its item.
Receipted ==
    \A a \in Attempts :
        \/ receipt'[a] = receipt[a]
        \/ receipt[a] = "none" /\ item[a] \notin Absent /\ item'[a] \in Closed

\* The one Attempt a step may credit.
NewlyCredited(a) == ~ Credited(a) /\ Credited(a)'

Credits ==
    /\ \A a \in Attempts : Credited(a) => Credited(a)'
    /\ \A a, b \in Attempts : NewlyCredited(a) /\ NewlyCredited(b) => a = b
    /\ \A a \in Attempts :
          NewlyCredited(a) =>
              /\ receipt[a] = "none"
              /\ subtask'[SubtaskOf(a)] = "done" /\ subtask[SubtaskOf(a)] # "done"

\* An accepted result stays accepted; it was uncertified, and makes its Subtask done.
NewlyStaged(a) == answer[a] # "staged" /\ answer'[a] = "staged"

Accepts ==
    \A a \in Attempts :
        /\ answer[a] = "staged" => answer'[a] = "staged"
        /\ NewlyStaged(a) => receipt[a] = "uncertified" /\ subtask'[SubtaskOf(a)] = "done"

\* A Subtask becomes done by one of its Attempts and is reopened under a permit.
DoneChanges ==
    \A s \in Subtasks :
        /\ subtask[s] # "done" /\ subtask'[s] = "done" =>
              \E a \in Attempts : SubtaskOf(a) = s /\ (NewlyCredited(a) \/ NewlyStaged(a))
        /\ subtask[s] = "done" /\ subtask'[s] # "done" => Permitted(s)

Lawful ==
    /\ Core' /\ PlanKept /\ ItemsProgress /\ CancelledKept
    /\ Receipted /\ Credits /\ Accepts /\ DoneChanges

\* A lawful step keeps the completions owned: an Attempt that is finished was
\* authorized before, and a Subtask that was reopened has a repair.
LEMMA LawfulKeepsOwned ==
    ASSUME IInv, TypeOK', Lawful
    PROVE  CompletionIsOwned'
<1> USE DEF IInv, Core
<1>1. ASSUME NEW s \in Subtasks PROVE AttemptsOf(s) \subseteq AttemptsOf(s)'
  BY ZenonT(30) DEF Lawful, AttemptsOf, PlanKept, ItemsProgress, Progress, SubtaskOf
<1>2. ASSUME NEW s \in Subtasks, Repaired(s) PROVE Repaired(s)'
  <2>1. PICK a \in AttemptsOf(s) : plan[a].kind = "repair"
    BY <1>2 DEF Repaired
  <2>2. a \in AttemptsOf(s)' /\ plan'[a] = plan[a]
    BY <1>1 DEF AttemptsOf, Lawful, PlanKept
  <2> QED BY <2>1, <2>2 DEF Repaired
<1>3. \A a \in Attempts : NewlyCredited(a) => item[a] # "none" /\ subtask[SubtaskOf(a)] # "done"
  BY ZenonT(30) DEF Lawful, Credits, Receipted, NewlyCredited, Credited, Absent
<1>4. \A a \in Attempts : receipt[a] # "none" => item[a] # "none"
  BY DEF ReceiptSealed, Closed
<1>5. \A a \in Attempts : Finished(a) => Finished(a)' /\ item[a] # "none"
  BY <1>4, ZenonT(30) DEF Lawful, Credits, Accepts, Finished, Credited, Answered
<1>6. ASSUME NEW a \in Attempts, ~ Finished(a), Finished(a)'
      PROVE  item[a] # "none" /\ subtask'[SubtaskOf(a)] = "done"
  <2>1. CASE NewlyCredited(a)
    BY <1>3, <2>1, ZenonT(30) DEF Lawful, Credits
  <2>2. CASE NewlyStaged(a)
    BY <1>4, <2>2, ZenonT(30) DEF Lawful, Accepts
  <2> QED BY <1>6, <2>1, <2>2, ZenonT(30) DEF Finished, NewlyCredited, NewlyStaged
<1>7. \A a \in Attempts : NewlyCredited(a) \/ NewlyStaged(a) => Finished(a)' /\ item[a] # "none"
  BY <1>3, <1>4, ZenonT(30) DEF NewlyCredited, NewlyStaged, Finished, Lawful, Accepts
<1>8. \A s \in Subtasks, a \in Attempts :
         Finished(a)' /\ a \in AttemptsOf(s)' => a \in AttemptsOf(s)
  BY <1>5, <1>6, ZenonT(30) DEF Lawful, AttemptsOf, PlanKept, SubtaskOf
<1>9. SUFFICES ASSUME NEW s \in Subtasks
               PROVE  /\ subtask'[s] = "done" => \E a \in AttemptsOf(s)' : Finished(a)'
                      /\ (\E a \in AttemptsOf(s)' : Finished(a)') =>
                            subtask'[s] = "done" \/ Repaired(s)'
                      /\ \A a, b \in AttemptsOf(s)' :
                            Credited(a)' /\ Credited(b)' => a = b \/ Repaired(s)'
  BY Zenon DEF CompletionIsOwned
<1>10. /\ subtask[s] = "done" => \E a \in AttemptsOf(s) : Finished(a)
       /\ (\E a \in AttemptsOf(s) : Finished(a)) => subtask[s] = "done" \/ Repaired(s)
       /\ \A a, b \in AttemptsOf(s) : Credited(a) /\ Credited(b) => a = b \/ Repaired(s)
  BY Zenon DEF CompletionIsOwned
<1>11. AttemptsOf(s) \subseteq Attempts /\ AttemptsOf(s)' \subseteq Attempts
  BY DEF AttemptsOf
<1>12. ASSUME subtask'[s] = "done" PROVE \E a \in AttemptsOf(s)' : Finished(a)'
  <2>1. CASE subtask[s] = "done"
    BY <1>1, <1>5, <1>10, <1>11, <2>1, ZenonT(30)
  <2>2. CASE subtask[s] # "done"
    <3>1. PICK a \in Attempts : SubtaskOf(a) = s /\ (NewlyCredited(a) \/ NewlyStaged(a))
      BY <1>12, <2>2, ZenonT(30) DEF Lawful, DoneChanges
    <3>2. a \in AttemptsOf(s) /\ Finished(a)'
      BY <1>7, <3>1, ZenonT(30) DEF AttemptsOf
    <3> QED BY <1>1, <3>2, ZenonT(30)
  <2> QED BY <2>1, <2>2
<1>13. ASSUME NEW a \in AttemptsOf(s)', Finished(a)' PROVE subtask'[s] = "done" \/ Repaired(s)'
  <2>1. a \in AttemptsOf(s) /\ a \in Attempts
    BY <1>8, <1>11, <1>13, ZenonT(30)
  <2>2. CASE Finished(a)
    <3>1. CASE Repaired(s) BY <1>2, <3>1
    <3>2. CASE subtask[s] = "done" /\ subtask'[s] # "done"
      <4>1. PICK b \in Attempts :
               item[b] = "authorized" /\ plan[b].kind = "repair" /\ SubtaskOf(b) = s
        BY <3>2, ZenonT(30) DEF Lawful, DoneChanges, Permitted
      <4>2. b \in AttemptsOf(s)
        BY <4>1 DEF AttemptsOf
      <4> QED BY <1>2, <4>1, <4>2, ZenonT(30) DEF Repaired
    <3> QED BY <1>10, <2>1, <2>2, <3>1, <3>2, ZenonT(30)
  <2>3. CASE ~ Finished(a)
    BY <1>6, <1>13, <2>1, <2>3, ZenonT(30) DEF AttemptsOf
  <2> QED BY <2>2, <2>3
<1>14. ASSUME NEW a \in AttemptsOf(s)', NEW b \in AttemptsOf(s)', Credited(a)', Credited(b)'
       PROVE  a = b \/ Repaired(s)'
  <2>1. /\ a \in AttemptsOf(s) /\ a \in Attempts
        /\ b \in AttemptsOf(s) /\ b \in Attempts
    BY <1>8, <1>11, <1>14, ZenonT(30) DEF Finished
  <2>2. \A c \in AttemptsOf(s) : NewlyCredited(c) => subtask[s] # "done"
    BY <1>3, <1>11, ZenonT(30) DEF AttemptsOf
  <2>3. CASE Credited(a) /\ Credited(b)
    BY <1>2, <1>10, <2>1, <2>3, ZenonT(30)
  <2>4. CASE NewlyCredited(a) /\ NewlyCredited(b)
    BY <2>1, <2>4, ZenonT(30) DEF Lawful, Credits
  <2>5. CASE NewlyCredited(a) /\ Credited(b)
    BY <1>2, <1>10, <2>1, <2>2, <2>5, ZenonT(30) DEF Finished
  <2>6. CASE Credited(a) /\ NewlyCredited(b)
    BY <1>2, <1>10, <2>1, <2>2, <2>6, ZenonT(30) DEF Finished
  <2> QED BY <1>14, <2>3, <2>4, <2>5, <2>6, ZenonT(30) DEF NewlyCredited
<1> QED BY <1>12, <1>13, <1>14, ZenonT(30)

(* A step without a new receipt and without a completion is gentle.        *)

Gentle ==
    /\ PlanKept /\ ItemsProgress /\ CancelledKept /\ DoneKept
    /\ OneLiveItem'
    /\ receipt' = receipt
    /\ \A a \in Attempts :
          \/ outcome'[a] = outcome[a]
          \/ outcome[a] = "none" /\ outcome'[a] = "failed" /\ run'[a] = "none"
             /\ item'[a] \notin Unlaunched
    /\ \A a \in Attempts :
          run[a] = "none" /\ run'[a] # "none" => outcome'[a] = "none" /\ item'[a] \notin Unlaunched
    /\ \A a \in Attempts :
          \/ answer'[a] = answer[a]
          \/ answer[a] = "none" /\ receipt[a] = "uncertified" /\ answer'[a] # "staged"

LEMMA GentleIsLawful ==
    ASSUME IInv, TypeOK', Gentle
    PROVE  Lawful
<1> USE DEF IInv, Core, Gentle
<1>1. \A a \in Attempts : Credited(a)' <=> Credited(a)
  BY ZenonT(30) DEF Credited, TypeOK, Outcomes
<1>2. ReceiptSealed'
  <2>1. \A a \in Attempts : outcome[a] # "none" => outcome'[a] # "none"
    BY ZenonT(30)
  <2>2. \A a \in Attempts : item[a] \in Closed => item'[a] \in Closed
    BY ZenonT(30) DEF ItemsProgress, Progress
  <2>3. ReceiptSealed /\ receipt' = receipt
    BY Zenon
  <2> HIDE DEF IInv, Core, Gentle
  <2> QED BY <2>1, <2>2, <2>3, Zenon DEF ReceiptSealed
<1>3. Untouched'
  BY ZenonT(30) DEF Untouched, ItemsProgress, Progress
<1>4. FirstOutcome'
  BY DEF FirstOutcome
<1>5. Answered'
  BY ZenonT(30) DEF Answered
<1>6. Receipted /\ Credits
  BY <1>1, ZenonT(30) DEF Receipted, Credits, NewlyCredited
<1>7. Accepts
  BY ZenonT(30) DEF Accepts, NewlyStaged
<1>8. DoneChanges
  BY ZenonT(30) DEF DoneChanges, DoneKept
<1> QED BY <1>2, <1>3, <1>4, <1>5, <1>6, <1>7, <1>8 DEF Lawful

-----------------------------------------------------------------------------
(* Dispatch items.                                                         *)

\* The two marks are progress, and add no live item.
LEMMA Marks ==
    ASSUME NEW i \in ItemStatuses
    PROVE  /\ Progress(i, i) /\ Progress(i, MarkTerminal(i)) /\ Progress(i, MarkUncertain(i))
           /\ MarkTerminal(i) \in Indexed => i \in Indexed
           /\ MarkUncertain(i) \in Indexed => i \in Indexed
           /\ MarkTerminal(i) \in Unlaunched => MarkTerminal(i) = i
           /\ MarkUncertain(i) \in Unlaunched => MarkUncertain(i) = i
  BY DEF ItemStatuses, Indexed, Closed, MarkTerminal, MarkUncertain, Progress, Unlaunched,
         Absent, Launchable

\* No new live item: one live item per Subtask is kept.
LEMMA IndexKept ==
    ASSUME OneLiveItem, PlanKept, \A a \in Attempts : item'[a] \in Indexed => item[a] \in Indexed
    PROVE  OneLiveItem'
  BY DEF OneLiveItem, Siblings, SubtaskOf, PlanKept, Indexed

\* A free slot may be taken.
LEMMA SlotTaken ==
    ASSUME OneLiveItem, UNCHANGED plan, NEW a \in Attempts, SlotFree(SubtaskOf(a)),
           \A b \in Attempts \ {a} : item'[b] = item[b]
    PROVE  OneLiveItem'
  BY DEF OneLiveItem, Siblings, SubtaskOf, SlotFree, Indexed

\* requestCancellation leaves one live item per Subtask: of the uncertain ones only
\* the first becomes cancelling, and only when no sibling is live.
LEMMA RequestKeepsOne ==
    ASSUME TypeOK, ConstantsFit, OneLiveItem, UNCHANGED plan, NEW ss,
           item' = RequestCancellation(ss)
    PROVE  OneLiveItem' /\ ItemsProgress
<1>1. \A a \in Attempts :
         item'[a] \in Indexed => item[a] \in Indexed \/ (item[a] = "uncertain" /\ ~ Superseded(a))
  BY DEF RequestCancellation, Indexed
<1>2. ASSUME NEW a \in Attempts, NEW b \in Attempts, a # b, SubtaskOf(a) = SubtaskOf(b),
             item'[a] \in Indexed, item'[b] \in Indexed
      PROVE  FALSE
  <2>1. a \in Int /\ b \in Int
    BY ConstantsFit DEF Attempts, ConstantsFit
  <2>2. a \in Siblings(b) /\ b \in Siblings(a)
    BY <1>1, <1>2 DEF Siblings, Indexed
  <2>3. item[a] = "uncertain" /\ item[b] = "uncertain"
    BY <1>1, <1>2, <2>2 DEF OneLiveItem, Superseded
  <2> QED BY <1>1, <1>2, <2>1, <2>2, <2>3 DEF Superseded, Indexed
<1>3. OneLiveItem'
  BY <1>2 DEF OneLiveItem, Siblings, SubtaskOf
<1>4. ItemsProgress
  BY DEF ItemsProgress, Progress, RequestCancellation, TypeOK, ItemStatuses, Indexed, Closed,
         Unlaunched, Absent, Launchable
<1> QED BY <1>3, <1>4

\* An authorization is gentle as far as items and plans go.
LEMMA AuthorizeGentle ==
    ASSUME IInv, NEW s \in Subtasks, NEW kind \in Kinds, Authorize(s, kind)
    PROVE  PlanKept /\ ItemsProgress /\ OneLiveItem'
<1>1. PlanKept
  BY DEF Authorize, IsFresh, PlanKept, IInv, TypeOK
<1>2. ItemsProgress
  BY Marks, ZenonT(30) DEF Authorize, IsFresh, ItemsProgress, Progress, IInv, TypeOK, ItemStatuses,
               Closed, Unlaunched, Absent, Launchable, Indexed
<1>3. OneLiveItem'
  <2>1. \A a \in Attempts : item'[a] \in Indexed => item[a] \in Indexed
    BY DEF Authorize, IInv, TypeOK, Indexed
  <2> QED BY <1>1, <2>1, IndexKept, Zenon DEF IInv, Core
<1> QED BY <1>1, <1>2, <1>3

\* Items at rest.
LEMMA ItemsAtRest ==
    ASSUME IInv, UNCHANGED <<plan, item>>
    PROVE  PlanKept /\ ItemsProgress /\ OneLiveItem'
<1>1. PlanKept /\ ItemsProgress
  BY Marks DEF PlanKept, ItemsProgress, IInv, TypeOK
<1> QED BY <1>1, IndexKept DEF IInv, Core

\* One item is marked.
LEMMA ItemMarked ==
    ASSUME IInv, UNCHANGED plan, NEW a \in Attempts,
           \/ item' = [item EXCEPT ![a] = MarkTerminal(@)]
           \/ item' = [item EXCEPT ![a] = MarkUncertain(@)]
    PROVE  PlanKept /\ ItemsProgress /\ OneLiveItem'
<1>1. PlanKept /\ ItemsProgress
  BY Marks DEF PlanKept, ItemsProgress, IInv, TypeOK
<1>2. \A b \in Attempts : item'[b] \in Indexed => item[b] \in Indexed
  BY Marks DEF IInv, TypeOK
<1> QED BY <1>1, <1>2, IndexKept DEF IInv, Core

-----------------------------------------------------------------------------
(* The landing.                                                            *)

\* What land does to a Subtask and to the credits, whoever calls it.
LEMMA LandIsLawful ==
    ASSUME IInv, TypeOK', NEW a \in Attempts, NEW kind \in Receipts \ {"none"},
           NEW next \in Statuses, Land(a, kind, next), UNCHANGED <<plan, task, answer>>,
           kind = "completed" => next = "done" /\ outcome[a] = "none",
           kind # "completed" => next = "awaiting_decision",
           \A b \in Attempts : run[b] = "none" => run'[b] = "none"
    PROVE  Lawful
<1> USE DEF IInv, Core
<1> DEFINE s == SubtaskOf(a)
<1>1. s \in Subtasks
  BY SubtaskTyped, ZenonT(30)
<1>2. PlanKept /\ ItemsProgress /\ OneLiveItem'
  BY ItemMarked, Zenon DEF Land
<1>3. item'[a] \in Closed /\ item[a] \notin Absent /\ receipt[a] = "none"
  BY DEF Land, CanLand, MarkTerminal, TypeOK, Absent, Closed
<1>4. \A b \in Attempts \ {a} :
         item'[b] = item[b] /\ receipt'[b] = receipt[b] /\ outcome'[b] = outcome[b]
  BY ZenonT(30) DEF Land, Report, TypeOK
<1>5. receipt'[a] = kind /\ outcome'[a] # "none"
  <2>1. /\ receipt' = [receipt EXCEPT ![a] = kind]
        /\ \/ outcome[a] # "none" /\ outcome' = outcome
           \/ outcome' = [outcome EXCEPT ![a] = Terminal(kind, CancellationWon(a))]
    BY Zenon DEF Land, Report
  <2>2. receipt \in [Attempts -> Receipts] /\ outcome \in [Attempts -> Outcomes]
    BY Zenon DEF TypeOK
  <2>3. Terminal(kind, CancellationWon(a)) # "none"
    BY DEF Terminal
  <2> QED BY <2>1, <2>2, <2>3, Zenon
<1>6. ReceiptSealed'
  BY <1>3, <1>4, <1>5, Zenon DEF ReceiptSealed
<1>7. Untouched'
  BY <1>3, <1>4, Zenon DEF Untouched, Closed, Unlaunched, Absent, Launchable
<1>8. FirstOutcome'
  BY <1>4, <1>5, Zenon DEF FirstOutcome, Receipts
<1>9. Receipted
  BY <1>3, <1>4, Zenon DEF Receipted
<1>10. CancelledKept
  BY <1>1, ZenonT(30) DEF CancelledKept, Land, CanLand, CancellationWon, TypeOK
<1>11. ~ Credited(a) /\ \A b \in Attempts \ {a} : Credited(b)' <=> Credited(b)
  BY <1>3, <1>4, Zenon DEF Credited
<1>12. Credited(a)' => /\ kind = "completed" /\ ~ CancellationWon(a)
                       /\ subtask[s] = "running" /\ subtask'[s] = "done"
  <2>1. ASSUME Credited(a)' PROVE kind = "completed" /\ outcome[a] = "none"
    BY <2>1, <1>5, ZenonT(30) DEF Credited
  <2>2. ASSUME Credited(a)' PROVE ~ CancellationWon(a)
    <3>1. outcome' = [outcome EXCEPT ![a] = Terminal(kind, CancellationWon(a))]
      BY <2>1, <2>2, ZenonT(30) DEF Land, Report
    <3>2. CancellationWon(a) => Terminal("completed", CancellationWon(a)) = "cancelled"
      BY DEF Terminal
    <3> QED BY <2>1, <2>2, <3>1, <3>2, ZenonT(30) DEF Credited, TypeOK
  <2> QED BY <1>1, <2>1, <2>2, ZenonT(30) DEF Land, CanLand, TypeOK
<1>13. kind = "completed" /\ ~ CancellationWon(a) => Credited(a)'
  <2>1. ~ CancellationWon(a) => Terminal("completed", CancellationWon(a)) = "completed"
    BY DEF Terminal
  <2>2. kind = "completed" => outcome' = [outcome EXCEPT ![a] = Terminal(kind, CancellationWon(a))]
    BY ZenonT(30) DEF Land, Report
  <2>3. outcome \in [Attempts -> Outcomes]
    BY Zenon DEF TypeOK
  <2>4. kind = "completed" /\ ~ CancellationWon(a) => outcome'[a] = "completed"
    BY <2>1, <2>2, <2>3
  <2> QED BY <1>5, <2>4 DEF Credited
<1>14. Credits
  BY <1>1, <1>3, <1>11, <1>12, Zenon DEF Credits, NewlyCredited
<1>15. Answered' /\ Accepts
  BY <1>3, <1>4, ZenonT(30) DEF Answered, Accepts, NewlyStaged
<1>16. DoneChanges
  <2>1. SUFFICES ASSUME NEW t \in Subtasks, (subtask[t] = "done") # (subtask'[t] = "done")
                 PROVE  subtask'[t] = "done" /\ SubtaskOf(a) = t /\ NewlyCredited(a)
    BY ZenonT(30) DEF DoneChanges
  <2>2. t = s /\ ~ CancellationWon(a) /\ subtask'[t] = next /\ subtask[t] = "running"
    BY <1>1, <2>1 DEF Land, CanLand, TypeOK
  <2>3. subtask'[t] = "done"
    BY <2>1, <2>2
  <2>4. kind = "completed"
    BY <2>2, <2>3
  <2> QED BY <1>11, <1>13, <2>2, <2>3, <2>4, Zenon DEF NewlyCredited
<1> QED
  BY <1>2, <1>6, <1>7, <1>8, <1>9, <1>10, <1>14, <1>15, <1>16, ZenonT(30) DEF Lawful

\* A step that leaves items, receipts, outcomes and Task alone, and gives no runner
\* to an Attempt without one.
LEMMA StillIsLawful ==
    ASSUME IInv, TypeOK', UNCHANGED <<plan, item, receipt, outcome, answer>>,
           CancelledKept, DoneKept,
           \A a \in Attempts : run[a] = "none" => run'[a] = "none"
    PROVE  Lawful
<1>1. PlanKept /\ ItemsProgress /\ OneLiveItem'
  BY ItemsAtRest, ZenonT(30)
<1>2. Gentle
  BY <1>1, Zenon DEF Gentle
<1> QED BY <1>2, GentleIsLawful, Zenon

\* A landing of the runner; a completion only from the seal.
LEMMA RunnerLandsIsLawful ==
    ASSUME IInv, TypeOK', NEW a \in Attempts, NEW kind \in Receipts \ {"none"},
           NEW next \in Statuses, RunnerLands(a, kind, next), UNCHANGED <<plan, task, answer>>,
           kind = "completed" => next = "done",
           kind # "completed" => next = "awaiting_decision",
           run[a] # "none"
    PROVE  Lawful
<1>1. \A b \in Attempts : run[b] = "none" => run'[b] = "none"
  BY ZenonT(30) DEF RunnerLands, IInv, TypeOK
<1>2. CASE Land(a, kind, next)
  <2>1. outcome[a] = "none"
    BY <1>2, Zenon DEF Land, CanLand, IInv, Core, FirstOutcome
  <2> QED BY <1>1, <1>2, <2>1, LandIsLawful, Zenon
<1>3. CASE UNCHANGED <<item, subtask, results>>
  <2>1. CancelledKept /\ DoneKept
    BY <1>3 DEF CancelledKept, DoneKept
  <2> QED BY <1>1, <1>3, <2>1, StillIsLawful, Zenon DEF results
<1> QED BY <1>2, <1>3 DEF RunnerLands

LEMMA FailIsLawful ==
    ASSUME IInv, TypeOK', NEW a \in Attempts, Fail(a), UNCHANGED <<plan, task, answer>>,
           run[a] # "none"
    PROVE  Lawful
  BY RunnerLandsIsLawful DEF Fail, Receipts, Statuses

LEMMA StartIsLawful ==
    ASSUME IInv, TypeOK', NEW a \in Attempts, Start(a), UNCHANGED <<plan, task, answer>>,
           run[a] # "none"
    PROVE  Lawful
<1>1. CASE Fail(a) BY <1>1, FailIsLawful
<1>2. CASE ~ Fail(a)
  <2>1. SubtaskOf(a) \in Subtasks
    BY SubtaskTyped DEF IInv
  <2>2. CancelledKept /\ DoneKept
    BY <1>2, <2>1 DEF Start, CancelledKept, DoneKept, IInv, TypeOK
  <2>3. \A b \in Attempts : run[b] = "none" => run'[b] = "none"
    BY <1>2 DEF Start, IInv, TypeOK
  <2> QED BY <1>2, <2>2, <2>3, StillIsLawful DEF Start, results
<1> QED BY <1>1, <1>2

\* The landing of a lost Attempt, by the sweep or by startup.
LEMMA LandHeartbeatLostIsLawful ==
    ASSUME IInv, TypeOK', NEW a \in Attempts, LandHeartbeatLost(a),
           UNCHANGED <<plan, task, answer, run>>
    PROVE  Lawful
<1>1. Land(a, "heartbeat_lost", "awaiting_decision")
  BY DEF LandHeartbeatLost, HasUnpersistedWrite
<1> QED BY <1>1, LandIsLawful DEF Receipts, Statuses

\* A step that leaves the ledger alone but for a runner that goes on.
LEMMA QuietIsLawful ==
    ASSUME IInv, TypeOK', UNCHANGED <<plan, item, receipt, outcome, task, subtask, answer>>,
           \A a \in Attempts : run[a] = "none" => run'[a] = "none"
    PROVE  Lawful
<1>1. CancelledKept /\ DoneKept
  BY DEF CancelledKept, DoneKept
<1> QED BY <1>1, StillIsLawful

-----------------------------------------------------------------------------
(* The actions.                                                            *)

LEMMA LaunchIsLawful ==
    ASSUME IInv, TypeOK', NEW a \in Attempts, Launch(a)
    PROVE  Lawful
<1> USE DEF items, results
<1>1. \A b \in Attempts \ {a} : item'[b] = item[b] /\ run'[b] = run[b]
  BY ZenonT(30) DEF Launch, IInv, TypeOK
<1>2. item[a] = "pending_launch" /\ item'[a] \in {"cancelled", "running"}
  BY ZenonT(30) DEF Launch, IInv, TypeOK
<1>3. PlanKept /\ ItemsProgress
  BY <1>1, <1>2, Marks, ZenonT(30)
     DEF Launch, PlanKept, ItemsProgress, Progress, IInv, TypeOK, Closed, Unlaunched, Absent,
         Launchable
<1>4. OneLiveItem'
  BY <1>1, <1>2, <1>3, IndexKept, ZenonT(30) DEF IInv, Core, Indexed
<1>5. CancelledKept /\ DoneKept
  BY DEF Launch, CancelledKept, DoneKept
<1>6. outcome[a] = "none"
  BY <1>2 DEF IInv, Core, Untouched, Unlaunched, Launchable
<1>7. Gentle
  BY <1>1, <1>2, <1>3, <1>4, <1>5, <1>6, ZenonT(30)
     DEF Gentle, Launch, Unlaunched, Absent, Launchable
<1> QED BY <1>7, GentleIsLawful

\* The supervisor closes an item and reports a failure.
LEMMA SettleIsLawful ==
    ASSUME IInv, TypeOK', NEW a \in Attempts, Settle(a) \/ SubmitThrows(a)
    PROVE  Lawful
<1>1. run[a] # "none" /\ run'[a] = "none" /\ \A b \in Attempts \ {a} : run'[b] = run[b]
  BY ZenonT(30) DEF Settle, SubmitThrows, Returned, IInv, TypeOK
<1>2. item[a] \notin Unlaunched
  BY <1>1, ZenonT(30) DEF IInv, Core, Untouched
<1>3. UNCHANGED <<plan, receipt, task, subtask, answer>>
  BY DEF Settle, SubmitThrows
<1>4. PlanKept /\ ItemsProgress /\ OneLiveItem'
  BY <1>3, ItemMarked, ZenonT(30) DEF Settle, SubmitThrows
<1>5. item'[a] \notin Unlaunched
  BY <1>2, <1>4, Zenon DEF ItemsProgress, Progress
<1>6. /\ outcome'[a] = outcome[a] \/ (outcome[a] = "none" /\ outcome'[a] = "failed")
      /\ \A b \in Attempts \ {a} : outcome'[b] = outcome[b]
  <2>1. \/ outcome' = outcome
        \/ outcome[a] = "none" /\ outcome' = [outcome EXCEPT ![a] = "failed"]
        \/ outcome[a] # "none" /\ outcome' = [outcome EXCEPT ![a] = outcome[a]]
    BY Zenon DEF Settle, SubmitThrows, Report
  <2>2. outcome \in [Attempts -> Outcomes]
    BY Zenon DEF IInv, TypeOK
  <2> QED BY <2>1, <2>2
<1>7. CancelledKept /\ DoneKept
  BY <1>3 DEF CancelledKept, DoneKept
<1>8. Gentle
  BY <1>1, <1>3, <1>4, <1>5, <1>6, <1>7, Zenon DEF Gentle
<1> QED BY <1>8, GentleIsLawful

LEMMA RunnerIsLawful ==
    ASSUME IInv, TypeOK', NEW a \in Attempts, Runner(a)
    PROVE  Lawful
<1> USE DEF items, results
<1>1. CASE Launch(a) BY <1>1, LaunchIsLawful
<1>2. CASE ClaimUnit(a)
  <2>1. CASE Start(a) BY <1>2, <2>1, StartIsLawful DEF ClaimUnit
  <2>2. CASE ~ Start(a)
    BY <1>2, <2>2, QuietIsLawful, ZenonT(30) DEF ClaimUnit, IInv, TypeOK
  <2> QED BY <2>1, <2>2
<1>3. CASE NotClaimed(a)
  BY <1>3, QuietIsLawful, Zenon DEF NotClaimed, IInv, TypeOK
<1>4. CASE ReadBegan(a)
  BY <1>4, StartIsLawful, FailIsLawful DEF ReadBegan
<1>5. CASE Prepared(a)
  <2>1. CASE Fail(a) BY <1>5, <2>1, FailIsLawful DEF Prepared
  <2>2. CASE ~ Fail(a)
    BY <1>5, <2>2, QuietIsLawful, ZenonT(30) DEF Prepared, IInv, TypeOK
  <2> QED BY <2>1, <2>2
<1>6. CASE Spawn(a)
  BY <1>6, QuietIsLawful, Zenon DEF Spawn, IInv, TypeOK
<1>7. CASE SpawnFails(a)
  BY <1>7, FailIsLawful DEF SpawnFails
<1>8. CASE Exit(a)
  <2>1. run[a] = "executing" /\ UNCHANGED <<plan, task, answer>>
    BY <1>8, Zenon DEF Exit
  <2>2. CASE Fail(a) BY <2>1, <2>2, FailIsLawful
  <2>3. CASE RunnerLands(a, "uncertified", "awaiting_decision")
    BY <2>1, <2>3, RunnerLandsIsLawful DEF Receipts, Statuses
  <2>4. CASE run' = [run EXCEPT ![a] = "sealing"] /\ UNCHANGED <<item, subtask, results, claim>>
    BY <2>1, <2>4, QuietIsLawful, ZenonT(30) DEF IInv, TypeOK
  <2> QED BY <1>8, <2>2, <2>3, <2>4, Zenon DEF Exit
<1>9. CASE Seal(a)
  <2>1. CASE Fail(a) BY <1>9, <2>1, FailIsLawful DEF Seal
  <2>2. CASE RunnerLands(a, "completed", "done")
    BY <1>9, <2>2, RunnerLandsIsLawful DEF Seal, Receipts, Statuses
  <2> QED BY <1>9, <2>1, <2>2 DEF Seal
<1>10. CASE Return(a)
  BY <1>10, QuietIsLawful, Zenon DEF Return, IInv, TypeOK
<1>11. CASE Settle(a) \/ SubmitThrows(a) BY <1>11, SettleIsLawful
<1>12. CASE Heartbeat(a)
  BY <1>12, QuietIsLawful DEF Heartbeat
<1>13. CASE Sweep(a)
  <2>1. CASE LandHeartbeatLost(a)
    BY <1>13, <2>1, LandHeartbeatLostIsLawful DEF Sweep
  <2>2. CASE ~ LandHeartbeatLost(a)
    BY <1>13, <2>2, QuietIsLawful DEF Sweep
  <2> QED BY <2>1, <2>2
<1> QED
  BY <1>1, <1>2, <1>3, <1>4, <1>5, <1>6, <1>7, <1>8, <1>9, <1>10, <1>11, <1>12, <1>13
  DEF Runner

\* block_work neither completes nor cancels.
LEMMA BlockIsGentle ==
    ASSUME TypeOK, NEW s \in Subtasks, Block(s), UNCHANGED task
    PROVE  CancelledKept /\ DoneKept
  BY DEF Block, CancelledKept, DoneKept, TypeOK

LEMMA DecisionIsLawful ==
    ASSUME IInv, TypeOK', NEW e \in inbox,
           \/ DecideOutcome(e) \/ DecideResult(e) \/ DecideYield(e) \/ DecideLost(e)
           \/ DecideRecover(e) \/ DecideRepair(e)
    PROVE  Lawful
<1> USE DEF items, results
<1>1. UNCHANGED <<task, receipt, outcome, run, answer>>
  BY ZenonT(30)
     DEF DecideOutcome, DecideResult, DecideYield, DecideLost, DecideRecover, DecideRepair
<1>2. SUFFICES PlanKept /\ ItemsProgress /\ OneLiveItem' /\ CancelledKept /\ DoneKept
  BY <1>1, GentleIsLawful, ZenonT(30) DEF Gentle
<1>3. UNCHANGED subtask => CancelledKept /\ DoneKept
  BY <1>1 DEF CancelledKept, DoneKept
<1>4. CASE DecideOutcome(e)
  <2>1. SubtaskOf(e.attempt) \in Subtasks
    BY <1>4, EventFields, SubtaskTyped, Zenon DEF DecideOutcome, IInv
  <2>2. CancelledKept /\ DoneKept
    BY <1>1, <1>3, <1>4, <2>1, BlockIsGentle, Zenon DEF DecideOutcome, IInv
  <2>3. PlanKept /\ ItemsProgress /\ OneLiveItem'
    BY <1>4, <2>1, ItemsAtRest, AuthorizeGentle, Zenon DEF DecideOutcome, Kinds
  <2> QED BY <2>2, <2>3
<1>5. CASE DecideYield(e)
  <2>1. SubtaskOf(e.attempt) \in Subtasks
    BY <1>5, EventFields, SubtaskTyped, Zenon DEF DecideYield, IInv
  <2>2. CancelledKept /\ DoneKept
    BY <1>1, <1>3, <1>5, <2>1, BlockIsGentle DEF DecideYield, IInv
  <2> QED BY <1>5, <2>2, ItemsAtRest DEF DecideYield
<1>6. CASE DecideLost(e)
  <2>1. e.attempt \in Attempts
    BY <1>6, EventFields, ZenonT(30) DEF DecideLost, IInv
  <2>2. SubtaskOf(e.attempt) \in Subtasks
    BY <2>1, SubtaskTyped DEF IInv
  <2>3. CancelledKept /\ DoneKept
    <3>1. CASE Block(SubtaskOf(e.attempt)) BY <1>1, <2>2, <3>1, BlockIsGentle DEF IInv
    <3>2. CASE ~ Block(SubtaskOf(e.attempt))
      BY <1>1, <1>6, <2>2, <3>2, Zenon
         DEF DecideLost, CancelledKept, DoneKept, Expected, IInv, TypeOK
    <3> QED BY <3>1, <3>2
  <2>4. PlanKept /\ ItemsProgress /\ OneLiveItem'
    BY <1>6, <2>1, ItemMarked, ItemsAtRest, ZenonT(30) DEF DecideLost
  <2> QED BY <2>3, <2>4
<1>7. CASE DecideRecover(e)
  <2>1. e.subtask \in Subtasks /\ e.kind \in Kinds
    BY <1>7, EventFields, Zenon DEF DecideRecover, IInv
  <2>2. CancelledKept /\ DoneKept
    BY <1>1, <1>3, <1>7, <2>1, BlockIsGentle, Zenon DEF DecideRecover, IInv
  <2>3. PlanKept /\ ItemsProgress /\ OneLiveItem'
    BY <1>7, <2>1, ItemsAtRest, AuthorizeGentle, Zenon DEF DecideRecover
  <2> QED BY <2>2, <2>3
<1>8. CASE DecideResult(e)
  <2>1. SubtaskOf(e.attempt) \in Subtasks
    BY <1>8, EventFields, SubtaskTyped, Zenon DEF DecideResult, IInv
  <2>2. CancelledKept /\ DoneKept
    <3>1. CASE Block(SubtaskOf(e.attempt)) BY <1>1, <2>1, <3>1, BlockIsGentle DEF IInv
    <3>2. CASE ~ Block(SubtaskOf(e.attempt))
      BY <1>1, <1>8, <2>1, <3>2, Zenon DEF DecideResult, CancelledKept, DoneKept, IInv, TypeOK
    <3> QED BY <3>1, <3>2
  <2> QED BY <1>8, <2>2, ItemsAtRest DEF DecideResult
<1>9. CASE DecideRepair(e)
  <2>1. e.subtask \in Subtasks
    BY <1>9, EventFields, Zenon DEF DecideRepair, IInv
  <2>2. CancelledKept /\ DoneKept
    BY <1>1, <1>3, <1>9, <2>1, BlockIsGentle, Zenon DEF DecideRepair, IInv
  <2>3. PlanKept /\ ItemsProgress /\ OneLiveItem'
    BY <1>9, <2>1, ItemsAtRest, AuthorizeGentle, Zenon DEF DecideRepair, Kinds
  <2> QED BY <2>2, <2>3
<1> QED BY <1>4, <1>5, <1>6, <1>7, <1>8, <1>9

\* The service repair: the Subtask is reopened under the permit of its Attempt.
LEMMA RepairIsLawful ==
    ASSUME IInv, TypeOK',
           (\E s \in Subtasks : RequestRepair(s)) \/ (\E a \in Attempts : Reopen(a))
    PROVE  Lawful
<1> USE DEF items, results
<1>1. ASSUME NEW s \in Subtasks, RequestRepair(s) PROVE Lawful
  BY <1>1, QuietIsLawful, Zenon DEF RequestRepair
<1>2. ASSUME NEW a \in Attempts, Reopen(a) PROVE Lawful
  <2>1. SubtaskOf(a) \in Subtasks
    BY SubtaskTyped DEF IInv
  <2>2. Permitted(SubtaskOf(a))
    BY <1>2, Zenon DEF Reopen, Reopens, Permitted
  <2>3. CancelledKept /\ DoneKept
    BY <1>2, <2>1, <2>2, Zenon DEF Reopen, Reopens, CancelledKept, DoneKept, IInv, TypeOK
  <2> QED BY <1>2, <2>3, StillIsLawful, Zenon DEF Reopen
<1> QED BY <1>1, <1>2

\* The answers of the user; the staging of an accepted result is a completion.
LEMMA AnswerIsLawful ==
    ASSUME IInv, TypeOK', NEW a \in Attempts,
           AcceptResult(a) \/ RetryResult(a) \/ StageAccepted(a)
    PROVE  Lawful
<1> USE DEF items, results
<1>1. UNCHANGED <<plan, item, receipt, outcome, run, task>>
  BY Zenon DEF AcceptResult, RetryResult, StageAccepted
<1>2. PlanKept /\ ItemsProgress /\ OneLiveItem'
  BY <1>1, ItemsAtRest, Zenon
<1>3. SubtaskOf(a) \in Subtasks
  BY SubtaskTyped DEF IInv
<1>4. CASE AcceptResult(a) \/ RetryResult(a)
  <2>1. CancelledKept /\ DoneKept
    <3>1. subtask[SubtaskOf(a)] = "awaiting_decision"
      BY <1>4, Zenon DEF AcceptResult, RetryResult, Pending
    <3>2. subtask' = subtask \/ subtask' = [subtask EXCEPT ![SubtaskOf(a)] = "ready"]
      BY <1>4, Zenon DEF AcceptResult, RetryResult
    <3> QED BY <1>1, <1>3, <3>1, <3>2 DEF CancelledKept, DoneKept, IInv, TypeOK
  <2>2. /\ answer[a] = "none" /\ receipt[a] = "uncertified" /\ answer'[a] # "staged"
        /\ \A b \in Attempts \ {a} : answer'[b] = answer[b]
    BY <1>4, ZenonT(30) DEF AcceptResult, RetryResult, Pending, IInv, TypeOK
  <2>3. Gentle
    BY <1>1, <1>2, <2>1, <2>2, Zenon DEF Gentle
  <2> QED BY <2>3, GentleIsLawful
<1>5. CASE StageAccepted(a)
  <2>1. /\ answer[a] = "accepted" /\ answer'[a] = "staged"
        /\ \A b \in Attempts \ {a} : answer'[b] = answer[b]
    BY <1>5, ZenonT(30) DEF StageAccepted, IInv, TypeOK
  <2>2. /\ subtask'[SubtaskOf(a)] = "done" /\ subtask[SubtaskOf(a)] # "cancelled"
        /\ \A s \in Subtasks \ {SubtaskOf(a)} : subtask'[s] = subtask[s]
    BY <1>3, <1>5, ZenonT(30) DEF StageAccepted, IInv, TypeOK
  <2>3. receipt[a] = "uncertified"
    BY <2>1 DEF IInv, Core, Answered
  <2>4. CancelledKept
    BY <1>1, <2>2, Zenon DEF CancelledKept
  <2>5. Core'
    BY <1>1, <1>2, <2>1, <2>3, ZenonT(30)
       DEF IInv, Core, ReceiptSealed, Untouched, FirstOutcome, Answered
  <2>6. Receipted /\ Credits
    BY <1>1, ZenonT(30) DEF Receipted, Credits, NewlyCredited, Credited
  <2>7. Accepts
    BY <2>1, <2>2, <2>3, Zenon DEF Accepts, NewlyStaged
  <2>8. DoneChanges
    BY <2>1, <2>2, ZenonT(30) DEF DoneChanges, NewlyStaged
  <2> QED BY <1>2, <2>4, <2>5, <2>6, <2>7, <2>8 DEF Lawful
<1> QED BY <1>4, <1>5

LEMMA CancelIsLawful ==
    ASSUME IInv, TypeOK', ConstantsFit, NEW ss, Cancel(ss), task = "running"
    PROVE  Lawful
<1> USE DEF items, results
<1>1. PlanKept /\ ItemsProgress /\ OneLiveItem'
  BY RequestKeepsOne, ZenonT(30) DEF Cancel, IInv, Core, PlanKept
<1>2. CancelledKept /\ DoneKept
  BY ZenonT(30) DEF Cancel, CancelledKept, DoneKept, IInv, TypeOK
<1>3. Gentle
  BY <1>1, <1>2, Zenon DEF Gentle, Cancel
<1> QED BY <1>3, GentleIsLawful

LEMMA KernelIsLawful ==
    ASSUME IInv, TypeOK', ConstantsFit, Kernel
    PROVE  Lawful
<1> USE DEF items, results
<1>1. ASSUME NEW s \in Subtasks, DispatchReady(s) PROVE Lawful
  <2>1. PlanKept /\ ItemsProgress /\ OneLiveItem'
    BY <1>1, AuthorizeGentle DEF DispatchReady, Kinds
  <2>2. CancelledKept /\ DoneKept
    BY <1>1 DEF DispatchReady, CancelledKept, DoneKept
  <2>3. Gentle
    BY <1>1, <2>1, <2>2, ZenonT(30) DEF Gentle, DispatchReady
  <2> QED BY <2>3, GentleIsLawful
<1>2. ASSUME NEW s \in Subtasks, Resume(s) PROVE Lawful
  <2>1. CancelledKept /\ DoneKept
    BY <1>2, ZenonT(30) DEF Resume, Interrupted, CancelledKept, DoneKept, IInv, TypeOK
  <2> QED BY <1>2, <2>1, StillIsLawful DEF Resume
<1>3. ASSUME NEW s \in Subtasks, CancelSubtask(s) PROVE Lawful
  BY <1>3, CancelIsLawful DEF CancelSubtask
<1>4. ASSUME NEW a \in Attempts, InsertBatch(a) PROVE Lawful
  <2>1. item[a] = "authorized" /\ item'[a] \in {"cancelled", "pending_launch", "refused"}
    BY <1>4, ZenonT(30) DEF InsertBatch, IInv, TypeOK
  <2>2. \A b \in Attempts \ {a} : item'[b] = item[b]
    BY <1>4, ZenonT(30) DEF InsertBatch, IInv, TypeOK
  <2>3. PlanKept /\ ItemsProgress
    BY <1>4, <2>1, <2>2, Marks, ZenonT(30)
       DEF InsertBatch, PlanKept, ItemsProgress, Progress, IInv, TypeOK, Closed, Unlaunched,
           Absent, Launchable
  <2>4. OneLiveItem'
    <3>1. CASE SlotFree(SubtaskOf(a))
      BY <1>4, <2>2, <3>1, SlotTaken DEF InsertBatch, IInv, Core
    <3>2. CASE ~ SlotFree(SubtaskOf(a))
      <4>1. item'[a] \notin Indexed
        BY <1>4, <3>2, ZenonT(30) DEF InsertBatch, IInv, TypeOK, Indexed
      <4> QED BY <2>2, <2>3, <4>1, IndexKept DEF IInv, Core
    <3> QED BY <3>1, <3>2
  <2>5. CancelledKept /\ DoneKept
    BY <1>4, SMTT(30) DEF InsertBatch, CancelledKept, DoneKept
  <2>6. Gentle
    BY <1>4, <2>3, <2>4, <2>5, Zenon DEF Gentle, InsertBatch
  <2> QED BY <2>6, GentleIsLawful
<1>5. ASSUME NEW e \in inbox,
             \/ DecideOutcome(e) \/ DecideResult(e) \/ DecideYield(e) \/ DecideLost(e)
             \/ DecideRecover(e) \/ DecideRepair(e)
      PROVE  Lawful
  BY <1>5, DecisionIsLawful
<1>6. CASE CompleteTask
  <2>1. CancelledKept /\ DoneKept
    BY <1>6 DEF CompleteTask, CancelledKept, DoneKept
  <2> QED BY <1>6, <2>1, StillIsLawful DEF CompleteTask
<1>7. CASE CancelTask
  BY <1>7, CancelIsLawful DEF CancelTask
<1> QED
  BY <1>1, <1>2, <1>3, <1>4, <1>5, <1>6, <1>7, RepairIsLawful, AnswerIsLawful DEF Kernel

\* reconcileSettledFailure seals an uncertain Attempt whose failure was reported.
LEMMA RestartIsLawful ==
    ASSUME IInv, TypeOK', Restart
    PROVE  Lawful
<1> USE DEF IInv, Core
<1>1. UNCHANGED <<plan, outcome, task, subtask, run, answer>>
  BY ZenonT(30) DEF Restart
<1>2. \A a \in Attempts :
         \/ item'[a] = item[a] /\ receipt'[a] = receipt[a]
         \/ /\ item[a] = "uncertain" /\ item'[a] = "terminal"
            /\ receipt[a] = "none" /\ receipt'[a] = "failed" /\ outcome[a] = "failed"
  BY DEF Restart, Settled, MarkTerminal, TypeOK
<1>3. PlanKept /\ CancelledKept /\ ItemsProgress
  BY <1>1, <1>2, Marks, Zenon
     DEF PlanKept, CancelledKept, ItemsProgress, Progress, TypeOK, Closed, Unlaunched, Absent,
         Launchable
<1>4. OneLiveItem'
  BY <1>2, <1>3, IndexKept DEF Indexed
<1>5. ReceiptSealed'
  BY <1>1, <1>2 DEF ReceiptSealed, Closed
<1>6. Untouched'
  BY <1>1, <1>2, ZenonT(30) DEF Untouched, Unlaunched, Absent, Launchable
<1>7. FirstOutcome'
  BY <1>1, <1>2, ZenonT(30) DEF FirstOutcome
<1>8. \A a \in Attempts : Credited(a)' <=> Credited(a)
  BY <1>1, <1>2 DEF Credited
<1>9. Receipted /\ Credits
  BY <1>2, <1>8, ZenonT(30) DEF Receipted, Credits, NewlyCredited, Closed, Absent
<1>10. Answered' /\ Accepts /\ DoneChanges
  BY <1>1, <1>2, ZenonT(30) DEF Answered, Accepts, NewlyStaged, DoneChanges
<1> QED BY <1>3, <1>4, <1>5, <1>6, <1>7, <1>9, <1>10 DEF Lawful

\* Items change, but none becomes live or unlaunched, and nothing else does.
LEMMA ItemsOnlyIsLawful ==
    ASSUME IInv, TypeOK', UNCHANGED <<plan, receipt, outcome, task, subtask, answer>>,
           ItemsProgress,
           \A a \in Attempts : item'[a] \in Indexed => item[a] \in Indexed,
           \A a \in Attempts : run[a] = "none" => run'[a] = "none"
    PROVE  Lawful
<1>1. PlanKept /\ CancelledKept /\ DoneKept
  BY ZenonT(30) DEF PlanKept, CancelledKept, DoneKept
<1>2. OneLiveItem'
  BY <1>1, IndexKept DEF IInv, Core
<1>3. Gentle
  BY <1>1, <1>2 DEF Gentle
<1> QED BY <1>3, GentleIsLawful

LEMMA RecoveryIsLawful ==
    ASSUME IInv, TypeOK', Recovery
    PROVE  Lawful
<1> USE DEF items, results
<1>1. ASSUME NEW a \in Attempts, RecoverCancelling(a) PROVE Lawful
  <2>1. ItemsProgress /\ \A b \in Attempts : item'[b] \in Indexed => item[b] \in Indexed
    BY <1>1, Marks, ZenonT(30)
       DEF RecoverCancelling, ItemsProgress, Progress, IInv, TypeOK, Indexed, Closed,
           Unlaunched, Absent, Launchable
  <2> QED BY <1>1, <2>1, ItemsOnlyIsLawful, ZenonT(30) DEF RecoverCancelling
<1>2. ASSUME NEW a \in Attempts, OrphanExit(a) PROVE Lawful
  BY <1>2, QuietIsLawful, SMTT(30) DEF OrphanExit
<1>3. ASSUME NEW a \in Attempts, LandOrphan(a) PROVE Lawful
  <2>1. CASE LandHeartbeatLost(a)
    BY <1>3, <2>1, LandHeartbeatLostIsLawful DEF LandOrphan
  <2>2. CASE ~ LandHeartbeatLost(a)
    BY <1>3, <2>2, QuietIsLawful DEF LandOrphan
  <2> QED BY <2>1, <2>2
<1>4. ASSUME NEW a \in Attempts, StartupThrows(a) PROVE Lawful
  BY <1>4, QuietIsLawful DEF StartupThrows
<1>5. CASE GitRecovery
  BY <1>5, QuietIsLawful DEF GitRecovery
<1>6. CASE Crash
  <2>1. \A b \in Attempts :
           item'[b] = item[b] \/ (item[b] = "pending_launch" /\ item'[b] = "launching")
    BY <1>6, ZenonT(30) DEF Crash, IInv, TypeOK
  <2>2. ItemsProgress /\ \A b \in Attempts : item'[b] \in Indexed => item[b] \in Indexed
    <3>1. ASSUME NEW b \in Attempts
          PROVE  Progress(item[b], item'[b]) /\ (item'[b] \in Indexed => item[b] \in Indexed)
      BY <2>1, Marks, Zenon DEF IInv, TypeOK, Progress, Indexed, Closed, Unlaunched, Absent, Launchable
    <3> QED BY <3>1, Zenon DEF ItemsProgress
  <2> QED BY <1>6, <2>2, ItemsOnlyIsLawful, ZenonT(30) DEF Crash
<1>7. CASE Restart BY <1>7, RestartIsLawful
<1>8. CASE StopBackends
  BY <1>8, QuietIsLawful, Zenon DEF StopBackends
<1>9. CASE RecordLosses
  <2>1. \A b \in Attempts :
           \/ item'[b] = item[b] \/ item'[b] = MarkUncertain(item[b])
           \/ item[b] = "cancelling" /\ item'[b] = "cancelled"
    BY <1>9, Zenon DEF RecordLosses
  <2>2. ItemsProgress /\ \A b \in Attempts : item'[b] \in Indexed => item[b] \in Indexed
    <3>1. ASSUME NEW b \in Attempts
          PROVE  Progress(item[b], item'[b]) /\ (item'[b] \in Indexed => item[b] \in Indexed)
      <4>1. item[b] \in ItemStatuses BY ZenonT(30) DEF IInv, TypeOK
      <4>2. CASE item'[b] = item[b] \/ item'[b] = MarkUncertain(item[b])
        BY <4>1, <4>2, Marks, ZenonT(30)
      <4>3. CASE item[b] = "cancelling" /\ item'[b] = "cancelled"
        BY <4>3 DEF Progress, Indexed, Closed, Unlaunched, Absent, Launchable
      <4> QED BY <2>1, <4>2, <4>3, ZenonT(30)
    <3> QED BY <3>1, Zenon DEF ItemsProgress
  <2>3. UNCHANGED <<plan, receipt, outcome, task, subtask, answer, run>>
    BY <1>9, Zenon DEF RecordLosses
  <2> QED BY <2>2, <2>3, ItemsOnlyIsLawful
<1>10. CASE StartupDone
  <2>1. ItemsProgress /\ \A b \in Attempts : item'[b] \in Indexed => item[b] \in Indexed
    BY <1>10, Marks, Zenon
       DEF StartupDone, ItemsProgress, Progress, IInv, TypeOK, Indexed, Closed, Unlaunched,
           Absent, Launchable
  <2> QED BY <1>10, <2>1, ItemsOnlyIsLawful, Zenon DEF StartupDone
<1> QED
  BY <1>1, <1>2, <1>3, <1>4, <1>5, <1>6, <1>7, <1>8, <1>9, <1>10 DEF Recovery

-----------------------------------------------------------------------------
(* The theorems.                                                           *)

\* Every step keeps the inductive invariant and is lawful.
LEMMA StepIsLawful ==
    ASSUME IInv, [Next]_vars
    PROVE  TypeOK' /\ Lawful
<1>1. TypeOK'
  BY ConstantsFit, RunnerTypes, KernelTypes, RecoveryTypes, StutterTypes DEF Next, IInv
<1>2. CASE Next
  BY <1>1, <1>2, ConstantsFit, RunnerIsLawful, KernelIsLawful, RecoveryIsLawful DEF Next
<1>3. CASE UNCHANGED vars
  BY <1>1, <1>3, QuietIsLawful DEF vars, items, results
<1> QED BY <1>1, <1>2, <1>3

LEMMA InitInvariant == Init => IInv
<1> SUFFICES ASSUME Init PROVE IInv
  OBVIOUS
<1>1. TypeOK
  BY InitTypes
<1>2. OneLiveItem /\ ReceiptSealed /\ Untouched /\ FirstOutcome /\ Answered
  BY DEF Init, OneLiveItem, ReceiptSealed, Untouched, FirstOutcome, Answered, Indexed
<1>3. CompletionIsOwned
  BY DEF Init, CompletionIsOwned, AttemptsOf
<1> QED BY <1>1, <1>2, <1>3 DEF IInv, Core

\* Items, receipts, outcomes and Subtasks agree in every reachable state.
THEOREM Invariant == Spec => []IInv
<1>1. IInv /\ [Next]_vars => IInv'
  BY StepIsLawful, LawfulKeepsOwned DEF IInv, Lawful
<1> QED BY InitInvariant, <1>1, PTL DEF Spec

\* A Subtask never has two Attempts between insertion and closing: insertBatch,
\* the launches, cancellations, losses and restarts respect the unique index.
THEOREM OneLiveItemHolds == Spec => []OneLiveItem
<1>1. IInv => OneLiveItem
  BY DEF IInv, Core
<1> QED BY Invariant, <1>1, PTL

\* A Subtask is done by an Attempt of it, which landed its completion or whose
\* uncertified result was accepted; it stays done and has no second completion but
\* for a service repair the Kernel authorized.
THEOREM CompletionIsOwnedHolds == Spec => []CompletionIsOwned
<1>1. IInv => CompletionIsOwned
  BY DEF IInv, Core
<1> QED BY Invariant, <1>1, PTL

\* A receipt is stored with its item closed and an outcome stored.
THEOREM ReceiptSealedHolds == Spec => []ReceiptSealed
<1>1. IInv => ReceiptSealed
  BY DEF IInv, Core
<1> QED BY Invariant, <1>1, PTL

\* No late start, landing or recovery undoes a cancellation.
THEOREM CancelledIsFinalHolds == Spec => CancelledIsFinal
<1>1. IInv /\ [Next]_vars =>
         [/\ task = "cancelled" => task' = "cancelled"
          /\ \A s \in Subtasks : subtask[s] = "cancelled" => subtask'[s] = "cancelled"]_vars
  BY StepIsLawful DEF Lawful, CancelledKept
<1> QED BY Invariant, <1>1, PTL DEF Spec, CancelledIsFinal

-----------------------------------------------------------------------------
(* The refinement of AttemptLedger.                                        *)

\* Progress of an item is a move of the ledger.
LEMMA ProgressMoves ==
    ASSUME NEW i \in ItemStatuses, NEW j \in ItemStatuses, Progress(i, j)
    PROVE  Phase(i) \in Ledger!Phases /\ Phase(j) \in Ledger!Moves(Phase(i))
<1>1. Phase(i) \in Ledger!Phases /\ Phase(j) \in Ledger!Phases
  BY DEF Phase, ItemStatuses, Indexed, Closed, Ledger!Phases
<1>2. Phase(i) = "absent" => Phase(j) \in {"absent", "open", "closed"}
  BY DEF Phase, Progress, ItemStatuses, Indexed, Closed, Unlaunched, Absent, Launchable
<1>3. Phase(i) = "open" => Phase(j) # "absent"
  BY DEF Phase, Progress, ItemStatuses, Indexed, Closed, Unlaunched, Absent, Launchable
<1>4. Phase(i) = "doubtful" => Phase(j) \in {"doubtful", "stopping", "closed"}
  BY DEF Phase, Progress, ItemStatuses, Indexed, Closed
<1>5. Phase(i) = "stopping" => Phase(j) \in {"stopping", "closed"}
  BY DEF Phase, Progress, ItemStatuses, Indexed, Closed
<1>6. Phase(i) = "closed" => Phase(j) = "closed"
  BY DEF Phase, Progress, ItemStatuses, Indexed, Closed
<1> QED
  BY <1>1, <1>2, <1>3, <1>4, <1>5, <1>6 DEF Ledger!Moves, Ledger!Phases

\* One live item per Subtask is one live Attempt of the ledger.
LEMMA LedgerOneLive ==
    ASSUME TypeOK, OneLiveItem
    PROVE  Ledger!OneLive
<1>1. \A i \in ItemStatuses : Phase(i) \in Ledger!Live => i \in Indexed
  BY DEF Phase, Ledger!Live, ItemStatuses, Indexed, Closed
<1>2. \A a \in Attempts : item[a] \in ItemStatuses
  BY DEF TypeOK
<1>3. \A a \in Attempts : item[a] \in Indexed => item[a] # "none"
  BY DEF Indexed
<1> QED BY <1>1, <1>2, <1>3 DEF Ledger!OneLive, OneLiveItem, Siblings

\* A lawful step is a step of the ledger.
LEMMA LawfulRefines ==
    ASSUME IInv, TypeOK', Lawful
    PROVE  Ledger!Next
<1>1. ASSUME NEW a \in Attempts PROVE Ledger!Advance(a)
  <2>1. item[a] \in ItemStatuses /\ item'[a] \in ItemStatuses
    BY ZenonT(30) DEF IInv, TypeOK
  <2>2. Phase(item'[a]) \in Ledger!Moves(Phase(item[a]))
    BY <2>1, ProgressMoves, Zenon DEF Lawful, ItemsProgress
  <2>3. Phase(item[a]) # "absent" => SubtaskOf(a)' = SubtaskOf(a)
    <3>1. Phase("none") = "absent"
      BY DEF Phase, Closed
    <3> QED BY <3>1, Zenon DEF Lawful, PlanKept, SubtaskOf
  <2>4. receipt[a] # "none" => receipt'[a] # "none"
    BY DEF Lawful, Receipted
  <2>5. receipt[a] = "none" /\ receipt'[a] # "none" =>
           Phase(item[a]) # "absent" /\ Phase(item'[a]) = "closed"
    <3>1. ASSUME receipt[a] = "none", receipt'[a] # "none"
          PROVE  item[a] \notin Absent /\ item'[a] \in Closed
      BY <3>1 DEF Lawful, Receipted
    <3> QED BY <2>1, <3>1 DEF Phase, Absent, Closed, ItemStatuses, Indexed
  <2>6. Credited(a) => Credited(a)'
    BY DEF Lawful, Credits
  <2>7. ~ Credited(a) /\ Credited(a)' =>
           /\ receipt[a] = "none" /\ receipt'[a] # "none"
           /\ subtask'[SubtaskOf(a)] = "done" /\ subtask[SubtaskOf(a)] # "done"
    BY ZenonT(30) DEF Lawful, Credits, NewlyCredited, Credited
  <2>8. answer[a] = "staged" => answer'[a] = "staged"
    BY ZenonT(30) DEF Lawful, Accepts
  <2>9. answer[a] # "staged" /\ answer'[a] = "staged" =>
           receipt[a] # "none" /\ ~ Credited(a) /\ subtask'[SubtaskOf(a)] = "done"
    BY ZenonT(30) DEF Lawful, Accepts, NewlyStaged, Credited
  <2>10. item'[a] = "authorized" => Phase(item'[a]) = "absent"
    BY DEF Phase, Closed
  <2> QED
    BY <2>2, <2>3, <2>4, <2>5, <2>6, <2>7, <2>8, <2>9, <2>10, SubtaskTyped, Zenon
    DEF Ledger!Advance, IInv
<1>2. ASSUME NEW s \in Subtasks PROVE Ledger!Complete(s)
  <2>1. subtask[s] # "done" /\ subtask'[s] = "done" =>
           /\ subtask[s] # "cancelled"
           /\ \E a \in Attempts : SubtaskOf(a) = s /\ (NewlyCredited(a) \/ NewlyStaged(a))
    BY ZenonT(30) DEF Lawful, CancelledKept, DoneChanges
  <2>2. subtask[s] = "done" /\ subtask'[s] # "done" =>
           \E a \in Attempts :
              item[a] = "authorized" /\ plan[a].kind = "repair" /\ SubtaskOf(a) = s
    BY ZenonT(30) DEF Lawful, DoneChanges, Permitted
  <2> QED BY <2>1, <2>2, ZenonT(30) DEF Ledger!Complete, NewlyCredited, NewlyStaged
<1>3. (Ledger!OneLive)'
  BY LedgerOneLive, PTL DEF Lawful, Core
<1>4. {s \in Subtasks : subtask[s] = "cancelled"} \subseteq
         {s \in Subtasks : subtask'[s] = "cancelled"}
  BY DEF Lawful, CancelledKept
<1>5. \A a, b \in Attempts : NewlyCredited(a) /\ NewlyCredited(b) => a = b
  BY ZenonT(30) DEF Lawful, Credits
<1> QED BY <1>1, <1>2, <1>3, <1>4, <1>5, ZenonT(30) DEF Ledger!Next, NewlyCredited

\* AttemptLifecycle, its crashes and restarts, service repairs and accepted results
\* included, implements AttemptLedger.
THEOREM KeepsLedgerHolds == Spec => KeepsLedger
<1>1. Init => Ledger!Init
  <2>1. SUFFICES ASSUME Init PROVE Ledger!Init
    OBVIOUS
  <2>2. \A a \in Attempts : Phase(item[a]) = "absent"
    BY <2>1 DEF Init, Phase, Closed
  <2>3. TypeOK
    BY <2>1, InitInvariant DEF IInv
  <2>4. \A a \in Attempts : SubtaskOf(a) \in Subtasks
    BY <2>3, SubtaskTyped
  <2>5. \A a \in Attempts :
           receipt[a] = "none" /\ ~ Credited(a) /\ answer[a] # "staged" /\ item[a] # "authorized"
    BY <2>1 DEF Init, Credited
  <2>6. \A s \in Subtasks : subtask[s] # "cancelled" /\ subtask[s] # "done"
    BY <2>1 DEF Init
  <2> QED BY <2>2, <2>4, <2>5, <2>6 DEF Ledger!Init
<1>2. IInv /\ [Next]_vars => [Ledger!Next]_(Ledger!ledger)
  BY StepIsLawful, LawfulRefines
<1> QED BY <1>1, <1>2, Invariant, PTL DEF Spec, KeepsLedger, Ledger!Spec

-----------------------------------------------------------------------------
(* Containers that execute.                                                *)

\* An executor that runs in a container has an active row: no stop, removal or
\* restart clears the row of a container that still executes.
Recorded == backend = "docker" => \A a \in executing : sandbox[a] = "active"

\* A step that starts nothing and clears no row.
LEMMA QuietRecords ==
    ASSUME Recorded, UNCHANGED backend, executing' \subseteq executing, sandbox' = sandbox
    PROVE  Recorded'
BY DEF Recorded

LEMMA RunnerRecords ==
    ASSUME TypeOK, Recorded, NEW a \in Attempts, Runner(a)
    PROVE  Recorded'
<1>1. CASE Spawn(a)
  BY <1>1 DEF Spawn, Recorded, TypeOK, server
<1>2. CASE Exit(a)
  BY <1>2, ZenonT(30) DEF Exit, Recorded, TypeOK, server
<1>3. CASE ~ Spawn(a) /\ ~ Exit(a)
  <2>1. UNCHANGED <<server, executions>>
    BY <1>3, Zenon DEF Runner, Launch, ClaimUnit, NotClaimed, ReadBegan, Prepared, SpawnFails, Seal,
       Return, Settle, SubmitThrows, Heartbeat, Sweep
  <2> QED BY <2>1, QuietRecords DEF server, executions
<1> QED BY <1>1, <1>2, <1>3

LEMMA KernelRecords ==
    ASSUME Recorded, Kernel
    PROVE  Recorded'
<1>1. UNCHANGED <<server, executions>>
  BY Zenon DEF Kernel, DispatchReady, Resume, CancelSubtask, RequestRepair, Reopen, InsertBatch,
     AcceptResult, RetryResult, StageAccepted, DecideOutcome, DecideResult, DecideYield,
     DecideLost, DecideRecover, DecideRepair, CompleteTask, CancelTask, Cancel
<1> QED BY <1>1, QuietRecords DEF server, executions

LEMMA RecoveryRecords ==
    ASSUME TypeOK, Recorded, Recovery
    PROVE  Recorded'
<1>1. ASSUME NEW a \in Attempts, RecoverCancelling(a) PROVE Recorded'
  BY <1>1 DEF RecoverCancelling, Recorded, TypeOK, server
<1>2. ASSUME NEW a \in Attempts, OrphanExit(a) PROVE Recorded'
  BY <1>2, QuietRecords DEF OrphanExit, server
<1>3. ASSUME NEW a \in Attempts, LandOrphan(a) \/ StartupThrows(a) PROVE Recorded'
  BY <1>3, QuietRecords DEF LandOrphan, StartupThrows, executions
<1>4. CASE Crash
  BY <1>4, Zenon DEF Crash, Recorded
<1>5. CASE StopBackends
  BY <1>5 DEF StopBackends, Recorded, TypeOK
<1>6. CASE RecordLosses
  BY <1>6, Zenon DEF RecordLosses, Recorded, TypeOK
<1>7. CASE GitRecovery \/ Restart \/ StartupDone
  BY <1>7, QuietRecords, Zenon DEF GitRecovery, Restart, StartupDone, executions, server
<1> QED BY <1>1, <1>2, <1>3, <1>4, <1>5, <1>6, <1>7 DEF Recovery

\* Only complete_task makes a Task succeed.
LEMMA OnlyCompleteSucceeds ==
    ASSUME Next, task # "succeeded", task' = "succeeded"
    PROVE  CompleteTask
<1>1. ASSUME NEW a \in Attempts, Runner(a) PROVE UNCHANGED task
  BY <1>1, Zenon DEF Runner, Launch, ClaimUnit, NotClaimed, ReadBegan, Prepared, Spawn, SpawnFails,
     Exit, Seal, Return, Settle, SubmitThrows, Heartbeat, Sweep
<1>2. ASSUME Recovery PROVE UNCHANGED task
  BY <1>2, Zenon DEF Recovery, RecoverCancelling, OrphanExit, LandOrphan, StartupThrows, GitRecovery,
     Crash, Restart, StopBackends, RecordLosses, StartupDone
<1>3. ASSUME Kernel PROVE CompleteTask \/ UNCHANGED task \/ task' = "cancelled"
  BY <1>3, Zenon DEF Kernel, DispatchReady, Resume, CancelSubtask, RequestRepair, Reopen,
     InsertBatch, AcceptResult, RetryResult, StageAccepted, DecideOutcome, DecideResult,
     DecideYield, DecideLost, DecideRecover, DecideRepair, CancelTask, Cancel
<1> QED BY <1>1, <1>2, <1>3 DEF Next

\* A Task whose executors run in recorded containers succeeds only when none of
\* them executes any more.
THEOREM SucceedsQuiescentHolds == Spec => SucceedsQuiescent
<1> DEFINE Quiet == task # "succeeded" /\ task' = "succeeded" /\ backend = "docker" => executing = {}
<1>1. Init => Recorded
  BY DEF Init, Recorded
<1>2. TypeOK /\ Recorded /\ [Next]_vars => Recorded'
  <2>1. ASSUME UNCHANGED vars, Recorded PROVE Recorded'
    BY <2>1, QuietRecords DEF vars, server, executions
  <2> QED BY <2>1, RunnerRecords, KernelRecords, RecoveryRecords DEF Next
<1>3. TypeOK /\ Recorded /\ [Next]_vars => [Quiet]_vars
  <2>1. ASSUME TypeOK, Recorded, CompleteTask, backend = "docker" PROVE executing = {}
    BY <2>1 DEF TypeOK, Recorded, CompleteTask, Residue
  <2> QED BY <2>1, OnlyCompleteSucceeds
<1> QED
  BY <1>1, <1>2, <1>3, TypeCorrect, PTL DEF Spec, SucceedsQuiescent
===============================================================================
