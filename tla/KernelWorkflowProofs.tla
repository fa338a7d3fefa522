------------------------ MODULE KernelWorkflowProofs ------------------------
(***************************************************************************)
(* Proofs about the durable Kernel workflow, for every set of events,      *)
(* workflows, filters and action families.                                 *)
(***************************************************************************)
EXTENDS KernelWorkflow, TLAPS

\* markApplied writes well-typed rows, whatever the observation.
LEMMA MarkAppliedType ==
    ASSUME TypeOK, NEW e, NEW o \in Events \cup {None}, MarkApplied(e, o)
    PROVE  /\ inbox' \in [Events -> EventStatus] /\ due' \subseteq Events
           /\ app' \in [Events -> AppStatus]
           /\ observed' \in [Events -> Events \cup {None}]
           /\ outcome' \in [Events -> Outcomes]
<1>1. app' \in [Events -> AppStatus] /\ outcome' \in [Events -> Outcomes]
  BY Zenon DEF TypeOK, MarkApplied, AppStatus, Outcomes
<1>2. observed' \in [Events -> Events \cup {None}]
  BY Zenon DEF TypeOK, MarkApplied
<1>3. CASE o = None
  BY <1>1, <1>2, <1>3 DEF TypeOK, MarkApplied
<1>4. CASE o # None
  <2>1. o \in Events /\ InsertEvent(o, o \notin Delayed)
    BY <1>4 DEF MarkApplied
  <2>2. inbox' \in [Events -> EventStatus]
    BY <2>1 DEF TypeOK, InsertEvent, EventStatus
  <2>3. due' \subseteq Events
    BY <2>1 DEF TypeOK, InsertEvent
  <2> QED
    BY <1>1, <1>2, <2>2, <2>3
<1> QED
  BY <1>3, <1>4

\* Every type the tables and drains start with is kept by every step of the
\* workflow, its recovery passes and its environment.
LEMMA TypeNext == TypeOK /\ [Next]_vars => TypeOK'
<1> SUFFICES ASSUME TypeOK, [Next]_vars PROVE TypeOK'
  OBVIOUS
<1> USE ConstantsAssumption
<1> USE DEF TypeOK, EventStatus, AppStatus, Outcomes, DrainStates, Synchronous,
            tables, drains
<1>1. ASSUME NEW w \in Workflows, NEW e \in Events, Submit(w, e) PROVE TypeOK'
  BY <1>1 DEF Submit, InsertEvent, DrainSerially
<1>2. ASSUME NEW w \in Workflows, Recover(w) PROVE TypeOK'
  BY <1>2 DEF Recover, ReconciledInbox, ReconciledApp, DrainSerially, Reopened
<1>3. ASSUME NEW w \in Workflows, NEW e \in Events, StartApply(w, e) PROVE TypeOK'
  BY <1>3 DEF StartApply, Recoverable
<1>4. ASSUME NEW w \in Workflows, NEW e \in Events, ClaimNext(w, e) PROVE TypeOK'
  BY <1>4 DEF ClaimNext
<1>5. ASSUME NEW w \in Workflows, Issue(w) PROVE TypeOK'
  BY <1>5, Zenon DEF Issue
<1>6. ASSUME NEW w \in Workflows, DecideThrows(w) PROVE TypeOK'
  BY <1>6 DEF DecideThrows
<1>7. ASSUME NEW w \in Workflows, EndDrain(w) PROVE TypeOK'
  BY <1>7 DEF EndDrain
<1>8. ASSUME NEW w \in Workflows, ClearDraining(w) PROVE TypeOK'
  BY <1>8 DEF ClearDraining
<1>9. ASSUME NEW w \in Workflows, RunEffect(w) PROVE TypeOK'
  <2>1. PICK d \in {"part", "all"} : effect' = [effect EXCEPT ![cur[w]] = d]
    BY <1>9, Zenon DEF RunEffect
  <2>2. effect' \in [Events -> {"none", "part", "all"}]
    BY <2>1, Zenon
  <2> QED
    BY <1>9, <2>2 DEF RunEffect
<1>10. ASSUME NEW w \in Workflows, RunEffectAtomically(w) PROVE TypeOK'
  <2>1. PICK o \in Events \cup {None} : MarkApplied(cur[w], o)
    BY <1>10 DEF RunEffectAtomically
  <2>2. effect' \in [Events -> {"none", "part", "all"}]
    BY <1>10 DEF RunEffectAtomically
  <2> QED
    BY <1>10, <2>1, <2>2, MarkAppliedType DEF RunEffectAtomically
<1>11. ASSUME NEW w \in Workflows, NEW o \in Events \cup {None}, ApplyReturns(w, o)
       PROVE TypeOK'
  <2>1. pc' \in [Workflows -> DrainStates] /\ cur' \in [Workflows -> Events \cup {None}]
    BY <1>11 DEF ApplyReturns, Resume
  <2>2. CASE app[cur[w]] = "applying"
    <3>1. MarkApplied(cur[w], o)
      BY <1>11, <2>2 DEF ApplyReturns
    <3> QED
      BY <1>11, <2>1, <3>1, MarkAppliedType DEF ApplyReturns, Resume
  <2>3. CASE app[cur[w]] # "applying"
    BY <1>11, <2>1, <2>3 DEF ApplyReturns, Resume
  <2> QED
    BY <2>2, <2>3
<1>12. ASSUME NEW w \in Workflows, ApplySettles(w) PROVE TypeOK'
  <2>0. /\ app' = app \/ app' = [app EXCEPT ![cur[w]] = "applied"]
        /\ outcome' = outcome \/ outcome' = [outcome EXCEPT ![cur[w]] = "settled"]
        /\ UNCHANGED <<inbox, due, tries, observed, effect, authorized, up, stolen>>
    BY <1>12, Zenon DEF ApplySettles
  <2>1. app' \in [Events -> AppStatus] /\ outcome' \in [Events -> Outcomes]
    BY <2>0
  <2>2. /\ pc' \in [Workflows -> DrainStates] /\ cur' \in [Workflows -> Events \cup {None}]
        /\ UNCHANGED handled
    BY <1>12 DEF ApplySettles, Resume
  <2> QED
    BY <2>0, <2>1, <2>2
<1>13. ASSUME NEW w \in Workflows, ApplyThrows(w) PROVE TypeOK'
  BY <1>13, Zenon DEF ApplyThrows, Resume
<1>14. ASSUME NEW w \in Workflows, ApplyInterrupted(w) PROVE TypeOK'
  BY <1>14 DEF ApplyInterrupted, Resume
<1>15. CASE ConvergeRecovery
  BY <1>15 DEF ConvergeRecovery, ReconciledInbox, ReconciledApp, Converged, Reopened
<1>16. ASSUME NEW e \in Events, ReconcileCancellation(e) PROVE TypeOK'
  BY <1>16 DEF ReconcileCancellation
<1>17. ASSUME NEW e \in Events, RetryService(e) PROVE TypeOK'
  BY <1>17 DEF RetryService
<1>18. ASSUME NEW e \in Events, NEW r, ResolveRecoveryItem(e, r) PROVE TypeOK'
  <2>1. /\ \E a \in {"applied", "pending"} : app' = [app EXCEPT ![e] = a]
        /\ outcome' = outcome \/ outcome' = [outcome EXCEPT ![e] = "assumed"]
        /\ UNCHANGED <<inbox, due, tries, observed, effect, authorized, up, drains, stolen>>
    BY <1>18, Zenon DEF ResolveRecoveryItem
  <2>2. app' \in [Events -> AppStatus] /\ outcome' \in [Events -> Outcomes]
    BY <2>1
  <2> QED
    BY <2>1, <2>2
<1>19. CASE Crash
  <2>1. up' \in BOOLEAN
    BY <1>19, Zenon DEF Crash
  <2>2. pc' \in [Workflows -> DrainStates] /\ cur' \in [Workflows -> Events \cup {None}]
        /\ handled' \in [Workflows -> 0..MaxDecisions]
    BY <1>19 DEF Crash
  <2> QED
    BY <1>19, <2>1, <2>2 DEF Crash
<1>20. CASE Startup
  BY <1>20 DEF Startup, ReconciledInbox, ReconciledApp
<1>21. CASE SetAuthorization
  BY <1>21 DEF SetAuthorization
<1>22. ASSUME NEW e \in Events, BecomeDue(e) PROVE TypeOK'
  BY <1>22 DEF BecomeDue
<1>23. CASE UNCHANGED vars
  BY <1>23 DEF vars
<1> QED
  BY <1>1, <1>2, <1>3, <1>4, <1>5, <1>6, <1>7, <1>8, <1>9, <1>10, <1>11, <1>12, Zenon,
     <1>13, <1>14, <1>15, <1>16, <1>17, <1>18, <1>19, <1>20, <1>21, <1>22, <1>23
     DEF Next, DrainStep, ApplyStep

\* The tables and the drains only ever hold values the code writes to them.
THEOREM TypeCorrect == Spec => []TypeOK
<1>1. Init => TypeOK
  BY ConstantsAssumption
     DEF Init, TypeOK, EventStatus, AppStatus, Outcomes, DrainStates, Synchronous
<1> QED
  BY <1>1, TypeNext, PTL DEF Spec

\* The thread is held by at most one drain, and a stopped process has none.
ThreadOwned ==
    \A v, w \in Workflows : pc[v] \in Synchronous /\ pc[w] \in Synchronous => v = w
DownIsIdle == ~up => \A w \in Workflows : pc[w] = "idle"

\* What a drain has in hand: the event it claimed, the decision it applies.
InHand ==
    \A w \in Workflows :
        /\ pc[w] = "deciding" => cur[w] \in Events /\ inbox[cur[w]] = "processing"
        /\ pc[w] = "applying" => cur[w] \in Events /\ app[cur[w]] # "none"

\* A live apply keeps its row unless a recovery pass re-opened it.
KeepsRow ==
    \A w \in Workflows : pc[w] = "applying" /\ cur[w] \notin stolen
        => app[cur[w]] \in {"applying", "applied"}

\* The inductive invariant.
IInv == /\ TypeOK /\ ThreadOwned /\ DownIsIdle /\ InHand
        /\ DecidedOnce /\ AppliedHasEffect /\ ObservationCommitted
        /\ KeepsRow /\ SingleApplier

\* Every step of the workflow preserves the inductive invariant.
LEMMA IInvNext == IInv /\ [Next]_vars => IInv'
<1> SUFFICES ASSUME IInv, [Next]_vars PROVE IInv'
  OBVIOUS
<1>t. TypeOK'
  BY TypeNext DEF IInv
<1> USE <1>t, ConstantsAssumption
<1> USE DEF IInv, TypeOK, EventStatus, AppStatus, Outcomes, DrainStates, Synchronous,
            tables, drains
<1>1. ASSUME NEW w \in Workflows, NEW e \in Events, Submit(w, e) PROVE IInv'
  <2>1. ThreadOwned'
    BY <1>1 DEF Submit, InsertEvent, DrainSerially, ThreadFree, ThreadOwned
  <2>2. DownIsIdle'
    BY <1>1 DEF Submit, InsertEvent, DrainSerially, ThreadFree, DownIsIdle
  <2>3. InHand'
    BY <1>1 DEF Submit, InsertEvent, DrainSerially, ThreadFree, InHand, ThreadOwned,
       DownIsIdle
  <2>4. DecidedOnce'
    BY <1>1 DEF Submit, InsertEvent, DrainSerially, ThreadFree, InHand, DecidedOnce
  <2>5. ObservationCommitted'
    BY <1>1 DEF Submit, InsertEvent, DrainSerially, ThreadFree, InHand,
       ObservationCommitted
  <2>6. KeepsRow'
    BY <1>1 DEF Submit, InsertEvent, DrainSerially, ThreadFree, KeepsRow, SingleApplier,
       DownIsIdle, InHand
  <2>7. SingleApplier'
    BY <1>1 DEF Submit, InsertEvent, DrainSerially, ThreadFree, KeepsRow, SingleApplier,
       InHand
  <2>8. AppliedHasEffect'
    BY <1>1 DEF Submit, AppliedHasEffect
  <2> QED
    BY <2>1, <2>2, <2>3, <2>4, <2>5, <2>6, <2>7, <2>8 DEF IInv
<1>2. ASSUME NEW w \in Workflows, Recover(w) PROVE IInv'
  <2>1. ThreadOwned'
    BY <1>2 DEF Recover, ReconciledInbox, ReconciledApp, DrainSerially, Reopened,
       ThreadFree, ThreadOwned
  <2>2. DownIsIdle'
    BY <1>2 DEF Recover, ReconciledInbox, ReconciledApp, DrainSerially, Reopened,
       ThreadFree, DownIsIdle
  <2>3. InHand'
    BY <1>2 DEF Recover, ReconciledInbox, ReconciledApp, DrainSerially, Reopened,
       ThreadFree, InHand, ThreadOwned, DownIsIdle
  <2>4. DecidedOnce'
    BY <1>2 DEF Recover, ReconciledInbox, ReconciledApp, DrainSerially, Reopened,
       ThreadFree, InHand, DecidedOnce
  <2>5. AppliedHasEffect'
    BY <1>2 DEF Recover, ReconciledInbox, ReconciledApp, DrainSerially, Reopened,
       ThreadFree, InHand, AppliedHasEffect, Kinds
  <2>6. ObservationCommitted'
    BY <1>2 DEF Recover, ReconciledInbox, ReconciledApp, DrainSerially, Reopened,
       ThreadFree, InHand, ObservationCommitted
  <2>7. KeepsRow'
    BY <1>2 DEF Recover, ReconciledInbox, ReconciledApp, DrainSerially, Reopened,
       ThreadFree, KeepsRow, SingleApplier, DownIsIdle, InHand
  <2>8. SingleApplier'
    BY <1>2 DEF Recover, ReconciledInbox, ReconciledApp, DrainSerially, Reopened,
       ThreadFree, KeepsRow, SingleApplier, InHand
  <2> QED
    BY <2>1, <2>2, <2>3, <2>4, <2>5, <2>6, <2>7, <2>8 DEF IInv
<1>3. ASSUME NEW w \in Workflows, NEW e \in Events, StartApply(w, e) PROVE IInv'
  <2>1. ThreadOwned'
    BY <1>3 DEF StartApply, Recoverable, ThreadOwned
  <2>2. DownIsIdle'
    BY <1>3 DEF StartApply, Recoverable, DownIsIdle
  <2>3. InHand'
    BY <1>3 DEF StartApply, Recoverable, InHand, ThreadOwned, DownIsIdle
  <2>4. DecidedOnce'
    BY <1>3 DEF StartApply, Recoverable, InHand, DecidedOnce
  <2>5. AppliedHasEffect'
    BY <1>3 DEF StartApply, Recoverable, InHand, AppliedHasEffect, Kinds
  <2>6. ObservationCommitted'
    BY <1>3 DEF StartApply, Recoverable, InHand, ObservationCommitted
  <2>7. KeepsRow'
    BY <1>3 DEF StartApply, Recoverable, KeepsRow, SingleApplier, DownIsIdle, InHand
  <2>8. SingleApplier'
    <3>1. /\ app[e] = "pending" /\ cur'[w] = e /\ stolen' = stolen
          /\ \A v \in Workflows \ {w} : pc'[v] = pc[v] /\ cur'[v] = cur[v]
      BY <1>3 DEF StartApply, Recoverable
    <3>2. \A v \in Workflows : pc[v] = "applying" /\ cur[v] = e => e \in stolen
      BY <3>1, Zenon DEF KeepsRow
    <3>3. ASSUME NEW v \in Workflows, NEW x \in Workflows, v # x, pc'[v] = "applying",
                 pc'[x] = "applying", cur'[v] = cur'[x]
          PROVE  cur'[v] \in stolen'
      <4>1. CASE v # w /\ x # w
        <5>1. pc[v] = "applying" /\ pc[x] = "applying" /\ cur[v] = cur[x]
          BY <3>1, <3>3, <4>1
        <5>2. cur[v] \in stolen
          BY <3>3, <5>1, Zenon DEF SingleApplier
        <5> QED
          BY <3>1, <4>1, <5>2
      <4>2. CASE v = w \/ x = w
        BY <3>1, <3>2, <3>3, <4>2, Zenon
      <4> QED
        BY <4>1, <4>2, Zenon
    <3> QED
      BY <3>3, Zenon DEF SingleApplier
  <2> QED
    BY <2>1, <2>2, <2>3, <2>4, <2>5, <2>6, <2>7, <2>8 DEF IInv
<1>4. ASSUME NEW w \in Workflows, NEW e \in Events, ClaimNext(w, e) PROVE IInv'
  <2>1. ThreadOwned'
    BY <1>4 DEF ClaimNext, Claimable, ThreadOwned
  <2>2. DownIsIdle'
    BY <1>4 DEF ClaimNext, Claimable, DownIsIdle
  <2>3. InHand'
    BY <1>4 DEF ClaimNext, Claimable, InHand, ThreadOwned, DownIsIdle
  <2>4. DecidedOnce'
    BY <1>4 DEF ClaimNext, Claimable, InHand, DecidedOnce
  <2>5. ObservationCommitted'
    BY <1>4 DEF ClaimNext, Claimable, InHand, ObservationCommitted
  <2>6. KeepsRow'
    BY <1>4 DEF ClaimNext, Claimable, KeepsRow, SingleApplier, DownIsIdle, InHand
  <2>7. SingleApplier'
    BY <1>4 DEF ClaimNext, Claimable, KeepsRow, SingleApplier, InHand
  <2>8. AppliedHasEffect'
    BY <1>4 DEF ClaimNext, AppliedHasEffect
  <2> QED
    BY <2>1, <2>2, <2>3, <2>4, <2>5, <2>6, <2>7, <2>8 DEF IInv
<1>5. ASSUME NEW w \in Workflows, Issue(w) PROVE IInv'
  <2>1. ThreadOwned'
    BY <1>5 DEF Issue, ThreadOwned
  <2>2. DownIsIdle'
    BY <1>5 DEF Issue, DownIsIdle
  <2>3. InHand'
    BY <1>5 DEF Issue, InHand, ThreadOwned, DownIsIdle
  <2>4. DecidedOnce'
    BY <1>5 DEF Issue, InHand, DecidedOnce
  <2>5. AppliedHasEffect'
    BY <1>5 DEF Issue, InHand, AppliedHasEffect, Kinds
  <2>6. ObservationCommitted'
    BY <1>5 DEF Issue, InHand, ObservationCommitted
  <2>7. KeepsRow'
    BY <1>5 DEF Issue, KeepsRow, SingleApplier, DownIsIdle, InHand
  <2>8. SingleApplier'
    BY <1>5 DEF Issue, KeepsRow, SingleApplier, InHand
  <2> QED
    BY <2>1, <2>2, <2>3, <2>4, <2>5, <2>6, <2>7, <2>8 DEF IInv
<1>6. ASSUME NEW w \in Workflows, DecideThrows(w) PROVE IInv'
  <2>1. ThreadOwned'
    BY <1>6 DEF DecideThrows, ThreadOwned
  <2>2. DownIsIdle'
    BY <1>6 DEF DecideThrows, DownIsIdle
  <2>3. InHand'
    BY <1>6 DEF DecideThrows, InHand, ThreadOwned, DownIsIdle
  <2>4. KeepsRow'
    BY <1>6 DEF DecideThrows, KeepsRow, SingleApplier, DownIsIdle, InHand
  <2>5. SingleApplier'
    BY <1>6 DEF DecideThrows, KeepsRow, SingleApplier, InHand
  <2>6. DecidedOnce' /\ AppliedHasEffect' /\ ObservationCommitted'
    BY <1>6 DEF DecideThrows, DecidedOnce, AppliedHasEffect, ObservationCommitted
  <2> QED
    BY <2>1, <2>2, <2>3, <2>4, <2>5, <2>6 DEF IInv
<1>7. ASSUME NEW w \in Workflows, EndDrain(w) PROVE IInv'
  <2>1. ThreadOwned'
    BY <1>7 DEF EndDrain, ThreadOwned
  <2>2. DownIsIdle'
    BY <1>7 DEF EndDrain, DownIsIdle
  <2>3. InHand'
    BY <1>7 DEF EndDrain, InHand, ThreadOwned, DownIsIdle
  <2>4. KeepsRow'
    BY <1>7 DEF EndDrain, KeepsRow, SingleApplier, DownIsIdle, InHand
  <2>5. SingleApplier'
    BY <1>7 DEF EndDrain, KeepsRow, SingleApplier, InHand
  <2>6. DecidedOnce' /\ AppliedHasEffect' /\ ObservationCommitted'
    BY <1>7 DEF EndDrain, DecidedOnce, AppliedHasEffect, ObservationCommitted
  <2> QED
    BY <2>1, <2>2, <2>3, <2>4, <2>5, <2>6 DEF IInv
<1>8. ASSUME NEW w \in Workflows, ClearDraining(w) PROVE IInv'
  <2>1. ThreadOwned'
    BY <1>8 DEF ClearDraining, ThreadOwned
  <2>2. DownIsIdle'
    BY <1>8 DEF ClearDraining, DownIsIdle
  <2>3. InHand'
    BY <1>8 DEF ClearDraining, InHand, ThreadOwned, DownIsIdle
  <2>4. KeepsRow'
    BY <1>8 DEF ClearDraining, KeepsRow, SingleApplier, DownIsIdle, InHand
  <2>5. SingleApplier'
    BY <1>8 DEF ClearDraining, KeepsRow, SingleApplier, InHand
  <2>6. DecidedOnce' /\ AppliedHasEffect' /\ ObservationCommitted'
    BY <1>8 DEF ClearDraining, DecidedOnce, AppliedHasEffect, ObservationCommitted
  <2> QED
    BY <2>1, <2>2, <2>3, <2>4, <2>5, <2>6 DEF IInv
<1>9. ASSUME NEW w \in Workflows, RunEffect(w) PROVE IInv'
  <2>1. AppliedHasEffect'
    BY <1>9 DEF RunEffect, ThreadFree, InHand, AppliedHasEffect, Kinds
  <2>2. ThreadOwned' /\ DownIsIdle' /\ InHand' /\ DecidedOnce' /\ ObservationCommitted' /\ KeepsRow' /\ SingleApplier'
    BY <1>9 DEF RunEffect, ThreadOwned, DownIsIdle, InHand, DecidedOnce,
       ObservationCommitted, KeepsRow, SingleApplier
  <2> QED
    BY <2>1, <2>2 DEF IInv
<1>10. ASSUME NEW w \in Workflows, RunEffectAtomically(w) PROVE IInv'
  <2>1. InHand'
    BY <1>10 DEF RunEffectAtomically, MarkApplied, InsertEvent, ThreadFree, InHand,
       ThreadOwned, DownIsIdle
  <2>2. DecidedOnce'
    BY <1>10 DEF RunEffectAtomically, MarkApplied, InsertEvent, ThreadFree, InHand,
       DecidedOnce
  <2>3. AppliedHasEffect'
    BY <1>10 DEF RunEffectAtomically, MarkApplied, InsertEvent, ThreadFree, InHand,
       AppliedHasEffect, Kinds
  <2>4. ObservationCommitted'
    BY <1>10 DEF RunEffectAtomically, MarkApplied, InsertEvent, ThreadFree, InHand,
       ObservationCommitted
  <2>5. KeepsRow'
    BY <1>10 DEF RunEffectAtomically, MarkApplied, InsertEvent, ThreadFree, KeepsRow,
       SingleApplier, DownIsIdle, InHand
  <2>6. ThreadOwned' /\ DownIsIdle' /\ SingleApplier'
    BY <1>10 DEF RunEffectAtomically, ThreadOwned, DownIsIdle, SingleApplier
  <2> QED
    BY <2>1, <2>2, <2>3, <2>4, <2>5, <2>6 DEF IInv
<1>11. ASSUME NEW w \in Workflows, NEW o \in Events \cup {None}, ApplyReturns(w, o)
       PROVE IInv'
  <2>1. ThreadOwned'
    BY <1>11 DEF ApplyReturns, MarkApplied, InsertEvent, Resume, ThreadFree, ThreadOwned
  <2>2. DownIsIdle'
    BY <1>11 DEF ApplyReturns, MarkApplied, InsertEvent, Resume, ThreadFree, DownIsIdle
  <2>3. InHand'
    BY <1>11 DEF ApplyReturns, MarkApplied, InsertEvent, Resume, ThreadFree, InHand,
       ThreadOwned, DownIsIdle
  <2>4. DecidedOnce'
    BY <1>11 DEF ApplyReturns, MarkApplied, InsertEvent, Resume, ThreadFree, InHand,
       DecidedOnce
  <2>5. /\ cur[w] \in Events /\ o \in Emits[cur[w]]
        /\ Kind[cur[w]] = "effect_free" \/ effect[cur[w]] = "all"
        /\ UNCHANGED <<effect, stolen>>
        /\ \A v \in Workflows : pc'[v] = "applying" => pc[v] = "applying" /\ cur'[v] = cur[v]
    BY <1>11 DEF ApplyReturns, Resume, InHand
  <2>6. /\ \A e \in Events \ {cur[w]} :
              app'[e] = app[e] /\ observed'[e] = observed[e] /\ outcome'[e] = outcome[e]
        /\ \/ /\ app'[cur[w]] = "applied" /\ observed'[cur[w]] = o
              /\ outcome'[cur[w]] = "completed" /\ (o # None => inbox'[o] # "absent")
           \/ UNCHANGED <<app, observed, outcome>>
        /\ \A e \in Events : inbox[e] # "absent" => inbox'[e] # "absent"
    BY <1>11, <2>5 DEF ApplyReturns, MarkApplied, InsertEvent
  <2>7. AppliedHasEffect'
    BY <2>5, <2>6, Zenon DEF AppliedHasEffect
  <2>9. ObservationCommitted'
    BY <2>5, <2>6 DEF ObservationCommitted
  <2>10. KeepsRow'
    BY <2>5, <2>6 DEF KeepsRow, InHand
  <2>8. SingleApplier'
    BY <2>5 DEF SingleApplier
  <2> QED
    BY <2>1, <2>2, <2>3, <2>4, <2>7, <2>8, <2>9, <2>10, Zenon DEF IInv
<1>12. ASSUME NEW w \in Workflows, ApplySettles(w) PROVE IInv'
  <2>1. ThreadOwned'
    BY <1>12 DEF ApplySettles, Resume, ThreadFree, ThreadOwned
  <2>2. DownIsIdle'
    BY <1>12 DEF ApplySettles, Resume, ThreadFree, DownIsIdle
  <2>3. InHand'
    BY <1>12 DEF ApplySettles, Resume, ThreadFree, InHand, ThreadOwned, DownIsIdle
  <2>4. DecidedOnce'
    BY <1>12 DEF ApplySettles, Resume, ThreadFree, InHand, DecidedOnce
  <2>5. AppliedHasEffect'
    BY <1>12, SMTT(30) DEF ApplySettles, Resume, ThreadFree, InHand, AppliedHasEffect, Kinds
  <2>6. ObservationCommitted'
    BY <1>12 DEF ApplySettles, Resume, ThreadFree, InHand, ObservationCommitted
  <2>7. KeepsRow'
    BY <1>12 DEF ApplySettles, Resume, ThreadFree, KeepsRow, SingleApplier, DownIsIdle,
       InHand
  <2>8. SingleApplier'
    BY <1>12 DEF ApplySettles, Resume, ThreadFree, KeepsRow, SingleApplier, InHand
  <2> QED
    BY <2>1, <2>2, <2>3, <2>4, <2>5, <2>6, <2>7, <2>8 DEF IInv
<1>13. ASSUME NEW w \in Workflows, ApplyThrows(w) PROVE IInv'
  <2>1. ThreadOwned'
    BY <1>13 DEF ApplyThrows, Resume, ThreadFree, ThreadOwned
  <2>2. DownIsIdle'
    BY <1>13 DEF ApplyThrows, Resume, ThreadFree, DownIsIdle
  <2>3. InHand'
    BY <1>13 DEF ApplyThrows, Resume, ThreadFree, InHand, ThreadOwned, DownIsIdle
  <2>4. DecidedOnce'
    BY <1>13 DEF ApplyThrows, Resume, ThreadFree, InHand, DecidedOnce
  <2>5. AppliedHasEffect'
    BY <1>13 DEF ApplyThrows, Resume, ThreadFree, InHand, AppliedHasEffect, Kinds
  <2>6. ObservationCommitted'
    BY <1>13 DEF ApplyThrows, Resume, ThreadFree, InHand, ObservationCommitted
  <2>7. KeepsRow'
    BY <1>13 DEF ApplyThrows, Resume, ThreadFree, KeepsRow, SingleApplier, DownIsIdle,
       InHand
  <2>8. SingleApplier'
    BY <1>13 DEF ApplyThrows, Resume, ThreadFree, KeepsRow, SingleApplier, InHand
  <2> QED
    BY <2>1, <2>2, <2>3, <2>4, <2>5, <2>6, <2>7, <2>8 DEF IInv
<1>14. ASSUME NEW w \in Workflows, ApplyInterrupted(w) PROVE IInv'
  <2>1. ThreadOwned'
    BY <1>14 DEF ApplyInterrupted, Resume, ThreadFree, ThreadOwned
  <2>2. DownIsIdle'
    BY <1>14 DEF ApplyInterrupted, Resume, ThreadFree, DownIsIdle
  <2>3. InHand'
    BY <1>14 DEF ApplyInterrupted, Resume, ThreadFree, InHand, ThreadOwned, DownIsIdle
  <2>4. KeepsRow'
    BY <1>14 DEF ApplyInterrupted, Resume, ThreadFree, KeepsRow, SingleApplier,
       DownIsIdle, InHand
  <2>5. SingleApplier'
    BY <1>14 DEF ApplyInterrupted, Resume, ThreadFree, KeepsRow, SingleApplier, InHand
  <2>6. DecidedOnce' /\ AppliedHasEffect' /\ ObservationCommitted'
    BY <1>14 DEF ApplyInterrupted, DecidedOnce, AppliedHasEffect, ObservationCommitted
  <2> QED
    BY <2>1, <2>2, <2>3, <2>4, <2>5, <2>6 DEF IInv
<1>15. CASE ConvergeRecovery
  <2>1. InHand'
    BY <1>15 DEF ConvergeRecovery, ReconciledInbox, ReconciledApp, Converged, Verdict,
       Reopened, ThreadFree, InHand, ThreadOwned, DownIsIdle
  <2>2. DecidedOnce'
    BY <1>15 DEF ConvergeRecovery, ReconciledInbox, ReconciledApp, Converged, Verdict,
       Reopened, ThreadFree, InHand, DecidedOnce
  <2>3. AppliedHasEffect'
    BY <1>15 DEF ConvergeRecovery, ReconciledInbox, ReconciledApp, Converged, Verdict,
       Reopened, ThreadFree, InHand, AppliedHasEffect, Kinds
  <2>4. ObservationCommitted'
    BY <1>15 DEF ConvergeRecovery, ReconciledInbox, ReconciledApp, Converged, Verdict,
       Reopened, ThreadFree, InHand, ObservationCommitted
  <2>5. KeepsRow'
    BY <1>15 DEF ConvergeRecovery, ReconciledInbox, ReconciledApp, Converged, Verdict,
       Reopened, ThreadFree, KeepsRow, SingleApplier, DownIsIdle, InHand
  <2>6. SingleApplier'
    BY <1>15 DEF ConvergeRecovery, ReconciledInbox, ReconciledApp, Converged, Verdict,
       Reopened, ThreadFree, KeepsRow, SingleApplier, InHand
  <2>7. ThreadOwned' /\ DownIsIdle'
    BY <1>15 DEF ConvergeRecovery, ThreadOwned, DownIsIdle
  <2> QED
    BY <2>1, <2>2, <2>3, <2>4, <2>5, <2>6, <2>7 DEF IInv
<1>16. ASSUME NEW e \in Events, ReconcileCancellation(e) PROVE IInv'
  <2>1. InHand'
    BY <1>16 DEF ReconcileCancellation, ThreadFree, InHand, ThreadOwned, DownIsIdle
  <2>2. DecidedOnce'
    BY <1>16 DEF ReconcileCancellation, ThreadFree, InHand, DecidedOnce
  <2>3. AppliedHasEffect'
    BY <1>16 DEF ReconcileCancellation, ThreadFree, InHand, AppliedHasEffect, Kinds
  <2>4. ObservationCommitted'
    BY <1>16 DEF ReconcileCancellation, ThreadFree, InHand, ObservationCommitted
  <2>5. KeepsRow'
    BY <1>16 DEF ReconcileCancellation, ThreadFree, KeepsRow, SingleApplier, DownIsIdle,
       InHand
  <2>6. ThreadOwned' /\ DownIsIdle' /\ SingleApplier'
    BY <1>16 DEF ReconcileCancellation, ThreadOwned, DownIsIdle, SingleApplier
  <2> QED
    BY <2>1, <2>2, <2>3, <2>4, <2>5, <2>6 DEF IInv
<1>17. ASSUME NEW e \in Events, RetryService(e) PROVE IInv'
  <2>1. InHand'
    BY <1>17 DEF RetryService, ThreadFree, InHand, ThreadOwned, DownIsIdle
  <2>2. DecidedOnce'
    BY <1>17 DEF RetryService, ThreadFree, InHand, DecidedOnce
  <2>3. AppliedHasEffect'
    BY <1>17 DEF RetryService, ThreadFree, InHand, AppliedHasEffect, Kinds
  <2>4. ObservationCommitted'
    BY <1>17 DEF RetryService, ThreadFree, InHand, ObservationCommitted
  <2>5. KeepsRow'
    BY <1>17 DEF RetryService, ThreadFree, KeepsRow, SingleApplier, DownIsIdle, InHand
  <2>6. ThreadOwned' /\ DownIsIdle' /\ SingleApplier'
    BY <1>17 DEF RetryService, ThreadOwned, DownIsIdle, SingleApplier
  <2> QED
    BY <2>1, <2>2, <2>3, <2>4, <2>5, <2>6 DEF IInv
<1>18. ASSUME NEW e \in Events, NEW r, ResolveRecoveryItem(e, r) PROVE IInv'
  <2>0. /\ app[e] = "uncertain" /\ UNCHANGED <<inbox, observed, effect, up, pc, cur, stolen>>
        /\ \A f \in Events \ {e} : app'[f] = app[f] /\ outcome'[f] = outcome[f]
        /\ \/ app'[e] = "applied" /\ outcome'[e] = "assumed"
           \/ app'[e] = "pending" /\ outcome'[e] = outcome[e]
    BY <1>18 DEF ResolveRecoveryItem
  <2>1. InHand'
    BY <2>0 DEF InHand
  <2>2. DecidedOnce'
    BY <2>0, Zenon DEF DecidedOnce
  <2>3. AppliedHasEffect'
    BY <2>0, Zenon DEF AppliedHasEffect
  <2>4. ObservationCommitted'
    BY <2>0, Zenon DEF ObservationCommitted
  <2>5. KeepsRow'
    BY <2>0, Zenon DEF KeepsRow, InHand
  <2>6. ThreadOwned' /\ DownIsIdle' /\ SingleApplier'
    BY <2>0, Zenon DEF ThreadOwned, DownIsIdle, SingleApplier
  <2> QED
    BY <2>1, <2>2, <2>3, <2>4, <2>5, <2>6, Zenon DEF IInv
<1>19. CASE Crash
  <2>1. ThreadOwned'
    BY <1>19 DEF Crash, ThreadOwned
  <2>2. DownIsIdle'
    BY <1>19 DEF Crash, DownIsIdle
  <2>3. InHand'
    BY <1>19 DEF Crash, InHand, ThreadOwned, DownIsIdle
  <2>4. KeepsRow'
    BY <1>19 DEF Crash, KeepsRow, SingleApplier, DownIsIdle, InHand
  <2>5. SingleApplier'
    BY <1>19, ZenonT(30) DEF Crash, KeepsRow, SingleApplier, InHand
  <2>6. DecidedOnce' /\ AppliedHasEffect' /\ ObservationCommitted'
    BY <1>19, ZenonT(30) DEF Crash, DecidedOnce, AppliedHasEffect, ObservationCommitted
  <2> QED
    BY <2>1, <2>2, <2>3, <2>4, <2>5, <2>6, ZenonT(30) DEF IInv
<1>20. CASE Startup
  <2>1. DownIsIdle'
    BY <1>20 DEF Startup, ReconciledInbox, ReconciledApp, DownIsIdle
  <2>2. InHand'
    BY <1>20, ZenonT(30) DEF Startup, ReconciledInbox, ReconciledApp, InHand, ThreadOwned,
       DownIsIdle
  <2>3. DecidedOnce'
    BY <1>20, ZenonT(30) DEF Startup, ReconciledInbox, ReconciledApp, InHand, DecidedOnce
  <2>4. AppliedHasEffect'
    BY <1>20, ZenonT(30) DEF Startup, ReconciledInbox, ReconciledApp, InHand, AppliedHasEffect,
       Kinds
  <2>5. ObservationCommitted'
    BY <1>20 DEF Startup, ReconciledInbox, ReconciledApp, InHand, ObservationCommitted
  <2>6. KeepsRow'
    BY <1>20, ZenonT(30) DEF Startup, ReconciledInbox, ReconciledApp, KeepsRow, SingleApplier,
       DownIsIdle, InHand
  <2>7. ThreadOwned' /\ SingleApplier'
    BY <1>20, ZenonT(30) DEF Startup, ThreadOwned, SingleApplier
  <2> QED
    BY <2>1, <2>2, <2>3, <2>4, <2>5, <2>6, <2>7 DEF IInv
<1>21. CASE SetAuthorization
  <2>1. ThreadOwned' /\ DownIsIdle' /\ InHand'
    BY <1>21, ZenonT(30) DEF SetAuthorization, ThreadOwned, DownIsIdle, InHand
  <2>2. DecidedOnce' /\ AppliedHasEffect' /\ ObservationCommitted'
    BY <1>21, ZenonT(30) DEF SetAuthorization, DecidedOnce, AppliedHasEffect, ObservationCommitted
  <2>3. KeepsRow' /\ SingleApplier'
    BY <1>21, ZenonT(30) DEF SetAuthorization, KeepsRow, SingleApplier
  <2> QED
    BY <2>1, <2>2, <2>3 DEF IInv
<1>22. ASSUME NEW e \in Events, BecomeDue(e) PROVE IInv'
  <2>1. ThreadOwned' /\ DownIsIdle' /\ InHand'
    BY <1>22, ZenonT(30) DEF BecomeDue, ThreadOwned, DownIsIdle, InHand
  <2>2. DecidedOnce' /\ AppliedHasEffect' /\ ObservationCommitted'
    BY <1>22, ZenonT(30) DEF BecomeDue, DecidedOnce, AppliedHasEffect, ObservationCommitted
  <2>3. KeepsRow' /\ SingleApplier'
    BY <1>22, ZenonT(30) DEF BecomeDue, KeepsRow, SingleApplier
  <2> QED
    BY <2>1, <2>2, <2>3, ZenonT(30) DEF IInv
<1>23. CASE UNCHANGED vars
  <2>1. ThreadOwned' /\ DownIsIdle' /\ InHand'
    BY <1>23, ZenonT(30) DEF vars, ThreadOwned, DownIsIdle, InHand
  <2>2. DecidedOnce' /\ AppliedHasEffect' /\ ObservationCommitted'
    BY <1>23 DEF vars, DecidedOnce, AppliedHasEffect, ObservationCommitted
  <2>3. KeepsRow' /\ SingleApplier'
    BY <1>23, ZenonT(30) DEF vars, KeepsRow, SingleApplier
  <2> QED
    BY <2>1, <2>2, <2>3, ZenonT(30) DEF IInv
<1> QED
  BY <1>1, <1>2, <1>3, <1>4, <1>5, <1>6, <1>7, <1>8, <1>9, <1>10, <1>11, <1>12, Zenon,
     <1>13, <1>14, <1>15, <1>16, <1>17, <1>18, <1>19, <1>20, <1>21, <1>22, <1>23
     DEF Next, DrainStep, ApplyStep

\* The inductive invariant holds in every reachable state.
LEMMA IInvAlways == Spec => []IInv
<1>1. Init => IInv
  BY ConstantsAssumption
     DEF Init, IInv, TypeOK, EventStatus, AppStatus, Outcomes, DrainStates, Synchronous,
         ThreadOwned, DownIsIdle, InHand, KeepsRow, DecidedOnce, AppliedHasEffect,
         ObservationCommitted, SingleApplier
<1> QED
  BY <1>1, IInvNext, PTL DEF Spec

\* No step takes an applied application back or rewrites its observation.
LEMMA FinalNext == IInv /\ [Next]_vars => FinalStep
<1> SUFFICES ASSUME IInv, [Next]_vars PROVE FinalStep
  OBVIOUS
<1> USE ConstantsAssumption
<1> USE DEF IInv, TypeOK, FinalStep, tables, drains
<1>1. ASSUME NEW w \in Workflows, NEW e \in Events, Submit(w, e) PROVE FinalStep
  BY <1>1 DEF Submit
<1>2. ASSUME NEW w \in Workflows, Recover(w) PROVE FinalStep
  BY <1>2 DEF Recover, ReconciledApp
<1>3. ASSUME NEW w \in Workflows, NEW e \in Events, StartApply(w, e) PROVE FinalStep
  BY <1>3 DEF StartApply, Recoverable
<1>4. ASSUME NEW w \in Workflows, NEW e \in Events, ClaimNext(w, e) PROVE FinalStep
  BY <1>4 DEF ClaimNext
<1>5. ASSUME NEW w \in Workflows, Issue(w) PROVE FinalStep
  BY <1>5 DEF Issue
<1>6. ASSUME NEW w \in Workflows, DecideThrows(w) PROVE FinalStep
  BY <1>6 DEF DecideThrows
<1>7. ASSUME NEW w \in Workflows, EndDrain(w) PROVE FinalStep
  BY <1>7 DEF EndDrain
<1>8. ASSUME NEW w \in Workflows, ClearDraining(w) PROVE FinalStep
  BY <1>8 DEF ClearDraining
<1>9. ASSUME NEW w \in Workflows, RunEffect(w) PROVE FinalStep
  BY <1>9 DEF RunEffect
<1>10. ASSUME NEW w \in Workflows, RunEffectAtomically(w) PROVE FinalStep
  BY <1>10 DEF RunEffectAtomically, MarkApplied
<1>11. ASSUME NEW w \in Workflows, NEW o \in Events \cup {None}, ApplyReturns(w, o)
       PROVE FinalStep
  BY <1>11 DEF ApplyReturns, MarkApplied
<1>12. ASSUME NEW w \in Workflows, ApplySettles(w) PROVE FinalStep
  BY <1>12 DEF ApplySettles
<1>13. ASSUME NEW w \in Workflows, ApplyThrows(w) PROVE FinalStep
  BY <1>13 DEF ApplyThrows
<1>14. ASSUME NEW w \in Workflows, ApplyInterrupted(w) PROVE FinalStep
  BY <1>14 DEF ApplyInterrupted
<1>15. CASE ConvergeRecovery
  BY <1>15 DEF ConvergeRecovery, ReconciledApp, Converged
<1>16. ASSUME NEW e \in Events, ReconcileCancellation(e) PROVE FinalStep
  BY <1>16 DEF ReconcileCancellation
<1>17. ASSUME NEW e \in Events, RetryService(e) PROVE FinalStep
  BY <1>17 DEF RetryService
<1>18. ASSUME NEW e \in Events, NEW r, ResolveRecoveryItem(e, r) PROVE FinalStep
  BY <1>18 DEF ResolveRecoveryItem
<1>19. CASE Crash
  BY <1>19 DEF Crash
<1>20. CASE Startup
  BY <1>20 DEF Startup, ReconciledApp
<1>21. CASE SetAuthorization
  BY <1>21 DEF SetAuthorization
<1>22. ASSUME NEW e \in Events, BecomeDue(e) PROVE FinalStep
  BY <1>22 DEF BecomeDue
<1>23. CASE UNCHANGED vars
  BY <1>23 DEF vars
<1> QED
  BY <1>1, <1>2, <1>3, <1>4, <1>5, <1>6, <1>7, <1>8, <1>9, <1>10, <1>11, <1>12, Zenon,
     <1>13, <1>14, <1>15, <1>16, <1>17, <1>18, <1>19, <1>20, <1>21, <1>22, <1>23
     DEF Next, DrainStep, ApplyStep

\* An applied application stays applied, with the observation it was applied
\* with, in every behaviour of the workflow.
THEOREM AppliedIsFinalHolds == Spec => AppliedIsFinal
<1>1. IInv /\ [Next]_vars => [FinalStep]_vars
  BY FinalNext
<1> QED
  BY <1>1, IInvAlways, PTL DEF Spec, AppliedIsFinal

\* No event is lost undecided and none is decided twice, for any number of
\* workflows and whatever crashes, throws and recovery passes interleave.
THEOREM DecidedOnceHolds == Spec => []DecidedOnce
<1>1. IInv => DecidedOnce
  BY DEF IInv
<1> QED
  BY <1>1, IInvAlways, PTL

\* Applied means done: the postcondition is durable unless the action has none,
\* the handler settled it or the user vouched for it.
THEOREM AppliedHasEffectHolds == Spec => []AppliedHasEffect
<1>1. IInv => AppliedHasEffect
  BY DEF IInv
<1> QED
  BY <1>1, IInvAlways, PTL

\* A completed application has its observation in the inbox.
THEOREM ObservationCommittedHolds == Spec => []ObservationCommitted
<1>1. IInv => ObservationCommitted
  BY DEF IInv
<1> QED
  BY <1>1, IInvAlways, PTL

\* Two drains apply the same decision only after a recovery pass re-opened it.
THEOREM SingleApplierHolds == Spec => []SingleApplier
<1>1. IInv => SingleApplier
  BY DEF IInv
<1> QED
  BY <1>1, IInvAlways, PTL
=============================================================================
