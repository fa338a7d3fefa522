--------------------------- MODULE KernelWorkflow ---------------------------
(***************************************************************************)
(* The durable Kernel workflow: an inbox of Kernel events, a ledger of     *)
(* decisions, one application row per decision, and the drains that move   *)
(* them along (src/kernel/kernel-workflow.ts over                          *)
(* src/storage/kernel-workflow-repo.ts), together with the recovery passes *)
(* that rewrite the same tables.                                           *)
(*                                                                         *)
(* Several DurableKernelWorkflow objects share the tables.  A Node process *)
(* runs one of them at a time and switches only where the code awaits, so  *)
(* the drain whose pc is in Synchronous owns the thread until it reaches   *)
(* the runtime's apply or ends; a crash can still hit between any two      *)
(* transactions.  A decision's id is `decision_<event id>` and event_id is *)
(* unique in the ledger, so one index names an event, its decision and the *)
(* decision's application.                                                 *)
(***************************************************************************)
EXTENDS Naturals, FiniteSets

CONSTANTS
    Events,        \* Kernel events, and with them their decisions
    Workflows,     \* the DurableKernelWorkflow objects of the process
    None,          \* "no observation" / "no decision in hand"
    External,      \* events some caller submits
    Takes,         \* Takes[w]: events w's type, task and correlation filter admits
    Applies,       \* Applies[w]: decisions w's acceptedActions and filters admit
    Emits,         \* Emits[e]: what apply of e's decision may return, None or an event
    Delayed,       \* observations whose occurredAt is in the future
    Kind,          \* Kind[e]: the recovery family of e's action
    Atomic,        \* decisions whose handler marks them applied in its own transaction
    Productive,    \* decisions whose action needs production authorization
    MaxDecisions,  \* MAX_DECISIONS_PER_DRAIN
    MaxRetries     \* MAX_UNSAFE_APPLICATION_RETRIES

Kinds == {"managed", "explicit", "effect_free", "reapply", "cancellation", "service"}

ASSUME ConstantsAssumption ==
    /\ None \notin Events
    /\ External \subseteq Events /\ Delayed \subseteq Events
    /\ Atomic \subseteq Events /\ Productive \subseteq Events
    /\ Takes \in [Workflows -> SUBSET Events]
    /\ Applies \in [Workflows -> SUBSET Events]
    /\ Emits \in [Events -> SUBSET (Events \cup {None})]
    /\ Kind \in [Events -> Kinds]
    /\ MaxDecisions \in Nat \ {0} /\ MaxRetries \in Nat \ {0}

VARIABLES
    inbox,       \* kernel_events.status, "absent" when there is no row
    due,         \* events whose available_at is not in the future
    app,         \* kernel_decision_applications.status, "none" when there is no row
    tries,       \* apply_attempts, saturating at MaxRetries
    observed,    \* observation_event_id
    effect,      \* how much of the decision's postcondition is durable
    authorized,  \* productionAuthorization()
    up,          \* the process is running
    pc,          \* where each workflow's drain stands
    cur,         \* the event or decision the drain has in hand
    handled,     \* the drain's `handled` counter
    outcome,     \* history: how the application became applied
    stolen       \* history: applications re-opened under a live apply

tables == <<inbox, due, app, tries, observed, effect>>
drains == <<pc, cur, handled>>
vars == <<inbox, due, app, tries, observed, effect, authorized, up,
          pc, cur, handled, outcome, stolen>>

EventStatus == {"absent", "pending", "processing", "processed"}
AppStatus == {"none", "pending", "applying", "applied", "uncertain"}
Outcomes == {"open", "completed", "settled", "inspected", "assumed"}
Synchronous == {"loop", "deciding"}
DrainStates == Synchronous \cup {"idle", "applying", "drained", "stopped"}

Init ==
    /\ inbox = [e \in Events |-> "absent"]
    /\ due = {}
    /\ app = [e \in Events |-> "none"]
    /\ tries = [e \in Events |-> 0]
    /\ observed = [e \in Events |-> None]
    /\ effect = [e \in Events |-> "none"]
    /\ authorized \in BOOLEAN
    /\ up = TRUE
    /\ pc = [w \in Workflows |-> "idle"]
    /\ cur = [w \in Workflows |-> None]
    /\ handled = [w \in Workflows |-> 0]
    /\ outcome = [e \in Events |-> "open"]
    /\ stolen = {}

----------------------------------------------------------------------------
(* Helpers *)

\* Nothing synchronous is running: the event loop can pick another callback.
ThreadFree == up /\ \A w \in Workflows : pc[w] \notin Synchronous

\* insertEvent: INSERT OR IGNORE of a pending row.
InsertEvent(e, isDue) ==
    /\ inbox' = IF inbox[e] = "absent" THEN [inbox EXCEPT ![e] = "pending"] ELSE inbox
    /\ due' = IF inbox[e] = "absent" /\ isDue THEN due \cup {e} ELSE due

\* Mutant: the query forgets status = 'pending' and also returns applying rows.
RecoverableAnyOpen(w) ==
    {e \in Applies[w] : app[e] \in {"pending", "applying"} /\ (e \in Productive => authorized)}

\* listRecoverableApplications, then the first one allowsKernelAction admits.
\* Any such row may come first: created_at order is abstracted.
Recoverable(w) ==
    {e \in Applies[w] : app[e] = "pending" /\ (e \in Productive => authorized)}

Claimable(w) == {e \in Takes[w] : inbox[e] = "pending" /\ e \in due}

\* drainSerially: join the drain in progress, or start one.
DrainSerially(w) ==
    /\ pc' = IF pc[w] = "idle" THEN [pc EXCEPT ![w] = "loop"] ELSE pc
    /\ UNCHANGED <<cur, handled>>

\* Mutant: rows in flight are taken for live ones and left alone.
ReconciledAppKeep == app

\* reconcileProcessing: events back to pending or processed, every applying
\* row back to pending, whoever is applying it.
ReconciledInbox ==
    [e \in Events |-> IF inbox[e] # "processing" THEN inbox[e]
                      ELSE IF app[e] # "none" THEN "processed" ELSE "pending"]

ReconciledApp ==
    [e \in Events |-> IF app[e] = "applying" THEN "pending" ELSE app[e]]

\* The rows a reconciliation takes from a drain that is still applying them.
Reopened ==
    {e \in Events : app[e] = "applying"
                    /\ \E w \in Workflows : pc[w] = "applying" /\ cur[w] = e}

\* Mutant: a partly present postcondition counts as applied (`some` for `every`).
VerdictSome(e) ==
    CASE Kind[e] = "cancellation" -> "not_managed"
      [] Kind[e] = "service" -> "unresolved"
      [] Kind[e] = "effect_free" -> "applied"
      [] Kind[e] = "reapply" -> "retry_safe"
      [] Kind[e] = "explicit" -> IF effect[e] = "none" THEN "unresolved" ELSE "applied"
      [] Kind[e] = "managed" -> IF effect[e] = "none" THEN "retry_safe" ELSE "applied"

\* inspectApplicationPostcondition, by recovery family.  A decision whose absent effect
\* may have been overtaken (a replan, a graph revision of one, a retry wake that moved
\* on) is explicit: only the user retries it.  Transitions that may be repeated whatever
\* of them is there are reapply.
Verdict(e) ==
    CASE Kind[e] = "cancellation" -> "not_managed"
      [] Kind[e] = "service" -> "unresolved"
      [] Kind[e] = "effect_free" -> "applied"
      [] Kind[e] = "reapply" -> "retry_safe"
      [] Kind[e] = "explicit" -> IF effect[e] = "all" THEN "applied" ELSE "unresolved"
      [] Kind[e] = "managed" -> IF effect[e] = "all" THEN "applied"
                                ELSE IF effect[e] = "none" THEN "retry_safe"
                                ELSE "unresolved"

----------------------------------------------------------------------------
(* Callers *)

\* submit: enqueue as due now, then drain.
Submit(w, e) ==
    /\ ThreadFree /\ e \in External
    /\ InsertEvent(e, TRUE)
    /\ DrainSerially(w)
    /\ UNCHANGED <<app, tries, observed, effect, authorized, up, outcome, stolen>>

\* recover: reconcile the tables, then drain.
Recover(w) ==
    /\ ThreadFree
    /\ inbox' = ReconciledInbox
    /\ app' = ReconciledApp
    /\ stolen' = stolen \cup Reopened
    /\ DrainSerially(w)
    /\ UNCHANGED <<due, tries, observed, effect, authorized, up, outcome>>

----------------------------------------------------------------------------
(* One drain *)

\* markApplying, in the same turn as the query that found the row.
StartApply(w, e) ==
    /\ pc[w] = "loop" /\ handled[w] < MaxDecisions
    /\ e \in Recoverable(w)
    /\ app' = [app EXCEPT ![e] = "applying"]
    /\ tries' = [tries EXCEPT ![e] = IF @ < MaxRetries THEN @ + 1 ELSE @]
    /\ handled' = [handled EXCEPT ![w] = @ + 1]
    /\ pc' = [pc EXCEPT ![w] = "applying"]
    /\ cur' = [cur EXCEPT ![w] = e]
    /\ UNCHANGED <<inbox, due, observed, effect, authorized, up, outcome, stolen>>

\* claimNext.
ClaimNext(w, e) ==
    /\ pc[w] = "loop" /\ handled[w] < MaxDecisions
    /\ Recoverable(w) = {}
    /\ e \in Claimable(w)
    /\ inbox' = [inbox EXCEPT ![e] = "processing"]
    /\ pc' = [pc EXCEPT ![w] = "deciding"]
    /\ cur' = [cur EXCEPT ![w] = e]
    /\ UNCHANGED <<due, app, tries, observed, effect, authorized, up, handled,
                   outcome, stolen>>

\* buildSnapshot, decide and issue: ledger row, application row and processed
\* mark in one transaction.
Issue(w) ==
    /\ pc[w] = "deciding"
    /\ inbox' = [inbox EXCEPT ![cur[w]] = "processed"]
    /\ app' = IF app[cur[w]] = "none" THEN [app EXCEPT ![cur[w]] = "pending"] ELSE app
    /\ pc' = [pc EXCEPT ![w] = "loop"]
    /\ cur' = [cur EXCEPT ![w] = None]
    /\ UNCHANGED <<due, tries, observed, effect, authorized, up, handled,
                   outcome, stolen>>

\* Mutant: the event is acknowledged although the Kernel threw.
DecideThrowsAcknowledged(w) ==
    /\ pc[w] = "deciding"
    /\ inbox' = [inbox EXCEPT ![cur[w]] = "processed"]
    /\ pc' = [pc EXCEPT ![w] = "stopped"]
    /\ cur' = [cur EXCEPT ![w] = None]
    /\ UNCHANGED <<due, app, tries, observed, effect, authorized, up, handled,
                   outcome, stolen>>

\* buildSnapshot or decide throws: the drain rejects, the event stays processing.
DecideThrows(w) ==
    /\ pc[w] = "deciding"
    /\ pc' = [pc EXCEPT ![w] = "stopped"]
    /\ cur' = [cur EXCEPT ![w] = None]
    /\ UNCHANGED <<tables, authorized, up, handled, outcome, stolen>>

\* The loop finds nothing to apply or claim, or used up its decision budget
\* and throws "did not reach quiescence".
EndDrain(w) ==
    /\ pc[w] = "loop"
    /\ handled[w] < MaxDecisions => Recoverable(w) = {} /\ Claimable(w) = {}
    /\ pc' = [pc EXCEPT ![w] = IF handled[w] < MaxDecisions THEN "drained" ELSE "stopped"]
    /\ UNCHANGED <<tables, authorized, up, cur, handled, outcome, stolen>>

\* The finally callback clears `draining`, one microtask after the drain ended.
ClearDraining(w) ==
    /\ ThreadFree /\ pc[w] \in {"drained", "stopped"}
    /\ pc' = [pc EXCEPT ![w] = "idle"]
    /\ handled' = [handled EXCEPT ![w] = 0]
    /\ UNCHANGED <<tables, authorized, up, cur, outcome, stolen>>

----------------------------------------------------------------------------
(* runtime.apply, awaited by the drain *)

\* The drain resumes in its loop, or breaks out of it.
Resume(w, continued) ==
    /\ pc' = [pc EXCEPT ![w] = IF continued THEN "loop" ELSE "stopped"]
    /\ cur' = [cur EXCEPT ![w] = None]
    /\ UNCHANGED handled

\* Mutant: markApplied leaves the observation's insertion to someone else.
MarkAppliedOnly(e, o) ==
    /\ app' = [app EXCEPT ![e] = "applied"]
    /\ observed' = [observed EXCEPT ![e] = o]
    /\ outcome' = [outcome EXCEPT ![e] = "completed"]
    /\ UNCHANGED <<inbox, due>>

\* markApplied: the observation event and the applied mark commit together.
MarkApplied(e, o) ==
    /\ app' = [app EXCEPT ![e] = "applied"]
    /\ observed' = [observed EXCEPT ![e] = o]
    /\ outcome' = [outcome EXCEPT ![e] = "completed"]
    /\ IF o = None THEN UNCHANGED <<inbox, due>> ELSE InsertEvent(o, o \notin Delayed)

\* One transaction of the handler: part or all of the postcondition.
RunEffect(w) ==
    /\ ThreadFree /\ pc[w] = "applying"
    /\ Kind[cur[w]] # "effect_free" /\ cur[w] \notin Atomic
    /\ \E d \in {"part", "all"} :
         /\ effect[cur[w]] # "all" /\ effect[cur[w]] # d
         /\ effect' = [effect EXCEPT ![cur[w]] = d]
    /\ UNCHANGED <<inbox, due, app, tries, observed, authorized, up, drains,
                   outcome, stolen>>

\* A handler that calls markApplied inside its own transaction.  When the row
\* is no longer applying the transaction rolls back (see ApplyThrows).
RunEffectAtomically(w) ==
    /\ ThreadFree /\ pc[w] = "applying" /\ cur[w] \in Atomic
    /\ app[cur[w]] = "applying"
    /\ effect' = [effect EXCEPT ![cur[w]] = "all"]
    /\ \E o \in Emits[cur[w]] : MarkApplied(cur[w], o)
    /\ UNCHANGED <<tries, authorized, up, drains, stolen>>

\* apply returned observation o.  Already applied: nothing to mark.  Still
\* applying: mark it.  Re-opened meanwhile: markApplied throws, rolls the
\* observation back, markApplicationFailed matches no row, the drain breaks.
ApplyReturns(w, o) ==
    /\ ThreadFree /\ pc[w] = "applying"
    /\ o \in Emits[cur[w]]
    /\ Kind[cur[w]] = "effect_free" \/ effect[cur[w]] = "all"
    /\ IF app[cur[w]] = "applying"
         THEN MarkApplied(cur[w], o)
         ELSE UNCHANGED <<inbox, due, app, observed, outcome>>
    /\ Resume(w, app[cur[w]] \in {"applying", "applied"})
    /\ UNCHANGED <<tries, effect, authorized, up, stolen>>

\* A rejection or a settled failure: converge to applied without an observation
\* when the row is still applying, otherwise fall through to the failure path.
ApplySettles(w) ==
    /\ ThreadFree /\ pc[w] = "applying"
    /\ IF app[cur[w]] = "applying"
         THEN /\ app' = [app EXCEPT ![cur[w]] = "applied"]
              /\ outcome' = [outcome EXCEPT ![cur[w]] = "settled"]
         ELSE UNCHANGED <<app, outcome>>
    /\ Resume(w, app[cur[w]] = "applying")
    /\ UNCHANGED <<inbox, due, tries, observed, effect, authorized, up, stolen>>

\* Mutant: markApplicationFailed without its status = 'applying' condition.
ApplyThrowsAnyStatus(w) ==
    /\ ThreadFree /\ pc[w] = "applying"
    /\ app' = [app EXCEPT ![cur[w]] = "uncertain"]
    /\ Resume(w, FALSE)
    /\ UNCHANGED <<inbox, due, tries, observed, effect, authorized, up, outcome, stolen>>

\* Any other error: the outcome is unknown, the drain breaks.
ApplyThrows(w) ==
    /\ ThreadFree /\ pc[w] = "applying"
    /\ app' = IF app[cur[w]] = "applying"
                THEN [app EXCEPT ![cur[w]] = "uncertain"] ELSE app
    /\ Resume(w, FALSE)
    /\ UNCHANGED <<inbox, due, tries, observed, effect, authorized, up, outcome, stolen>>

\* KernelApplicationInterruptedError: nothing was committed, the row stays
\* applying for a later reconciliation.
ApplyInterrupted(w) ==
    /\ ThreadFree /\ pc[w] = "applying" /\ effect[cur[w]] = "none"
    /\ Resume(w, FALSE)
    /\ UNCHANGED <<tables, authorized, up, outcome, stolen>>

----------------------------------------------------------------------------
(* Recovery *)


\* The synchronous start of convergeRecovery, run at startup and by the
\* periodic timer: reconcileProcessing, then convergeUncertainApplications.
Converged(e) ==
    IF app[e] # "uncertain" THEN ReconciledApp[e]
    ELSE IF Verdict(e) = "applied" THEN "applied"
    ELSE IF Verdict(e) = "retry_safe" /\ tries[e] < MaxRetries THEN "pending"
    ELSE "uncertain"

ConvergeRecovery ==
    /\ ThreadFree
    /\ inbox' = ReconciledInbox
    /\ app' = [e \in Events |-> Converged(e)]
    /\ outcome' = [e \in Events |-> IF app[e] = "uncertain" /\ Converged(e) = "applied"
                                    THEN "inspected" ELSE outcome[e]]
    /\ stolen' = stolen \cup Reopened
    /\ UNCHANGED <<due, tries, observed, effect, authorized, up, drains>>

\* reconcileUncertainCancellations: already cancelled, or replay the
\* cancellation now; either way the row becomes applied.
ReconcileCancellation(e) ==
    /\ ThreadFree /\ app[e] = "uncertain" /\ Kind[e] = "cancellation"
    /\ effect' = [effect EXCEPT ![e] = "all"]
    /\ app' = [app EXCEPT ![e] = "applied"]
    /\ outcome' = [outcome EXCEPT ![e] = "inspected"]
    /\ UNCHANGED <<inbox, due, tries, observed, authorized, up, drains, stolen>>

\* recoverLocalServiceOperations: journalled service effects replay
\* deterministically, so an uncertain one is retried without a budget.
RetryService(e) ==
    /\ ThreadFree /\ app[e] = "uncertain" /\ Kind[e] = "service"
    /\ app' = [app EXCEPT ![e] = "pending"]
    /\ UNCHANGED <<inbox, due, tries, observed, effect, authorized, up, drains,
                   outcome, stolen>>

\* resolveRecoveryItem, on the user's explicit choice.
ResolveRecoveryItem(e, resolution) ==
    /\ ThreadFree /\ app[e] = "uncertain"
    /\ IF resolution = "assume_applied"
         THEN /\ app' = [app EXCEPT ![e] = "applied"]
              /\ outcome' = [outcome EXCEPT ![e] = "assumed"]
         ELSE /\ app' = [app EXCEPT ![e] = "pending"]
              /\ UNCHANGED outcome
    /\ UNCHANGED <<inbox, due, tries, observed, effect, authorized, up, drains, stolen>>

\* The process dies, and is started again; startup reconciles before any
\* drain runs.
Crash ==
    /\ up /\ up' = FALSE
    /\ pc' = [w \in Workflows |-> "idle"]
    /\ cur' = [w \in Workflows |-> None]
    /\ handled' = [w \in Workflows |-> 0]
    /\ UNCHANGED <<tables, authorized, outcome, stolen>>

Startup ==
    /\ ~up /\ up' = TRUE
    /\ inbox' = ReconciledInbox
    /\ app' = ReconciledApp
    /\ UNCHANGED <<due, tries, observed, effect, authorized, drains, outcome, stolen>>

----------------------------------------------------------------------------
(* Environment *)

\* The account signs in or out.
SetAuthorization ==
    /\ ThreadFree
    /\ authorized' = ~authorized
    /\ UNCHANGED <<tables, up, drains, outcome, stolen>>

\* Time reaches a delayed observation's available_at.
BecomeDue(e) ==
    /\ inbox[e] # "absent" /\ e \notin due
    /\ due' = due \cup {e}
    /\ UNCHANGED <<inbox, app, tries, observed, effect, authorized, up, drains,
                   outcome, stolen>>

DrainStep(w) ==
    \/ \E e \in Events : StartApply(w, e) \/ ClaimNext(w, e)
    \/ Issue(w) \/ DecideThrows(w) \/ EndDrain(w) \/ ClearDraining(w)

ApplyStep(w) ==
    \/ RunEffect(w) \/ RunEffectAtomically(w)
    \/ \E o \in Events \cup {None} : ApplyReturns(w, o)
    \/ ApplySettles(w) \/ ApplyThrows(w) \/ ApplyInterrupted(w)

Next ==
    \/ \E w \in Workflows, e \in Events : Submit(w, e)
    \/ \E w \in Workflows : Recover(w) \/ DrainStep(w) \/ ApplyStep(w)
    \/ ConvergeRecovery \/ Crash \/ Startup \/ SetAuthorization
    \/ \E e \in Events : \/ ReconcileCancellation(e) \/ RetryService(e)
                         \/ ResolveRecoveryItem(e, "assume_applied")
                         \/ ResolveRecoveryItem(e, "retry")
                         \/ BecomeDue(e)

Spec == Init /\ [][Next]_vars

\* A drain that holds the thread runs on, an awaited `finally` callback runs, a
\* stopped server is started again, and the recovery timer is served whenever
\* the event loop keeps coming back to it.  Nothing is assumed of the runtime's
\* apply, of callers, or of later calls of recover.
Fairness ==
    /\ \A w \in Workflows : WF_vars(DrainStep(w))
    /\ WF_vars(Startup)
    /\ SF_vars(ConvergeRecovery)

FairSpec == Spec /\ Fairness

----------------------------------------------------------------------------
(* Properties *)

\* The tables and the drains hold only values the code writes to them.
TypeOK ==
    /\ inbox \in [Events -> EventStatus]
    /\ due \subseteq Events
    /\ app \in [Events -> AppStatus]
    /\ tries \in [Events -> 0..MaxRetries]
    /\ observed \in [Events -> Events \cup {None}]
    /\ effect \in [Events -> {"none", "part", "all"}]
    /\ authorized \in BOOLEAN /\ up \in BOOLEAN
    /\ pc \in [Workflows -> DrainStates]
    /\ cur \in [Workflows -> Events \cup {None}]
    /\ handled \in [Workflows -> 0..MaxDecisions]
    /\ outcome \in [Events -> Outcomes]
    /\ stolen \subseteq Events

\* An event the Kernel drains is processed exactly when its decision is in the ledger
\* (permission events, which their service marks itself, are not modelled): whatever
\* crash, throw or recovery pass interferes, no event is dropped undecided and
\* none is decided and then offered to the Kernel again.
DecidedOnce ==
    \A e \in Events : (inbox[e] = "processed") <=> (app[e] # "none")

\* An application is applied only with its postcondition durable, unless its
\* action has none, its handler settled it, or the user vouched for it: retries,
\* stolen rows and convergence never turn a half-done apply into applied.
AppliedHasEffect ==
    \A e \in Events : app[e] = "applied" =>
        \/ effect[e] = "all"
        \/ Kind[e] = "effect_free"
        \/ outcome[e] \in {"settled", "assumed"}

\* An application completed by its handler has its observation in the inbox,
\* and an observation is recorded only for a completed one: no crash or re-opened
\* row separates the two (markApplied's transaction).
ObservationCommitted ==
    \A e \in Events :
        /\ outcome[e] = "completed" =>
             /\ app[e] = "applied" /\ observed[e] \in Emits[e]
             /\ observed[e] # None => inbox[observed[e]] # "absent"
        /\ observed[e] # None => outcome[e] = "completed"

\* At most one drain applies a decision at a time, unless a recovery pass
\* re-opened the row under a live apply.
SingleApplier ==
    \A v, w \in Workflows :
        v # w /\ pc[v] = "applying" /\ pc[w] = "applying" /\ cur[v] = cur[w]
          => cur[v] \in stolen

\* An applied application is final: no late handler, recovery pass or restart
\* takes it back or rewrites its observation.
FinalStep ==
    \A e \in Events : app[e] = "applied" =>
        app'[e] = "applied" /\ observed'[e] = observed[e]
AppliedIsFinal == [][FinalStep]_vars

\* An event left in processing by a crash or a throwing Kernel, and an
\* application left in applying by a crash or an interrupted apply, is picked up
\* by some reconciliation: neither status lasts forever.
NoRowStaysInFlight ==
    \A e \in Events :
        /\ (inbox[e] = "processing") ~> (inbox[e] # "processing")
        /\ (app[e] = "applying") ~> (app[e] # "applying")


\* What tests/kernel/kernel-workflow.test.ts says: a workflow does not steal an
\* application another one is currently applying, so a live apply keeps its row.
LiveApplyKeepsRow ==
    \A w \in Workflows :
        pc[w] = "applying" => app[cur[w]] \in {"applying", "applied"}

\* What the comment on EFFECT_FREE_ACTIONS says: the observation event of an
\* effect-free action is inserted atomically with the applied transition.
AppliedProbeIsObserved ==
    \A e \in Events :
        Kind[e] = "effect_free" /\ app[e] = "applied"
          /\ outcome[e] \notin {"settled", "assumed"}
          => observed[e] \in Emits[e]

\* What ADR-0023 says of submit ("durably enqueues before synchronously
\* draining"): a drain that ended with nothing left to do leaves no due event of
\* its workflow behind when its `draining` promise is dropped.
DrainedMeansEmpty ==
    \A w \in Workflows : pc[w] = "drained" => Claimable(w) = {}
=============================================================================
