---------------------- MODULE ConversationTaskScheduler ----------------------
(***************************************************************************)
(* The Conversation task scheduler: one slot per Conversation, one schedule *)
(* entry per Task (src/storage/conversation-task-scheduler-repo.ts), the    *)
(* admission that claims a slot, the executions that hold it, and everyone  *)
(* who gives it back: the terminal callback, the pause callback, the        *)
(* cancellation coordinator and the periodic convergence sweep of           *)
(* src/account/account-startup-recovery-service.ts.                         *)
(*                                                                          *)
(* A step is what one turn of the event loop does between two awaits.  The  *)
(* order of queued Tasks is their priority, then any order: aging, fairness *)
(* sequence and age only break ties.                                        *)
(***************************************************************************)
EXTENDS Naturals, FiniteSets

CONSTANTS
    Tasks, Conversations, Workspaces, None,
    ConvOf,          \* the Conversation that owns each Task
    WsOf,            \* the Workspace of each Conversation; the code reads it off the
                     \* Task, whose workspace_id is that of its Conversation
    Priority,        \* priority rank of each Task
    Remaining,       \* Tasks created by an explicit remaining-work retry
    WorkspaceLimit,  \* maxConcurrentConversationsPerWorkspace
    AccountLimit,    \* runtimePolicy.maxConcurrentTasks
    QueueLimit,      \* sameConversationQueueLimit
    MaxAgain,        \* bound: resumes, accepted results and yields together
    MaxFailures,     \* bound: promoted executions that reject
    MaxCrashes       \* bound: process restarts

ASSUME SchedulerAssumption ==
    /\ None \notin Tasks
    /\ IsFiniteSet(Conversations)
    /\ ConvOf \in [Tasks -> Conversations]
    /\ WsOf \in [Conversations -> Workspaces]
    /\ Priority \in [Tasks -> Nat]
    /\ Remaining \subseteq Tasks
    /\ WorkspaceLimit \in Nat /\ AccountLimit \in Nat /\ QueueLimit \in Nat
    /\ MaxAgain \in Nat /\ MaxFailures \in Nat /\ MaxCrashes \in Nat

VARIABLES
    status,   \* tasks.status; "done" stands for succeeded and failed
    entry,    \* task_schedule_entries.state, "none" when there is no row
    slot,     \* conversation_task_slots: state and active_task_id
    residue,  \* Tasks for which the residue reader reports a category
    exec,     \* Tasks whose execute() is on the event loop
    flight,   \* promotionInFlight: the Task whose promise a Conversation holds
    awaits,   \* per Task: in-flight promises its terminal callback awaits
    tails,    \* terminal callbacks that await a promotion to go on
    plan,     \* the Kernel's undelivered admission decision for a Task
    sweep,    \* the periodic convergence pass
    budget,   \* how much of the three bounds is used
    resumed   \* history: Tasks resumed by the user

rows == <<status, entry, slot, residue>>
process == <<exec, flight, awaits, tails>>
vars == <<status, entry, slot, residue, exec, flight, awaits, tails, plan, sweep, budget, resumed>>

TaskStatus == {"absent", "queued", "running", "needs_action", "done", "cancelled"}
EntryState == {"none", "queued", "reserved", "running", "terminal"}
SlotState == {"free", "occupied", "releasing", "recovery_blocked"}
Plans == {"none", "eligible", "conversation_slot_occupied", "account_task_capacity", "rejected"}

Free == [state |-> "free", active |-> None]
Terminal(t) == status[t] \in {"done", "cancelled"}
Idle == [phase |-> "idle", left |-> {}, seen |-> [c \in Conversations |-> None],
         fresh |-> {}, awaits |-> {}]

Init ==
    /\ status = [t \in Tasks |-> "absent"]
    /\ entry = [t \in Tasks |-> "none"]
    /\ slot = [c \in Conversations |-> Free]
    /\ residue = {} /\ exec = {}
    /\ flight = [c \in Conversations |-> None]
    /\ awaits = [t \in Tasks |-> {}]
    /\ tails = {}
    /\ plan = [t \in Tasks |-> "none"]
    /\ sweep = Idle
    /\ budget = [again |-> 0, failures |-> 0, crashes |-> 0]
    /\ resumed = {}

----------------------------------------------------------------------------
(* Candidates and promotion.  en, sl and st are the entries, slots and       *)
(* statuses as the transaction reads them.                                   *)

Candidates(en, sl, st, c) ==
    {t \in Tasks : /\ ConvOf[t] = c /\ sl[c] = Free
                   /\ en[t] = "queued" /\ st[t] \in {"queued", "running"}}

\* promoteQueuedInTransaction: the sets of Tasks it may promote, at most one.
\* It does not look at the Workspace.
NextQueued(en, sl, st, c) ==
    LET C == Candidates(en, sl, st, c)
    IN  IF C = {} THEN {{}}
        ELSE {{t} : t \in {u \in C : \A v \in C : Priority[v] <= Priority[u]}}

\* occupiedSlotCountsByWorkspace.
Occupied(sl, w) == Cardinality({c \in Conversations : WsOf[c] = w /\ sl[c].active # None})

AllCandidates(en, sl, st) == UNION {Candidates(en, sl, st, c) : c \in Conversations}

\* The orders in which compareCandidates may put the Tasks of S.
Orders(S) ==
    {f \in [S -> 1..Cardinality(S)] :
        \A t, u \in S : t # u => f[t] # f[u] /\ (Priority[t] > Priority[u] => f[t] < f[u])}

\* Mutant: the loop forgets to count the slots it has just handed out.
AvailableUncounted(en, sl, st, ord) ==
    LET All == AllCandidates(en, sl, st)
        Leaders == {t \in All : \A u \in All : ConvOf[u] = ConvOf[t] => ord[t] <= ord[u]}
        Ws(t) == WsOf[ConvOf[t]]
        Fits(t) == Occupied(sl, Ws(t)) < WorkspaceLimit
    IN  {t \in Leaders : \A u \in Leaders : ord[u] <= ord[t] => Fits(u)}

\* promoteAvailable: in order, the best candidate of each free Conversation,
\* until the first whose Workspace is full; that one ends the loop.
Available(en, sl, st, ord) ==
    LET All == AllCandidates(en, sl, st)
        Leaders == {t \in All : \A u \in All : ConvOf[u] = ConvOf[t] => ord[t] <= ord[u]}
        Ws(t) == WsOf[ConvOf[t]]
        Fits(t) == Occupied(sl, Ws(t))
                     + Cardinality({u \in Leaders : Ws(u) = Ws(t) /\ ord[u] < ord[t]})
                   < WorkspaceLimit
    IN  {t \in Leaders : \A u \in Leaders : ord[u] <= ord[t] => Fits(u)}

\* What it may promote, whichever way compareCandidates breaks ties.
Promotions(en, sl, st) ==
    {Available(en, sl, st, ord) : ord \in Orders(AllCandidates(en, sl, st))}

\* A sweep in progress compares slot versions: a Conversation whose slot was
\* claimed or released since the list was read is no longer fresh.  (The version
\* counts claims and releases; a step of another actor that releases a slot never
\* hands it to the same Task again.)
Observed(s) ==
    [s EXCEPT !.fresh = {c \in @ : slot'[c].active = slot[c].active}]

\* The promoted Tasks P get their slots and entries; those in S are started in
\* the same turn, and markRunning follows.
Reserve(en, sl, P, S) ==
    /\ slot' = [c \in Conversations |->
                  IF \E t \in P : ConvOf[t] = c
                  THEN [state |-> "occupied", active |-> CHOOSE t \in P : ConvOf[t] = c]
                  ELSE sl[c]]
    /\ entry' = [t \in Tasks |-> IF t \in S THEN "running"
                                 ELSE IF t \in P THEN "reserved" ELSE en[t]]

\* promoteConversationTask starts a Task unless its Conversation already has a
\* promise in flight, whichever Task that promise is for.
Startable(P) == {t \in P : flight[ConvOf[t]] = None}

Start(S) ==
    /\ exec' = exec \cup S
    /\ flight' = [c \in Conversations |->
                    IF \E t \in S : ConvOf[t] = c THEN CHOOSE t \in S : ConvOf[t] = c
                    ELSE flight[c]]

PromoteAndStart(en, sl, P) == Reserve(en, sl, P, Startable(P)) /\ Start(Startable(P))

Closed(en, t) == [en EXCEPT ![t] = IF @ = "none" THEN @ ELSE "terminal"]

\* Mutant: a slot already marked releasing is passed over.
ReleasableOccupied(t) == slot[ConvOf[t]] = [state |-> "occupied", active |-> t]

\* releaseSlotAndPromote's guard on the release.
Releasable(t) ==
    slot[ConvOf[t]].active = t /\ slot[ConvOf[t]].state \in {"occupied", "releasing"}

Released(t) == IF Releasable(t) THEN [slot EXCEPT ![ConvOf[t]] = Free] ELSE slot

\* releaseSlotAndPromote with residue: whatever its state, a slot the Task
\* holds becomes releasing.
MarkReleasing(t) ==
    slot' = IF slot[ConvOf[t]].active = t
              THEN [slot EXCEPT ![ConvOf[t]].state = "releasing"] ELSE slot

\* Whom releaseSlotAndPromote, finding no residue, may promote; st are the
\* statuses it reads.
Successors(t, en, st, allowed) ==
    IF Releasable(t) /\ allowed THEN NextQueued(en, Released(t), st, ConvOf[t]) ELSE {{}}

\* promoteAvailableQueuedTasks on behalf of the caller by, which awaits all of it.
PromoteAvailable(sl, st, by) ==
    \E P \in Promotions(entry, sl, st) :
        /\ PromoteAndStart(entry, sl, P)
        /\ awaits' = IF by = None THEN awaits
                     ELSE [awaits EXCEPT ![by] = @ \cup {ConvOf[u] : u \in P}]

\* onTaskTerminal for a Task with no residue: while the Workspace has room its
\* slot goes to the next Task of the Conversation; whatever promise is then in
\* flight there is awaited before the rest, promoteAvailableQueuedTasks.
OnTaskTerminal(t, st, by) ==
    LET c == ConvOf[t]
        allowed == Occupied(slot, WsOf[c]) <= WorkspaceLimit /\ WorkspaceLimit > 0
    IN  \E P \in Successors(t, entry, st, allowed) :
            IF P = {} THEN PromoteAvailable(Released(t), st, by) /\ UNCHANGED tails
            ELSE /\ PromoteAndStart(entry, Released(t), P)
                 /\ tails' = tails \cup {[of |-> flight'[c], by |-> by]}
                 /\ UNCHANGED awaits

\* An execution's promise settles: a Conversation whose in-flight promise it
\* was has none, and nobody awaits it any more.
Settled(t) ==
    LET c == ConvOf[t] IN
    /\ exec' = exec \ {t}
    /\ IF flight[c] = t
         THEN /\ flight' = [flight EXCEPT ![c] = None]
              /\ awaits' = [u \in Tasks |-> awaits[u] \ {c}]
              /\ sweep' = [Observed(sweep) EXCEPT !.awaits = @ \ {c}]
         ELSE /\ sweep' = Observed(sweep)
              /\ UNCHANGED <<flight, awaits>>

Spend(what) == budget' = [budget EXCEPT ![what] = @ + 1]

----------------------------------------------------------------------------
(* Admission *)

\* decidePlanAdmission for a new Task.
Decide(t) ==
    LET c == ConvOf[t]
        reason == IF slot[c].active # None THEN "conversation_slot_occupied"
                  ELSE IF Cardinality({d \in Conversations :
                            slot[d].state \in {"occupied", "releasing"}}) >= AccountLimit
                  THEN "account_task_capacity" ELSE "eligible"
        full == Cardinality({u \in Tasks : ConvOf[u] = c /\ entry[u] = "queued"}) >= QueueLimit
    IN
    /\ status[t] = "absent" /\ plan[t] = "none" /\ t \notin Remaining
    /\ plan' = [plan EXCEPT ![t] = IF reason # "eligible" /\ full THEN "rejected" ELSE reason]
    /\ UNCHANGED <<rows, process, sweep, budget, resumed>>

\* applyTaskPlan: create the Task, enqueue it, claim the slot if the decision
\* said eligible and the slot is still free.
Admit(t) ==
    LET c == ConvOf[t] IN
    /\ plan[t] \in Plans \ {"none", "rejected"}
    /\ plan' = [plan EXCEPT ![t] = "none"]
    /\ status' = [status EXCEPT ![t] = "queued"]
    /\ IF plan[t] = "eligible" /\ slot[c] = Free
         THEN /\ slot' = [slot EXCEPT ![c] = [state |-> "occupied", active |-> t]]
              /\ entry' = [entry EXCEPT ![t] = "running"]
              /\ exec' = exec \cup {t}
         ELSE /\ entry' = [entry EXCEPT ![t] = "queued"]
              /\ UNCHANGED <<slot, exec>>
    /\ sweep' = Observed(sweep)
    /\ UNCHANGED <<residue, flight, awaits, tails, budget, resumed>>

\* retryRemainingWork: a new Task for the same Conversation, enqueued in the
\* transaction that creates it; OnTaskTerminal of its source follows.
RetryRemaining(t) ==
    /\ t \in Remaining /\ status[t] = "absent"
    /\ \E u \in Tasks : ConvOf[u] = ConvOf[t] /\ status[u] = "done" /\ u \notin residue
    /\ status' = [status EXCEPT ![t] = "queued"]
    /\ entry' = [entry EXCEPT ![t] = "queued"]
    /\ UNCHANGED <<slot, residue, process, plan, sweep, budget, resumed>>

----------------------------------------------------------------------------
(* Executions *)

\* The pause callback (onWaitingForUser), in the turn that committed
\* needs_action; res is the residue it reads.
OnWaitingForUser(t, res) ==
    IF slot[ConvOf[t]].active # t
      THEN /\ entry' = Closed(entry, t)
           /\ UNCHANGED <<slot, exec, flight>>
    ELSE IF t \in res
      THEN MarkReleasing(t) /\ UNCHANGED <<entry, exec, flight>>
    ELSE \E P \in Successors(t, Closed(entry, t), status', TRUE) :
           PromoteAndStart(Closed(entry, t), Released(t), P)

\* Mutant: a dispatch does not look at the Conversation's slot.
DispatchAlways(t) ==
    /\ t \in exec \ Remaining /\ status[t] = "queued"
    /\ status' = [status EXCEPT ![t] = "running"]
    /\ residue' = residue \cup {t}
    /\ UNCHANGED <<entry, slot, exec, flight, awaits, tails, plan, sweep, budget, resumed>>

\* The Kernel's dispatch decision: block_work when another Task holds the slot,
\* otherwise the Task runs, whether or not it holds the slot itself.
Dispatch(t) ==
    /\ t \in exec \ Remaining /\ status[t] = "queued"
    /\ IF slot[ConvOf[t]].active \in {None, t}
         THEN /\ status' = [status EXCEPT ![t] = "running"]
              /\ residue' = residue \cup {t}
              /\ UNCHANGED <<entry, slot, exec, flight>>
         ELSE /\ status' = [status EXCEPT ![t] = "needs_action"]
              /\ OnWaitingForUser(t, residue)
              /\ UNCHANGED residue
    /\ sweep' = Observed(sweep)
    /\ UNCHANGED <<awaits, tails, plan, budget, resumed>>

\* The Task stops for the user, inside a Kernel application (which is residue
\* itself) or on an observation.
Pause(t) ==
    /\ t \in exec /\ status[t] = "running"
    /\ \E applying \in BOOLEAN :
         /\ residue' = IF applying THEN residue \cup {t} ELSE residue
         /\ status' = [status EXCEPT ![t] = "needs_action"]
         /\ OnWaitingForUser(t, residue')
    /\ sweep' = Observed(sweep)
    /\ UNCHANGED <<awaits, tails, plan, budget, resumed>>

\* A capacity or partition yield: running goes back to queued, the execution
\* drains and ends, the entry and the slot stay as they are.
Yield(t) ==
    /\ t \in exec \ Remaining /\ status[t] = "running" /\ budget.again < MaxAgain
    /\ status' = [status EXCEPT ![t] = "queued"]
    /\ Spend("again")
    /\ UNCHANGED <<entry, slot, residue, tails, plan, resumed>>
    /\ Settled(t)

\* completeTask ends with onTaskTerminal while its own complete_task
\* application is still applying: the slot is only marked releasing.
Complete(t) ==
    /\ t \in exec \ Remaining /\ status[t] = "running" /\ t \notin residue
    /\ status' = [status EXCEPT ![t] = "done"]
    /\ residue' = residue \cup {t}
    /\ MarkReleasing(t)
    /\ sweep' = Observed(sweep)
    /\ UNCHANGED <<entry, process, plan, budget, resumed>>

\* resumeRemainingWork starts on a reservation it holds, and finishes by
\* calling onTaskTerminal inside its own promise.
StartRemaining(t) ==
    /\ t \in exec \cap Remaining /\ status[t] = "queued"
    /\ slot[ConvOf[t]] = [state |-> "occupied", active |-> t]
    /\ status' = [status EXCEPT ![t] = "running"]
    /\ entry' = [entry EXCEPT ![t] = IF @ \in {"queued", "reserved"} THEN "running" ELSE @]
    /\ UNCHANGED <<slot, residue, process, plan, sweep, budget, resumed>>

FinishRemaining(t) ==
    /\ t \in exec \cap Remaining /\ status[t] = "running" /\ t \notin residue
    /\ slot[ConvOf[t]] = [state |-> "occupied", active |-> t]
    /\ status' = [status EXCEPT ![t] = "done"]
    /\ OnTaskTerminal(t, status', t)
    /\ sweep' = Observed(sweep)
    /\ UNCHANGED <<residue, plan, budget, resumed>>

\* An attempt, publication, delivery or application of the Task settles.
ResidueClears(t) ==
    /\ t \in residue
    /\ residue' = residue \ {t}
    /\ UNCHANGED <<status, entry, slot, process, plan, sweep, budget, resumed>>

\* Mutant: the coordinator releases without asking the residue reader.
ReleaseAdmissionEarly(t) ==
    IF status[t] \in {"needs_action", "done", "cancelled"}
      THEN \E P \in Successors(t, Closed(entry, t), status, TRUE) :
             Reserve(Closed(entry, t), Released(t), P, {})
    ELSE UNCHANGED <<slot, entry>>

\* releaseAdmission: close the entry, release the slot, promote the successor
\* and leave its launch to others.
ReleaseAdmission(t) ==
    IF status[t] \in {"needs_action", "done", "cancelled"} /\ t \notin residue
      THEN \E P \in Successors(t, Closed(entry, t), status, TRUE) :
             Reserve(Closed(entry, t), Released(t), P, {})
    ELSE UNCHANGED <<slot, entry>>

\* The end of execute(), which submitted its dispatch event first: the
\* coordinator's recover, then the promise settles.  A remaining-work execution
\* ends without it, once what it awaits is settled.
Settle(t) ==
    /\ t \in exec \ Remaining /\ status[t] # "queued"
    /\ ReleaseAdmission(t)
    /\ Settled(t)
    /\ UNCHANGED <<status, residue, tails, plan, budget, resumed>>

SettleRemaining(t) ==
    /\ t \in exec \cap Remaining /\ awaits[t] = {} /\ \A k \in tails : k.by # t
    /\ status[t] \in {"queued", "running"}
         => slot[ConvOf[t]] # [state |-> "occupied", active |-> t]
    /\ UNCHANGED <<rows, tails, plan, budget, resumed>>
    /\ Settled(t)

\* startPromotedTask or the execution behind it rejects.
PromotedFails(t) ==
    LET c == ConvOf[t] IN
    /\ t \in exec /\ flight[c] = t /\ awaits[t] = {} /\ (\A k \in tails : k.by # t) /\ budget.failures < MaxFailures
    /\ slot' = IF slot[c].active = t THEN [slot EXCEPT ![c].state = "recovery_blocked"] ELSE slot
    /\ Settled(t)
    /\ Spend("failures")
    /\ UNCHANGED <<status, entry, residue, tails, plan, resumed>>

\* A running Task without an execution is driven again: a retry wake, or
\* startup recovery.
RecoverTask(t) ==
    /\ status[t] = "running" /\ t \notin exec
    /\ exec' = exec \cup {t}
    /\ UNCHANGED <<rows, flight, awaits, tails, plan, sweep, budget, resumed>>

----------------------------------------------------------------------------
(* The user *)

\* Resume of a Task that waits for the user: the Kernel refuses it only when
\* another Task holds the slot; nothing claims the slot or touches the entry.
Resume(t) ==
    /\ status[t] = "needs_action" /\ t \notin exec /\ budget.again < MaxAgain
    /\ slot[ConvOf[t]].active \in {None, t}
    /\ status' = [status EXCEPT ![t] = "queued"]
    /\ exec' = exec \cup {t}
    /\ resumed' = resumed \cup {t}
    /\ Spend("again")
    /\ UNCHANGED <<entry, slot, residue, flight, awaits, tails, plan, sweep>>

\* An accepted result: queued again, and enqueued in the same transaction.
AcceptResult(t) ==
    /\ status[t] = "needs_action" /\ t \notin exec /\ budget.again < MaxAgain
    /\ status' = [status EXCEPT ![t] = "queued"]
    /\ entry' = [entry EXCEPT ![t] = "queued"]
    /\ Spend("again")
    /\ UNCHANGED <<slot, residue, process, plan, sweep, resumed>>

\* onTaskQueued, from the continuation drain that found the slot free.
OnTaskQueued(t) ==
    /\ status[t] = "queued" /\ entry[t] = "queued" /\ slot[ConvOf[t]] = Free
    /\ \E P \in Promotions(entry, slot, status) : PromoteAndStart(entry, slot, P)
    /\ sweep' = Observed(sweep)
    /\ UNCHANGED <<status, residue, awaits, tails, plan, budget, resumed>>

\* The cancellation fence; what runs is still residue.
Cancel(t) ==
    /\ status[t] \in {"queued", "running", "needs_action"}
    /\ status' = [status EXCEPT ![t] = "cancelled"]
    /\ UNCHANGED <<entry, slot, residue, process, plan, sweep, budget, resumed>>

\* drainCancellation: the coordinator's recover.
DrainCancellation(t) ==
    /\ status[t] = "cancelled"
    /\ ReleaseAdmission(t)
    /\ sweep' = Observed(sweep)
    /\ UNCHANGED <<status, residue, process, plan, budget, resumed>>

\* The rest of onTaskTerminal, once the promise it awaited has settled.
FinishTerminal(k) ==
    /\ k \in tails /\ flight[ConvOf[k.of]] # k.of
    /\ PromoteAvailable(slot, status, k.by)
    /\ tails' = tails \ {k}
    /\ sweep' = Observed(sweep)
    /\ UNCHANGED <<status, residue, plan, budget, resumed>>

\* onTaskTerminal as /task clear, the cancellation drain, the pre-admission
\* reconciliation and the remaining-work retry call it.
NotifyTerminal(t) ==
    /\ Terminal(t)
    /\ IF t \in residue
         THEN MarkReleasing(t) /\ UNCHANGED <<entry, process>>
         ELSE OnTaskTerminal(t, status, None)
    /\ sweep' = Observed(sweep)
    /\ UNCHANGED <<status, residue, plan, budget, resumed>>

----------------------------------------------------------------------------
(* The periodic convergence sweep, and the process *)

\* Mutant: entries of Tasks that went back to queued are not reopened.
SweepStartStale ==
    LET held == {c \in Conversations : slot[c].active # None} IN
    /\ sweep.phase = "idle"
    /\ sweep' = [Idle EXCEPT !.phase = "slots", !.left = held, !.fresh = held,
                             !.seen = [c \in Conversations |-> slot[c].active]]
    /\ UNCHANGED <<rows, process, plan, budget, resumed>>

\* requeueQueuedTaskEntries, then the list of slots to converge.
SweepStart ==
    LET held == {c \in Conversations : slot[c].active # None} IN
    /\ sweep.phase = "idle"
    /\ entry' = [t \in Tasks |-> IF status[t] = "queued" /\ entry[t] \in {"running", "reserved"}
                                 THEN "queued" ELSE entry[t]]
    /\ sweep' = [Idle EXCEPT !.phase = "slots", !.left = held, !.fresh = held,
                             !.seen = [c \in Conversations |-> slot[c].active]]
    /\ UNCHANGED <<status, slot, residue, process, plan, budget, resumed>>

Visited(c) ==
    [sweep EXCEPT !.left = @ \ {c}, !.fresh = @ \ {c}, !.seen[c] = None]

\* One slot of convergeConversationSlots.  The release is fenced by the listed
\* reservation and version; the residue branch is not.
SweepVisit(c) ==
    LET t == sweep.seen[c] IN
    /\ sweep.phase = "slots" /\ sweep.awaits = {} /\ c \in sweep.left
    /\ IF status[t] = "running"
         THEN sweep' = Visited(c) /\ UNCHANGED <<entry, slot, exec, flight>>
       ELSE IF t \in residue
         THEN /\ MarkReleasing(t) /\ sweep' = Visited(c)
              /\ UNCHANGED <<entry, exec, flight>>
       ELSE IF c \in sweep.fresh
         THEN \E P \in Successors(t, entry, status, TRUE) :
                /\ PromoteAndStart(entry, Released(t), P)
                /\ sweep' = [Visited(c) EXCEPT !.awaits = {ConvOf[u] : u \in P}]
       ELSE sweep' = Visited(c) /\ UNCHANGED <<entry, slot, exec, flight>>
    /\ UNCHANGED <<status, residue, awaits, tails, plan, budget, resumed>>

\* promoteAvailableQueuedTasks: promote what fits and await all of it.
SweepPromote ==
    /\ sweep.phase = "slots" /\ sweep.awaits = {} /\ sweep.left = {}
    /\ \E P \in Promotions(entry, slot, status) :
         /\ PromoteAndStart(entry, slot, P)
         /\ sweep' = [sweep EXCEPT !.phase = "promoted", !.awaits = {ConvOf[u] : u \in P}]
    /\ UNCHANGED <<status, residue, awaits, tails, plan, budget, resumed>>

SweepEnd ==
    /\ sweep.phase = "promoted" /\ sweep.awaits = {}
    /\ sweep' = Idle
    /\ UNCHANGED <<rows, process, plan, budget, resumed>>

\* The process dies and starts again with nothing but the rows.
Restart ==
    /\ budget.crashes < MaxCrashes
    /\ exec' = {}
    /\ flight' = [c \in Conversations |-> None]
    /\ awaits' = [t \in Tasks |-> {}]
    /\ tails' = {}
    /\ sweep' = Idle
    /\ Spend("crashes")
    /\ UNCHANGED <<rows, plan, resumed>>

ExecStep(t) ==
    \/ Dispatch(t) \/ Complete(t) \/ StartRemaining(t) \/ FinishRemaining(t)
    \/ Settle(t) \/ SettleRemaining(t)

SweepStep ==
    SweepStart \/ SweepPromote \/ SweepEnd \/ \E c \in Conversations : SweepVisit(c)

Next ==
    \/ \E t \in Tasks :
         \/ Decide(t) \/ Admit(t) \/ RetryRemaining(t)
         \/ ExecStep(t) \/ Pause(t) \/ Yield(t) \/ ResidueClears(t)
         \/ PromotedFails(t) \/ RecoverTask(t)
         \/ Resume(t) \/ AcceptResult(t) \/ OnTaskQueued(t)
         \/ Cancel(t) \/ DrainCancellation(t) \/ NotifyTerminal(t)
    \/ \E k \in tails : FinishTerminal(k)
    \/ SweepStep \/ Restart

Spec == Init /\ [][Next]_vars

\* An execution on the event loop decides its dispatch, and ends; a Task that is
\* driven again and again completes or asks the user, for its retries are bounded;
\* what it left behind is cleaned up, a running Task without an execution is
\* recovered, a callback that awaits goes on, and the recovery timer runs.
\* Nothing is assumed of users, nor that a callback is called.
Fairness ==
    /\ \A t \in Tasks :
         /\ WF_vars(ResidueClears(t)) /\ WF_vars(RecoverTask(t))
         /\ WF_vars(Dispatch(t)) /\ WF_vars(StartRemaining(t)) /\ WF_vars(FinishRemaining(t))
         /\ SF_vars(Complete(t) \/ Pause(t))
         /\ WF_vars(Settle(t) \/ SettleRemaining(t))
    /\ WF_vars(\E k \in tails : FinishTerminal(k))
    /\ WF_vars(SweepStep)

FairSpec == Spec /\ Fairness

----------------------------------------------------------------------------
(* Properties *)

\* Rows and process state hold only what the code writes, and a slot is free
\* exactly when it has no active Task, one of its own Conversation.
TypeOK ==
    /\ status \in [Tasks -> TaskStatus]
    /\ entry \in [Tasks -> EntryState]
    /\ slot \in [Conversations -> [state : SlotState, active : Tasks \cup {None}]]
    /\ \A c \in Conversations :
         /\ slot[c].state = "free" <=> slot[c].active = None
         /\ slot[c].active # None => ConvOf[slot[c].active] = c
    /\ residue \subseteq Tasks /\ exec \subseteq Tasks
    /\ flight \in [Conversations -> Tasks \cup {None}]
    /\ awaits \in [Tasks -> SUBSET Conversations]
    /\ tails \subseteq [of : Tasks, by : Tasks \cup {None}]
    /\ plan \in [Tasks -> Plans]
    /\ sweep \in [phase : {"idle", "slots", "promoted"}, left : SUBSET Conversations,
                  seen : [Conversations -> Tasks \cup {None}],
                  fresh : SUBSET Conversations, awaits : SUBSET Conversations]
    /\ budget \in [again : 0..MaxAgain, failures : 0..MaxFailures, crashes : 0..MaxCrashes]
    /\ resumed \subseteq Tasks

\* A slot is taken from a Task only when that Task is not running and has no
\* residue: no callback, drain or stale sweep starts a successor beside work that
\* is still going on or still being cleaned up.
SlotStep ==
    \A c \in Conversations :
        LET t == slot[c].active IN
        t # None /\ slot'[c].active # t => status'[t] # "running" /\ t \notin residue
SlotNotTaken == [][SlotStep]_vars

\* The Workspace has a place for each of its Conversations.
Roomy(c) == Cardinality({d \in Conversations : WsOf[d] = WsOf[c]}) <= WorkspaceLimit

\* Where the Workspace has a place for every Conversation, at most one Task of a
\* Conversation runs at a time, whatever the sweep or the callbacks do to slots of
\* Tasks that are launched but not dispatched yet; a resumed Task, which takes no
\* slot, is the exception.
OneRunningUnlessResumed ==
    \A t, u \in Tasks \ resumed :
        t # u /\ ConvOf[t] = ConvOf[u] /\ Roomy(ConvOf[t]) /\ status[t] = "running"
          => status[u] # "running"

\* Only a first admission, which looks at no Workspace, can push a Workspace
\* over its limit: promoteAvailable and the terminal callback never do.
BudgetStep ==
    \A w \in Workspaces :
        Occupied(slot', w) > Occupied(slot, w) /\ Occupied(slot', w) > WorkspaceLimit
          => \E t \in Tasks : plan[t] = "eligible" /\ plan'[t] = "none"
WorkspaceBudget == [][BudgetStep]_vars

\* A promoted execution rejected and left the Conversation's slot recovery_blocked, which
\* no release gives back (releaseSlotAndPromote); or a remaining-work Task awaits the
\* promise it runs in, and with it the sweep that started it awaits for ever.
Blocked(c) == slot[c].state = "recovery_blocked"
AwaitsItself(t) ==
    /\ t \in exec /\ flight[ConvOf[t]] = t
    /\ ConvOf[t] \in awaits[t] \/ [of |-> t, by |-> t] \in tails
Halted(c) == Blocked(c) \/ \E t \in Remaining : AwaitsItself(t)

\* A queued Task with an open schedule entry does not stay so, however its
\* Conversation's slot is stolen or left behind and whenever the process restarts: a
\* sweep promotes it, starts it, and it is dispatched or refused.  The exceptions are
\* the two halts above, and only if they last.
QueuedIsServed ==
    \A t \in Tasks :
        \/ <>[]Halted(ConvOf[t])
        \/ (status[t] = "queued" /\ entry[t] # "terminal") ~> (status[t] # "queued")

\* A Task that ended, cancelled included, does not keep its Conversation's slot, with
\* the same exceptions: the comment on releaseTaskSlotAndPromote makes none
\* (CancelledFreesSlot below).
EndedFreesSlot ==
    \A t \in Tasks :
        \/ <>[]Halted(ConvOf[t])
        \/ (Terminal(t) /\ slot[ConvOf[t]].active = t) ~> (slot[ConvOf[t]].active # t)

----------------------------------------------------------------------------
(* What the repository says of the scheduler and the code does not do *)

\* maxConcurrentTasks is ignored: no plan is queued for account capacity
\* (docs/adr/0037); control-kernel.ts still counts occupied slots against it.
AccountLimitIgnored == \A t \in Tasks : plan[t] # "account_task_capacity"

\* promoteAvailable promotes every queued Task that fits its own Workspace
\* budget (its comment); the loop ends at the first Workspace that is full.
PromoteStep ==
    sweep.phase = "slots" /\ sweep'.phase = "promoted" =>
        \A c \in Conversations :
            \/ Candidates(entry', slot', status', c) = {}
            \/ Occupied(slot', WsOf[c]) >= WorkspaceLimit
EveryFittingTaskPromoted == [][PromoteStep]_vars

\* The number of Conversations of a Workspace that execute at once is bounded
\* (docs/adr/0037); the admission that claims a free slot looks at no Workspace.
WorkspaceWithinLimit == \A w \in Workspaces : Occupied(slot, w) <= WorkspaceLimit

\* At most one Task of a Conversation executes (docs/adr/0037); a resumed Task
\* runs without reacquiring the slot, so the next Task is admitted beside it.
OneExecutingTask ==
    \A t, u \in Tasks :
        t # u /\ ConvOf[t] = ConvOf[u] /\ status[t] = "running" => status[u] # "running"

\* A cancelled Task never blocks its Conversation (releaseTaskSlotAndPromote's
\* comment); a recovery_blocked slot is never released.
CancelledFreesSlot ==
    \A t \in Tasks :
        (status[t] = "cancelled" /\ slot[ConvOf[t]].active = t) ~> (slot[ConvOf[t]].active # t)

\* A promoted row is not left in reserved (cancelTaskWithOutcome's comment); a
\* remaining-work Task that promotes its successor awaits its own promise, and
\* the sweep that awaits that Task never runs again.
ReservedIsStarted ==
    \A t \in Tasks : (entry[t] = "reserved" /\ status[t] = "queued")
                       ~> (entry[t] # "reserved" \/ status[t] # "queued")

\* A parked entry is queued again when its Task re-enters scheduling
\* (parkScheduleEntry's comment); resuming a Task leaves it terminal.
ParkedEntryReopened == \A t \in Tasks : ~(status[t] = "queued" /\ entry[t] = "terminal")
=============================================================================
