----------------------------- MODULE RetryWakes -----------------------------
(***************************************************************************)
(* The retry wakes of a Task: a failed Attempt whose Kernel decision is    *)
(* wait_for_retry arms a row of retry_wakes; when its time comes a         *)
(* RetryWakeWorker turns the row into a timer event, the Kernel decides    *)
(* that event against the row and the Task, and the decision's application *)
(* dispatches the continuation, or gives the wake up                       *)
(* (src/account/retry-wake-worker.ts, src/storage/retry-wake-repo.ts,      *)
(* decideTimer in src/kernel/control-kernel.ts and the handlers in         *)
(* src/execution/kernel-execution-runtime.ts).                             *)
(*                                                                         *)
(* A wake, its wait_for_retry decision, its timer event and that event's   *)
(* decision have ids made of one another, so one index names all four.     *)
(* The process is single-threaded: what it does between two awaits is one  *)
(* step, but it may crash between two statements of that step.             *)
(***************************************************************************)
EXTENDS Naturals, FiniteSets

CONSTANTS
    Wakes,       \* the wait_for_retry decisions of one Task, and their wakes
    Unusable,    \* wakes with no session to deliver to, or an unreadable binding
    Workers,     \* the RetryWakeWorker objects: the account's and a session's
    Account,     \* the account's one, which runs as long as the process
    None,        \* no wake in hand
    MaxRetries,  \* MAX_UNSAFE_APPLICATION_RETRIES
    MaxFaults,   \* bound: throws and crashes
    MaxMoves     \* bound: reconciliations of the Task on other business

ASSUME ConstantsFit ==
    /\ None \notin Wakes /\ Unusable \subseteq Wakes /\ Account \in Workers
    /\ MaxRetries \in Nat \ {0} /\ MaxFaults \in Nat /\ MaxMoves \in Nat

VARIABLES
    task,      \* tasks.status
    parent,    \* the application of the wait_for_retry decision
    wake,      \* retry_wakes.status, "none" when there is no row
    timer,     \* the wakes whose timer_event_id is set
    due,       \* the wakes whose resume_at has come
    event,     \* the kernel_events row of the timer event
    decision,  \* what the Kernel decided on it
    app,       \* the application of that decision
    item,      \* the kernel_dispatch_items row of the continuation
    tries,     \* apply_attempts of app, saturating at MaxRetries
    up,        \* the process is running
    todo,      \* todo[k]: rest of the list k read, with the status it read
    at,        \* at[k]: the wake whose processTimer k awaits
    live,      \* the wakes with an application at its await
    faults, moves,
    excused    \* history: armed while the Task did not run, or its delivery threw

rows == <<task, parent, wake, timer, due, event, decision, app, item, tries>>
process == <<up, todo, at, live>>
history == <<faults, moves, excused>>
vars == <<task, parent, wake, timer, due, event, decision, app, item, tries,
          up, todo, at, live, faults, moves, excused>>

\* A pending and an applying application are one: any drain may take up either,
\* for convergeRecovery puts applying rows back to pending.
AppStatus == {"none", "open", "applied", "uncertain"}
WakeStatus == {"none", "armed", "fired", "consumed", "superseded", "recovery_required"}
Settled == {"consumed", "superseded", "recovery_required"}
Terminal == {"cancelled", "failed"}

Init ==
    /\ task = "running"
    /\ parent = [w \in Wakes |-> "none"]
    /\ wake = [w \in Wakes |-> "none"]
    /\ timer = {} /\ due = {}
    /\ event = [w \in Wakes |-> "none"]
    /\ decision = [w \in Wakes |-> "none"]
    /\ app = [w \in Wakes |-> "none"]
    /\ item = [w \in Wakes |-> "none"]
    /\ tries = [w \in Wakes |-> 0]
    /\ up = TRUE
    /\ todo = [k \in Workers |-> {}]
    /\ at = [k \in Workers |-> None]
    /\ live = {}
    /\ faults = 0 /\ moves = 0 /\ excused = {}

Fault == faults < MaxFaults /\ faults' = faults + 1

\* What a crash leaves of the process.
Dies ==
    /\ up' = FALSE /\ live' = {}
    /\ todo' = [k \in Workers |-> {}] /\ at' = [k \in Workers |-> None]

\* The process runs on, with the applications l at their await.
Runs(l) == up' = TRUE /\ live' = l /\ UNCHANGED <<todo, at>>

----------------------------------------------------------------------------
(* The Task's status *)

\* Mutant: the authority forgets the scheduled retry.
ConclusionsUndriven(wk) ==
    IF task \in Terminal THEN {task}
    ELSE {IF task = "needs_action" THEN "queued" ELSE "running", "queued",
          "needs_action", "failed"}

\* evaluateTaskState, with wk the wakes: a terminal Task stays so, an open wake
\* drives the Task, otherwise its other work may say anything; what would move
\* needs_action to running puts it in the queue.  The facts hold the wakes of the
\* active generation and revision: all of them, as no replan replaces it here.
Conclusions(wk) ==
    LET running == IF task = "needs_action" THEN "queued" ELSE "running" IN
    IF task \in Terminal THEN {task}
    ELSE IF \E w \in Wakes : wk[w] \in {"armed", "fired"} THEN {running}
    ELSE {running, "queued", "needs_action", "failed"}

\* The Task is reconciled on other business: a sibling, the user, capacity.
Reconcile ==
    /\ up /\ moves < MaxMoves
    /\ task' \in Conclusions(wake) /\ task' # task
    /\ moves' = moves + 1
    /\ UNCHANGED <<parent, wake, timer, due, event, decision, app, item, tries,
                   process, faults, excused>>

\* The user cancels the Task.
Cancel ==
    /\ up /\ task \notin Terminal
    /\ task' = "cancelled"
    /\ UNCHANGED <<parent, wake, timer, due, event, decision, app, item, tries,
                   process, history>>

----------------------------------------------------------------------------
(* wait_for_retry *)

Bump(w) == tries' = [tries EXCEPT ![w] = IF @ < MaxRetries THEN @ + 1 ELSE @]

\* A failed Attempt is decided wait_for_retry.
DecideWait(w) ==
    /\ up /\ parent[w] = "none" /\ task \notin Terminal
    /\ parent' = [parent EXCEPT ![w] = "open"]
    /\ UNCHANGED <<task, wake, timer, due, event, decision, app, item, tries,
                   process, history>>

\* waitForRetry up to its await: arm inserts the row or finds it, and the row
\* must then be armed; an ended Task or a row past armed makes it throw.
BeginWait(w) ==
    /\ up /\ parent[w] = "open"
    /\ Bump(w)
    /\ IF task \in Terminal \/ wake[w] \notin {"none", "armed"}
       THEN /\ parent' = [parent EXCEPT ![w] = "uncertain"]
            /\ Runs(live \ {w}) /\ UNCHANGED <<wake, excused>>
       ELSE /\ wake' = [wake EXCEPT ![w] = "armed"]
            /\ excused' = IF wake[w] = "none" /\ task # "running"
                          THEN excused \cup {w} ELSE excused
            /\ Runs(live \cup {w}) /\ UNCHANGED parent
    /\ UNCHANGED <<task, timer, due, event, decision, app, item, faults, moves>>

\* finishExecution returns, or throws.
FinishWait(w) ==
    /\ up /\ parent[w] = "open" /\ w \in live
    /\ \/ parent' = [parent EXCEPT ![w] = "applied"] /\ UNCHANGED faults
       \/ parent' = [parent EXCEPT ![w] = "uncertain"] /\ Fault
    /\ Runs(live \ {w})
    /\ UNCHANGED <<task, wake, timer, due, event, decision, app, item, tries,
                   moves, excused>>

\* resume_at comes.
Elapse(w) ==
    /\ wake[w] = "armed" /\ w \notin due
    /\ due' = due \cup {w}
    /\ UNCHANGED <<task, parent, wake, timer, event, decision, app, item, tries,
                   process, history>>

----------------------------------------------------------------------------
(* RetryWakeWorker.run *)

\* Mutant: only armed wakes are listed.
ListedDue == {w \in Wakes : wake[w] = "armed" /\ w \in due}

\* listDueOrFiredWithoutTimer.
Listed == {w \in Wakes : \/ wake[w] = "armed" /\ w \in due
                         \/ wake[w] = "fired" /\ w \notin timer}

\* The worker's pass starts: the list is read once for all of it.
ListDueOrFiredWithoutTimer(k) ==
    /\ up /\ todo[k] = {} /\ at[k] = None /\ Listed # {}
    /\ todo' = [todo EXCEPT ![k] = {<<w, wake[w]>> : w \in Listed}]
    /\ UNCHANGED <<rows, up, at, live, history>>

\* Mutant: the status the list gave is not checked again.
SkipsUnapplied(w, s) == parent[w] # "applied"

\* Mutant: the wake of an unapplied decision is delivered.
SkipsStale(w, s) == wake[w] # s

\* The candidate listed in status s is passed over: its decision is not applied,
\* it is no longer armed for claimDueWake, or no longer fired.
Skips(w, s) == parent[w] # "applied" \/ wake[w] # s

\* claimDueWake, markFired and enqueue, then the await of processTimer. A crash
\* may come after the claim or after the mark, and enqueue may throw, which
\* clears the timer again.
Fire(k, w) ==
    /\ wake' = [wake EXCEPT ![w] = "fired"]
    /\ \/ /\ timer' = timer \cup {w}
          /\ event' = [event EXCEPT ![w] = IF @ = "none" THEN "pending" ELSE @]
          /\ at' = [at EXCEPT ![k] = w]
          /\ UNCHANGED <<up, live, faults, excused>>
       \/ Fault /\ timer' \in {timer, timer \cup {w}} /\ Dies
          /\ UNCHANGED <<event, excused>>
       \/ Fault /\ timer' = timer \ {w} /\ excused' = excused \cup {w}
          /\ UNCHANGED <<event, up, at, live>>

\* claimDueWake and, with a session, markFired come before the wake turns out to be
\* unusable and markRecoveryRequired: a crash may leave it fired.
GiveUp(w) ==
    \/ /\ wake' = [wake EXCEPT ![w] = "recovery_required"]
       /\ timer' \in {timer, timer \cup {w}}
       /\ UNCHANGED <<event, up, at, live, faults, excused>>
    \/ /\ wake' = [wake EXCEPT ![w] = "fired"]
       /\ Fault /\ timer' \in {timer, timer \cup {w}} /\ Dies
       /\ UNCHANGED <<event, excused>>

\* One turn of the worker's loop.
Deliver(k) ==
    /\ up /\ at[k] = None
    /\ \E c \in todo[k] :
        LET w == c[1] IN
        /\ \/ /\ Skips(w, c[2])
              /\ UNCHANGED <<wake, timer, event, up, at, live, faults, excused>>
           \/ ~Skips(w, c[2]) /\ w \in Unusable /\ GiveUp(w)
           \/ ~Skips(w, c[2]) /\ w \notin Unusable /\ Fire(k, w)
        /\ todo' = IF up' THEN [todo EXCEPT ![k] = @ \ {c}] ELSE [j \in Workers |-> {}]
    /\ UNCHANGED <<task, parent, due, decision, app, item, tries, moves>>

\* processTimer returns: the event was decided, or a continuation of a result is
\* under way and the event waits for the drain that follows it.
Return(k) ==
    /\ up /\ at[k] # None
    /\ at' = [at EXCEPT ![k] = None]
    /\ UNCHANGED <<rows, up, todo, live, history>>

\* processTimer throws: clearTimerEvent.
Throw(k) ==
    /\ up /\ at[k] # None /\ Fault
    /\ at' = [at EXCEPT ![k] = None]
    /\ timer' = IF wake[at[k]] = "fired" THEN timer \ {at[k]} ELSE timer
    /\ excused' = excused \cup {at[k]}
    /\ UNCHANGED <<task, parent, wake, due, event, decision, app, item, tries,
                   up, todo, live, moves>>

----------------------------------------------------------------------------
(* The timer event *)

\* decideTimer over the row and the Task read when the event is decided. The
\* list of decideTimer admits needs_action, isKernelWakeAuthorized does not.
DecideTimer(w) ==
    IF w \notin timer THEN "recover_retry_wake"
    ELSE IF wake[w] \in {"consumed", "superseded"} THEN "no_op"
    ELSE IF wake[w] = "recovery_required" THEN "recover_retry_wake"
    ELSE IF task \in Terminal THEN "supersede_retry_wake"
    ELSE IF wake[w] # "fired" \/ task # "running" THEN "recover_retry_wake"
    ELSE "dispatch_batch"

\* Some drain of the Task's inbox decides the event.
Decide(w) ==
    /\ up /\ event[w] = "pending"
    /\ event' = [event EXCEPT ![w] = "decided"]
    /\ decision' = [decision EXCEPT ![w] = DecideTimer(w)]
    /\ app' = [app EXCEPT ![w] = "open"]
    /\ tries' = [tries EXCEPT ![w] = 0]
    /\ UNCHANGED <<task, parent, wake, timer, due, item, process, history>>

\* An application ends applied; or it throws and is uncertain; or the process
\* dies, and the application is open again after the restart.
Ends(w, outcome) ==
    \/ /\ outcome = "applied" /\ app' = [app EXCEPT ![w] = "applied"]
       /\ Runs(live \ {w}) /\ UNCHANGED faults
    \/ /\ outcome = "throws" /\ app' = [app EXCEPT ![w] = "uncertain"]
       /\ Runs(live \ {w}) /\ Fault
    \/ /\ outcome = "dies" /\ UNCHANGED app
       /\ Dies /\ Fault

Outcomes == {"applied", "throws", "dies"}

\* dispatch_batch up to its await: the Task is reconciled.
BeginDispatch(w) ==
    /\ up /\ app[w] = "open" /\ decision[w] = "dispatch_batch" /\ w \notin live
    /\ Bump(w)
    /\ task' \in Conclusions(wake)
    /\ Runs(live \cup {w})
    /\ UNCHANGED <<parent, wake, timer, due, event, decision, app, item, history>>

\* Mutant: the row is always inserted for launch.
InsertBatchUnfenced(w) == IF item[w] = "none" THEN "pending_launch" ELSE item[w]

\* insertBatch: idempotent, and the row of a cancelled Task is born cancelled.
InsertBatch(w) ==
    IF item[w] # "none" THEN item[w]
    ELSE IF task = "cancelled" THEN "cancelled" ELSE "pending_launch"

\* Mutant: the wake is consumed before the continuation is inserted.
FinishDispatchConsumesFirst(w) ==
    /\ up /\ app[w] = "open" /\ decision[w] = "dispatch_batch" /\ w \in live
    /\ \E reached \in 0..2, outcome \in Outcomes :
        /\ outcome = "applied" => reached = 2
        /\ item' = IF reached = 2 THEN [item EXCEPT ![w] = InsertBatch(w)] ELSE item
        /\ wake' = IF reached > 0 THEN [wake EXCEPT ![w] = "consumed"] ELSE wake
        /\ Ends(w, outcome)
    /\ UNCHANGED <<task, parent, timer, due, event, decision, tries, moves, excused>>

\* The rest of it: insertBatch (1), then the Task is reconciled if it is queued
\* or paused and the wake is consumed (2). A throw or a crash may come anywhere.
FinishDispatch(w) ==
    /\ up /\ app[w] = "open" /\ decision[w] = "dispatch_batch" /\ w \in live
    /\ \E reached \in 0..2, outcome \in Outcomes :
        /\ outcome = "applied" => reached = 2
        /\ item' = IF reached > 0 THEN [item EXCEPT ![w] = InsertBatch(w)] ELSE item
        /\ task' \in IF reached = 2 /\ task \in {"needs_action", "queued"}
                     THEN {task} \cup Conclusions(wake) ELSE {task}
        /\ wake' = IF reached = 2 /\ wake[w] = "fired"
                   THEN [wake EXCEPT ![w] = "consumed"] ELSE wake
        /\ Ends(w, outcome)
    /\ UNCHANGED <<parent, timer, due, event, decision, tries, moves, excused>>

\* supersede_retry_wake, and no_op.
ApplySupersede(w) ==
    /\ up /\ app[w] = "open" /\ decision[w] \in {"supersede_retry_wake", "no_op"}
    /\ Bump(w)
    /\ \E outcome \in Outcomes :
        /\ wake' = IF outcome # "throws" /\ decision[w] = "supersede_retry_wake"
                                         /\ wake[w] \in {"armed", "fired"}
                   THEN [wake EXCEPT ![w] = "superseded"] ELSE wake
        /\ Ends(w, outcome)
    /\ UNCHANGED <<task, parent, timer, due, event, decision, item, moves, excused>>

\* recover_retry_wake: markRecoveryRequired, then blockTaskInternal adds a
\* manual blocker and reconciles the Task.
ApplyRecover(w) ==
    /\ up /\ app[w] = "open" /\ decision[w] = "recover_retry_wake"
    /\ Bump(w)
    /\ wake' = IF wake[w] \in {"armed", "fired"}
               THEN [wake EXCEPT ![w] = "recovery_required"] ELSE wake
    /\ task' \in Conclusions(wake')
    /\ \E outcome \in Outcomes : Ends(w, outcome)
    /\ UNCHANGED <<parent, timer, due, event, decision, item, moves, excused>>

----------------------------------------------------------------------------
(* Recovery *)

\* inspectRetryWait finds the wait in place.
WaitApplied(w) ==
    \/ task = "cancelled" /\ wake[w] = "none"
    \/ task \in {"running", "needs_action"} /\ wake[w] \in {"armed", "fired"}

\* convergeUncertainApplications: applied if its postcondition holds, otherwise
\* open again while retries remain.
Converge(w) ==
    /\ up
    /\ \/ /\ parent[w] = "uncertain"
          /\ \/ WaitApplied(w) /\ parent' = [parent EXCEPT ![w] = "applied"]
             \/ ~WaitApplied(w) /\ tries[w] < MaxRetries
                /\ parent' = [parent EXCEPT ![w] = "open"]
          /\ UNCHANGED app
       \/ /\ app[w] = "uncertain" /\ decision[w] = "dispatch_batch"
          /\ \/ item[w] # "none" /\ app' = [app EXCEPT ![w] = "applied"]
             \/ item[w] = "none" /\ tries[w] < MaxRetries
                /\ app' = [app EXCEPT ![w] = "open"]
          /\ UNCHANGED parent
    /\ UNCHANGED <<task, wake, timer, due, event, decision, item, tries,
                   process, history>>

Crash == up /\ Fault /\ Dies /\ UNCHANGED <<rows, moves, excused>>

Restart == ~up /\ up' = TRUE /\ UNCHANGED <<rows, todo, at, live, history>>

----------------------------------------------------------------------------

Worker(k) == ListDueOrFiredWithoutTimer(k) \/ Deliver(k) \/ Return(k) \/ Throw(k)

Application(w) ==
    \/ BeginDispatch(w) \/ FinishDispatch(w) \/ ApplySupersede(w) \/ ApplyRecover(w)

Next ==
    \/ Reconcile \/ Cancel \/ Crash \/ Restart
    \/ \E k \in Workers : Worker(k)
    \/ \E w \in Wakes : \/ DecideWait(w) \/ BeginWait(w) \/ FinishWait(w) \/ Elapse(w)
                        \/ Decide(w) \/ Application(w) \/ Converge(w)

Spec == Init /\ [][Next]_vars

\* The process is restarted; the account's worker runs on a timer; the inbox of a
\* live Task is drained after the event is enqueued, at startup, at promotion and,
\* while it needs action, periodically; recovery runs periodically.
Fairness ==
    /\ WF_vars(Restart)
    /\ WF_vars(Worker(Account))
    /\ \A w \in Wakes : /\ WF_vars(task \notin Terminal /\ Decide(w))
                        /\ WF_vars(task \notin Terminal /\ Application(w))
                        /\ WF_vars(Converge(w))

FairSpec == Spec /\ Fairness

----------------------------------------------------------------------------
(* Properties *)

TypeOK ==
    /\ task \in {"running", "queued", "needs_action"} \cup Terminal
    /\ parent \in [Wakes -> AppStatus] /\ app \in [Wakes -> AppStatus]
    /\ wake \in [Wakes -> WakeStatus]
    /\ timer \subseteq Wakes /\ due \subseteq Wakes
    /\ event \in [Wakes -> {"none", "pending", "decided"}]
    /\ decision \in [Wakes -> {"none", "dispatch_batch", "supersede_retry_wake",
                               "recover_retry_wake", "no_op"}]
    /\ item \in [Wakes -> {"none", "pending_launch", "cancelled"}]
    /\ tries \in [Wakes -> 0..MaxRetries]
    /\ up \in BOOLEAN /\ live \subseteq Wakes
    /\ todo \in [Workers -> SUBSET (Wakes \X {"armed", "fired"})]
    /\ at \in [Workers -> Wakes \cup {None}]
    /\ faults \in 0..MaxFaults /\ moves \in 0..MaxMoves /\ excused \subseteq Wakes

\* No wake outruns the decision that armed it: until the application of
\* wait_for_retry is durably applied its row is absent or armed, whatever the
\* workers, crashes and replays do, so a replay finds the postcondition it checks
\* (the guard on isDecisionApplied in RetryWakeWorker.run, the check in waitForRetry).
ArmedUntilApplied ==
    \A w \in Wakes : parent[w] # "applied" => wake[w] \in {"none", "armed"}

\* A consumed wake has its continuation in the dispatch table, and a wake with a
\* continuation there is never given up as superseded or for recovery (the order
\* of insertBatch and markConsumed under crashes, throws and replays).
ConsumedHasContinuation ==
    \A w \in Wakes : /\ wake[w] = "consumed" => item[w] # "none"
                     /\ item[w] # "none" => wake[w] \in {"fired", "consumed"}

\* A usable wake armed under a running Task, whose delivery did not throw, is
\* never given up for recovery: the armed row keeps the Task running until its
\* event is decided (boundedRecovery in evaluateTaskState against the Task check
\* in decideTimer).
RecoveryIsExcused ==
    \A w \in Wakes : wake[w] = "recovery_required" => w \in excused \cup Unusable

\* The continuation of a Task that has ended is never put up for launch, also
\* when the Task ends between the decision and its application (insertBatch).
EndedNotLaunched ==
    [][\A w \in Wakes : item'[w] = "pending_launch" /\ item[w] = "none"
                            => task \notin Terminal]_vars

\* A settled wake stays as it is: no worker with a list read before it settled,
\* and no replay of its decision, fires or resettles it (the status guards of
\* RetryWakeRepo).
SettledIsFinal ==
    [][\A w \in Wakes : wake[w] \in Settled => wake'[w] = wake[w]]_vars

\* The three windows in which a fired wake keeps its timer id with nobody left to
\* settle it: a crash between markFired and enqueue; a throw between insertBatch and
\* markConsumed, which recovery then takes for applied; an uncertain application
\* that recovery does not retry (any more).
Stranded(w) ==
    /\ wake[w] = "fired" /\ w \in timer
    /\ \/ event[w] = "none"
       \/ app[w] = "applied" /\ decision[w] = "dispatch_batch"
       \/ /\ app[w] = "uncertain"
          /\ decision[w] # "dispatch_batch" \/ tries[w] = MaxRetries

\* A due wake of an applied decision settles while its Task lives, through crashes
\* and failed deliveries, except in those windows (RetryWakeWorker's promise that
\* a wake is replayed on the next pass).
DueWakeSettles ==
    \A w \in Wakes : (wake[w] = "armed" /\ w \in due /\ parent[w] = "applied")
        ~> (wake[w] \in Settled \/ task \in Terminal \/ Stranded(w))

\* What the worker's comment promises instead: no window at all. It does not hold.
NeverStranded == \A w \in Wakes : ~(Stranded(w) /\ event[w] = "none")
=============================================================================
