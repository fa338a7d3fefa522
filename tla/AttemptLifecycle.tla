--------------------------- MODULE AttemptLifecycle ---------------------------
(***************************************************************************)
(* The life of an Attempt: the dispatch item the Kernel authorizes, the    *)
(* supervisor that launches it, the runner that claims a WorkUnit and the  *)
(* Conversation, executes and lands a receipt, the cancellation            *)
(* coordinator, and what a restart makes of what a crash left behind.      *)
(*                                                                         *)
(* One Task with several Subtasks, each with several Attempts.  Attempts   *)
(* are numbered in the order the Kernel authorizes them.  Every await of   *)
(* the runner is a point where another action may come in; what runs       *)
(* between two awaits is one step.  A WorkUnit serves one Attempt, so its  *)
(* claim is kept per Attempt.                                              *)
(***************************************************************************)
EXTENDS FiniteSets, Integers

CONSTANTS
    Subtasks,
    Accesses,       \* the sets of Subtasks that may only read the workspace
    Backends,       \* METACLAW_EXECUTOR_BACKEND: "native" or "docker"
    MaxAttempts,
    MaxRepairs,     \* MAX_SERVICE_REPAIR_ATTEMPTS
    MaxCrashes

ASSUME ConstantsFit ==
    /\ Subtasks # {}
    /\ Accesses \subseteq SUBSET Subtasks
    /\ Backends \subseteq {"native", "docker"}
    /\ MaxAttempts \in Nat
    /\ MaxRepairs \in Nat
    /\ MaxCrashes \in Nat

Attempts == 1..MaxAttempts

VARIABLES
    backend,    \* where executors run: host processes, or recorded containers
    readers,    \* Subtasks that only read the workspace of the Conversation
    process,    \* the Server: down, in a phase of startup recovery, or up
    crashes,
    task,       \* state of the Task
    answer,     \* what became of the uncertified result of each Attempt
    subtask,    \* status of each Subtask
    plan,       \* the Subtask and the kind each Attempt was authorized for
    item,       \* status of the dispatch item of each Attempt
    contained,  \* Attempts whose dispatch item names a container
    sandbox,    \* the attempt_sandboxes row of each Attempt
    receipt,    \* the terminal receipt of each Attempt
    outcome,    \* the terminal event stored for each Attempt
    inbox,      \* Kernel events not decided yet
    claim,      \* state of the WorkUnit claimed by each Attempt
    owner,      \* Attempts with a conversation_attempt_owners row
    ended,      \* Attempts with a recorded end of their executor process
    run,        \* where the runner of each Attempt is
    orphans,    \* the claims startup found, still to be reconciled
    lost,       \* the Attempts whose backend startup stopped
    executing,  \* Attempts whose executor process is alive
    wrote       \* Attempts that have written to the workspace

items == <<plan, item, contained>>
results == <<receipt, outcome, inbox>>
holdings == <<claim, owner>>
executions == <<sandbox, executing, ended, wrote>>
server == <<backend, readers, process, crashes, orphans, lost>>
vars == <<server, task, answer, subtask, items, results, holdings, executions, run>>

Statuses == {"ready", "running", "awaiting_decision", "blocked", "done", "cancelled"}
Kinds == {"primary", "continuation", "repair"}
Answers == {"none", "accepted", "staged", "retried"}
Indexed == {"pending_launch", "launching", "running", "cancelling"}
Closed == {"terminal", "cancelled"}
ItemStatuses == {"none", "authorized", "refused", "uncertain"} \cup Indexed \cup Closed
Receipts == {"none", "completed", "uncertified", "failed", "heartbeat_lost"}
Outcomes == {"none", "completed", "uncertified", "failed", "cancelled"}
Claims == {"none", "claimed", "running"}
Claimed == {"reading", "preparing", "spawning", "executing", "sealing"}
Returned == {"executed", "yielded", "stale", "threw"}
Places == {"none", "validating", "landed"} \cup Claimed \cup Returned
Events == [type : {"outcome", "yield", "lost"}, attempt : Attempts]
             \cup [type : {"recover"}, subtask : Subtasks, kind : Kinds \ {"repair"}]
             \cup [type : {"repair"}, subtask : Subtasks, ordinal : 0..MaxRepairs - 1]

\* Every variable holds what its table, or the memory of the process, can hold.
TypeOK ==
    /\ backend \in {"native", "docker"}
    /\ readers \subseteq Subtasks
    /\ process \in {"down", "stopping", "recording", "converging", "blocked", "up"}
    /\ crashes \in 0..MaxCrashes
    /\ task \in {"running", "cancelled", "succeeded"}
    /\ answer \in [Attempts -> Answers]
    /\ subtask \in [Subtasks -> Statuses]
    /\ plan \in [Attempts -> [subtask : Subtasks, kind : Kinds]]
    /\ item \in [Attempts -> ItemStatuses]
    /\ contained \subseteq Attempts
    /\ sandbox \in [Attempts -> {"none", "active", "removed", "missing"}]
    /\ receipt \in [Attempts -> Receipts]
    /\ outcome \in [Attempts -> Outcomes]
    /\ inbox \subseteq Events
    /\ claim \in [Attempts -> Claims]
    /\ owner \subseteq Attempts
    /\ ended \subseteq Attempts
    /\ run \in [Attempts -> Places]
    /\ orphans \subseteq Attempts
    /\ lost \subseteq Attempts
    /\ executing \subseteq Attempts
    /\ wrote \subseteq Attempts

\* A Task admitted by the scheduler, with every Subtask ready and no Attempt yet.
Init ==
    /\ backend \in Backends /\ readers \in Accesses
    /\ process = "up" /\ crashes = 0 /\ task = "running"
    /\ answer = [a \in Attempts |-> "none"]
    /\ subtask = [s \in Subtasks |-> "ready"]
    /\ plan = [a \in Attempts |->
                  [subtask |-> CHOOSE s \in Subtasks : TRUE, kind |-> "primary"]]
    /\ item = [a \in Attempts |-> "none"]
    /\ contained = {}
    /\ sandbox = [a \in Attempts |-> "none"]
    /\ receipt = [a \in Attempts |-> "none"]
    /\ outcome = [a \in Attempts |-> "none"]
    /\ inbox = {}
    /\ claim = [a \in Attempts |-> "none"]
    /\ owner = {} /\ ended = {}
    /\ run = [a \in Attempts |-> "none"]
    /\ orphans = {} /\ lost = {} /\ executing = {} /\ wrote = {}

\* The Kernel decides while startup recovery converges and after it; runners live
\* in memory, go on when startup recovery fails, and are there when it is retried.
Deciding == process \in {"converging", "blocked", "up"}
Alive == process # "down"

SubtaskOf(a) == plan[a].subtask
Siblings(a) == {b \in Attempts \ {a} : item[b] # "none" /\ SubtaskOf(b) = SubtaskOf(a)}
Expected(kind) == IF kind = "primary" THEN "ready" ELSE "awaiting_decision"

-----------------------------------------------------------------------------
\* The dispatch items.

\* markTerminal and markNotStarted.
MarkTerminal(i) ==
    CASE i = "cancelling" -> "cancelled"
      [] i \in {"launching", "running", "uncertain"} -> "terminal"
      [] OTHER -> i

\* A plausible bug: an item that is being cancelled becomes uncertain too.
MarkUncertainCancelling(i) ==
    IF i \in {"pending_launch", "launching", "running", "cancelling"} THEN "uncertain" ELSE i

\* markUncertain
MarkUncertain(i) ==
    IF i \in {"pending_launch", "launching", "running"} THEN "uncertain" ELSE i

\* A sibling holds the slot of the Subtask when requestCancellation comes to an
\* uncertain item: one it has just moved to cancelling included.
Superseded(a) ==
    \E b \in Siblings(a) : item[b] \in Indexed \/ (item[b] = "uncertain" /\ b < a)

\* A plausible bug: an uncertain item is cancelled without a look at its siblings.
RequestCancellationPlain(ss) ==
    [a \in Attempts |->
        CASE SubtaskOf(a) \notin ss -> item[a]
          [] item[a] \in {"launching", "running", "uncertain"} -> "cancelling"
          [] item[a] = "pending_launch" -> "cancelled"
          [] OTHER -> item[a]]

\* requestCancellation over the Subtasks in ss: what is launched is cancelling,
\* what is uncertain only when no sibling holds the slot.
RequestCancellation(ss) ==
    [a \in Attempts |->
        CASE SubtaskOf(a) \notin ss -> item[a]
          [] item[a] \in {"launching", "running"} -> "cancelling"
          [] item[a] = "uncertain" -> IF Superseded(a) THEN "cancelled" ELSE "cancelling"
          [] item[a] = "pending_launch" -> "cancelled"
          [] OTHER -> item[a]]

-----------------------------------------------------------------------------
\* The terminal landing of an Attempt.

\* The terminal event of an Attempt has one id: the first is kept.
Report(a, kind) ==
    IF outcome[a] # "none" THEN UNCHANGED <<outcome, inbox>>
    ELSE /\ outcome' = [outcome EXCEPT ![a] = kind]
         /\ inbox' = inbox \cup {[type |-> "outcome", attempt |-> a]}

CancellationWon(a) ==
    \/ task = "cancelled"
    \/ subtask[SubtaskOf(a)] = "cancelled"
    \/ item[a] \in {"cancelling", "cancelled"}

\* What the transaction of land requires; it throws, and nothing is written,
\* when a receipt exists, when no cancellation won and the Subtask is not
\* running, or when the item cannot be closed.
CanLand(a) ==
    /\ receipt[a] = "none"
    /\ CancellationWon(a) \/ (task = "running" /\ subtask[SubtaskOf(a)] = "running")
    /\ MarkTerminal(item[a]) \in Closed

\* The event a landing stores: an uncertified result is an observation of its own,
\* which no cancellation rewrites.
Terminal(kind, cancelled) ==
    CASE kind = "uncertified" -> "uncertified"
      [] kind # "uncertified" /\ cancelled -> "cancelled"
      [] kind = "completed" /\ ~ cancelled -> "completed"
      [] OTHER -> "failed"

\* land: receipt, Subtask, dispatch item and event in one transaction.
Land(a, kind, next) ==
    /\ CanLand(a)
    /\ receipt' = [receipt EXCEPT ![a] = kind]
    /\ item' = [item EXCEPT ![a] = MarkTerminal(@)]
    /\ subtask' = IF CancellationWon(a) THEN subtask
                  ELSE [subtask EXCEPT ![SubtaskOf(a)] = next]
    /\ Report(a, Terminal(kind, CancellationWon(a)))

\* A landing of the runner: it lands; or it throws, and the catch finds a receipt,
\* or throws once more and leaves the claim, the owner and the item as they are.
\* The claim of an Attempt that failed is marked failed, the one of an uncertified
\* result waits.
RunnerLands(a, kind, next) ==
    \/ /\ Land(a, kind, next)
       /\ claim' = [claim EXCEPT ![a] = CASE kind = "completed" -> @
                                         [] kind = "uncertified" -> "claimed"
                                         [] OTHER -> "none"]
       /\ run' = [run EXCEPT ![a] = "landed"]
    \/ /\ receipt[a] # "none"
       /\ claim' = [claim EXCEPT ![a] = "none"]
       /\ run' = [run EXCEPT ![a] = "landed"]
       /\ UNCHANGED <<item, subtask, results>>
    \/ /\ receipt[a] = "none" /\ ~ CanLand(a)
       /\ claim' = [claim EXCEPT ![a] = IF run[a] = "validating" THEN "claimed" ELSE @]
       /\ run' = [run EXCEPT ![a] = "threw"]
       /\ UNCHANGED <<item, subtask, results>>

\* persistNonSuccess, and landContractFailure of a result that cannot be delivered.
Fail(a) == RunnerLands(a, "failed", "awaiting_decision")

-----------------------------------------------------------------------------
\* The supervisor and the runner.

\* kick, claimPending, markRunning and the checks of run before its first await.
\* A cancelled Task or Subtask closes the item instead.
Launch(a) ==
    /\ Deciding /\ item[a] = "pending_launch"
    /\ IF task = "cancelled" \/ subtask[SubtaskOf(a)] = "cancelled"
       THEN item' = [item EXCEPT ![a] = "cancelled"] /\ run' = run
       ELSE /\ item' = [item EXCEPT ![a] = "running"]
            /\ run' = [run EXCEPT ![a] =
                         IF /\ task = "running"
                            /\ subtask[SubtaskOf(a)] = Expected(plan[a].kind)
                         THEN "validating" ELSE "stale"]
    /\ UNCHANGED <<server, task, answer, subtask, plan, contained, results, holdings,
                   executions>>

Reads(a) == SubtaskOf(a) \in readers

\* claimConversation refuses while another owner writes, or reads what is to be
\* written.
OwnerConflict(a) == \E b \in owner \ {a} : ~ (Reads(a) /\ Reads(b))

\* The Subtask becomes running; a Subtask that is done or cancelled by now makes
\* the transition throw.
Start(a) ==
    IF subtask[SubtaskOf(a)] \in {"done", "cancelled"}
    THEN Fail(a)
    ELSE /\ subtask' = [subtask EXCEPT ![SubtaskOf(a)] = "running"]
         /\ claim' = [claim EXCEPT ![a] = "running"]
         /\ run' = [run EXCEPT ![a] = "preparing"]
         /\ UNCHANGED <<item, results>>

\* The binding is valid and the executor answers: WorkUnit, leases and the
\* Conversation are claimed.  A writer starts in the same step; a reader first
\* waits for its snapshot.
ClaimUnit(a) ==
    /\ Alive /\ run[a] = "validating" /\ ~ OwnerConflict(a)
    /\ owner' = owner \cup {a}
    /\ IF Reads(a)
       THEN /\ claim' = [claim EXCEPT ![a] = "claimed"]
            /\ run' = [run EXCEPT ![a] = "reading"]
            /\ UNCHANGED <<item, subtask, results>>
       ELSE Start(a)
    /\ UNCHANGED <<server, task, answer, plan, contained, executions>>

\* The executor is not available, or leases or the owner conflict; or the binding
\* is invalid; or the workspace cannot be found.
NotClaimed(a) ==
    /\ Alive /\ run[a] = "validating"
    /\ \E place \in {"yielded", "threw", "stale"} : run' = [run EXCEPT ![a] = place]
    /\ UNCHANGED <<server, task, answer, subtask, items, results, holdings, executions>>

\* beginRead returns, or throws.
ReadBegan(a) ==
    /\ Alive /\ run[a] = "reading"
    /\ Start(a) \/ Fail(a)
    /\ UNCHANGED <<server, task, answer, plan, contained, owner, executions>>

\* isStillCurrent
StillCurrent(a) ==
    /\ task = "running" /\ subtask[SubtaskOf(a)] = "running" /\ claim[a] = "running"

\* Workspace and tools are prepared, or a preparation throws.
Prepared(a) ==
    /\ Alive /\ run[a] = "preparing"
    /\ \/ /\ StillCurrent(a)
          /\ run' = [run EXCEPT ![a] = "spawning"]
          /\ UNCHANGED <<item, subtask, results, claim>>
       \/ Fail(a)
    /\ UNCHANGED <<server, task, answer, plan, contained, owner, executions>>

\* ExecutionRuntime starts the executor.  In a container the execution is recorded
\* and an abort that came before it is lost; a host process has no record, and
\* none is started after an abort.
Spawn(a) ==
    /\ Alive /\ run[a] = "spawning"
    /\ IF backend = "docker"
       THEN /\ sandbox' = [sandbox EXCEPT ![a] = "active"]
            /\ contained' = IF item[a] = "running" THEN contained \cup {a} ELSE contained
       ELSE item[a] \notin {"cancelling", "cancelled"} /\ UNCHANGED <<sandbox, contained>>
    /\ executing' = executing \cup {a}
    /\ wrote' = IF Reads(a) THEN wrote ELSE wrote \cup {a}
    /\ run' = [run EXCEPT ![a] = "executing"]
    /\ UNCHANGED <<server, task, answer, subtask, plan, item, results, holdings, ended>>

\* The adapter cannot be resolved or started, or was aborted before it started.
SpawnFails(a) ==
    /\ Alive /\ run[a] = "spawning"
    /\ Fail(a)
    /\ UNCHANGED <<server, task, answer, plan, contained, owner, executions>>

\* The executor ends and its diagnostics are recorded.  Success goes on to the
\* seal when the Attempt is still current; a result that cannot be certified lands
\* without a look at that, and is left to the Kernel and the user.
Exit(a) ==
    /\ Alive /\ run[a] = "executing"
    /\ executing' = executing \ {a}
    /\ ended' = ended \cup {a}
    /\ sandbox' = [sandbox EXCEPT ![a] = IF @ = "active" THEN "removed" ELSE @]
    /\ \/ /\ StillCurrent(a)
          /\ run' = [run EXCEPT ![a] = "sealing"]
          /\ UNCHANGED <<item, subtask, results, claim>>
       \/ RunnerLands(a, "uncertified", "awaiting_decision")
       \/ Fail(a)
    /\ UNCHANGED <<server, task, answer, plan, contained, owner, wrote>>

\* The workspace is sealed and the completion lands, or the seal fails.
Seal(a) ==
    /\ Alive /\ run[a] = "sealing"
    /\ RunnerLands(a, "completed", "done") \/ Fail(a)
    /\ UNCHANGED <<server, task, answer, plan, contained, owner, executions>>

\* hasSealedTerminal
Sealed(a) == receipt[a] # "none" /\ item[a] \in Closed

Release(a) == owner' = owner \ {a} /\ claim' = [claim EXCEPT ![a] = "none"]

\* The finally of run: what a sealed Attempt holds is released, unless the
\* workspace of a writer that did not complete cannot be sealed.
Return(a) ==
    /\ Alive /\ run[a] = "landed"
    /\ Release(a) \/ (~ Reads(a) /\ receipt[a] # "completed" /\ UNCHANGED holdings)
    /\ run' = [run EXCEPT ![a] = "executed"]
    /\ UNCHANGED <<server, task, answer, subtask, items, results, executions>>

\* launch after run: the item is closed, or left uncertain when run threw, and the
\* Kernel is told.
Settle(a) ==
    /\ Alive /\ run[a] \in Returned
    /\ IF run[a] = "threw"
       THEN /\ item' = [item EXCEPT ![a] = MarkUncertain(@)]
            /\ IF Sealed(a) THEN Release(a) ELSE UNCHANGED holdings
       ELSE /\ item' = [item EXCEPT ![a] = MarkTerminal(@)]
            /\ UNCHANGED holdings
    /\ IF run[a] = "yielded"
       THEN /\ inbox' = inbox \cup {[type |-> "yield", attempt |-> a]}
            /\ outcome' = outcome
       ELSE Report(a, "failed")
    /\ run' = [run EXCEPT ![a] = "none"]
    /\ UNCHANGED <<server, task, answer, subtask, plan, contained, receipt, executions>>

\* The submission of a yield is stored and then throws: the catch of launch adds
\* a failed outcome.
SubmitThrows(a) ==
    /\ Alive /\ run[a] = "yielded"
    /\ item' = [item EXCEPT ![a] = MarkTerminal(@)]
    /\ outcome' = [outcome EXCEPT ![a] = IF @ = "none" THEN "failed" ELSE @]
    /\ inbox' = inbox \cup {[type |-> "yield", attempt |-> a]}
                   \cup (IF outcome[a] = "none" THEN {[type |-> "outcome", attempt |-> a]}
                         ELSE {})
    /\ run' = [run EXCEPT ![a] = "none"]
    /\ UNCHANGED <<server, task, answer, subtask, plan, contained, receipt, holdings,
                   executions>>

\* The heartbeat timer writes the claim, swept or not.
Heartbeat(a) ==
    /\ Alive /\ run[a] \in Claimed /\ claim[a] # "running"
    /\ claim' = [claim EXCEPT ![a] = "running"]
    /\ UNCHANGED <<server, task, answer, subtask, items, results, owner, executions, run>>

\* recordWriteStarted has no caller: no Attempt ever has an unpersisted write.
HasUnpersistedWrite(a) == FALSE

\* landHeartbeatLost, for an Attempt without a receipt whose Subtask is not done.
LandHeartbeatLost(a) ==
    IF HasUnpersistedWrite(a)
    THEN /\ item' = [item EXCEPT ![a] = MarkUncertain(@)]
         /\ UNCHANGED <<subtask, results>>
    ELSE Land(a, "heartbeat_lost", "awaiting_decision")

Unlanded(a) == receipt[a] = "none" /\ subtask[SubtaskOf(a)] # "done"

\* recoverExpiredAttempts: a claim whose lease has expired is swept and its Attempt
\* lands as heartbeat_lost; a landing that throws leaves the claim swept.
Sweep(a) ==
    /\ Deciding /\ claim[a] # "none"
    /\ claim' = [claim EXCEPT ![a] = "none"]
    /\ IF /\ task # "cancelled" /\ subtask[SubtaskOf(a)] # "cancelled"
          /\ Unlanded(a) /\ CanLand(a)
       THEN LandHeartbeatLost(a)
       ELSE UNCHANGED <<item, subtask, results>>
    /\ UNCHANGED <<server, task, answer, plan, contained, owner, executions, run>>

-----------------------------------------------------------------------------
\* The Kernel.  A decision is applied before the next one is taken; a cancellation
\* may come between.

Decides == Deciding /\ \A a \in Attempts : item[a] # "authorized"

\* The least Attempt not used yet.
IsFresh(a) == item[a] = "none" /\ \A b \in Attempts : b < a => item[b] # "none"

\* A dispatch_batch decision is recorded for a Subtask.
Authorize(s, kind) ==
    \E a \in Attempts :
        /\ IsFresh(a)
        /\ item' = [item EXCEPT ![a] = "authorized"]
        /\ plan' = [plan EXCEPT ![a] = [subtask |-> s, kind |-> kind]]

\* A plausible bug: a Subtask that is done by now is blocked too.
BlockDone(s) ==
    subtask' = [subtask EXCEPT ![s] =
                   IF @ \in {"ready", "awaiting_decision", "done"} THEN "blocked" ELSE @]

\* block_work
Block(s) ==
    subtask' = [subtask EXCEPT ![s] =
                   IF @ \in {"ready", "awaiting_decision"} THEN "blocked" ELSE @]

SlotFree(s) == \A a \in Attempts : SubtaskOf(a) = s => item[a] \notin Indexed

\* decideDispatch over selectDispatchableSubtasks.
DispatchReady(s) ==
    /\ Decides /\ task = "running" /\ subtask[s] = "ready" /\ SlotFree(s)
    /\ Authorize(s, "primary")
    /\ UNCHANGED <<server, task, answer, subtask, contained, results, holdings, executions,
                   run>>

\* The application of a service repair first reopens the Subtask that is done, and
\* then waits for the binding of the workspace.
Reopens(a) == plan[a].kind = "repair" /\ subtask[SubtaskOf(a)] = "done"

Reopen(a) ==
    /\ Deciding /\ item[a] = "authorized" /\ Reopens(a)
    /\ subtask' = [subtask EXCEPT ![SubtaskOf(a)] = "awaiting_decision"]
    /\ UNCHANGED <<server, task, answer, items, results, holdings, executions, run>>

\* insertBatch: a cancellation that came first closes the item, a live sibling
\* makes the unique index refuse it.
InsertBatch(a) ==
    /\ Deciding /\ item[a] = "authorized" /\ ~ Reopens(a)
    /\ item' = [item EXCEPT ![a] =
                  IF task = "cancelled" \/ subtask[SubtaskOf(a)] = "cancelled"
                  THEN "cancelled"
                  ELSE IF SlotFree(SubtaskOf(a)) THEN "pending_launch" ELSE "refused"]
    /\ UNCHANGED <<server, task, answer, subtask, plan, contained, results, holdings,
                   executions, run>>

Drop(e) == inbox' = inbox \ {e}

\* decideOutcome: after a failure the Subtask is left to a replan, blocked, or
\* attempted once more (a fallback, or a retry when its wake is due).
DecideOutcome(e) ==
    LET s == SubtaskOf(e.attempt) IN
    /\ Decides /\ e \in inbox /\ e.type = "outcome" /\ outcome[e.attempt] # "uncertified"
    /\ Drop(e)
    /\ \/ UNCHANGED <<subtask, item, plan>>
       \/ /\ outcome[e.attempt] = "failed" /\ task = "running" /\ subtask[s] # "cancelled"
          /\ \/ Block(s) /\ UNCHANGED <<item, plan>>
             \/ Authorize(s, "continuation") /\ UNCHANGED subtask
    /\ UNCHANGED <<server, task, answer, contained, receipt, outcome, holdings, executions,
                   run>>

\* decideExecutionResult: the Subtask is blocked, or waits for the user, whatever
\* it is at by now.  The response-only correction of the result is left out.
DecideResult(e) ==
    LET s == SubtaskOf(e.attempt) IN
    /\ Decides /\ e \in inbox /\ e.type = "outcome" /\ outcome[e.attempt] = "uncertified"
    /\ Drop(e)
    /\ \/ Block(s)
       \/ subtask' = [subtask EXCEPT ![s] =
                         IF @ \in {"done", "cancelled"} THEN @ ELSE "awaiting_decision"]
    /\ UNCHANGED <<server, task, answer, items, receipt, outcome, holdings, executions,
                   run>>

\* decideCapacity and decidePartitionConflict: the Attempt never started.
DecideYield(e) ==
    /\ Decides /\ e \in inbox /\ e.type = "yield"
    /\ Drop(e)
    /\ Block(SubtaskOf(e.attempt)) \/ UNCHANGED subtask
    /\ UNCHANGED <<server, task, answer, items, receipt, outcome, holdings, executions, run>>

\* The kind of the Attempt that replaces a lost one: the payload of a service
\* repair is not carried over.
Again(kind) == IF kind = "repair" THEN "continuation" ELSE kind

\* A plausible bug: the Subtask is reset whatever became of it meanwhile.
DecideLostResets(e) ==
    LET a == e.attempt  s == SubtaskOf(a)  kind == plan[a].kind IN
    /\ Decides /\ e \in inbox /\ e.type = "lost"
    /\ item' = [item EXCEPT ![a] = MarkTerminal(@)]
    /\ subtask' = [subtask EXCEPT ![s] = Expected(kind)]
    /\ inbox' = (inbox \ {e}) \cup {[type |-> "recover", subtask |-> s, kind |-> Again(kind)]}
    /\ UNCHANGED <<server, task, answer, plan, contained, receipt, outcome, holdings,
                   executions, run>>

\* decideSandboxRecovery and recover_workspace_attempt: the item of the lost
\* Attempt is closed, its Subtask returns to the state the Attempt was authorized
\* from, and an Attempt of the same kind is asked for.
DecideLost(e) ==
    LET a == e.attempt  s == SubtaskOf(a)  kind == plan[a].kind IN
    /\ Decides /\ e \in inbox /\ e.type = "lost"
    /\ \/ /\ item' = [item EXCEPT ![a] = MarkTerminal(@)]
          /\ subtask' = [subtask EXCEPT ![s] =
                            IF @ \in {"done", "cancelled"} THEN @ ELSE Expected(kind)]
          /\ inbox' = (inbox \ {e}) \cup {[type |-> "recover", subtask |-> s, kind |-> Again(kind)]}
       \/ /\ Drop(e) /\ Block(s) /\ UNCHANGED item
    /\ UNCHANGED <<server, task, answer, plan, contained, receipt, outcome, holdings,
                   executions, run>>

\* decideDispatch of a recovery: the Subtask must be where the Attempt starts from.
DecideRecover(e) ==
    /\ Decides /\ e \in inbox /\ e.type = "recover"
    /\ Drop(e)
    /\ \/ /\ task = "running" /\ subtask[e.subtask] = Expected(e.kind)
          /\ Authorize(e.subtask, e.kind)
          /\ UNCHANGED subtask
       \/ /\ task # "running" \/ subtask[e.subtask] # Expected(e.kind)
          /\ Block(e.subtask)
          /\ UNCHANGED <<item, plan>>
    /\ UNCHANGED <<server, task, answer, contained, receipt, outcome, holdings, executions,
                   run>>

AttemptsOf(s) == {a \in Attempts : item[a] # "none" /\ SubtaskOf(a) = s}

\* The rounds of service repair a Subtask has had: a cancelled item is none.
Rounds(s) ==
    Cardinality({a \in AttemptsOf(s) : /\ plan[a].kind = "repair"
                                       /\ item[a] \notin {"authorized", "refused", "cancelled"}})

\* requestServiceRepair: every Subtask has ended, the service of the Task is not
\* healthy, and one that is done by a certified Attempt is to repair it.
RequestRepair(s) ==
    /\ process = "up" /\ task = "running"
    /\ \A t \in Subtasks : subtask[t] \in {"done", "cancelled"}
    /\ subtask[s] = "done" /\ \E a \in AttemptsOf(s) : receipt[a] = "completed"
    /\ Rounds(s) \in 0..MaxRepairs - 1
    /\ inbox' = inbox \cup {[type |-> "repair", subtask |-> s, ordinal |-> Rounds(s)]}
    /\ UNCHANGED <<server, task, answer, subtask, items, receipt, outcome, holdings,
                   executions, run>>

\* decideDispatch of a service repair: the rounds are taken in order, and the
\* Subtask may still be done.
Repairable(e) ==
    /\ task = "running" /\ subtask[e.subtask] \in {"awaiting_decision", "done"}
    /\ e.ordinal = Rounds(e.subtask) /\ e.ordinal < MaxRepairs

DecideRepair(e) ==
    /\ Decides /\ e \in inbox /\ e.type = "repair"
    /\ Drop(e)
    /\ \/ Repairable(e) /\ Authorize(e.subtask, "repair") /\ UNCHANGED subtask
       \/ ~ Repairable(e) /\ Block(e.subtask) /\ UNCHANGED <<item, plan>>
    /\ UNCHANGED <<server, task, answer, contained, receipt, outcome, holdings,
                   executions, run>>

\* readPendingTaskResult: the newest receipt is uncertified, unanswered, and no
\* later Attempt is live.  An Attempt with a greater number is a later one.
Pending(a) ==
    /\ receipt[a] = "uncertified" /\ answer[a] = "none"
    /\ task = "running" /\ subtask[SubtaskOf(a)] = "awaiting_decision"
    /\ \A b \in Siblings(a) : b > a => item[b] \notin Indexed /\ receipt[b] = "none"

\* accept_uncertified_result: the acceptance is recorded, its staging is queued.
AcceptResult(a) ==
    /\ Decides /\ Pending(a) /\ \A s \in Subtasks : subtask[s] # "cancelled"
    /\ answer' = [answer EXCEPT ![a] = "accepted"]
    /\ UNCHANGED <<server, task, subtask, items, results, holdings, executions, run>>

\* retry_uncertified_result
RetryResult(a) ==
    /\ Decides /\ Pending(a)
    /\ answer' = [answer EXCEPT ![a] = "retried"]
    /\ subtask' = [subtask EXCEPT ![SubtaskOf(a)] = "ready"]
    /\ UNCHANGED <<server, task, items, results, holdings, executions, run>>

\* drainResultContinuations and stageAcceptedResult: the Subtask is done without a
\* completed Attempt.  The acceptance is the only fence, unless another result waits
\* for an answer; a transition that is not allowed throws, and is tried again.
StageAccepted(a) ==
    /\ Deciding /\ task = "running" /\ answer[a] = "accepted"
    /\ \A b \in Attempts : ~ Pending(b)
    /\ subtask[SubtaskOf(a)] \notin {"ready", "cancelled"}
    /\ subtask' = [subtask EXCEPT ![SubtaskOf(a)] = "done"]
    /\ answer' = [answer EXCEPT ![a] = "staged"]
    /\ UNCHANGED <<server, task, items, results, holdings, executions, run>>

\* resumeRecoveryCandidates: an Attempt failed, or the supervisor lost one and none
\* has a receipt.
Interrupted(s) ==
    \/ /\ subtask[s] \in {"awaiting_decision", "blocked"}
       /\ \E a \in AttemptsOf(s) : receipt[a] \in {"failed", "heartbeat_lost"}
    \/ /\ subtask[s] = "running"
       /\ \E a \in AttemptsOf(s) : item[a] = "uncertain"
       /\ \A a \in AttemptsOf(s) : receipt[a] = "none"

\* resume_task: an interrupted Subtask is recovered, a blocked one is ready again.
Resume(s) ==
    /\ Decides /\ task = "running" /\ SlotFree(s)
    /\ \/ /\ Interrupted(s)
          /\ subtask' = [subtask EXCEPT ![s] = "awaiting_decision"]
          /\ inbox' = inbox \cup {[type |-> "recover", subtask |-> s, kind |-> "continuation"]}
       \/ /\ ~ Interrupted(s) /\ subtask[s] = "blocked"
          /\ subtask' = [subtask EXCEPT ![s] = "ready"]
          /\ inbox' = inbox
    /\ UNCHANGED <<server, task, answer, items, receipt, outcome, holdings, executions, run>>

\* A plausible bug: the residue leaves the recorded containers out.
ResidueOfItems ==
    \E a \in Attempts :
        \/ item[a] \in Indexed \cup {"authorized", "uncertain"}
        \/ claim[a] # "none"
        \/ item[a] = "terminal" /\ a \in contained /\ receipt[a] = "none"

\* TaskResidueReader: what must be gone before a Task may complete.
Residue ==
    \E a \in Attempts :
        \/ item[a] \in Indexed \cup {"authorized", "uncertain"}
        \/ sandbox[a] = "active"
        \/ claim[a] # "none"
        \/ item[a] = "terminal" /\ a \in contained /\ receipt[a] = "none"

\* complete_task
CompleteTask ==
    /\ Decides /\ task = "running"
    /\ \A s \in Subtasks : subtask[s] = "done"
    /\ ~ Residue
    /\ task' = "succeeded"
    /\ UNCHANGED <<server, answer, subtask, items, results, holdings, executions, run>>

-----------------------------------------------------------------------------
\* Cancellation.

\* TaskCancellationCoordinator.apply over a Task, or over one Subtask.
Cancel(ss) ==
    /\ subtask' = [s \in Subtasks |->
                      IF s \in ss /\ subtask[s] # "done" THEN "cancelled" ELSE subtask[s]]
    /\ item' = RequestCancellation(ss)
    /\ UNCHANGED <<server, answer, plan, contained, results, holdings, executions, run>>

CancelTask ==
    /\ Deciding /\ task = "running"
    /\ task' = "cancelled"
    /\ Cancel(Subtasks)

CancelSubtask(s) ==
    /\ Deciding /\ task = "running" /\ subtask[s] \notin {"done", "cancelled"}
    /\ task' = task
    /\ Cancel({s})

\* A plausible bug: an Attempt without a recorded execution is not finished.
RecoverCancellingRecorded(a) ==
    /\ process \in {"converging", "up"} /\ item[a] = "cancelling" /\ sandbox[a] # "none"
    /\ sandbox' = [sandbox EXCEPT ![a] = "removed"]
    /\ executing' = executing \ {a}
    /\ item' = [item EXCEPT ![a] = "cancelled"]
    /\ UNCHANGED <<server, task, answer, subtask, plan, contained, results, holdings, ended,
                   wrote, run>>

\* recover: a recorded execution is stopped and removed first; without a record
\* there is nothing to wait for.
RecoverCancelling(a) ==
    /\ process \in {"converging", "up"} /\ item[a] = "cancelling"
    /\ IF sandbox[a] = "none" THEN UNCHANGED <<sandbox, executing>>
       ELSE /\ sandbox' = [sandbox EXCEPT ![a] = "removed"]
            /\ executing' = executing \ {a}
    /\ item' = [item EXCEPT ![a] = "cancelled"]
    /\ UNCHANGED <<server, task, answer, subtask, plan, contained, results, holdings, ended,
                   wrote, run>>

\* stoppedOwners: the backend of the owner was removed, or none was recorded and
\* the item is closed.
StoppedOwner(a) == sandbox[a] = "removed" \/ (sandbox[a] = "none" /\ item[a] \in Closed)
StoppedOwners == {a \in owner : StoppedOwner(a)}

\* recoverWorkspaceGit, of every recoverPeriodic.
GitRecovery ==
    /\ process = "up" /\ StoppedOwners # {}
    /\ owner' = owner \ StoppedOwners
    /\ UNCHANGED <<server, task, answer, subtask, items, results, claim, executions, run>>

-----------------------------------------------------------------------------
\* Crash and startup.

\* The Server stops.  Containers live on; a host process is in a process group of
\* its own and may.  A launch may have come as far as claimPending, a claim as
\* far as the WorkUnit, with or without the Conversation.
Crash ==
    /\ process # "down" /\ crashes < MaxCrashes
    /\ process' = "down"
    /\ crashes' = crashes + 1
    /\ run' = [a \in Attempts |-> "none"]
    /\ orphans' = {} /\ lost' = {}
    /\ \/ executing' = executing
       \/ backend = "native" /\ executing' \in SUBSET executing
    /\ \/ UNCHANGED <<item, holdings>>
       \/ \E a \in Attempts :
             /\ Deciding /\ item[a] = "pending_launch"
             /\ item' = [item EXCEPT ![a] = "launching"]
             /\ UNCHANGED holdings
       \/ \E a \in Attempts :
             /\ run[a] = "validating" /\ ~ OwnerConflict(a)
             /\ claim' = [claim EXCEPT ![a] = "claimed"]
             /\ owner' \in {owner, owner \cup {a}}
             /\ UNCHANGED item
    /\ UNCHANGED <<backend, readers, task, answer, subtask, plan, contained, results, sandbox,
                   ended, wrote>>

\* A process that outlived its runner ends by itself.
OrphanExit(a) ==
    /\ a \in executing /\ run[a] = "none"
    /\ executing' = executing \ {a}
    /\ UNCHANGED <<server, task, answer, subtask, items, results, holdings, sandbox, ended,
                   wrote, run>>

\* reconcileSettledFailure: the process of an uncertain Attempt is known to have
\* ended and its failure was reported.
Settled(a) ==
    /\ item[a] = "uncertain" /\ receipt[a] = "none"
    /\ a \in ended /\ outcome[a] = "failed" /\ sandbox[a] # "active"

\* recover begins, after a crash or after a startup that threw.
Restart ==
    /\ process \in {"down", "blocked"}
    /\ process' = "stopping"
    /\ receipt' = [a \in Attempts |-> IF Settled(a) THEN "failed" ELSE receipt[a]]
    /\ item' = [a \in Attempts |-> IF Settled(a) THEN MarkTerminal(item[a]) ELSE item[a]]
    /\ claim' = [a \in Attempts |-> IF Settled(a) THEN "none" ELSE claim[a]]
    /\ orphans' = {a \in Attempts : claim'[a] # "none"}
    /\ lost' = {}
    /\ UNCHANGED <<backend, readers, crashes, task, answer, subtask, plan, contained, outcome,
                   inbox, owner, executions, run>>

\* AttemptExecutionBackendReconciler: every container of an active row is stopped
\* and removed, or found missing.
StopBackends ==
    /\ process = "stopping"
    /\ process' = "recording"
    /\ lost' = {a \in Attempts : sandbox[a] = "active"}
    /\ \E missing \in SUBSET lost' :
          sandbox' = [a \in Attempts |->
                         IF a \in missing THEN "missing"
                         ELSE IF a \in lost' THEN "removed" ELSE sandbox[a]]
    /\ executing' = executing \ lost'
    /\ UNCHANGED <<backend, readers, crashes, orphans, task, answer, subtask, items, results,
                   holdings, ended, wrote, run>>

\* The losses are recorded, owners whose backend is gone are released, and what was
\* being cancelled is cancelled.
RecordLosses ==
    LET open == {a \in lost : item[a] \notin {"cancelling", "cancelled"}} IN
    /\ process = "recording"
    /\ process' = "converging"
    /\ item' = [a \in Attempts |->
                   IF a \in open THEN MarkUncertain(item[a])
                   ELSE IF item[a] = "cancelling" THEN "cancelled" ELSE item[a]]
    /\ sandbox' = [a \in Attempts |->
                      IF item[a] = "cancelling" /\ sandbox[a] = "missing" THEN "removed"
                      ELSE sandbox[a]]
    /\ inbox' = inbox \cup {[type |-> "lost", attempt |-> a] : a \in open}
    /\ owner' = owner \ StoppedOwners
    /\ UNCHANGED <<backend, readers, crashes, orphans, lost, task, answer, subtask, plan,
                   contained, receipt, outcome, claim, executing, ended, wrote, run>>

\* A claim startup found: its Attempt lands as heartbeat_lost, unless its backend
\* was lost, and the claim is released.
LandOrphan(a) ==
    /\ process = "converging" /\ a \in orphans
    /\ IF a \in lost \/ ~ Unlanded(a) THEN UNCHANGED <<item, subtask, results>>
       ELSE CanLand(a) /\ LandHeartbeatLost(a)
    /\ orphans' = orphans \ {a}
    /\ claim' = [claim EXCEPT ![a] = "none"]
    /\ UNCHANGED <<backend, readers, process, crashes, lost, task, answer, plan, contained,
                   owner, executions, run>>

\* The landing throws, and startup with it.
StartupThrows(a) ==
    /\ process = "converging" /\ a \in orphans \ lost
    /\ Unlanded(a) /\ ~ CanLand(a)
    /\ process' = "blocked"
    /\ UNCHANGED <<backend, readers, crashes, orphans, lost, task, answer, subtask, items,
                   results, holdings, executions, run>>

\* recover returns; the supervisor takes a launch the crash cut short once more.
StartupDone ==
    /\ process = "converging" /\ orphans = {}
    /\ process' = "up"
    /\ lost' = {}
    /\ item' = [a \in Attempts |->
                   IF item[a] = "launching" /\ a \notin contained THEN "pending_launch"
                   ELSE item[a]]
    /\ UNCHANGED <<backend, readers, crashes, orphans, task, answer, subtask, plan, contained,
                   results, holdings, executions, run>>

-----------------------------------------------------------------------------
Runner(a) ==
    \/ Launch(a)
    \/ ClaimUnit(a)
    \/ NotClaimed(a)
    \/ ReadBegan(a)
    \/ Prepared(a)
    \/ Spawn(a)
    \/ SpawnFails(a)
    \/ Exit(a)
    \/ Seal(a)
    \/ Return(a)
    \/ Settle(a)
    \/ SubmitThrows(a)
    \/ Heartbeat(a)
    \/ Sweep(a)

Kernel ==
    \/ \E s \in Subtasks :
          DispatchReady(s) \/ Resume(s) \/ CancelSubtask(s) \/ RequestRepair(s)
    \/ \E a \in Attempts :
          Reopen(a) \/ InsertBatch(a) \/ AcceptResult(a) \/ RetryResult(a) \/ StageAccepted(a)
    \/ \E e \in inbox :
          \/ DecideOutcome(e) \/ DecideResult(e) \/ DecideYield(e) \/ DecideLost(e)
          \/ DecideRecover(e) \/ DecideRepair(e)
    \/ CompleteTask
    \/ CancelTask

Recovery ==
    \/ \E a \in Attempts :
          RecoverCancelling(a) \/ OrphanExit(a) \/ LandOrphan(a) \/ StartupThrows(a)
    \/ GitRecovery
    \/ Crash
    \/ Restart
    \/ StopBackends
    \/ RecordLosses
    \/ StartupDone

Next == (\E a \in Attempts : Runner(a)) \/ Kernel \/ Recovery

Spec == Init /\ [][Next]_vars

\* A stop of a container succeeds in the end, an account that could not be
\* activated is activated again, and startup goes through its phases.
Fairness ==
    /\ \A a \in Attempts : WF_vars(RecoverCancelling(a))
    /\ WF_vars(Restart) /\ WF_vars(StopBackends) /\ WF_vars(RecordLosses)

LiveSpec == Spec /\ Fairness

-----------------------------------------------------------------------------
\* A Subtask has at most one Attempt between its insertion and its closing: no
\* order of launches, cancellations, losses and recoveries gets around the
\* unique index of kernel_dispatch_items.
OneLiveItem ==
    \A a \in Attempts : item[a] \in Indexed => \A b \in Siblings(a) : item[b] \notin Indexed

Credited(a) == receipt[a] = "completed" /\ outcome[a] = "completed"
Finished(a) == Credited(a) \/ answer[a] = "staged"
Repaired(s) == \E a \in AttemptsOf(s) : plan[a].kind = "repair"

\* A Subtask that is done is so by an Attempt of it, which completed it or whose
\* result the user accepted; it stays done, and no second Attempt completes it,
\* unless the Kernel authorized a service repair of it: no late landing, loss or
\* recovery undoes or repeats a completion.
CompletionIsOwned ==
    \A s \in Subtasks :
        /\ subtask[s] = "done" => \E a \in AttemptsOf(s) : Finished(a)
        /\ (\E a \in AttemptsOf(s) : Finished(a)) => subtask[s] = "done" \/ Repaired(s)
        /\ \A a, b \in AttemptsOf(s) : Credited(a) /\ Credited(b) => a = b \/ Repaired(s)

\* A receipt is only ever stored with its item closed and an outcome stored.
ReceiptSealed ==
    \A a \in Attempts : receipt[a] # "none" => item[a] \in Closed /\ outcome[a] # "none"

\* A Task whose executors run in recorded containers succeeds only when none of
\* them executes any more, one whose Attempt was given up long ago included: the
\* residue check of complete_task sees every one.
SucceedsQuiescent ==
    [][task # "succeeded" /\ task' = "succeeded" /\ backend = "docker" => executing = {}]_vars

\* Cancelled is final for a Task and for a Subtask: no late start, landing or
\* recovery of an Attempt undoes it.
CancelledIsFinal ==
    [][/\ task = "cancelled" => task' = "cancelled"
       /\ \A s \in Subtasks : subtask[s] = "cancelled" => subtask'[s] = "cancelled"]_vars

\* An Attempt that is being cancelled is closed, whatever its runner does and
\* however often the Server is restarted: the slot of the Conversation, which
\* waits for it, is released.
CancellingSettles ==
    \A a \in Attempts : item[a] = "cancelling" ~> item[a] \in Closed

\* What the comment of landHeartbeatLost says: an Attempt that wrote and lost its
\* heartbeat is left uncertain, never landed as an ordinary retryable failure.
UncertainWriteFenced == \A a \in Attempts : receipt[a] = "heartbeat_lost" => a \notin wrote

\* What the comment of WorkspaceGitRecovery says: only the removal of its backend
\* proves that a writer is gone, so until then the Conversation is its own.
WriterKeepsOwner == \A a \in executing : ~ Reads(a) => a \in owner

\* The ledger an observer of the tables sees.
Phase(i) ==
    CASE i \in {"none", "authorized", "refused"} -> "absent"
      [] i \in {"pending_launch", "launching", "running"} -> "open"
      [] i = "uncertain" -> "doubtful"
      [] i = "cancelling" -> "stopping"
      [] i \in Closed -> "closed"

Ledger == INSTANCE AttemptLedger WITH
    phase <- [a \in Attempts |-> Phase(item[a])],
    aim <- [a \in Attempts |-> SubtaskOf(a)],
    receipted <- {a \in Attempts : receipt[a] # "none"},
    credited <- {a \in Attempts : Credited(a)},
    accepted <- {a \in Attempts : answer[a] = "staged"},
    permits <- {a \in Attempts : item[a] = "authorized" /\ plan[a].kind = "repair"},
    done <- {s \in Subtasks : subtask[s] = "done"},
    fenced <- {s \in Subtasks : subtask[s] = "cancelled"}

\* Every step of the lifecycle, crashes and recoveries included, is a step the
\* ledger allows.
KeepsLedger == Ledger!Spec

====
