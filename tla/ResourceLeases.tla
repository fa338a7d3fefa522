---------------------------- MODULE ResourceLeases ----------------------------
(***************************************************************************)
(* Resource leases, resource waits and the Conversation owner fence.       *)
(*                                                                         *)
(* An Attempt claims leases on every partition its Subtask needs, takes    *)
(* the Conversation owner row, runs in a backend (a container that outlives*)
(* a crash of the Server), and gives both back when its terminal receipt   *)
(* is sealed.  A refused claim leaves wait rows that a later release must  *)
(* resolve; until then the Task stays parked.                              *)
(*                                                                         *)
(* An element of Attempts is a slot for Attempt ids: when an Attempt has   *)
(* left no lease and no owner behind, the slot stands for the next one.    *)
(* Wait rows are kept per Subtask and claim: rows of different Attempts    *)
(* of one Subtask are treated alike by every query.                        *)
(***************************************************************************)
EXTENDS FiniteSets, Integers

CONSTANTS
    Attempts,
    Subtasks,
    Tasks,
    Conversations,
    SubtaskOf,      \* Attempts -> Subtasks
    TaskOf,         \* Subtasks -> Tasks
    ConvOf,         \* Subtasks -> Conversations
    Access,         \* Subtasks -> access mode of the Conversation owner
    Claims,         \* Subtasks -> claims, records of a partition and an access
    Overlap,        \* pairs of partitions that overlap
    Fenced,         \* Attempts that take a Conversation owner
    Cancellable,    \* Subtasks a user may cancel
    Unsealable,     \* Attempts whose terminal write may fail
    Stalls,         \* Attempts whose runner may miss its heartbeats
    MaxCrashes

Conflicts(c, d) ==
    /\ <<c.partition, d.partition>> \in Overlap
    /\ c.access = "write" \/ d.access = "write"

AllClaims == UNION {Claims[s] : s \in Subtasks}

ASSUME ConstantsFit ==
    /\ SubtaskOf \in [Attempts -> Subtasks]
    /\ TaskOf \in [Subtasks -> Tasks]
    /\ ConvOf \in [Subtasks -> Conversations]
    /\ Access \in [Subtasks -> {"read", "write"}]
    /\ \A c, d \in AllClaims : Conflicts(c, d) => Conflicts(d, c)
    /\ Fenced \subseteq Attempts
    /\ Stalls \subseteq Attempts
    /\ MaxCrashes \in Nat

VARIABLES
    leases,     \* Attempts with unreleased leases
    fresh,      \* Attempts whose leases have not reached expires_at
    revoked,    \* Attempts with revocation_requested_at on their leases
    owners,     \* Attempts with a conversation_attempt_owners row
    waiting,    \* per Subtask, the claims with a 'waiting' row
    resolved,   \* per Subtask, the claims with a 'resolved' row
    subtask,    \* status of each Subtask
    parked,     \* Tasks with a waiting kernel_capacity dependency
    due,        \* Subtasks a pending Kernel dispatch will look at
    phase,      \* where the runner of each Attempt is
    executing,  \* Attempts whose backend is alive
    up,         \* FALSE from a crash until startup recovery is over
    crashes

vars == <<leases, fresh, revoked, owners, waiting, resolved, subtask, parked, due,
          phase, executing, up, crashes>>
leaseVars == <<leases, fresh, revoked>>
waitVars == <<waiting, resolved>>

Phases == {"idle", "refused", "refused_bare", "running", "exited", "unsealed",
           "lost"}
Statuses == {"ready", "running", "blocked", "done", "cancelled"}

\* The variables range over what the tables and the runner can hold.
TypeOK ==
    /\ leases \subseteq Attempts
    /\ fresh \subseteq leases
    /\ revoked \subseteq leases
    /\ owners \subseteq Fenced
    /\ waiting \in [Subtasks -> SUBSET AllClaims]
    /\ resolved \in [Subtasks -> SUBSET AllClaims]
    /\ subtask \in [Subtasks -> Statuses]
    /\ parked \subseteq Tasks
    /\ due \subseteq Subtasks
    /\ phase \in [Attempts -> Phases]
    /\ executing \subseteq Attempts
    /\ up \in BOOLEAN
    /\ crashes \in 0..MaxCrashes

\* No lease is held; some Subtasks may be done already.
Init ==
    /\ leases = {} /\ fresh = {} /\ revoked = {} /\ owners = {}
    /\ waiting = [s \in Subtasks |-> {}]
    /\ resolved = [s \in Subtasks |-> {}]
    /\ subtask \in [Subtasks -> {"ready", "done"}]
    /\ parked = {}
    /\ due = Subtasks
    /\ phase = [a \in Attempts |-> "idle"]
    /\ executing = {}
    /\ up = TRUE
    /\ crashes = 0

-----------------------------------------------------------------------------
(* What the lease table answers.                                           *)

ClaimsOf(a) == Claims[SubtaskOf[a]]

\* released_at IS NULL AND (expires_at > now OR the Attempt has an owner row)
Active == leases \cap (fresh \cup owners)

\* A plausible bug: an expired lease no longer counts, owner row or not.
HeldAgainstFresh(a) ==
    {c \in ClaimsOf(a) :
        \E b \in (leases \cap fresh) \ {a} : \E d \in ClaimsOf(b) : Conflicts(c, d)}

\* The claims of Attempt a that meet an active lease of another Attempt.
HeldAgainst(a) ==
    {c \in ClaimsOf(a) :
        \E b \in Active \ {a} : \E d \in ClaimsOf(b) : Conflicts(c, d)}

\* pendingWriters: write waits, waiting or resolved, of Subtasks still ready.
PendingWrites(s) ==
    IF subtask[s] = "ready"
    THEN {c \in waiting[s] \cup resolved[s] : c.access = "write"}
    ELSE {}

\* A read claim that a queued writer among the Subtasks rs closes off.
ClosedBy(rs, c) ==
    /\ c.access = "read"
    /\ \E r \in rs : \E d \in PendingWrites(r) : Conflicts(c, d)

\* The writers that count for a claim of Subtask s are those of the others.
Closed(s, c) == ClosedBy(Subtasks \ {s}, c)

\* A plausible bug: readers join the cohort past a queued writer.
QueuedAgainstNone(a) == {}

QueuedAgainst(a) ==
    {c \in ClaimsOf(a) : Closed(SubtaskOf[a], c)}

\* A plausible bug: the waits are looked at before the lease is released.
SatisfiedBefore(a, gone, s) ==
    {c \in waiting[s] :
        /\ ~ ClosedBy(Subtasks \ (gone \cup {s}), c)
        /\ ~ \E b \in Active : \E d \in ClaimsOf(b) : Conflicts(c, d)}

\* resolveSatisfiedWaits once Attempt a has released: a wait stays while a
\* queued writer closes it or an active lease conflicts with it.  The waits of
\* the Subtasks in `gone` have been cancelled before.
Satisfied(a, gone, s) ==
    {c \in waiting[s] :
        /\ ~ ClosedBy(Subtasks \ (gone \cup {s}), c)
        /\ ~ \E b \in Active \ {a} : \E d \in ClaimsOf(b) : Conflicts(c, d)}

ResolveSatisfiedWaits(a) ==
    /\ waiting' = [s \in Subtasks |-> waiting[s] \ Satisfied(a, {}, s)]
    /\ resolved' = [s \in Subtasks |-> resolved[s] \cup Satisfied(a, {}, s)]

\* A release of the service: waits are resolved only when a row changed.
ReleaseLeases(a) ==
    /\ leases' = leases \ {a}
    /\ fresh' = fresh \ {a}
    /\ revoked' = revoked \ {a}
    /\ IF a \in leases
       THEN ResolveSatisfiedWaits(a)
       ELSE UNCHANGED waitVars

\* claimConversation: writers exclude everyone, readers of one Task share.  It also
\* refuses while the worktree is not in use or holds changes that are not delivered,
\* and a planner that owns it: matters of WorkspaceMerge, left out here.
OwnerBusy(a) ==
    LET s == SubtaskOf[a] IN
    \E b \in owners : LET r == SubtaskOf[b] IN
        /\ b # a /\ ConvOf[r] = ConvOf[s]
        /\ \/ TaskOf[r] # TaskOf[s]
           \/ Access[r] = "write" \/ Access[s] = "write"

\* Its effect, for an Attempt that runs in the Conversation workspace.
ClaimConversation(a) == owners' = owners \cup ({a} \cap Fenced)

-----------------------------------------------------------------------------
(* The runner.  It has no await between its lease claim and its owner      *)
(* claim, nor between the two releases.                                    *)

\* The Subtasks of Task t, the frontier the next dispatch of t evaluates.
Frontier(t) == {s \in Subtasks : TaskOf[s] = t}

\* A dispatch starts a new Attempt of a ready Subtask in a slot that holds
\* nothing, one Attempt of a Subtask at a time.
Dispatchable(a) ==
    /\ up
    /\ SubtaskOf[a] \in due /\ subtask[SubtaskOf[a]] = "ready"
    /\ phase[a] \in {"idle", "unsealed"} /\ a \notin leases \cup owners
    /\ \A b \in Attempts \ {a} :
           SubtaskOf[b] = SubtaskOf[a] => phase[b] \in {"idle", "unsealed"}

\* SqliteResourceLeaseRepository.claim, granted.
Grantable(a) == HeldAgainst(a) = {} /\ QueuedAgainst(a) = {}

\* Its effect: the leases are inserted and waits of the Subtask cancelled.
InsertLeases(a) ==
    /\ leases' = leases \cup {a}
    /\ fresh' = fresh \cup {a}
    /\ waiting' = [waiting EXCEPT ![SubtaskOf[a]] = {}]
    /\ resolved' = [resolved EXCEPT ![SubtaskOf[a]] = {}]
    /\ UNCHANGED revoked

\* The claim is granted, claimConversation succeeds or is not needed, and the
\* executor starts.
Start(a) ==
    /\ Dispatchable(a) /\ Grantable(a)
    /\ a \in Fenced => ~ OwnerBusy(a)
    /\ InsertLeases(a)
    /\ ClaimConversation(a)
    /\ subtask' = [subtask EXCEPT ![SubtaskOf[a]] = "running"]
    /\ phase' = [phase EXCEPT ![a] = "running"]
    /\ executing' = executing \cup {a}
    /\ due' = due \ {SubtaskOf[a]}
    /\ UNCHANGED <<parked, up, crashes>>

\* The claim is refused: a wait row per refused claim.  The outcome names the
\* conflicting leases, none when only a queued writer stood in the way.
ClaimRefused(a) ==
    LET held == HeldAgainst(a)
        queued == {c \in QueuedAgainst(a) :
                      \A d \in held : d.partition # c.partition}
    IN  /\ Dispatchable(a) /\ ~ Grantable(a)
        /\ waiting' = [waiting EXCEPT ![SubtaskOf[a]] = @ \cup held \cup queued]
        /\ phase' = [phase EXCEPT ![a] =
                        IF held # {} THEN "refused" ELSE "refused_bare"]
        /\ due' = due \ {SubtaskOf[a]}
        /\ UNCHANGED <<leaseVars, owners, resolved, subtask, parked, executing,
                       up, crashes>>

\* The claim is granted but claimConversation fails: the lease goes back, which
\* leaves the waits of the Subtask cancelled, resolves what they closed off, and
\* no lease is named.
OwnerRefused(a) ==
    LET mine == SubtaskOf[a]
        satisfied(s) == Satisfied(a, {mine}, s)
    IN  /\ Dispatchable(a) /\ Grantable(a)
        /\ a \in Fenced /\ OwnerBusy(a)
        /\ waiting' = [s \in Subtasks |->
                          IF s = mine THEN {} ELSE waiting[s] \ satisfied(s)]
        /\ resolved' = [s \in Subtasks |->
                          IF s = mine THEN {} ELSE resolved[s] \cup satisfied(s)]
        /\ phase' = [phase EXCEPT ![a] = "refused_bare"]
        /\ due' = due \ {mine}
        /\ UNCHANGED <<leaseVars, owners, subtask, parked, executing, up, crashes>>

\* decidePartitionConflict and its application: with leases to wait for the
\* Task is parked, without them the Subtask is blocked.
DecideConflict(a) ==
    /\ up /\ phase[a] \in {"refused", "refused_bare"}
    /\ IF phase[a] = "refused"
       THEN /\ parked' = parked \cup {TaskOf[SubtaskOf[a]]}
            /\ UNCHANGED subtask
       ELSE /\ subtask' = [subtask EXCEPT ![SubtaskOf[a]] =
                              IF @ = "ready" THEN "blocked" ELSE @]
            /\ UNCHANGED parked
    /\ phase' = [phase EXCEPT ![a] = "idle"]
    /\ UNCHANGED <<leaseVars, owners, waitVars, due, executing, up, crashes>>

\* A plausible bug: the runner goes on to settle without removing the backend.
ExitLeavesBackend(a) ==
    /\ up /\ phase[a] = "running"
    /\ \E next \in {"done", "ready"} :
          subtask' = [subtask EXCEPT ![SubtaskOf[a]] =
                         IF @ = "running" THEN next ELSE @]
    /\ phase' = [phase EXCEPT ![a] = "exited"]
    /\ UNCHANGED <<leaseVars, owners, waitVars, parked, due, executing, up, crashes>>

\* The executor ends, its backend is removed and its terminal receipt landed:
\* the Subtask is done, or ready for another Attempt.
Exit(a) ==
    /\ up /\ phase[a] = "running"
    /\ executing' = executing \ {a}
    /\ \E next \in {"done", "ready"} :
          subtask' = [subtask EXCEPT ![SubtaskOf[a]] =
                         IF @ = "running" THEN next ELSE @]
    /\ phase' = [phase EXCEPT ![a] = "exited"]
    /\ UNCHANGED <<leaseVars, owners, waitVars, parked, due, up, crashes>>

\* Receipt and workspace are sealed: the owner row goes, then the leases, and
\* the outcome is submitted, which dispatches what is ready in the Task.
Settle(a) ==
    /\ up /\ phase[a] = "exited"
    /\ owners' = owners \ {a}
    /\ ReleaseLeases(a)
    /\ phase' = [phase EXCEPT ![a] = "idle"]
    /\ due' = due \cup Frontier(TaskOf[SubtaskOf[a]])
    /\ UNCHANGED <<subtask, parked, executing, up, crashes>>

\* The receipt or the seal failed: the runner keeps both and submits the outcome.
Unseal(a) ==
    /\ up /\ phase[a] = "exited" /\ a \in Unsealable
    /\ phase' = [phase EXCEPT ![a] = "unsealed"]
    /\ due' = due \cup Frontier(TaskOf[SubtaskOf[a]])
    /\ UNCHANGED <<leaseVars, owners, waitVars, subtask, parked, executing, up,
                   crashes>>

-----------------------------------------------------------------------------
(* Time.                                                                   *)

\* expires_at passes.  The runner's heartbeat, three times per lease, prevents
\* it unless the lease is revoked or the process stalls.  The timer is cleared a
\* moment before the lease is released: an expiry in between is one of a stall.
Expire(a) ==
    /\ a \in fresh
    /\ phase[a] \in {"running", "exited"} => a \in revoked \cup Stalls
    /\ fresh' = fresh \ {a}
    /\ UNCHANGED <<leases, revoked, owners, waitVars, subtask, parked, due, phase,
                   executing, up, crashes>>

\* heartbeat renews an unrevoked lease that is active, expired or not.
Heartbeat(a) ==
    /\ up /\ phase[a] = "running"
    /\ a \in Active \ (fresh \cup revoked)
    /\ fresh' = fresh \cup {a}
    /\ UNCHANGED <<leases, revoked, owners, waitVars, subtask, parked, due, phase,
                   executing, up, crashes>>

-----------------------------------------------------------------------------
(* Cancellation, the capacity sweep, crash and recovery.                   *)

\* requestDependentCancellation: leases are revoked and 'waiting' rows are
\* cancelled; 'resolved' rows stay.
Cancel(s) ==
    /\ up /\ s \in Cancellable /\ subtask[s] \notin {"done", "cancelled"}
    /\ revoked' = revoked \cup {a \in leases : SubtaskOf[a] = s}
    /\ waiting' = [waiting EXCEPT ![s] = {}]
    /\ subtask' = [subtask EXCEPT ![s] = "cancelled"]
    /\ UNCHANGED <<leases, fresh, owners, resolved, parked, due, phase, executing, up,
                   crashes>>

\* TaskCancellationCoordinator.recover: the backend is stopped and removed, then
\* the revoked leases are released.  The owner row is left to its own recovery.
CancelRemove(a) ==
    /\ a \in revoked
    /\ executing' = executing \ {a}
    /\ ReleaseLeases(a)
    /\ phase' = [phase EXCEPT ![a] = IF @ = "running" THEN "exited" ELSE @]
    /\ UNCHANGED <<owners, subtask, parked, due, up, crashes>>

\* clearStaleCapacityBlocks: a Task without a 'waiting' row is unparked and
\* promoted again.
ClearBlock(t) ==
    /\ up /\ t \in parked
    /\ \A s \in Subtasks : TaskOf[s] = t => waiting[s] = {}
    /\ parked' = parked \ {t}
    /\ due' = due \cup Frontier(t)
    /\ UNCHANGED <<leaseVars, owners, waitVars, subtask, phase, executing, up,
                   crashes>>

\* The Server process dies: the Attempts in `live` lose their runners.
Down(live) ==
    /\ crashes < MaxCrashes
    /\ crashes' = crashes + 1
    /\ up' = FALSE
    /\ phase' = [a \in Attempts |-> IF a \in live THEN "lost" ELSE phase[a]]

Live == {a \in Attempts : phase[a] \in {"refused", "refused_bare", "running", "exited"}}

\* Backends and every table survive a crash.
Crash ==
    /\ Down(Live)
    /\ UNCHANGED <<leaseVars, owners, waitVars, subtask, parked, due, executing>>

\* A crash between the lease claim and the owner claim of Attempt a.
CrashClaiming(a) ==
    /\ Dispatchable(a) /\ Grantable(a)
    /\ InsertLeases(a)
    /\ Down(Live \cup {a})
    /\ UNCHANGED <<owners, subtask, parked, due, executing>>

\* Startup reconciliation removes the backend of an Attempt that lost its runner.
RecoverBackend(a) ==
    /\ ~ up /\ phase[a] = "lost" /\ a \in executing
    /\ executing' = executing \ {a}
    /\ UNCHANGED <<leaseVars, owners, waitVars, subtask, parked, due, phase, up,
                   crashes>>

\* WorkspaceGitRecovery over stoppedOwners, at startup and on every timer:
\* durable backend removal is what lets an owner row go.
RecoverOwner(a) ==
    /\ a \in owners \ executing /\ phase[a] # "running"
    /\ owners' = owners \ {a}
    /\ UNCHANGED <<leaseVars, waitVars, subtask, parked, due, phase, executing, up,
                   crashes>>

\* Startup releases the leases of an orphaned claim once its backend is gone.
ReleaseReconciled(a) ==
    /\ ~ up /\ phase[a] \in {"lost", "unsealed"}
    /\ a \in leases \ (executing \cup owners)
    /\ ReleaseLeases(a)
    /\ UNCHANGED <<owners, subtask, parked, due, phase, executing, up, crashes>>

\* reconcileSettledFailure goes to the repository: no wait is resolved.
ReconcileSettledFailure(a) ==
    /\ ~ up /\ phase[a] = "unsealed" /\ a \in leases \ executing
    /\ leases' = leases \ {a}
    /\ fresh' = fresh \ {a}
    /\ revoked' = revoked \ {a}
    /\ UNCHANGED <<owners, waitVars, subtask, parked, due, phase, executing, up,
                   crashes>>

\* Recovery is over when no lost Attempt holds anything; the Kernel makes the
\* Subtasks they were running ready and dispatches their Tasks and every Task
\* that is not parked.
Recovered ==
    LET lost == {a \in Attempts : phase[a] = "lost"} IN
    /\ ~ up
    /\ lost \cap (leases \cup owners \cup executing) = {}
    /\ up' = TRUE
    /\ phase' = [a \in Attempts |-> IF a \in lost THEN "idle" ELSE phase[a]]
    /\ subtask' = [s \in Subtasks |->
                      IF subtask[s] = "running" THEN "ready" ELSE subtask[s]]
    /\ due' = due \cup {s \in Subtasks :
                  TaskOf[s] \in {TaskOf[SubtaskOf[a]] : a \in lost} \cup (Tasks \ parked)}
    /\ UNCHANGED <<leaseVars, owners, waitVars, parked, executing, crashes>>

Recovery(a) ==
    \/ CancelRemove(a) \/ RecoverBackend(a) \/ RecoverOwner(a)
    \/ ReleaseReconciled(a)

Next ==
    \/ \E a \in Attempts :
          \/ Start(a) \/ ClaimRefused(a) \/ OwnerRefused(a) \/ DecideConflict(a)
          \/ Exit(a) \/ Settle(a) \/ Unseal(a)
          \/ Expire(a) \/ Heartbeat(a)
          \/ CrashClaiming(a)
          \/ CancelRemove(a) \/ RecoverBackend(a) \/ RecoverOwner(a)
          \/ ReleaseReconciled(a) \/ ReconcileSettledFailure(a)
    \/ \E s \in Subtasks : Cancel(s)
    \/ \E t \in Tasks : ClearBlock(t)
    \/ Crash \/ Recovered

Spec == Init /\ [][Next]_vars

\* The dispatch of a Subtask.
Dispatch(s) ==
    \E a \in Attempts :
        /\ SubtaskOf[a] = s
        /\ Start(a) \/ ClaimRefused(a) \/ OwnerRefused(a)

\* Executors end, runners and decisions go on, the account timer keeps sweeping
\* and a ready Subtask is dispatched.
RunnerFairness(a) ==
    /\ WF_vars(DecideConflict(a))
    /\ WF_vars(Exit(a))
    /\ WF_vars(Settle(a) \/ Unseal(a))
    /\ WF_vars(Recovery(a))
Fairness ==
    /\ \A a \in Attempts : RunnerFairness(a)
    /\ \A s \in Subtasks : WF_vars(Dispatch(s))
    /\ \A t \in Tasks : WF_vars(ClearBlock(t))
    /\ WF_vars(Recovered)

FairSpec == Spec /\ Fairness

-----------------------------------------------------------------------------
(* Properties.                                                             *)

Clash(a, b) == \E c \in ClaimsOf(a), d \in ClaimsOf(b) : Conflicts(c, d)

\* Two active leases of different Attempts never conflict, whatever expired,
\* was revoked or was recovered on the way (claim against the lease table and
\* the owner fence).
LeaseExclusion ==
    \A a, b \in Active : a # b => ~ Clash(a, b)

\* Two Conversation Attempts with conflicting claims never have a backend alive
\* at once, across missed heartbeats, crashes and cancellations: the owner row
\* fences an expired lease until the backend is removed.
ExclusiveExecution ==
    \A a, b \in executing \cap Fenced : a # b => ~ Clash(a, b)

\* Subtasks that read one partition and write another: such a writer is blocked,
\* with its write still queued, when a queued writer closes its read off.
Mixed == {r \in Subtasks : \E c, d \in Claims[r] : c.access = "read" /\ d.access = "write"}

\* Subtasks whose rivals all heartbeat in time, seal their terminals and are not
\* cancelled or blocked: an expiry and a writer that leaves the queue resolve
\* nobody's wait.
Unsteady == {SubtaskOf[a] : a \in Stalls \cup Unsealable} \cup Cancellable \cup Mixed
Steady == {s \in Subtasks : \A c \in Claims[s] :
              \A r \in Unsteady : \A d \in Claims[r] : ~ Conflicts(c, d)}

\* While the Server is up a 'waiting' row has a reason: an active lease that
\* conflicts with it or a queued writer that closes it off.  Otherwise nothing
\* would wake it (ResourceLeaseService.release resolves what it satisfies).
WaitHasReason ==
    up => \A s \in Steady : \A c \in waiting[s] :
              \/ Closed(s, c)
              \/ \E b \in Active : \E d \in ClaimsOf(b) : Conflicts(c, d)

\* Every recorded wait of a steady Subtask ends: the release, or the recovery, that
\* frees the partition resolves it, so that the capacity sweep can unpark its Task.
WaitResolves ==
    \A s \in Steady : waiting[s] # {} ~> waiting[s] = {}

\* Every recorded wait ends, also one for a lease that expires instead of being
\* released (resolveSatisfiedWaits after an expiry).
ExpiredWaitResolves ==
    \A s \in Subtasks : waiting[s] # {} ~> waiting[s] = {}

\* A queued writer is served: while it waits for a cohort of readers, later
\* readers cannot overtake it for ever, so its Subtask runs (or is blocked or
\* cancelled).
WriterServed ==
    \A s \in {s \in Steady : \E c \in Claims[s] : c.access = "write"} :
        PendingWrites(s) # {} ~> subtask[s] # "ready"

\* A claim refused with a wait row on record leads to a wait: its Subtask is
\* not blocked for the user while the row says that it waits.
RefusalWaits ==
    \A s \in Subtasks : subtask[s] = "blocked" => waiting[s] = {}
=============================================================================
