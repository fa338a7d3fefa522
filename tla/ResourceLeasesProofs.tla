------------------------- MODULE ResourceLeasesProofs -------------------------
(***************************************************************************)
(* Proofs about ResourceLeases, for every set of Attempts, Subtasks and    *)
(* claims and every symmetric conflict relation.                           *)
(*                                                                         *)
(* The inductive invariant adds to type correctness and lease exclusion    *)
(* what the runner keeps between its steps: a live backend of a            *)
(* Conversation Attempt is covered by a lease and an owner row, and an     *)
(* Attempt that reached its settlement has no backend left.                *)
(*                                                                         *)
(* WaitInv says why a wait goes on: while a steady Subtask waits, a lease  *)
(* nobody released conflicts with its claim or a queued writer closes it   *)
(* off.                                                                    *)
(***************************************************************************)
EXTENDS ResourceLeases, TLAPS

\* A live Conversation backend has its lease and its owner row.
Covered == executing \cap Fenced \subseteq leases \cap owners

\* The runner settles only what it stopped.
Stopped == \A a \in Attempts : phase[a] = "exited" => a \notin executing

IInv == TypeOK /\ LeaseExclusion /\ Covered /\ Stopped

\* A wait row is for a claim of its own Subtask.
OwnWaits == \A s \in Subtasks : waiting[s] \cup resolved[s] \subseteq Claims[s]

\* Who holds leases: a runner, a failed terminal or a crashed Attempt; the leases
\* of a steady one expire only after a crash, and a crash is over when it is up.
Holders ==
    /\ \A a \in leases :
          /\ phase[a] \in {"running", "exited", "unsealed", "lost"}
          /\ phase[a] = "unsealed" => SubtaskOf[a] \in Unsteady
          /\ a \in revoked => SubtaskOf[a] \in Unsteady
          /\ a \in fresh \/ phase[a] = "lost" \/ SubtaskOf[a] \in Unsteady
    /\ up => \A a \in Attempts : phase[a] # "lost"

\* A Subtask about to be blocked has no write queued, unless it also reads.
Bare ==
    \A a \in Attempts : phase[a] = "refused_bare" =>
        \/ SubtaskOf[a] \in Mixed
        \/ \A c \in waiting[SubtaskOf[a]] \cup resolved[SubtaskOf[a]] : c.access # "write"

\* A wait of a steady Subtask is closed off or meets an unreleased lease.
Reasons ==
    \A s \in Steady : \A c \in waiting[s] :
        \/ Closed(s, c)
        \/ \E b \in leases : \E d \in ClaimsOf(b) : Conflicts(c, d)

WaitInv == OwnWaits /\ Holders /\ Bare /\ Reasons

-----------------------------------------------------------------------------
(* Facts about the lease table.                                            *)

\* Clash is symmetric, as resourceClaimsConflict is.
LEMMA ClashSymmetric ==
    ASSUME ConstantsFit, NEW a \in Attempts, NEW b \in Attempts, Clash(a, b)
    PROVE  Clash(b, a)
<1>1. PICK c \in ClaimsOf(a), d \in ClaimsOf(b) : Conflicts(c, d)
  BY DEF Clash
<1>2. c \in AllClaims /\ d \in AllClaims
  BY DEF AllClaims, ClaimsOf, ConstantsFit
<1>3. Conflicts(d, c)
  BY <1>1, <1>2 DEF ConstantsFit
<1> QED
  BY <1>1, <1>3 DEF Clash

\* The claims of an Attempt are claims of some Subtask.
LEMMA ClaimsTyped ==
    ASSUME ConstantsFit, NEW a \in Attempts
    PROVE  SubtaskOf[a] \in Subtasks /\ ClaimsOf(a) \subseteq AllClaims
  BY DEF AllClaims, ClaimsOf, ConstantsFit

\* A step that adds no active lease keeps exclusion.
LEMMA ShrinkKeeps ==
    ASSUME LeaseExclusion, Active' \subseteq Active
    PROVE  LeaseExclusion'
  BY DEF LeaseExclusion, Clash, ClaimsOf

\* A granted claim (HeldAgainst is empty) keeps exclusion.
LEMMA GrantKeeps ==
    ASSUME ConstantsFit, IInv, NEW a \in Attempts, HeldAgainst(a) = {},
           Active' \subseteq Active \cup {a}
    PROVE  LeaseExclusion'
<1>1. Active \subseteq Attempts
  BY DEF IInv, TypeOK, Active
<1>2. ASSUME NEW b \in Active, b # a PROVE ~ Clash(a, b) /\ ~ Clash(b, a)
  <2>1. ~ Clash(a, b)
    BY <1>2 DEF HeldAgainst, Clash
  <2> QED
    BY <2>1, <1>1, ClashSymmetric
<1>3. \A b, d \in Active : b # d => ~ Clash(b, d)
  BY DEF IInv, LeaseExclusion
<1>4. \A b, d \in Active' : b # d => ~ Clash(b, d)
  BY <1>2, <1>3
<1> QED
  BY <1>4, Zenon DEF LeaseExclusion, Clash, ClaimsOf

\* Resolving waits keeps the wait rows well typed.
LEMMA ResolveTyped ==
    ASSUME TypeOK, NEW a \in Attempts, ResolveSatisfiedWaits(a)
    PROVE  /\ waiting' \in [Subtasks -> SUBSET AllClaims]
           /\ resolved' \in [Subtasks -> SUBSET AllClaims]
<1>1. \A s \in Subtasks : Satisfied(a, {}, s) \subseteq waiting[s]
  BY DEF Satisfied
<1> QED
  BY <1>1 DEF TypeOK, ResolveSatisfiedWaits

\* A release keeps the tables well typed and takes only a's lease away.
LEMMA ReleaseTyped ==
    ASSUME TypeOK, NEW a \in Attempts, ReleaseLeases(a)
    PROVE  /\ leases' = leases \ {a} /\ fresh' = fresh \ {a} /\ revoked' = revoked \ {a}
           /\ waiting' \in [Subtasks -> SUBSET AllClaims]
           /\ resolved' \in [Subtasks -> SUBSET AllClaims]
<1>1. CASE a \in leases
  BY <1>1, ResolveTyped DEF ReleaseLeases
<1>2. CASE a \notin leases
  BY <1>2 DEF ReleaseLeases, TypeOK, waitVars
<1> QED
  BY <1>1, <1>2

\* A crash keeps the runner's variables well typed.
LEMMA DownTyped ==
    ASSUME ConstantsFit, TypeOK, NEW live, Down(live)
    PROVE  phase' \in [Attempts -> Phases] /\ up' \in BOOLEAN /\ crashes' \in 0..MaxCrashes
<1>1. crashes' \in 0..MaxCrashes
  BY DEF ConstantsFit, TypeOK, Down
<1>2. phase' \in [Attempts -> Phases] /\ up' \in BOOLEAN
  BY Zenon DEF TypeOK, Down, Phases
<1> QED
  BY <1>1, <1>2

-----------------------------------------------------------------------------
(* Every action keeps the inductive invariant.                             *)

\* A granted start: lease, owner row and backend appear together.
LEMMA StartKeeps ==
    ASSUME ConstantsFit, IInv, NEW a \in Attempts, Start(a)
    PROVE  IInv'
<1>1. TypeOK'
  BY DEF IInv, TypeOK, Phases, Statuses, Start, InsertLeases, ClaimConversation
<1>2. LeaseExclusion'
  <2>1. Active' \subseteq Active \cup {a}
    BY DEF IInv, TypeOK, Active, Start, InsertLeases, ClaimConversation
  <2> QED
    BY <2>1, GrantKeeps DEF Start, Grantable
<1>3. Covered'
  BY DEF IInv, TypeOK, Covered, Start, InsertLeases, ClaimConversation
<1>4. Stopped'
  BY DEF IInv, TypeOK, Stopped, Start, InsertLeases, ClaimConversation
<1> QED
  BY <1>1, <1>2, <1>3, <1>4 DEF IInv

\* A crash inside the claim leaves a granted lease and no backend.
LEMMA CrashClaimingKeeps ==
    ASSUME ConstantsFit, IInv, NEW a \in Attempts, CrashClaiming(a)
    PROVE  IInv'
<1>1. TypeOK'
  BY DownTyped DEF IInv, TypeOK, CrashClaiming, InsertLeases
<1>2. LeaseExclusion'
  <2>1. Active' \subseteq Active \cup {a}
    BY DEF IInv, TypeOK, Active, CrashClaiming, InsertLeases, Down, Live
  <2> QED
    BY <2>1, GrantKeeps DEF CrashClaiming, Grantable
<1>3. Covered'
  BY DEF IInv, TypeOK, Covered, CrashClaiming, InsertLeases, Down, Live
<1>4. Stopped'
  BY DEF IInv, TypeOK, Stopped, CrashClaiming, InsertLeases, Down, Live
<1> QED
  BY <1>1, <1>2, <1>3, <1>4 DEF IInv

\* A refused claim only adds wait rows.
LEMMA ClaimRefusedKeeps ==
    ASSUME ConstantsFit, IInv, NEW a \in Attempts, ClaimRefused(a)
    PROVE  IInv'
<1>1. TypeOK'
  BY ClaimsTyped DEF IInv, TypeOK, Phases, Statuses, ClaimRefused, HeldAgainst, QueuedAgainst, leaseVars
<1>2. LeaseExclusion'
  <2>1. Active' \subseteq Active
    BY DEF IInv, TypeOK, Active, ClaimRefused, HeldAgainst, QueuedAgainst, leaseVars
  <2> QED
    BY <2>1, ShrinkKeeps DEF IInv
<1>3. Covered'
  BY DEF IInv, TypeOK, Covered, Stopped, ClaimRefused, HeldAgainst, QueuedAgainst, leaseVars
<1>4. Stopped'
  BY DEF IInv, TypeOK, Stopped, ClaimRefused, HeldAgainst, QueuedAgainst, leaseVars
<1> QED
  BY <1>1, <1>2, <1>3, <1>4 DEF IInv

\* A refused owner claim gives the lease back.
LEMMA OwnerRefusedKeeps ==
    ASSUME ConstantsFit, IInv, NEW a \in Attempts, OwnerRefused(a)
    PROVE  IInv'
<1>1. TypeOK'
  BY DEF IInv, TypeOK, Phases, Statuses, OwnerRefused, Satisfied, leaseVars
<1>2. LeaseExclusion'
  <2>1. Active' \subseteq Active
    BY DEF IInv, TypeOK, Active, OwnerRefused, Satisfied, leaseVars
  <2> QED
    BY <2>1, ShrinkKeeps DEF IInv
<1>3. Covered'
  BY DEF IInv, TypeOK, Covered, Stopped, OwnerRefused, Satisfied, leaseVars
<1>4. Stopped'
  BY DEF IInv, TypeOK, Stopped, OwnerRefused, Satisfied, leaseVars
<1> QED
  BY <1>1, <1>2, <1>3, <1>4 DEF IInv

\* The decision on a conflict parks the Task or blocks the Subtask.
LEMMA DecideConflictKeeps ==
    ASSUME ConstantsFit, IInv, NEW a \in Attempts, DecideConflict(a)
    PROVE  IInv'
<1>1. TypeOK'
  BY DEF IInv, TypeOK, Phases, Statuses, DecideConflict, leaseVars, waitVars
<1>2. LeaseExclusion'
  <2>1. Active' \subseteq Active
    BY DEF IInv, TypeOK, Active, DecideConflict, leaseVars, waitVars
  <2> QED
    BY <2>1, ShrinkKeeps DEF IInv
<1>3. Covered'
  BY DEF IInv, TypeOK, Covered, Stopped, DecideConflict, leaseVars, waitVars
<1>4. Stopped'
  BY DEF IInv, TypeOK, Stopped, DecideConflict, leaseVars, waitVars
<1> QED
  BY <1>1, <1>2, <1>3, <1>4 DEF IInv

\* The end of an executor removes its backend.
LEMMA ExitKeeps ==
    ASSUME ConstantsFit, IInv, NEW a \in Attempts, Exit(a)
    PROVE  IInv'
<1>1. TypeOK'
  BY DEF IInv, TypeOK, Phases, Statuses, Exit, leaseVars, waitVars
<1>2. LeaseExclusion'
  <2>1. Active' \subseteq Active
    BY DEF IInv, TypeOK, Active, Exit, leaseVars, waitVars
  <2> QED
    BY <2>1, ShrinkKeeps DEF IInv
<1>3. Covered'
  BY DEF IInv, TypeOK, Covered, Stopped, Exit, leaseVars, waitVars
<1>4. Stopped'
  BY DEF IInv, TypeOK, Stopped, Exit, leaseVars, waitVars
<1> QED
  BY <1>1, <1>2, <1>3, <1>4 DEF IInv

\* A settlement returns owner row and lease of a stopped Attempt.
LEMMA SettleKeeps ==
    ASSUME ConstantsFit, IInv, NEW a \in Attempts, Settle(a)
    PROVE  IInv'
<1>r. /\ leases' = leases \ {a} /\ fresh' = fresh \ {a} /\ revoked' = revoked \ {a}
      /\ waiting' \in [Subtasks -> SUBSET AllClaims] /\ resolved' \in [Subtasks -> SUBSET AllClaims]
  BY ReleaseTyped DEF Settle, IInv
<1>1. TypeOK'
  BY <1>r DEF IInv, TypeOK, Phases, Statuses, Settle, Frontier
<1>2. LeaseExclusion'
  <2>1. Active' \subseteq Active
    BY <1>r DEF IInv, TypeOK, Active, Settle
  <2> QED
    BY <2>1, ShrinkKeeps DEF IInv
<1>3. Covered'
  BY <1>r DEF IInv, TypeOK, Covered, Stopped, Settle
<1>4. Stopped'
  BY <1>r DEF IInv, TypeOK, Stopped, Settle
<1> QED
  BY <1>1, <1>2, <1>3, <1>4 DEF IInv

\* A failed seal keeps both.
LEMMA UnsealKeeps ==
    ASSUME ConstantsFit, IInv, NEW a \in Attempts, Unseal(a)
    PROVE  IInv'
<1>1. TypeOK'
  BY DEF IInv, TypeOK, Phases, Statuses, Unseal, Frontier, leaseVars, waitVars
<1>2. LeaseExclusion'
  <2>1. Active' \subseteq Active
    BY DEF IInv, TypeOK, Active, Unseal, leaseVars, waitVars
  <2> QED
    BY <2>1, ShrinkKeeps DEF IInv
<1>3. Covered'
  BY DEF IInv, TypeOK, Covered, Stopped, Unseal, leaseVars, waitVars
<1>4. Stopped'
  BY DEF IInv, TypeOK, Stopped, Unseal, leaseVars, waitVars
<1> QED
  BY <1>1, <1>2, <1>3, <1>4 DEF IInv

\* Expiry makes no lease active.
LEMMA ExpireKeeps ==
    ASSUME ConstantsFit, IInv, NEW a \in Attempts, Expire(a)
    PROVE  IInv'
<1>1. TypeOK'
  BY DEF IInv, TypeOK, Phases, Statuses, Expire, waitVars
<1>2. LeaseExclusion'
  <2>1. Active' \subseteq Active
    BY DEF IInv, TypeOK, Active, Expire, waitVars
  <2> QED
    BY <2>1, ShrinkKeeps DEF IInv
<1>3. Covered'
  BY DEF IInv, TypeOK, Covered, Stopped, Expire, waitVars
<1>4. Stopped'
  BY DEF IInv, TypeOK, Stopped, Expire, waitVars
<1> QED
  BY <1>1, <1>2, <1>3, <1>4 DEF IInv

\* A heartbeat renews what is active.
LEMMA HeartbeatKeeps ==
    ASSUME ConstantsFit, IInv, NEW a \in Attempts, Heartbeat(a)
    PROVE  IInv'
<1>1. TypeOK'
  BY DEF IInv, TypeOK, Phases, Statuses, Heartbeat, waitVars, Active
<1>2. LeaseExclusion'
  <2>1. Active' \subseteq Active
    BY DEF IInv, TypeOK, Active, Heartbeat, waitVars
  <2> QED
    BY <2>1, ShrinkKeeps DEF IInv
<1>3. Covered'
  BY DEF IInv, TypeOK, Covered, Stopped, Heartbeat, waitVars, Active
<1>4. Stopped'
  BY DEF IInv, TypeOK, Stopped, Heartbeat, waitVars, Active
<1> QED
  BY <1>1, <1>2, <1>3, <1>4 DEF IInv

\* Cancellation removes the backend before it releases.
LEMMA CancelRemoveKeeps ==
    ASSUME ConstantsFit, IInv, NEW a \in Attempts, CancelRemove(a)
    PROVE  IInv'
<1>r. /\ leases' = leases \ {a} /\ fresh' = fresh \ {a} /\ revoked' = revoked \ {a}
      /\ waiting' \in [Subtasks -> SUBSET AllClaims] /\ resolved' \in [Subtasks -> SUBSET AllClaims]
  BY ReleaseTyped DEF CancelRemove, IInv
<1>1. TypeOK'
  BY <1>r DEF IInv, TypeOK, Phases, Statuses, CancelRemove
<1>2. LeaseExclusion'
  <2>1. Active' \subseteq Active
    BY <1>r DEF IInv, TypeOK, Active, CancelRemove
  <2> QED
    BY <2>1, ShrinkKeeps DEF IInv
<1>3. Covered'
  BY <1>r DEF IInv, TypeOK, Covered, Stopped, CancelRemove
<1>4. Stopped'
  BY <1>r DEF IInv, TypeOK, Stopped, CancelRemove
<1> QED
  BY <1>1, <1>2, <1>3, <1>4 DEF IInv

\* Reconciliation removes a backend.
LEMMA RecoverBackendKeeps ==
    ASSUME ConstantsFit, IInv, NEW a \in Attempts, RecoverBackend(a)
    PROVE  IInv'
<1>1. TypeOK'
  BY DEF IInv, TypeOK, Phases, Statuses, RecoverBackend, leaseVars, waitVars
<1>2. LeaseExclusion'
  <2>1. Active' \subseteq Active
    BY DEF IInv, TypeOK, Active, RecoverBackend, leaseVars, waitVars
  <2> QED
    BY <2>1, ShrinkKeeps DEF IInv
<1>3. Covered'
  BY DEF IInv, TypeOK, Covered, Stopped, RecoverBackend, leaseVars, waitVars
<1>4. Stopped'
  BY DEF IInv, TypeOK, Stopped, RecoverBackend, leaseVars, waitVars
<1> QED
  BY <1>1, <1>2, <1>3, <1>4 DEF IInv

\* An owner row goes only after its backend.
LEMMA RecoverOwnerKeeps ==
    ASSUME ConstantsFit, IInv, NEW a \in Attempts, RecoverOwner(a)
    PROVE  IInv'
<1>1. TypeOK'
  BY DEF IInv, TypeOK, Phases, Statuses, RecoverOwner, leaseVars, waitVars
<1>2. LeaseExclusion'
  <2>1. Active' \subseteq Active
    BY DEF IInv, TypeOK, Active, RecoverOwner, leaseVars, waitVars
  <2> QED
    BY <2>1, ShrinkKeeps DEF IInv
<1>3. Covered'
  BY DEF IInv, TypeOK, Covered, Stopped, RecoverOwner, leaseVars, waitVars
<1>4. Stopped'
  BY DEF IInv, TypeOK, Stopped, RecoverOwner, leaseVars, waitVars
<1> QED
  BY <1>1, <1>2, <1>3, <1>4 DEF IInv

\* Startup releases a lease without backend and owner.
LEMMA ReleaseReconciledKeeps ==
    ASSUME ConstantsFit, IInv, NEW a \in Attempts, ReleaseReconciled(a)
    PROVE  IInv'
<1>r. /\ leases' = leases \ {a} /\ fresh' = fresh \ {a} /\ revoked' = revoked \ {a}
      /\ waiting' \in [Subtasks -> SUBSET AllClaims] /\ resolved' \in [Subtasks -> SUBSET AllClaims]
  BY ReleaseTyped DEF ReleaseReconciled, IInv
<1>1. TypeOK'
  BY <1>r DEF IInv, TypeOK, Phases, Statuses, ReleaseReconciled
<1>2. LeaseExclusion'
  <2>1. Active' \subseteq Active
    BY <1>r DEF IInv, TypeOK, Active, ReleaseReconciled
  <2> QED
    BY <2>1, ShrinkKeeps DEF IInv
<1>3. Covered'
  BY <1>r DEF IInv, TypeOK, Covered, Stopped, ReleaseReconciled
<1>4. Stopped'
  BY <1>r DEF IInv, TypeOK, Stopped, ReleaseReconciled
<1> QED
  BY <1>1, <1>2, <1>3, <1>4 DEF IInv

\* The repository-level release of a settled failure.
LEMMA ReconcileSettledFailureKeeps ==
    ASSUME ConstantsFit, IInv, NEW a \in Attempts, ReconcileSettledFailure(a)
    PROVE  IInv'
<1>1. TypeOK'
  BY DEF IInv, TypeOK, Phases, Statuses, ReconcileSettledFailure, waitVars
<1>2. LeaseExclusion'
  <2>1. Active' \subseteq Active
    BY DEF IInv, TypeOK, Active, ReconcileSettledFailure, waitVars
  <2> QED
    BY <2>1, ShrinkKeeps DEF IInv
<1>3. Covered'
  BY DEF IInv, TypeOK, Covered, Stopped, ReconcileSettledFailure, waitVars
<1>4. Stopped'
  BY DEF IInv, TypeOK, Stopped, ReconcileSettledFailure, waitVars
<1> QED
  BY <1>1, <1>2, <1>3, <1>4 DEF IInv

\* A cancellation revokes leases and releases none.
LEMMA CancelKeeps ==
    ASSUME ConstantsFit, IInv, NEW s \in Subtasks, Cancel(s)
    PROVE  IInv'
<1>1. TypeOK'
  BY DEF IInv, TypeOK, Phases, Statuses, Cancel
<1>2. LeaseExclusion'
  <2>1. Active' \subseteq Active
    BY DEF IInv, TypeOK, Active, Cancel
  <2> QED
    BY <2>1, ShrinkKeeps DEF IInv
<1>3. Covered'
  BY DEF IInv, TypeOK, Covered, Stopped, Cancel
<1>4. Stopped'
  BY DEF IInv, TypeOK, Stopped, Cancel
<1> QED
  BY <1>1, <1>2, <1>3, <1>4 DEF IInv

\* Clearing a capacity block touches no lease.
LEMMA ClearBlockKeeps ==
    ASSUME ConstantsFit, IInv, NEW t \in Tasks, ClearBlock(t)
    PROVE  IInv'
<1>1. TypeOK'
  BY DEF IInv, TypeOK, Phases, Statuses, ClearBlock, Frontier, leaseVars, waitVars
<1>2. LeaseExclusion'
  <2>1. Active' \subseteq Active
    BY DEF IInv, TypeOK, Active, ClearBlock, Frontier, leaseVars, waitVars
  <2> QED
    BY <2>1, ShrinkKeeps DEF IInv
<1>3. Covered'
  BY DEF IInv, TypeOK, Covered, Stopped, ClearBlock, Frontier, leaseVars, waitVars
<1>4. Stopped'
  BY DEF IInv, TypeOK, Stopped, ClearBlock, Frontier, leaseVars, waitVars
<1> QED
  BY <1>1, <1>2, <1>3, <1>4 DEF IInv

\* A crash touches no table.
LEMMA CrashKeeps ==
    ASSUME ConstantsFit, IInv, Crash
    PROVE  IInv'
<1>1. TypeOK'
  BY DownTyped DEF IInv, TypeOK, Crash, leaseVars, waitVars
<1>2. LeaseExclusion'
  <2>1. Active' \subseteq Active
    BY DEF IInv, TypeOK, Active, Crash, Down, Live, leaseVars, waitVars
  <2> QED
    BY <2>1, ShrinkKeeps DEF IInv
<1>3. Covered'
  BY DEF IInv, TypeOK, Covered, Stopped, Crash, Down, Live, leaseVars, waitVars
<1>4. Stopped'
  BY DEF IInv, TypeOK, Stopped, Crash, Down, Live, leaseVars, waitVars
<1> QED
  BY <1>1, <1>2, <1>3, <1>4 DEF IInv

\* The end of recovery touches no table of leases.
LEMMA RecoveredKeeps ==
    ASSUME ConstantsFit, IInv, Recovered
    PROVE  IInv'
<1>1. TypeOK'
  BY DEF IInv, TypeOK, Phases, Statuses, Recovered, leaseVars, waitVars
<1>2. LeaseExclusion'
  <2>1. Active' \subseteq Active
    BY DEF IInv, TypeOK, Active, Recovered, leaseVars, waitVars
  <2> QED
    BY <2>1, ShrinkKeeps DEF IInv
<1>3. Covered'
  BY DEF IInv, TypeOK, Covered, Stopped, Recovered, leaseVars, waitVars
<1>4. Stopped'
  BY DEF IInv, TypeOK, Stopped, Recovered, leaseVars, waitVars
<1> QED
  BY <1>1, <1>2, <1>3, <1>4 DEF IInv

-----------------------------------------------------------------------------
(* Waits have a reason.  A step of the lease table keeps the reasons of the *)
(* steady Subtasks when every queued write and every lease that goes away   *)
(* belongs to an unsteady rival or is followed by a look at the waits.      *)

\* A Subtask of an Attempt whose rivals are steady meets no unsteady claim.
LEMMA SteadyMeetsNone ==
    ASSUME NEW s \in Steady, NEW c \in Claims[s], NEW r \in Unsteady, NEW d \in Claims[r]
    PROVE  ~ Conflicts(c, d)
  BY DEF Steady

\* Unreleased leases of steady rivals are active while the Server is up.
LEMMA ReasonIsActive ==
    ASSUME ConstantsFit, TypeOK, WaitInv
    PROVE  WaitHasReason
<1> SUFFICES ASSUME up, NEW s \in Steady, NEW c \in waiting[s], ~ Closed(s, c)
             PROVE  \E b \in Active : \E d \in ClaimsOf(b) : Conflicts(c, d)
  BY DEF WaitHasReason
<1>1. PICK b \in leases : \E d \in ClaimsOf(b) : Conflicts(c, d)
  BY DEF WaitInv, Reasons
<1>2. PICK d \in ClaimsOf(b) : Conflicts(c, d)
  BY <1>1
<1>3. c \in Claims[s] /\ b \in Attempts
  BY DEF WaitInv, OwnWaits, TypeOK, Steady
<1>4. SubtaskOf[b] \notin Unsteady
  BY <1>2, <1>3, SteadyMeetsNone, ZenonT(30) DEF ClaimsOf
<1>5. b \in fresh
  BY <1>3, <1>4 DEF WaitInv, Holders
<1> QED
  BY <1>2, <1>5, ZenonT(30) DEF Active

\* Who is steady and what conflicts are matters of the constants, so the next
\* state's reasons can be read with today's.
LEMMA ReasonsAfter ==
    ASSUME \A s \in Steady : \A c \in waiting'[s] :
               \/ Closed(s, c)'
               \/ \E b \in leases' : \E d \in ClaimsOf(b) : Conflicts(c, d)
    PROVE  Reasons'
BY Zenon DEF Reasons, Steady, Unsteady, Mixed, Conflicts, ClaimsOf

\* The frame of most actions: no wait row is added, and a queued write or a lease
\* that disappears is an unsteady one or becomes a lease.
LEMMA ReasonsFrame ==
    ASSUME WaitInv, TypeOK,
           \A s \in Subtasks : waiting'[s] \subseteq waiting[s],
           \A r \in Subtasks : \A d \in PendingWrites(r) :
               r \in Unsteady \/ d \in PendingWrites(r)' \/ \E b \in leases' : d \in ClaimsOf(b),
           \A b \in leases : b \in leases' \/ SubtaskOf[b] \in Unsteady
    PROVE  Reasons'
<1> SUFFICES ASSUME NEW s \in Steady, NEW c \in waiting'[s]
             PROVE  \/ Closed(s, c)'
                    \/ \E b \in leases' : \E d \in ClaimsOf(b) : Conflicts(c, d)
  BY Zenon DEF Reasons, Steady, Unsteady, Mixed, Conflicts, ClaimsOf
<1>1. s \in Subtasks /\ c \in waiting[s] /\ c \in Claims[s]
  BY DEF Steady, WaitInv, OwnWaits
<1>2. ASSUME NEW r \in Subtasks \ {s}, NEW d \in PendingWrites(r), Conflicts(c, d),
             c.access = "read"
      PROVE  \/ Closed(s, c)'
             \/ \E b \in leases' : \E e \in ClaimsOf(b) : Conflicts(c, e)
  <2>1. d \in Claims[r]
    BY DEF PendingWrites, WaitInv, OwnWaits
  <2>2. r \notin Unsteady
    BY <1>1, <1>2, <2>1, SteadyMeetsNone
  <2>3. d \in PendingWrites(r)' => Closed(s, c)'
    BY <1>2 DEF Closed, ClosedBy, Conflicts
  <2> QED
    BY <1>2, <2>2, <2>3
<1>3. ASSUME NEW b \in leases, NEW d \in ClaimsOf(b), Conflicts(c, d)
      PROVE  \E e \in leases' : \E f \in ClaimsOf(e) : Conflicts(c, f)
  <2>1. SubtaskOf[b] \notin Unsteady
    BY <1>1, <1>3, SteadyMeetsNone DEF ClaimsOf
  <2> QED
    BY <1>3, <2>1
<1> QED
  BY <1>1, <1>2, <1>3, ZenonT(30) DEF WaitInv, Reasons, Closed, ClosedBy

\* A look at the waits after a's release: those that stay are closed off by a
\* writer that stays, or meet an active lease that stays.
LEMMA ReasonsLooked ==
    ASSUME WaitInv, TypeOK, NEW a \in Attempts, NEW gone \in SUBSET Subtasks,
           \A s \in Subtasks : waiting'[s] \subseteq waiting[s] \ Satisfied(a, gone, s),
           \A r \in Subtasks \ gone : PendingWrites(r) \subseteq PendingWrites(r)',
           leases \ {a} \subseteq leases'
    PROVE  Reasons'
<1> SUFFICES ASSUME NEW s \in Steady, NEW c \in waiting'[s]
             PROVE  \/ Closed(s, c)'
                    \/ \E b \in leases' : \E d \in ClaimsOf(b) : Conflicts(c, d)
  BY ZenonT(30) DEF Reasons, Steady, Unsteady, Mixed, Conflicts, ClaimsOf
<1>1. s \in Subtasks /\ c \in waiting[s] /\ c \notin Satisfied(a, gone, s)
  BY DEF Steady
<1>2. \/ ClosedBy(Subtasks \ (gone \cup {s}), c)
      \/ \E b \in Active \ {a} : \E d \in ClaimsOf(b) : Conflicts(c, d)
  BY <1>1 DEF Satisfied
<1>3. CASE ClosedBy(Subtasks \ (gone \cup {s}), c)
  BY <1>3 DEF ClosedBy, Closed, Conflicts
<1>4. CASE \E b \in Active \ {a} : \E d \in ClaimsOf(b) : Conflicts(c, d)
  BY <1>4 DEF Active
<1> QED
  BY <1>2, <1>3, <1>4

\* A release keeps own waits and reasons, when Subtasks do not change with it.
LEMMA ReleaseReasons ==
    ASSUME ConstantsFit, WaitInv, TypeOK, NEW a \in Attempts, ReleaseLeases(a), UNCHANGED subtask
    PROVE  /\ OwnWaits' /\ Reasons'
           /\ \A s \in Subtasks : waiting'[s] \cup resolved'[s] = waiting[s] \cup resolved[s]
<1>1. \A s \in Subtasks : waiting'[s] \cup resolved'[s] = waiting[s] \cup resolved[s]
  <2>1. \A s \in Subtasks : Satisfied(a, {}, s) \subseteq waiting[s]
    BY DEF Satisfied
  <2> QED
    BY <2>1 DEF ReleaseLeases, ResolveSatisfiedWaits, waitVars
<1>2. \A r \in Subtasks : PendingWrites(r) = PendingWrites(r)'
  BY <1>1, Zenon DEF PendingWrites
<1>3. CASE a \in leases
  <2>1. \A s \in Subtasks : waiting'[s] \subseteq waiting[s] \ Satisfied(a, {}, s)
    BY <1>3 DEF ReleaseLeases, ResolveSatisfiedWaits
  <2>2. leases \ {a} \subseteq leases'
    BY DEF ReleaseLeases
  <2>3. {} \in SUBSET Subtasks /\ \A r \in Subtasks \ {} : PendingWrites(r) \subseteq PendingWrites(r)'
    BY <1>2
  <2>4. Reasons'
    BY <2>1, <2>2, <2>3, ReasonsLooked, ZenonT(30)
  <2> QED
    BY <1>1, <2>4 DEF OwnWaits, WaitInv
<1>4. CASE a \notin leases
  <2>1. /\ \A s \in Subtasks : waiting'[s] \subseteq waiting[s]
        /\ \A b \in leases : b \in leases'
    BY <1>4 DEF ReleaseLeases, waitVars
  <2>2. Reasons'
    BY <1>2, <2>1, ReasonsFrame, ZenonT(30)
  <2> QED
    BY <1>1, <2>2 DEF OwnWaits, WaitInv
<1> QED
  BY <1>3, <1>4, ZenonT(30)

\* Who is steady is a matter of the constants.
LEMMA SameRivals == Unsteady' = Unsteady /\ Mixed' = Mixed
  BY DEF Unsteady, Mixed

\* A step that leaves the wait rows alone keeps reasons if the writers and leases
\* it takes away are those of unsteady Subtasks.
LEMMA QuietWaits ==
    ASSUME IInv, WaitInv, UNCHANGED waitVars, Holders', Bare',
           \A r \in Subtasks : subtask[r] = "ready" /\ PendingWrites(r) # {} =>
               subtask'[r] = "ready" \/ r \in Unsteady,
           \A b \in leases : b \in leases' \/ SubtaskOf[b] \in Unsteady
    PROVE  WaitInv'
<1>1. OwnWaits'
  BY DEF WaitInv, OwnWaits, waitVars
<1>2. \A r \in Subtasks : \A d \in PendingWrites(r) : r \in Unsteady \/ d \in PendingWrites(r)'
  BY DEF PendingWrites, waitVars
<1>3. Reasons'
  BY <1>2, ReasonsFrame DEF IInv, waitVars
<1> QED
  BY <1>1, <1>3 DEF WaitInv

\* A start turns the queued writes of its Subtask into leases.
LEMMA StartWaits ==
    ASSUME ConstantsFit, IInv, WaitInv, NEW a \in Attempts, Start(a)
    PROVE  WaitInv'
<1> USE DEF IInv, TypeOK, WaitInv
<1>1. OwnWaits' /\ Bare'
  BY SameRivals, ZenonT(30) DEF OwnWaits, Bare, Start, InsertLeases, Dispatchable
<1>2. Holders'
  BY SameRivals DEF Holders, Start, InsertLeases, Dispatchable
<1>3. \A r \in Subtasks : \A d \in PendingWrites(r) :
          d \in PendingWrites(r)' \/ \E b \in leases' : d \in ClaimsOf(b)
  <2> SUFFICES ASSUME NEW r \in Subtasks, NEW d \in PendingWrites(r)
               PROVE  d \in PendingWrites(r)' \/ \E b \in leases' : d \in ClaimsOf(b)
    OBVIOUS
  <2>1. CASE r = SubtaskOf[a]
    BY <2>1, ZenonT(30) DEF PendingWrites, OwnWaits, ClaimsOf, Start, InsertLeases
  <2>2. CASE r # SubtaskOf[a]
    BY <2>2 DEF PendingWrites, Start, InsertLeases
  <2> QED
    BY <2>1, <2>2
<1>4. /\ \A s \in Subtasks : waiting'[s] \subseteq waiting[s]
      /\ leases \subseteq leases'
  BY DEF Start, InsertLeases
<1> QED
  BY <1>1, <1>2, <1>3, <1>4, ReasonsFrame, ZenonT(30)

\* So does a claim that a crash interrupts.
LEMMA CrashClaimingWaits ==
    ASSUME ConstantsFit, IInv, WaitInv, NEW a \in Attempts, CrashClaiming(a)
    PROVE  WaitInv'
<1> USE DEF IInv, TypeOK, WaitInv
<1>1. OwnWaits' /\ Bare'
  BY SameRivals, ZenonT(30) DEF OwnWaits, Bare, CrashClaiming, InsertLeases, Down, Live
<1>2. Holders'
  BY SameRivals DEF Holders, CrashClaiming, InsertLeases, Down, Live
<1>3. \A r \in Subtasks : \A d \in PendingWrites(r) :
          d \in PendingWrites(r)' \/ \E b \in leases' : d \in ClaimsOf(b)
  <2> SUFFICES ASSUME NEW r \in Subtasks, NEW d \in PendingWrites(r)
               PROVE  d \in PendingWrites(r)' \/ \E b \in leases' : d \in ClaimsOf(b)
    OBVIOUS
  <2>1. CASE r = SubtaskOf[a]
    BY <2>1, ZenonT(30) DEF PendingWrites, OwnWaits, ClaimsOf, CrashClaiming, InsertLeases
  <2>2. CASE r # SubtaskOf[a]
    BY <2>2 DEF PendingWrites, CrashClaiming, InsertLeases
  <2> QED
    BY <2>1, <2>2
<1>4. /\ \A s \in Subtasks : waiting'[s] \subseteq waiting[s]
      /\ leases \subseteq leases'
  BY DEF CrashClaiming, InsertLeases
<1> QED
  BY <1>1, <1>2, <1>3, <1>4, ReasonsFrame, ZenonT(30)

\* A refused claim waits for what refused it.
LEMMA ClaimRefusedWaits ==
    ASSUME ConstantsFit, IInv, WaitInv, NEW a \in Attempts, ClaimRefused(a)
    PROVE  WaitInv'
<1> USE DEF IInv, TypeOK, WaitInv
<1> DEFINE mine == SubtaskOf[a]
<1>1. mine \in Subtasks /\ ClaimsOf(a) = Claims[mine]
  BY DEF ConstantsFit, ClaimsOf
<1>2. /\ waiting'[mine] \subseteq waiting[mine] \cup HeldAgainst(a) \cup QueuedAgainst(a)
      /\ \A s \in Subtasks : waiting[s] \subseteq waiting'[s]
      /\ \A s \in Subtasks \ {mine} : waiting'[s] = waiting[s]
      /\ UNCHANGED <<leases, fresh, revoked, owners, resolved, subtask, up>>
  BY <1>1, ZenonT(30) DEF ClaimRefused, leaseVars
<1>3. HeldAgainst(a) \subseteq Claims[mine] /\ QueuedAgainst(a) \subseteq Claims[mine]
  BY <1>1, ZenonT(30) DEF HeldAgainst, QueuedAgainst
<1>4. OwnWaits'
  BY <1>2, <1>3, ZenonT(30) DEF OwnWaits
<1>5. Holders'
  BY <1>2, SameRivals, SMTT(30) DEF Holders, ClaimRefused, Dispatchable
<1>6. Bare'
  <2> SUFFICES ASSUME NEW b \in Attempts, phase'[b] = "refused_bare", SubtaskOf[b] \notin Mixed,
                      NEW c \in waiting'[SubtaskOf[b]] \cup resolved'[SubtaskOf[b]]
               PROVE  c.access # "write"
    BY SameRivals, Zenon DEF Bare
  <2>1. CASE SubtaskOf[b] # mine
    BY <1>2, <2>1, ZenonT(30) DEF Bare, ClaimRefused, ConstantsFit
  <2>2. CASE SubtaskOf[b] = mine
    <3>1. b = a /\ HeldAgainst(a) = {}
      BY <2>2 DEF ClaimRefused, Dispatchable
    <3>2. ~ Grantable(a)
      BY Zenon DEF ClaimRefused
    <3>3. PICK d : d \in QueuedAgainst(a)
      BY <3>1, <3>2, Zenon DEF Grantable
    <3>4. d \in Claims[mine] /\ d.access = "read"
      BY <1>3, <3>3, Zenon DEF QueuedAgainst, Closed, ClosedBy
    <3>5. c \in Claims[mine]
      BY <1>1, <1>4, <2>2, Zenon DEF OwnWaits
    <3> QED
      BY <1>1, <2>2, <3>4, <3>5, Zenon DEF Mixed
  <2> QED
    BY <2>1, <2>2, Zenon
<1>7. Reasons'
  <2>1. \A r \in Subtasks : PendingWrites(r) \subseteq PendingWrites(r)'
    BY <1>2, Zenon DEF PendingWrites
  <2>2. \A s \in Subtasks : \A c : Closed(s, c) => Closed(s, c)'
    BY <2>1, Zenon DEF Closed, ClosedBy, Conflicts
  <2>3. ASSUME NEW s \in Steady, NEW c \in waiting'[s]
        PROVE  \/ Closed(s, c)
               \/ \E b \in leases : \E d \in ClaimsOf(b) : Conflicts(c, d)
    <3>1. CASE c \in waiting[s]
      BY <3>1, Zenon DEF Reasons
    <3>2. CASE s = mine /\ c \in HeldAgainst(a)
      BY <3>2, Zenon DEF HeldAgainst, Active
    <3>3. CASE s = mine /\ c \in QueuedAgainst(a)
      BY <3>3, ZenonT(30) DEF QueuedAgainst
    <3> QED
      BY <1>2, <3>1, <3>2, <3>3, Zenon DEF Steady
  <2>4. \A s \in Steady : \A c \in waiting'[s] :
           \/ Closed(s, c)'
           \/ \E b \in leases' : \E d \in ClaimsOf(b) : Conflicts(c, d)
    BY <1>2, <2>2, <2>3, Zenon DEF Steady
  <2> QED
    BY <2>4, ReasonsAfter, Zenon
<1> QED
  BY <1>4, <1>5, <1>6, <1>7, Zenon

\* A refused owner claim cancels its queued writes and then looks at the waits.
LEMMA OwnerRefusedWaits ==
    ASSUME ConstantsFit, IInv, WaitInv, NEW a \in Attempts, OwnerRefused(a)
    PROVE  WaitInv'
<1> USE DEF IInv, TypeOK, WaitInv
<1> DEFINE mine == SubtaskOf[a]
<1>1. mine \in Subtasks
  BY DEF ConstantsFit
<1>2. \A s \in Subtasks : Satisfied(a, {mine}, s) \subseteq waiting[s]
  BY DEF Satisfied
<1>3. /\ waiting'[mine] = {} /\ resolved'[mine] = {}
      /\ \A s \in Subtasks \ {mine} :
            /\ waiting'[s] = waiting[s] \ Satisfied(a, {mine}, s)
            /\ resolved'[s] = resolved[s] \cup Satisfied(a, {mine}, s)
      /\ UNCHANGED <<leases, fresh, revoked, subtask, up>>
  BY <1>1, ZenonT(30) DEF OwnerRefused, leaseVars
<1>4. \A s \in Subtasks \ {mine} : waiting'[s] \cup resolved'[s] = waiting[s] \cup resolved[s]
  BY <1>2, <1>3, Zenon
<1>5. OwnWaits'
  BY <1>3, <1>4, ZenonT(30) DEF OwnWaits
<1>6. Bare'
  BY <1>3, <1>4, SameRivals, ZenonT(30) DEF Bare, OwnerRefused, ConstantsFit
<1>7. Holders'
  BY <1>3, SameRivals, SMTT(30) DEF Holders, OwnerRefused, Dispatchable
<1>8. Reasons'
  <2>1. \A s \in Subtasks : waiting'[s] \subseteq waiting[s] \ Satisfied(a, {mine}, s)
    BY <1>3, Zenon
  <2>2. \A r \in Subtasks \ {mine} : PendingWrites(r) \subseteq PendingWrites(r)'
    BY <1>3, <1>4, Zenon DEF PendingWrites
  <2>3. leases \ {a} \subseteq leases' /\ {mine} \in SUBSET Subtasks /\ TypeOK
    BY <1>1, <1>3, Zenon
  <2> HIDE DEF TypeOK, IInv, WaitInv, mine
  <2> QED
    BY <2>1, <2>2, <2>3, ReasonsLooked, Zenon
<1> QED
  BY <1>5, <1>6, <1>7, <1>8

\* A Subtask is blocked with no write queued, unless it is a mixed one.
LEMMA DecideConflictWaits ==
    ASSUME ConstantsFit, IInv, WaitInv, NEW a \in Attempts, DecideConflict(a)
    PROVE  WaitInv'
<1> USE DEF IInv, TypeOK, WaitInv
<1>1. Holders'
  BY SameRivals, ZenonT(30) DEF Holders, DecideConflict, leaseVars, waitVars
<1>2. Bare'
  BY SameRivals, ZenonT(30) DEF Bare, DecideConflict, waitVars
<1>3. /\ \A r \in Subtasks : subtask[r] = "ready" /\ PendingWrites(r) # {} =>
            subtask'[r] = "ready" \/ r \in Unsteady
      /\ \A b \in leases : b \in leases' \/ SubtaskOf[b] \in Unsteady
      /\ UNCHANGED waitVars
  BY ZenonT(30) DEF DecideConflict, leaseVars, waitVars, Bare, PendingWrites, Unsteady, Phases
<1> HIDE DEF IInv, TypeOK, WaitInv
<1> QED
  BY <1>1, <1>2, <1>3, QuietWaits, Zenon

\* The end of an executor adds ready Subtasks only.
LEMMA ExitWaits ==
    ASSUME ConstantsFit, IInv, WaitInv, NEW a \in Attempts, Exit(a)
    PROVE  WaitInv'
<1> USE DEF IInv, TypeOK, WaitInv
<1>1. Holders'
  BY SameRivals, ZenonT(30) DEF Holders, Exit, leaseVars, waitVars
<1>2. Bare'
  BY SameRivals, ZenonT(30) DEF Bare, Exit, waitVars
<1>3. /\ \A r \in Subtasks : subtask[r] = "ready" /\ PendingWrites(r) # {} =>
            subtask'[r] = "ready" \/ r \in Unsteady
      /\ \A b \in leases : b \in leases' \/ SubtaskOf[b] \in Unsteady
      /\ UNCHANGED waitVars
  BY DEF Exit, leaseVars, waitVars
<1> HIDE DEF IInv, TypeOK, WaitInv
<1> QED
  BY <1>1, <1>2, <1>3, QuietWaits, Zenon

\* A failed seal keeps the lease of an unsteady Attempt.
LEMMA UnsealWaits ==
    ASSUME ConstantsFit, IInv, WaitInv, NEW a \in Attempts, Unseal(a)
    PROVE  WaitInv'
<1> USE DEF IInv, TypeOK, WaitInv
<1>1. Holders'
  BY SameRivals, ZenonT(30) DEF Holders, Unseal, leaseVars, waitVars, Unsteady
<1>2. Bare'
  BY SameRivals DEF Bare, Unseal, waitVars
<1>3. /\ \A r \in Subtasks : subtask[r] = "ready" /\ PendingWrites(r) # {} =>
            subtask'[r] = "ready" \/ r \in Unsteady
      /\ \A b \in leases : b \in leases' \/ SubtaskOf[b] \in Unsteady
      /\ UNCHANGED waitVars
  BY DEF Unseal, leaseVars, waitVars
<1> HIDE DEF IInv, TypeOK, WaitInv
<1> QED
  BY <1>1, <1>2, <1>3, QuietWaits, Zenon

\* An expiry releases nothing.
LEMMA ExpireWaits ==
    ASSUME ConstantsFit, IInv, WaitInv, NEW a \in Attempts, Expire(a)
    PROVE  WaitInv'
<1> USE DEF IInv, TypeOK, WaitInv
<1>1. Holders'
  BY SameRivals, ZenonT(30) DEF Holders, Expire, waitVars, Unsteady
<1>2. Bare'
  BY SameRivals, ZenonT(30) DEF Bare, Expire, waitVars
<1>3. /\ \A r \in Subtasks : subtask[r] = "ready" /\ PendingWrites(r) # {} =>
            subtask'[r] = "ready" \/ r \in Unsteady
      /\ \A b \in leases : b \in leases' \/ SubtaskOf[b] \in Unsteady
      /\ UNCHANGED waitVars
  BY DEF Expire, waitVars
<1> HIDE DEF IInv, TypeOK, WaitInv
<1> QED
  BY <1>1, <1>2, <1>3, QuietWaits, Zenon

\* A heartbeat only renews.
LEMMA HeartbeatWaits ==
    ASSUME ConstantsFit, IInv, WaitInv, NEW a \in Attempts, Heartbeat(a)
    PROVE  WaitInv'
<1> USE DEF IInv, TypeOK, WaitInv
<1>1. Holders'
  BY SameRivals, ZenonT(30) DEF Holders, Heartbeat, waitVars, Active
<1>2. Bare'
  BY SameRivals DEF Bare, Heartbeat, waitVars
<1>3. /\ \A r \in Subtasks : subtask[r] = "ready" /\ PendingWrites(r) # {} =>
            subtask'[r] = "ready" \/ r \in Unsteady
      /\ \A b \in leases : b \in leases' \/ SubtaskOf[b] \in Unsteady
      /\ UNCHANGED waitVars
  BY DEF Heartbeat, waitVars, Active
<1> HIDE DEF IInv, TypeOK, WaitInv
<1> QED
  BY <1>1, <1>2, <1>3, QuietWaits, Zenon

\* Removing a backend touches no lease.
LEMMA RecoverBackendWaits ==
    ASSUME ConstantsFit, IInv, WaitInv, NEW a \in Attempts, RecoverBackend(a)
    PROVE  WaitInv'
<1> USE DEF IInv, TypeOK, WaitInv
<1>1. Holders'
  BY SameRivals, ZenonT(30) DEF Holders, RecoverBackend, leaseVars, waitVars
<1>2. Bare'
  BY SameRivals DEF Bare, RecoverBackend, waitVars
<1>3. /\ \A r \in Subtasks : subtask[r] = "ready" /\ PendingWrites(r) # {} =>
            subtask'[r] = "ready" \/ r \in Unsteady
      /\ \A b \in leases : b \in leases' \/ SubtaskOf[b] \in Unsteady
      /\ UNCHANGED waitVars
  BY DEF RecoverBackend, leaseVars, waitVars
<1> HIDE DEF IInv, TypeOK, WaitInv
<1> QED
  BY <1>1, <1>2, <1>3, QuietWaits, Zenon

\* Nor does removing an owner row.
LEMMA RecoverOwnerWaits ==
    ASSUME ConstantsFit, IInv, WaitInv, NEW a \in Attempts, RecoverOwner(a)
    PROVE  WaitInv'
<1> USE DEF IInv, TypeOK, WaitInv
<1>1. Holders'
  BY SameRivals DEF Holders, RecoverOwner, leaseVars, waitVars
<1>2. Bare'
  BY SameRivals DEF Bare, RecoverOwner, waitVars
<1>3. /\ \A r \in Subtasks : subtask[r] = "ready" /\ PendingWrites(r) # {} =>
            subtask'[r] = "ready" \/ r \in Unsteady
      /\ \A b \in leases : b \in leases' \/ SubtaskOf[b] \in Unsteady
      /\ UNCHANGED waitVars
  BY ZenonT(30) DEF RecoverOwner, leaseVars, waitVars
<1> HIDE DEF IInv, TypeOK, WaitInv
<1> QED
  BY <1>1, <1>2, <1>3, QuietWaits, Zenon

\* The release that resolves nothing is one of an unsteady Attempt.
LEMMA ReconcileSettledFailureWaits ==
    ASSUME ConstantsFit, IInv, WaitInv, NEW a \in Attempts, ReconcileSettledFailure(a)
    PROVE  WaitInv'
<1> USE DEF IInv, TypeOK, WaitInv
<1>1. Holders'
  BY SameRivals, ZenonT(30) DEF Holders, ReconcileSettledFailure, waitVars
<1>2. Bare'
  BY SameRivals, ZenonT(30) DEF Bare, ReconcileSettledFailure, waitVars
<1>3. /\ \A r \in Subtasks : subtask[r] = "ready" /\ PendingWrites(r) # {} =>
            subtask'[r] = "ready" \/ r \in Unsteady
      /\ \A b \in leases : b \in leases' \/ SubtaskOf[b] \in Unsteady
      /\ UNCHANGED waitVars
  BY ZenonT(30) DEF ReconcileSettledFailure, waitVars, Holders
<1> HIDE DEF IInv, TypeOK, WaitInv
<1> QED
  BY <1>1, <1>2, <1>3, QuietWaits, Zenon

\* A settlement looks at the waits after its release.
LEMMA SettleWaits ==
    ASSUME ConstantsFit, IInv, WaitInv, NEW a \in Attempts, Settle(a)
    PROVE  WaitInv'
<1>1. /\ OwnWaits' /\ Reasons'
      /\ \A s \in Subtasks : waiting'[s] \cup resolved'[s] = waiting[s] \cup resolved[s]
  BY ReleaseReasons, Zenon DEF IInv, Settle
<1>2. leases' = leases \ {a} /\ fresh' = fresh \ {a} /\ revoked' = revoked \ {a}
  BY ZenonT(30) DEF Settle, ReleaseLeases
<1>3. Holders'
  BY <1>2, SameRivals, ZenonT(30) DEF WaitInv, Holders, IInv, TypeOK, Settle
<1>4. Bare'
  BY <1>1, SameRivals, ZenonT(30) DEF WaitInv, Bare, IInv, TypeOK, Settle, ConstantsFit
<1> QED
  BY <1>1, <1>3, <1>4, Zenon DEF WaitInv

\* So does the end of a cancellation.
LEMMA CancelRemoveWaits ==
    ASSUME ConstantsFit, IInv, WaitInv, NEW a \in Attempts, CancelRemove(a)
    PROVE  WaitInv'
<1>1. /\ OwnWaits' /\ Reasons'
      /\ \A s \in Subtasks : waiting'[s] \cup resolved'[s] = waiting[s] \cup resolved[s]
  BY ReleaseReasons, ZenonT(30) DEF IInv, CancelRemove
<1>2. leases' = leases \ {a} /\ fresh' = fresh \ {a} /\ revoked' = revoked \ {a}
  BY ZenonT(30) DEF CancelRemove, ReleaseLeases
<1>3. Holders'
  BY <1>2, SameRivals, ZenonT(30) DEF WaitInv, Holders, IInv, TypeOK, CancelRemove
<1>4. Bare'
  BY <1>1, SameRivals, ZenonT(30) DEF WaitInv, Bare, IInv, TypeOK, CancelRemove, ConstantsFit
<1> QED
  BY <1>1, <1>3, <1>4, Zenon DEF WaitInv

\* And the release at startup.
LEMMA ReleaseReconciledWaits ==
    ASSUME ConstantsFit, IInv, WaitInv, NEW a \in Attempts, ReleaseReconciled(a)
    PROVE  WaitInv'
<1>1. /\ OwnWaits' /\ Reasons'
      /\ \A s \in Subtasks : waiting'[s] \cup resolved'[s] = waiting[s] \cup resolved[s]
  BY ReleaseReasons, Zenon DEF IInv, ReleaseReconciled
<1>2. leases' = leases \ {a} /\ fresh' = fresh \ {a} /\ revoked' = revoked \ {a}
  BY DEF ReleaseReconciled, ReleaseLeases
<1>3. Holders'
  BY <1>2, SameRivals, ZenonT(30) DEF WaitInv, Holders, IInv, TypeOK, ReleaseReconciled
<1>4. Bare'
  BY <1>1, SameRivals, ZenonT(30) DEF WaitInv, Bare, IInv, TypeOK, ReleaseReconciled, ConstantsFit
<1> QED
  BY <1>1, <1>3, <1>4, Zenon DEF WaitInv

\* A cancellation takes the waits and writes of an unsteady Subtask away.
LEMMA CancelWaits ==
    ASSUME ConstantsFit, IInv, WaitInv, NEW s \in Subtasks, Cancel(s)
    PROVE  WaitInv'
<1> USE DEF IInv, TypeOK, WaitInv
<1>1. s \in Unsteady
  BY DEF Cancel, Unsteady
<1>2. OwnWaits' /\ Bare'
  BY SameRivals, ZenonT(30) DEF OwnWaits, Bare, Cancel
<1>3. Holders'
  BY <1>1, SameRivals, ZenonT(30) DEF Holders, Cancel
<1>4. /\ \A r \in Subtasks : \A d \in PendingWrites(r) : r \in Unsteady \/ d \in PendingWrites(r)'
      /\ \A r \in Subtasks : waiting'[r] \subseteq waiting[r]
      /\ leases' = leases
  BY <1>1, ZenonT(30) DEF PendingWrites, Cancel
<1> HIDE DEF IInv, TypeOK
<1> QED
  BY <1>2, <1>3, <1>4, ReasonsFrame, Zenon DEF IInv

\* Clearing a capacity block touches no lease and no wait.
LEMMA ClearBlockWaits ==
    ASSUME ConstantsFit, IInv, WaitInv, NEW t \in Tasks, ClearBlock(t)
    PROVE  WaitInv'
<1> USE DEF IInv, TypeOK, WaitInv
<1>1. Holders'
  BY SameRivals, ZenonT(30) DEF Holders, ClearBlock, leaseVars
<1>2. Bare'
  BY SameRivals, ZenonT(30) DEF Bare, ClearBlock, waitVars
<1>3. /\ \A r \in Subtasks : subtask[r] = "ready" => subtask'[r] = "ready"
      /\ leases' = leases /\ UNCHANGED waitVars
  BY ZenonT(30) DEF ClearBlock, leaseVars, waitVars
<1> HIDE DEF IInv, TypeOK, WaitInv
<1> QED
  BY <1>1, <1>2, <1>3, QuietWaits, ZenonT(30)

\* A crash touches no table.
LEMMA CrashWaits ==
    ASSUME ConstantsFit, IInv, WaitInv, Crash
    PROVE  WaitInv'
<1> USE DEF IInv, TypeOK, WaitInv
<1>1. Holders'
  BY SameRivals, ZenonT(30) DEF Holders, Crash, Down, Live, leaseVars
<1>2. Bare'
  BY SameRivals, ZenonT(30) DEF Bare, Crash, Down, Live, waitVars
<1>3. /\ \A r \in Subtasks : subtask[r] = "ready" => subtask'[r] = "ready"
      /\ leases' = leases /\ UNCHANGED waitVars
  BY ZenonT(30) DEF Crash, leaseVars, waitVars
<1> HIDE DEF IInv, TypeOK, WaitInv
<1> QED
  BY <1>1, <1>2, <1>3, QuietWaits, ZenonT(30)

\* After recovery more Subtasks are ready, and no crashed Attempt holds a lease.
LEMMA RecoveredWaits ==
    ASSUME ConstantsFit, IInv, WaitInv, Recovered
    PROVE  WaitInv'
<1> USE DEF IInv, TypeOK, WaitInv
<1>1. Holders'
  BY SameRivals, ZenonT(30) DEF Holders, Recovered, leaseVars
<1>2. Bare'
  BY SameRivals, ZenonT(30) DEF Bare, Recovered, waitVars
<1>3. /\ \A r \in Subtasks : subtask[r] = "ready" => subtask'[r] = "ready"
      /\ leases' = leases /\ UNCHANGED waitVars
  BY ZenonT(30) DEF Recovered, leaseVars, waitVars
<1> HIDE DEF IInv, TypeOK, WaitInv
<1> QED
  BY <1>1, <1>2, <1>3, QuietWaits, ZenonT(30)

-----------------------------------------------------------------------------
(* The theorems.                                                           *)

\* The empty tables satisfy the inductive invariant.
LEMMA InitHolds ==
    ASSUME ConstantsFit, Init
    PROVE  IInv
<1>1. TypeOK
  BY SMTT(30) DEF Init, TypeOK, Phases, Statuses, ConstantsFit
<1>2. LeaseExclusion /\ Covered /\ Stopped
  BY ZenonT(30) DEF Init, LeaseExclusion, Active, Covered, Stopped
<1> QED
  BY <1>1, <1>2 DEF IInv

\* Every step keeps it: the actions one by one.
LEMMA StepKeeps ==
    ASSUME ConstantsFit, IInv, [Next]_vars
    PROVE  IInv'
<1>1. CASE UNCHANGED vars
  BY <1>1, Zenon DEF vars, IInv, TypeOK, LeaseExclusion, Active, Clash, ClaimsOf, Covered, Stopped
<1>2. ASSUME NEW a \in Attempts,
             \/ Start(a) \/ ClaimRefused(a) \/ OwnerRefused(a) \/ DecideConflict(a)
             \/ Exit(a) \/ Settle(a) \/ Unseal(a) \/ Expire(a) \/ Heartbeat(a)
      PROVE  IInv'
  BY <1>2, StartKeeps, ClaimRefusedKeeps, OwnerRefusedKeeps, DecideConflictKeeps, ExitKeeps, ZenonT(30),
     SettleKeeps, UnsealKeeps, ExpireKeeps, HeartbeatKeeps
<1>3. ASSUME NEW a \in Attempts,
             \/ CrashClaiming(a) \/ CancelRemove(a) \/ RecoverBackend(a) \/ RecoverOwner(a)
             \/ ReleaseReconciled(a) \/ ReconcileSettledFailure(a)
      PROVE  IInv'
  BY <1>3, CrashClaimingKeeps, CancelRemoveKeeps, RecoverBackendKeeps, RecoverOwnerKeeps, ZenonT(30),
     ReleaseReconciledKeeps, ReconcileSettledFailureKeeps
<1>4. ASSUME NEW s \in Subtasks, Cancel(s) PROVE IInv'
  BY <1>4, CancelKeeps
<1>5. ASSUME NEW t \in Tasks, ClearBlock(t) PROVE IInv'
  BY <1>5, ClearBlockKeeps
<1>6. CASE Crash \/ Recovered
  BY <1>6, CrashKeeps, RecoveredKeeps
<1> QED
  BY <1>1, <1>2, <1>3, <1>4, <1>5, <1>6, ZenonT(30) DEF Next

\* The empty tables have no waits and no holders.
LEMMA InitWaits ==
    ASSUME ConstantsFit, Init
    PROVE  WaitInv
  BY Zenon DEF Init, WaitInv, OwnWaits, Holders, Bare, Reasons, Steady

\* Every step keeps the reasons: the actions one by one.
LEMMA StepWaits ==
    ASSUME ConstantsFit, IInv, WaitInv, [Next]_vars
    PROVE  WaitInv'
<1>1. CASE UNCHANGED vars
  <2>1. Holders' /\ Bare' /\ UNCHANGED waitVars /\ subtask' = subtask /\ leases' = leases
    BY <1>1, SameRivals, ZenonT(30) DEF vars, WaitInv, Holders, Bare, waitVars
  <2> QED
    BY <2>1, QuietWaits
<1>2. ASSUME NEW a \in Attempts,
             \/ Start(a) \/ ClaimRefused(a) \/ OwnerRefused(a) \/ DecideConflict(a)
             \/ Exit(a) \/ Settle(a) \/ Unseal(a) \/ Expire(a) \/ Heartbeat(a)
      PROVE  WaitInv'
  BY <1>2, StartWaits, ClaimRefusedWaits, OwnerRefusedWaits, DecideConflictWaits, ExitWaits, Zenon,
     SettleWaits, UnsealWaits, ExpireWaits, HeartbeatWaits
<1>3. ASSUME NEW a \in Attempts,
             \/ CrashClaiming(a) \/ CancelRemove(a) \/ RecoverBackend(a) \/ RecoverOwner(a)
             \/ ReleaseReconciled(a) \/ ReconcileSettledFailure(a)
      PROVE  WaitInv'
  BY <1>3, CrashClaimingWaits, CancelRemoveWaits, RecoverBackendWaits, RecoverOwnerWaits, ZenonT(30),
     ReleaseReconciledWaits, ReconcileSettledFailureWaits
<1>4. ASSUME NEW s \in Subtasks, Cancel(s) PROVE WaitInv'
  BY <1>4, CancelWaits
<1>5. ASSUME NEW t \in Tasks, ClearBlock(t) PROVE WaitInv'
  BY <1>5, ClearBlockWaits
<1>6. CASE Crash \/ Recovered
  BY <1>6, CrashWaits, RecoveredWaits
<1> QED
  BY <1>1, <1>2, <1>3, <1>4, <1>5, <1>6, ZenonT(30) DEF Next

\* The inductive invariant holds in every reachable state.
THEOREM Inductive == Spec => []IInv
<1>1. Init => IInv
  BY InitHolds, ConstantsFit
<1>2. IInv /\ [Next]_vars => IInv'
  BY StepKeeps, ConstantsFit
<1> QED
  BY <1>1, <1>2, PTL DEF Spec

\* The lease, wait and owner tables and the runners stay well typed.
THEOREM TypeCorrect == Spec => []TypeOK
<1>1. IInv => TypeOK
  BY DEF IInv
<1> QED
  BY <1>1, Inductive, PTL

\* Active leases of different Attempts never conflict, whatever expires, crashes
\* or is revoked (SqliteResourceLeaseRepository.claim).
THEOREM LeaseExclusionHolds == Spec => []LeaseExclusion
<1>1. IInv => LeaseExclusion
  BY DEF IInv
<1> QED
  BY <1>1, Inductive, PTL

\* Conversation Attempts with conflicting claims never have live backends at
\* once: the owner row keeps their leases active until the backend is removed.
THEOREM ExclusiveExecutionHolds == Spec => []ExclusiveExecution
<1>1. IInv => ExclusiveExecution
  BY DEF IInv, Covered, LeaseExclusion, Active, ExclusiveExecution
<1> QED
  BY <1>1, Inductive, PTL

\* While the Server is up a waiting row of a steady Subtask has a reason: a queued
\* writer closes it off, or an active lease conflicts with it.  No release, no
\* refused owner claim and no restart strands it (resolveSatisfiedWaits).
THEOREM WaitHasReasonHolds == Spec => []WaitHasReason
<1>1. Init => WaitInv
  BY InitWaits, ConstantsFit
<1>2. IInv /\ WaitInv /\ [Next]_vars => WaitInv'
  BY StepWaits, ConstantsFit, ZenonT(30)
<1>3. IInv /\ WaitInv => WaitHasReason
  BY ReasonIsActive, ConstantsFit, ZenonT(30) DEF IInv
<1> QED
  BY <1>1, <1>2, <1>3, Inductive, PTL DEF Spec
=============================================================================
